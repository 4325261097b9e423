--------------------------------- MODULE Manifest --------------------------------
(***************************************************************************)
(* The manifest of a workspace (eggwork-core/src/lib.rs): which file trees *)
(* are accepted, their canonical digest, the patch that derives one from   *)
(* another, and the tree that materialize_tree (eggwork-server/src/        *)
(* workspace.rs) lays out on the disk.  A path is the sequence of its      *)
(* components, a digest the canonical manifest it is the hash of.          *)
(***************************************************************************)
EXTENDS Integers, Sequences, SequencesExt, FiniteSetsExt

CONSTANTS
    Paths,              \* the paths clients use
    Portable,           \* the components every host accepts
    Fold,               \* to_ascii_lowercase, on components
    Rank,               \* the order of components
    Blobs,              \* contents
    SizeOf,             \* their sizes
    MaxEntries,         \* MAX_WORKSPACE_ENTRIES
    MaxDepth,           \* MAX_WORKSPACE_DEPTH
    MaxLogicalBytes,    \* MAX_WORKSPACE_LOGICAL_BYTES
    Submissions,        \* bound: the entries of a submitted manifest
    Changes             \* bound: the entries of a patch

ASSUME ManifestAssumption ==
    /\ Rank \in [DOMAIN Rank -> Nat] /\ SizeOf \in [Blobs -> Nat]
    /\ \A c, d \in DOMAIN Rank : Rank[c] = Rank[d] => c = d
    /\ Paths \subseteq Seq(DOMAIN Rank) \ {<< >>}

VARIABLES
    manifest,           \* the entries of the retained manifest
    patch,              \* the patch that is to be applied to it
    tree                \* history: what the client means by the manifest

manifestVars == <<manifest, patch, tree>>

----------------------------------------------------------------------------
Contents == {"directory", "symlink"} \union Blobs

Entry == [path : Paths, content : Contents]
PatchEntry == [path : Paths, content : {"remove", "directory"} \union Blobs]

FoldPath(path) == [i \in DOMAIN path |-> Fold[path[i]]]

\* The order of paths as strings, where a prefix comes first.
Less(p, q) ==
    \E i \in 1..Len(q) :
        /\ \A j \in 1..(i - 1) : j =< Len(p) /\ p[j] = q[j]
        /\ i > Len(p) \/ Rank[p[i]] < Rank[q[i]]

ByPath(e, f) == Less(e.path, f.path)

Parents(path) == {SubSeq(path, 1, n) : n \in 1..(Len(path) - 1)}

PathsOf(entries) == {entries[i].path : i \in DOMAIN entries}

validate_portable_workspace_path(path) ==
    Len(path) =< MaxDepth /\ \A i \in DOMAIN path : path[i] \in Portable

logical_bytes(entries) ==
    FoldLeft(LAMBDA sum, e : sum + IF e.content \in Blobs THEN SizeOf[e.content] ELSE 0,
             0, entries)

\* Mutant of validate: an entry may lie below anything that is there.
validate_AnyParent(entries) ==
    /\ Len(entries) =< MaxEntries
    /\ \A i \in DOMAIN entries :
          /\ validate_portable_workspace_path(entries[i].path)
          /\ entries[i].content # "symlink"
          /\ \A j \in 1..(i - 1) : FoldPath(entries[i].path) # FoldPath(entries[j].path)
          /\ Parents(entries[i].path) \subseteq PathsOf(entries)
    /\ logical_bytes(entries) =< MaxLogicalBytes

\* WorkspaceManifest::validate.
validate(entries) ==
    /\ Len(entries) =< MaxEntries
    /\ \A i \in DOMAIN entries :
          /\ validate_portable_workspace_path(entries[i].path)
          /\ entries[i].content # "symlink"
          /\ \A j \in 1..(i - 1) : FoldPath(entries[i].path) # FoldPath(entries[j].path)
          /\ \A parent \in Parents(entries[i].path) :
                \E j \in DOMAIN entries :
                    entries[j] = [path |-> parent, content |-> "directory"]
    /\ logical_bytes(entries) =< MaxLogicalBytes

\* Mutant of digest: the entries are hashed in the order they were sent.
digest_AsSent(entries) == entries

digest(entries) == SortSeq(entries, ByPath)

----------------------------------------------------------------------------
(* WorkspaceManifestPatch.                                                 *)

validate_patch(changes) ==
    /\ Len(changes) =< MaxEntries
    /\ \A i, j \in DOMAIN changes : changes[i].path = changes[j].path => i = j

\* One entry of the patch, on the map from paths to entries.
Upsert(map, e) ==
    LET others == {f \in map : f.path # e.path}
    IN  IF e.content = "remove" THEN others ELSE others \union {e}

Applied(changes, base) ==
    SetToSortSeq(FoldLeft(Upsert, ToSet(base), changes), ByPath)

apply_to(changes, base) ==
    [ok |-> validate_patch(changes) /\ validate(Applied(changes, base)),
     entries |-> Applied(changes, base)]

----------------------------------------------------------------------------
(* materialize_tree: a directory or a new file for each entry, in the      *)
(* order of the paths.  Names are folded on a host that ignores case.      *)

Hosts == {"sensitive", "insensitive"}

OnHost(host, path) == IF host = "sensitive" THEN path ELSE FoldPath(path)

Create(host, disk, e) ==
    LET path == OnHost(host, e.path)
        parent == SubSeq(path, 1, Len(path) - 1)
    IN  [ok |-> /\ disk.ok /\ path \notin disk.dirs \union disk.files
                /\ parent = << >> \/ parent \in disk.dirs
                /\ e.content # "symlink",
         dirs |-> disk.dirs \union (IF e.content = "directory" THEN {path} ELSE {}),
         files |-> disk.files \union (IF e.content = "directory" THEN {} ELSE {path})]

materialize_tree(host, entries) ==
    FoldLeft(LAMBDA disk, e : Create(host, disk, e),
             [ok |-> TRUE, dirs |-> {}, files |-> {}], digest(entries))

----------------------------------------------------------------------------
\* What a patch means: each path it names is as it says, every other as before.
Meant ==
    {e \in tree : \A i \in DOMAIN patch : patch[i].path # e.path}
    \union {e \in ToSet(patch) : e.content # "remove"}

\* workspace_create: a manifest is submitted whole.
Submit ==
    /\ patch = << >>
    /\ \E entries \in BoundedSeq(Entry, Submissions) :
          /\ validate(entries)
          /\ manifest' = entries
          /\ tree' = ToSet(entries)
    /\ UNCHANGED patch

\* A client sends a patch of the retained manifest.
Propose ==
    /\ patch = << >>
    /\ patch' \in BoundedSeq(PatchEntry, Changes) \ {<< >>}
    /\ UNCHANGED <<manifest, tree>>

\* workspace_derive: the retained manifest is patched, or the patch refused.
Derive ==
    /\ patch # << >> /\ patch' = << >>
    /\ LET derived == apply_to(patch, manifest)
       IN  \/ derived.ok /\ manifest' = derived.entries /\ tree' = Meant
           \/ ~derived.ok /\ UNCHANGED <<manifest, tree>>

ManifestInit == manifest = << >> /\ patch = << >> /\ tree = {}

ManifestNext == Submit \/ Propose \/ Derive

ManifestSpec == ManifestInit /\ [][ManifestNext]_manifestVars

----------------------------------------------------------------------------
\* An accepted manifest can be laid out on every host, also on one that ignores case: no
\* create_dir meets a missing parent, a file in its place or a name that is taken, however
\* submissions and patches led to it (validate, materialize_tree).
Materializes ==
    \A host \in Hosts :
        LET disk == materialize_tree(host, manifest)
        IN  /\ disk.ok
            /\ disk.files = {OnHost(host, e.path) : e \in {f \in tree : f.content \in Blobs}}

\* "Applying a patch to a base manifest MUST yield the same canonical manifest (and
\* digest) as submitting the final manifest directly.  Patch ordering never affects the
\* result": for the tree a patch means, sent in any order, both are accepted or both are
\* refused, and they have one digest (apply_to, digest).
DerivedAsSubmitted ==
    validate_patch(patch) =>
        LET derived == apply_to(patch, manifest)
        IN  \A direct \in SetToSeqs(Meant) :
                /\ derived.ok = validate(direct)
                /\ derived.ok => digest(derived.entries) = digest(direct)
=================================================================================

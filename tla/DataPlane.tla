------------------------------- MODULE DataPlane -------------------------------
(***************************************************************************)
(* What the node keeps in the blob store and for how long                  *)
(* (eggwork-server/src/workspace.rs, artifact.rs and the handlers of       *)
(* lib.rs): workspaces materialized from a manifest, manifests retained as *)
(* the base of later ones, artifacts captured from a finished execution,   *)
(* downloads, the maintenance pass over all of them, and what a restart    *)
(* repairs.  Each has its own table and its own mutex; what keeps a blob   *)
(* is a reference in BlobStore, written by a separate statement.           *)
(*                                                                         *)
(* There is one principal.  A workspace id stands for the id and the       *)
(* execution handle it belongs to, a manifest for the set of the digests   *)
(* of its files, and an artifact for the one output of its execution.      *)
(* Requests that are refused without a change of state are left out.       *)
(***************************************************************************)
EXTENDS BlobStore

CONSTANTS
    Workspaces,         \* workspace ids
    Manifests,          \* the manifests clients submit, sets of digests
    Output,             \* the digest of what every process leaves as its output
    WorkspaceQuota,     \* workspace_quota_bytes, in files
    Retention,          \* DEFAULT_RETENTION_MILLIS
    ReaderLease,        \* the lease of a download
    MaxKeys,            \* bound on the storage keys, which are never used again
    Handlers            \* the operations that may be called

ASSUME DataPlaneAssumption ==
    /\ Manifests \subseteq SUBSET Digests /\ Output \in Digests
    /\ \A m \in Manifests : IsFiniteSet(m)
    /\ Owners = {<<"workspace", w>> : w \in Workspaces}
                \union {<<"manifest", m>> : m \in Manifests}
                \union {<<"artifact", w>> : w \in Workspaces}
                \union {<<"reader", p>> : p \in Procs}
    /\ {WorkspaceQuota, Retention, ReaderLease, MaxKeys} \subseteq Nat \ {0}
    /\ Handlers \subseteq {"create", "derive", "execute", "download", "collect"}

VARIABLES
    workspaces,         \* workspaces[w]: its row, Ready since it was inserted
    dirs,               \* the storage keys with a directory in place
    manifests,          \* manifests[m]: the expiry of the retained manifest
    artifacts,          \* artifacts[w]: the record of the artifact captured from w
    reserved,           \* the workspaces whose execution has a row in the journal
    torn,               \* history: workspaces whose directory, or part of it, a pass
                        \* that failed has removed
    nextKey,
    materializeLock,
    mapLock,            \* the mutex of the executions map, held by an execute
    task,               \* task[p]: what process p does, besides its call of BlobStore
    boot,               \* "up", or how far the start of the node is
    recovering          \* the workspaces whose references recover_retention has to set

planeVars == <<workspaces, dirs, manifests, artifacts, reserved, torn, nextKey,
               materializeLock, mapLock, task, boot, recovering>>
allVars == <<blobVars, planeVars>>

NoTask == [pc |-> "idle", ws |-> None, man |-> {}, todo |-> {}, key |-> 0,
           time |-> 0, expires |-> 0]

Row == [man : Manifests, key : 1..MaxKeys, expires : Nat \union {None}]

\* The tables, locks and tasks keep their types: a row is only ever inserted whole.
PlaneTypeOK ==
    /\ TypeOK
    /\ DOMAIN workspaces \subseteq Workspaces
    /\ \A w \in DOMAIN workspaces : workspaces[w] \in Row
    /\ dirs \subseteq 1..MaxKeys
    /\ DOMAIN manifests \subseteq Manifests /\ DOMAIN artifacts \subseteq Workspaces
    /\ reserved \subseteq Workspaces /\ torn \subseteq Workspaces
    /\ nextKey \in 1..MaxKeys + 1
    /\ {materializeLock, mapLock} \subseteq Procs \union {None}
    /\ \A p \in Procs : DOMAIN task[p] = DOMAIN NoTask
    /\ boot \in {"up", "rows", "refs", "manifests"}
    /\ recovering \subseteq Workspaces

PlaneInit ==
    /\ BlobInit
    /\ workspaces = [w \in {} |-> None] /\ dirs = {}
    /\ manifests = [m \in {} |-> 0] /\ artifacts = [w \in {} |-> None]
    /\ reserved = {} /\ torn = {} /\ nextKey = 1
    /\ materializeLock = None /\ mapLock = None
    /\ task = [p \in Procs |-> NoTask]
    /\ boot = "up" /\ recovering = {}

----------------------------------------------------------------------------
Insert(table, key, row) ==
    [k \in DOMAIN table \union {key} |-> IF k = key THEN row ELSE table[k]]

WorkspaceOwner(w) == <<"workspace", w>>
ManifestOwner(m) == <<"manifest", m>>
ArtifactOwner(w) == <<"artifact", w>>
ReaderOwner(p) == <<"reader", p>>

At(p, pc) == boot = "up" /\ task[p].pc = pc /\ proc[p].op = "idle"
Free(p, handler) == At(p, "idle") /\ handler \in Handlers
\* The call of BlobStore that p made has returned with res.
Returned(p, pc, res) ==
    boot = "up" /\ task[p].pc = pc /\ proc[p].pc = "return" /\ proc[p].res = res

Proceed(p, pc) == task' = [task EXCEPT ![p].pc = pc]
End(p) == task' = [task EXCEPT ![p] = NoTask]

\* What an action of this module leaves alone besides what it names.
BlobsSame == UNCHANGED blobVars
FilesSame == UNCHANGED <<files, blobs, stale, displaced, writeLock, pass, now>>
OnlyRefs == FilesSame /\ UNCHANGED proc
TablesSame == UNCHANGED <<workspaces, dirs, manifests, artifacts, reserved, torn, nextKey,
                          boot, recovering>>
LocksSame == UNCHANGED <<materializeLock, mapLock>>

----------------------------------------------------------------------------
(* materialize, for a create and for a derived create.                       *)

StartCreate(p, w, m) ==
    /\ Free(p, "create")
    /\ task' = [task EXCEPT ![p] = [NoTask EXCEPT !.pc = "create", !.ws = w, !.man = m]]
    /\ BlobsSame /\ TablesSame /\ LocksSame

\* materialize_derived reads the retained row of base; m is the patched manifest.
StartDerive(p, w, base, m) ==
    /\ Free(p, "derive")
    /\ base \in DOMAIN manifests /\ Live(manifests[base])
    /\ task' = [task EXCEPT ![p] =
                   [NoTask EXCEPT !.pc = "base", !.ws = w, !.man = m, !.todo = base]]
    /\ BlobsSame /\ TablesSame /\ LocksSame

\* lookup_manifest: a base with a blob that is gone is dropped, not used.
DeriveBase(p) ==
    /\ At(p, "base") /\ IndexFree
    /\ Proceed(p, IF Missing(task[p].todo) = {} THEN "create" ELSE "drop_row")
    /\ BlobsSame /\ TablesSame /\ LocksSame

\* drop_manifest: the row, and by another statement the references.
DropManifestRow(p) ==
    /\ At(p, "drop_row")
    /\ manifests' = [m \in DOMAIN manifests \ {task[p].todo} |-> manifests[m]]
    /\ Proceed(p, "drop_refs")
    /\ BlobsSame /\ LocksSame
    /\ UNCHANGED <<workspaces, dirs, artifacts, reserved, torn, nextKey, boot, recovering>>

DropManifestRefs(p) ==
    /\ At(p, "drop_refs")
    /\ ReleaseReferences(ManifestOwner(task[p].todo))
    /\ End(p)
    /\ OnlyRefs /\ TablesSame /\ LocksSame

\* The files of the rows, and the sum of logical_bytes over the rows.
Stored == UNION {{w} \X workspaces[w].man : w \in DOMAIN workspaces}
Used == Cardinality(Stored)

\* Mutant of CreateAdmit: the lock is released once the quota is checked.
CreateAdmit_Unlocked(p) ==
    /\ At(p, "create") /\ materializeLock = None
    /\ task[p].ws \notin DOMAIN workspaces
    /\ Used + Cardinality(task[p].man) =< WorkspaceQuota
    /\ task' = [task EXCEPT ![p].pc = "verify", ![p].todo = task[p].man]
    /\ BlobsSame /\ TablesSame /\ LocksSame

\* With materialize_lock: a row of the same workspace answers the request, a full
\* root refuses it.  Nothing else inserts rows, so the lookup and the sum are one step.
CreateAdmit(p) ==
    /\ At(p, "create") /\ materializeLock = None
    /\ \/ /\ \/ task[p].ws \in DOMAIN workspaces
             \/ Used + Cardinality(task[p].man) > WorkspaceQuota
          /\ End(p) /\ UNCHANGED materializeLock
       \/ /\ task[p].ws \notin DOMAIN workspaces
          /\ Used + Cardinality(task[p].man) =< WorkspaceQuota
          /\ task' = [task EXCEPT ![p].pc = "verify", ![p].todo = task[p].man]
          /\ materializeLock' = p
    /\ BlobsSame /\ TablesSame /\ UNCHANGED mapLock

\* Every file of the manifest is looked up and hashed before anything is created.
CreateVerify(p) ==
    /\ At(p, "verify") /\ task[p].todo # {}
    /\ \E d \in task[p].todo : VerifyStart(p, d)
    /\ UNCHANGED planeVars

CreateVerified(p) ==
    /\ Returned(p, "verify", "Ok")
    /\ task' = [task EXCEPT ![p].todo = @ \ {proc[p].digest}]
    /\ Finish(p)
    /\ TablesSame /\ LocksSame

\* A refusal after the lock was taken: the guard is dropped.
CreateRefused(p) ==
    /\ boot = "up" /\ task[p].pc = "verify"
    /\ proc[p].pc = "return" /\ proc[p].res # "Ok"
    /\ End(p) /\ Finish(p)
    /\ materializeLock' = None
    /\ TablesSame /\ UNCHANGED mapLock

\* The references of the workspace, with an expiry until it is active.
CreateRetain(p) ==
    /\ At(p, "verify") /\ task[p].todo = {} /\ IndexFree
    /\ \/ /\ Retain(WorkspaceOwner(task[p].ws), task[p].man, now + Retention)
          /\ task' = [task EXCEPT ![p].pc = "manifest", ![p].time = now + Retention]
          /\ OnlyRefs /\ UNCHANGED materializeLock
       \/ /\ Missing(task[p].man) # {}
          /\ End(p) /\ materializeLock' = None
          /\ BlobsSame
    /\ TablesSame /\ UNCHANGED mapLock

\* store_manifest: the row first, then, by another statement, its references.
StoreManifestRow(p) ==
    /\ At(p, "manifest")
    /\ LET m == task[p].man
           fresh == now + Retention
           expires == IF m \in DOMAIN manifests /\ manifests[m] > fresh THEN manifests[m] ELSE fresh
       IN /\ manifests' = Insert(manifests, m, expires)
          /\ task' = [task EXCEPT ![p].pc = "manifest_refs", ![p].expires = expires]
    /\ BlobsSame /\ LocksSame
    /\ UNCHANGED <<workspaces, dirs, artifacts, reserved, torn, nextKey, boot, recovering>>

StoreManifestRefs(p) ==
    /\ At(p, "manifest_refs") /\ IndexFree
    /\ \/ /\ Retain(ManifestOwner(task[p].man), task[p].man, task[p].expires)
          /\ Proceed(p, "tree")
          /\ OnlyRefs /\ UNCHANGED materializeLock
       \/ /\ Missing(task[p].man) # {}
          /\ End(p) /\ materializeLock' = None
          /\ BlobsSame
    /\ TablesSame /\ UNCHANGED mapLock

\* materialize_tree copies every blob into a staging directory, which is then
\* renamed to the storage key.
CreateTree(p) ==
    /\ At(p, "tree") /\ task[p].man \subseteq DOMAIN files /\ nextKey =< MaxKeys
    /\ dirs' = dirs \union {nextKey}
    /\ nextKey' = nextKey + 1
    /\ task' = [task EXCEPT ![p].pc = "insert", ![p].key = nextKey]
    /\ BlobsSame /\ LocksSame
    /\ UNCHANGED <<workspaces, manifests, artifacts, reserved, torn, boot, recovering>>

\* A blob is gone, or the copy, the rename, a sync or the insertion of the row failed.
CreateTreeFailed(p) ==
    /\ \/ At(p, "tree") /\ (~ task[p].man \subseteq DOMAIN files \/ "io" \in Faults)
       \/ At(p, "insert") /\ "io" \in Faults
    /\ dirs' = dirs \ {task[p].key}
    /\ ReleaseReferences(WorkspaceOwner(task[p].ws))
    /\ End(p) /\ materializeLock' = None
    /\ OnlyRefs /\ UNCHANGED mapLock
    /\ UNCHANGED <<workspaces, manifests, artifacts, reserved, torn, nextKey, boot, recovering>>

\* The connection closes while a file is hashed or the tree is built.
CreateDropped(p) ==
    /\ "drop" \in Faults /\ boot = "up"
    /\ \/ task[p].pc = "verify" /\ proc[p].pc = "hash"
       \/ At(p, "tree")
    /\ End(p) /\ proc' = [proc EXCEPT ![p] = Idle] /\ materializeLock' = None
    /\ FilesSame /\ TablesSame /\ UNCHANGED <<refs, mapLock>>

CreateInsert(p) ==
    /\ At(p, "insert")
    /\ workspaces' = Insert(workspaces, task[p].ws,
                            [man |-> task[p].man, key |-> task[p].key, expires |-> task[p].time])
    /\ End(p) /\ materializeLock' = None
    /\ BlobsSame /\ UNCHANGED mapLock
    /\ UNCHANGED <<dirs, manifests, artifacts, reserved, torn, nextKey, boot, recovering>>
----------------------------------------------------------------------------
(* execute on a workspace, and the task it spawns.  The rest of both is in
   ExecutionNode.                                                            *)

\* resolve: the row is Ready, unexpired and has its directory, which becomes the
\* root of the process.  No lock is held.
ExecuteResolve(p, w) ==
    /\ Free(p, "execute")
    /\ w \in DOMAIN workspaces /\ Live(workspaces[w].expires) /\ workspaces[w].key \in dirs
    /\ task' = [task EXCEPT ![p] = [NoTask EXCEPT !.pc = "resolved", !.ws = w]]
    /\ BlobsSame /\ TablesSame /\ LocksSame

\* With the map locked: an execution that has a row is answered, as is one that the
\* node has no room for; else mark_active looks for the key and its directory.
ExecuteLookup(p) ==
    /\ At(p, "resolved") /\ mapLock = None
    /\ LET w == task[p].ws
       IN \/ End(p) /\ UNCHANGED mapLock
          \/ /\ w \notin reserved
             /\ w \in DOMAIN workspaces /\ Live(workspaces[w].expires)
             /\ workspaces[w].key \in dirs
             /\ task' = [task EXCEPT ![p].pc = "activate", ![p].key = workspaces[w].key]
             /\ mapLock' = p
    /\ BlobsSame /\ TablesSame /\ UNCHANGED materializeLock

HasKey(w, key) == w \in DOMAIN workspaces /\ workspaces[w].key = key

\* The update of mark_active names the key it looked up, and nothing else of the row.
ExecuteActivate(p) ==
    /\ At(p, "activate")
    /\ LET w == task[p].ws
       IN \/ /\ HasKey(w, task[p].key)
             /\ workspaces' = [workspaces EXCEPT ![w].expires = None]
             /\ Proceed(p, "clear") /\ UNCHANGED mapLock
          \/ /\ ~ HasKey(w, task[p].key)
             /\ End(p) /\ mapLock' = None /\ UNCHANGED workspaces
    /\ BlobsSame /\ UNCHANGED materializeLock
    /\ UNCHANGED <<dirs, manifests, artifacts, reserved, torn, nextKey, boot, recovering>>

ExecuteClear(p) ==
    /\ At(p, "clear")
    /\ SetReferenceExpiry(WorkspaceOwner(task[p].ws), None)
    /\ Proceed(p, "reserve")
    /\ OnlyRefs /\ TablesSame /\ LocksSame

\* reserve creates the row and the process is spawned, or it refuses (a stale
\* generation, a full table) and mark_terminal follows under the lock.
ExecuteReserve(p) ==
    /\ At(p, "reserve")
    /\ \/ reserved' = reserved \union {task[p].ws} /\ Proceed(p, "running") /\ mapLock' = None
       \/ Proceed(p, "end_row") /\ UNCHANGED <<reserved, mapLock>>
    /\ BlobsSame /\ UNCHANGED materializeLock
    /\ UNCHANGED <<workspaces, dirs, manifests, artifacts, torn, nextKey, boot, recovering>>

\* The future of execute is dropped as it awaits the reservation, which is made or
\* not: nothing marks the workspace terminal.
ExecuteDropped(p) ==
    /\ "drop" \in Faults /\ At(p, "reserve")
    /\ reserved' \in {reserved, reserved \union {task[p].ws}}
    /\ End(p) /\ mapLock' = None
    /\ BlobsSame /\ UNCHANGED materializeLock
    /\ UNCHANGED <<workspaces, dirs, manifests, artifacts, torn, nextKey, boot, recovering>>

\* The process ends; its output is captured if it is to be and the process succeeded
\* or failed.
RunEnds(p) ==
    /\ At(p, "running")
    /\ task' \in {[task EXCEPT ![p].pc = "end_row"],
                  [task EXCEPT ![p].pc = "capture", ![p].time = now + Retention]}
    /\ BlobsSame /\ TablesSame /\ LocksSame

\* capture_blob: the file is hashed, then stored by put_stream.
CaptureBlob(p) ==
    /\ At(p, "capture")
    /\ PutStart(p, Output)
    /\ UNCHANGED planeVars

Captured(p) ==
    /\ boot = "up" /\ task[p].pc = "capture" /\ proc[p].pc = "return"
    /\ Proceed(p, IF proc[p].res = "Ok" THEN "capture_refs" ELSE "end_row")
    /\ Finish(p)
    /\ TablesSame /\ LocksSame

\* Mutant of CaptureRetain: the record may be inserted without its reference.
CaptureRetain_Skip(p) ==
    /\ At(p, "capture_refs")
    /\ Proceed(p, "capture_insert")
    /\ BlobsSame /\ TablesSame /\ LocksSame

\* retain_per_owner, before the record becomes visible.
CaptureRetain(p) ==
    /\ At(p, "capture_refs") /\ IndexFree
    /\ \/ /\ Retain(ArtifactOwner(task[p].ws), {Output}, task[p].time)
          /\ Proceed(p, "capture_insert")
          /\ OnlyRefs
       \/ /\ Output \notin blobs
          /\ Proceed(p, "end_row")
          /\ BlobsSame
    /\ TablesSame /\ LocksSame

CaptureInsert(p) ==
    /\ At(p, "capture_insert")
    /\ artifacts' = Insert(artifacts, task[p].ws, [digest |-> Output, expires |-> task[p].time])
    /\ Proceed(p, "end_row")
    /\ BlobsSame /\ LocksSame
    /\ UNCHANGED <<workspaces, dirs, manifests, reserved, torn, nextKey, boot, recovering>>

\* mark_terminal: the row, and by another statement the references.
MarkTerminalRow(p) ==
    /\ At(p, "end_row")
    /\ workspaces' = [w \in DOMAIN workspaces |->
                         IF w = task[p].ws THEN [workspaces[w] EXCEPT !.expires = now + Retention]
                         ELSE workspaces[w]]
    /\ task' = [task EXCEPT ![p].pc = "end_refs", ![p].expires = now + Retention]
    /\ BlobsSame /\ LocksSame
    /\ UNCHANGED <<dirs, manifests, artifacts, reserved, torn, nextKey, boot, recovering>>

MarkTerminalRefs(p) ==
    /\ At(p, "end_refs")
    /\ SetReferenceExpiry(WorkspaceOwner(task[p].ws), task[p].expires)
    /\ End(p)
    /\ mapLock' = IF mapLock = p THEN None ELSE mapLock
    /\ OnlyRefs /\ TablesSame /\ UNCHANGED materializeLock

----------------------------------------------------------------------------
(* artifact_download.                                                        *)

DownloadGet(p, w) ==
    /\ Free(p, "download")
    /\ w \in DOMAIN artifacts /\ Live(artifacts[w].expires)
    /\ task' = [task EXCEPT ![p] = [NoTask EXCEPT !.pc = "reader", !.ws = w,
                                                 !.todo = {artifacts[w].digest}]]
    /\ BlobsSame /\ TablesSame /\ LocksSame

\* The reference of the reader, before the file is opened.
DownloadRetain(p) ==
    /\ At(p, "reader") /\ IndexFree
    /\ \/ /\ Retain(ReaderOwner(p), task[p].todo, now + ReaderLease)
          /\ task' = [task EXCEPT ![p].pc = "open", ![p].expires = now + ReaderLease]
          /\ OnlyRefs
       \/ /\ Missing(task[p].todo) # {}
          /\ End(p)
          /\ BlobsSame
    /\ TablesSame /\ LocksSame

\* open_verified: the file is hashed, then opened.
DownloadVerify(p) ==
    /\ At(p, "open")
    /\ \E d \in task[p].todo : VerifyStart(p, d)
    /\ UNCHANGED planeVars

DownloadOpen(p) ==
    /\ boot = "up" /\ task[p].pc = "open" /\ proc[p].pc = "return"
    /\ Proceed(p, IF proc[p].res = "Ok" /\ task[p].todo \subseteq DOMAIN files
                  THEN "stream" ELSE "close")
    /\ Finish(p)
    /\ TablesSame /\ LocksSame

\* A chunk is sent and the lease renewed, if there is still a reference to renew.
DownloadChunk(p) ==
    /\ At(p, "stream") /\ \E r \in DOMAIN refs : r[1] = ReaderOwner(p)
    /\ SetReferenceExpiry(ReaderOwner(p), now + ReaderLease)
    /\ task' = [task EXCEPT ![p].expires = now + ReaderLease]
    /\ OnlyRefs /\ TablesSame /\ LocksSame

\* The body ends or its connection closes: BlobReferenceLease is dropped.
DownloadClose(p) ==
    /\ At(p, "stream") \/ At(p, "close")
    /\ ReleaseReferences(ReaderOwner(p))
    /\ End(p)
    /\ OnlyRefs /\ TablesSame /\ LocksSame

----------------------------------------------------------------------------
(* NodeServer::collect_garbage: four stores in turn, with one reading of the
   clock; a stage that fails ends the pass.                                   *)

StartCollect(p) ==
    /\ Free(p, "collect")
    /\ task' = [task EXCEPT ![p] = [NoTask EXCEPT !.pc = "collect_workspaces", !.time = now]]
    /\ BlobsSame /\ TablesSame /\ LocksSame

Over(expiry, t) == expiry # None /\ expiry =< t

\* Mutant of CollectWorkspaces: an active workspace is a candidate too.
CollectWorkspaces_Active(p) ==
    /\ At(p, "collect_workspaces")
    /\ \E gone \in AtMost({w \in DOMAIN workspaces :
                             workspaces[w].expires = None \/ Over(workspaces[w].expires, task[p].time)},
                          Limit) :
          /\ dirs' = dirs \ {workspaces[w].key : w \in gone}
          /\ workspaces' = [w \in DOMAIN workspaces \ gone |-> workspaces[w]]
    /\ Proceed(p, "collect_manifests")
    /\ BlobsSame /\ LocksSame
    /\ UNCHANGED <<manifests, artifacts, reserved, torn, nextKey, boot, recovering>>

\* One transaction over the expired rows: a directory is removed, then its row.
\* A directory that cannot be removed rolls the transaction back: the rows of those
\* that were come back without one, and its own with what is left of the directory.
\* The references stay until they expire.
CollectWorkspaces(p) ==
    /\ At(p, "collect_workspaces")
    /\ \E expired \in AtMost({w \in DOMAIN workspaces : Over(workspaces[w].expires, task[p].time)},
                             Limit) :
          \/ /\ dirs' = dirs \ {workspaces[w].key : w \in expired}
             /\ workspaces' = [w \in DOMAIN workspaces \ expired |-> workspaces[w]]
             /\ torn' = torn \ expired
             /\ Proceed(p, "collect_manifests")
          \/ /\ "io" \in Faults
             /\ \E failed \in expired : \E removed \in SUBSET (expired \ {failed}) :
                   /\ dirs' = dirs \ {workspaces[w].key : w \in removed}
                   /\ torn' \in {torn \union removed, torn \union removed \union {failed}}
             /\ End(p) /\ UNCHANGED workspaces
    /\ BlobsSame /\ LocksSame
    /\ UNCHANGED <<manifests, artifacts, reserved, nextKey, boot, recovering>>

OwnersReleased(S) == Keep(refs, {r \in References : r[1] \notin S})

\* Expired rows and their references, with the mutex of the table held throughout.
CollectManifests(p) ==
    /\ At(p, "collect_manifests") /\ IndexFree
    /\ \E expired \in AtMost({m \in DOMAIN manifests : Over(manifests[m], task[p].time)}, Limit) :
          /\ manifests' = [m \in DOMAIN manifests \ expired |-> manifests[m]]
          /\ refs' = OwnersReleased({ManifestOwner(m) : m \in expired})
    /\ Proceed(p, "collect_artifacts")
    /\ OnlyRefs /\ LocksSame
    /\ UNCHANGED <<workspaces, dirs, artifacts, reserved, torn, nextKey, boot, recovering>>

CollectArtifacts(p) ==
    /\ At(p, "collect_artifacts")
    /\ \E expired \in AtMost({w \in DOMAIN artifacts : Over(artifacts[w].expires, task[p].time)},
                             Limit) :
          artifacts' = [w \in DOMAIN artifacts \ expired |-> artifacts[w]]
    /\ Proceed(p, "collect_blobs")
    /\ BlobsSame /\ LocksSame
    /\ UNCHANGED <<workspaces, dirs, manifests, reserved, torn, nextKey, boot, recovering>>

CollectBlobs(p) ==
    /\ At(p, "collect_blobs")
    /\ GcUnlink(p, task[p].time)
    /\ UNCHANGED planeVars

Collected(p) ==
    /\ boot = "up" /\ task[p].pc = "collect_blobs" /\ proc[p].pc = "return"
    /\ End(p) /\ Finish(p)
    /\ TablesSame /\ LocksSame

----------------------------------------------------------------------------
(* The process dies, and NodeServer::start opens what it left.               *)

\* WorkspaceManager::open, reconcile: directories without a row go, and rows
\* without a directory.
WorkspacesReconciled ==
    LET ready == {w \in DOMAIN workspaces : workspaces[w].key \in dirs}
    IN /\ workspaces' = [w \in ready |-> workspaces[w]]
       /\ dirs' = {workspaces[w].key : w \in ready}
       /\ torn' = torn \intersect ready

\* BlobStore::open and WorkspaceManager::open come first; nothing reads the stores
\* between the crash and them.
Crash ==
    /\ Reopen /\ WorkspacesReconciled
    /\ boot' = "rows" /\ recovering' = {}
    /\ task' = [p \in Procs |-> NoTask] /\ materializeLock' = None /\ mapLock' = None
    /\ UNCHANGED <<manifests, artifacts, reserved, nextKey>>

\* recover_retention: the rows without an expiry get one, then, a statement each,
\* the references of those workspaces.
BootRows ==
    /\ boot = "rows" /\ boot' = "refs"
    /\ recovering' = {w \in DOMAIN workspaces : workspaces[w].expires = None}
    /\ workspaces' = [w \in DOMAIN workspaces |->
                         IF w \in recovering' THEN [workspaces[w] EXCEPT !.expires = now + Retention]
                         ELSE workspaces[w]]
    /\ BlobsSame /\ LocksSame
    /\ UNCHANGED <<dirs, manifests, artifacts, reserved, torn, nextKey, task>>

BootRefs ==
    /\ boot = "refs"
    /\ \/ \E w \in recovering :
             /\ SetReferenceExpiry(WorkspaceOwner(w), now + Retention)
             /\ recovering' = recovering \ {w} /\ UNCHANGED boot
       \/ recovering = {} /\ boot' = "manifests" /\ UNCHANGED <<refs, recovering>>
    /\ OnlyRefs /\ LocksSame
    /\ UNCHANGED <<workspaces, dirs, manifests, artifacts, reserved, torn, nextKey, task>>

\* reconcile_manifests: expired manifests go with their references, and so do those
\* of a page of the owners of references that have no row.
BootManifests ==
    /\ boot = "manifests" /\ IndexFree /\ boot' = "up"
    /\ \E expired \in AtMost({m \in DOMAIN manifests : Over(manifests[m], now)}, Limit) :
       \E page \in AtMost({m \in Manifests \ expired :
                             \E r \in DOMAIN refs : r[1] = ManifestOwner(m)}, Limit) :
          /\ manifests' = [m \in DOMAIN manifests \ expired |-> manifests[m]]
          /\ refs' = OwnersReleased({ManifestOwner(m) : m \in expired \union (page \ DOMAIN manifests)})
    /\ OnlyRefs /\ LocksSame
    /\ UNCHANGED <<workspaces, dirs, artifacts, reserved, torn, nextKey, task, recovering>>

----------------------------------------------------------------------------
\* blob_upload.
Upload(p, d) ==
    /\ At(p, "idle") /\ PutStart(p, d)
    /\ UNCHANGED planeVars

Uploaded(p) ==
    /\ task[p].pc = "idle" /\ Finish(p)
    /\ UNCHANGED planeVars

InBlobStore(p) ==
    /\ BlobStep(p) \/ (task[p].pc = "idle" /\ Drop(p))
    /\ UNCHANGED planeVars

Passes == Tick /\ UNCHANGED planeVars

Create(p) ==
    \/ \E w \in Workspaces, m \in Manifests :
          \/ StartCreate(p, w, m)
          \/ \E base \in Manifests : StartDerive(p, w, base, m)
    \/ DeriveBase(p) \/ DropManifestRow(p) \/ DropManifestRefs(p)
    \/ CreateAdmit(p) \/ CreateVerify(p) \/ CreateVerified(p) \/ CreateRefused(p)
    \/ CreateRetain(p) \/ StoreManifestRow(p) \/ StoreManifestRefs(p)
    \/ CreateTree(p) \/ CreateTreeFailed(p) \/ CreateDropped(p) \/ CreateInsert(p)

Execute(p) ==
    \/ \E w \in Workspaces : ExecuteResolve(p, w)
    \/ ExecuteLookup(p) \/ ExecuteActivate(p) \/ ExecuteClear(p) \/ ExecuteReserve(p)
    \/ ExecuteDropped(p) \/ RunEnds(p)
    \/ CaptureBlob(p) \/ Captured(p) \/ CaptureRetain(p) \/ CaptureInsert(p)
    \/ MarkTerminalRow(p) \/ MarkTerminalRefs(p)

Download(p) ==
    \/ \E w \in Workspaces : DownloadGet(p, w)
    \/ DownloadRetain(p) \/ DownloadVerify(p) \/ DownloadOpen(p)
    \/ DownloadChunk(p) \/ DownloadClose(p)

Collect(p) ==
    \/ StartCollect(p) \/ CollectWorkspaces(p) \/ CollectManifests(p)
    \/ CollectArtifacts(p) \/ CollectBlobs(p) \/ Collected(p)

PlaneNext ==
    \/ \E p \in Procs :
          \/ Create(p) \/ Execute(p) \/ Download(p) \/ Collect(p)
          \/ Uploaded(p) \/ InBlobStore(p)
          \/ \E d \in Digests : Upload(p, d)
    \/ Passes \/ Crash
    \/ BootRows \/ BootRefs \/ BootManifests

PlaneSpec == PlaneInit /\ [][PlaneNext]_allVars

----------------------------------------------------------------------------
Running(p) == task[p].pc \in {"running", "capture", "capture_refs", "capture_insert"}

\* The workspace of a running execution is never a candidate of a collection, whatever
\* else activates it, refuses it or marks it terminal meanwhile, and it keeps its
\* directory, unless a pass that failed had removed that before: mark_active looks at the
\* directory before its update, which asks for the key and not for the expiry, and so
\* takes a workspace that has expired and been removed in between (execute, mark_active,
\* mark_terminal, garbage_collect).
ActiveKept ==
    \A p \in Procs : Running(p) =>
        LET w == task[p].ws
        IN /\ w \in DOMAIN workspaces /\ workspaces[w].expires = None
           /\ workspaces[w].key \in dirs \/ w \in torn

\* A row has its directory unless a pass that failed removed it, when resolve refuses the
\* row, and no directory is without a row but that of a create about to insert it
\* (materialize, garbage_collect, reconcile).
ReadyHasTree ==
    /\ \A w \in DOMAIN workspaces : workspaces[w].key \in dirs \/ w \in torn
    /\ \A k \in dirs : \/ \E w \in DOMAIN workspaces : workspaces[w].key = k
                      \/ \E p \in Procs : At(p, "insert") /\ task[p].key = k

\* Concurrent creates share the quota: it is read before the files are hashed and the
\* row is inserted after the tree is built (materialize).
WorkspaceQuotaHeld == Used =< WorkspaceQuota

\* The table of workspaces is sound while creates, executions and collections overlap: its
\* rows are whole, those that resolve accepts have their directory, and they stay within the
\* quota (materialize, mark_active, garbage_collect).
WorkspacesSound == PlaneTypeOK /\ ReadyHasTree /\ WorkspaceQuotaHeld

\* An artifact that list and get still show has its bytes: its reference outlives
\* the collections that run with the capture and with each other (capture_declared,
\* collect_garbage).
ArtifactPinned ==
    \A w \in DOMAIN artifacts : Live(artifacts[w].expires) =>
        LET r == <<ArtifactOwner(w), artifacts[w].digest>>
        IN /\ r \in DOMAIN refs /\ refs[r] = artifacts[w].expires
           /\ artifacts[w].digest \in blobs

\* The file of a download whose lease has not run out is in place (artifact_download).
DownloadKept ==
    \A p \in Procs : At(p, "stream") /\ task[p].expires > now =>
        task[p].todo \subseteq blobs \intersect DOMAIN files

\* No collection takes the bytes of an artifact that can be got or is being sent
\* (capture_declared, artifact_download, collect_garbage).
BytesKept == ArtifactPinned /\ DownloadKept

\* A reference without an expiry belongs to a workspace that is active, "so a crash
\* cannot pin a blob forever" (recover_retention, mark_terminal).
NoPinForever ==
    boot = "up" =>
        \A w \in Workspaces, d \in Digests :
            LET r == <<WorkspaceOwner(w), d>>
            IN r \in DOMAIN refs /\ refs[r] = None =>
                   \/ w \in DOMAIN workspaces /\ workspaces[w].expires = None
                   \/ \E p \in Procs : task[p].ws = w
================================================================================

------------------------------- MODULE MCStorage -------------------------------
(***************************************************************************)
(* DataPlane and BlobStore on small instances, a part of the operations at *)
(* a time: the state space is the sum of the parts instead of their        *)
(* product.  A part starts from a state the operations of others lead to.  *)
(***************************************************************************)
EXTENDS DataPlane

CONSTANTS d1, d2, w1, Parts

VARIABLE part

mcVars == <<allVars, part>>

MCManifests == {{d1}, {d1, d2}}

MCOwners ==
    {<<"workspace", w>> : w \in Workspaces} \union {<<"manifest", m>> : m \in MCManifests}
    \union {<<"artifact", w>> : w \in Workspaces} \union {<<"reader", p>> : p \in Procs}

\* What a part starts with: blobs, w1 created from {d1} with its manifest retained,
\* another workspace like it, and the artifact captured from it.
HasBlobs == CASE part = "create" -> {d1, d2}
              [] part \in {"derive", "execute", "download"} -> {d1}
              [] OTHER -> {}
HasWorkspace == part \in {"derive", "execute", "download"}
HasArtifact == part = "download"
Created == IF part = "execute" THEN Workspaces ELSE IF HasWorkspace THEN {w1} ELSE {}
KeyOf(w) == IF w = w1 THEN 1 ELSE 2

MCInit ==
    /\ part \in Parts
    /\ files = [d \in HasBlobs |-> "good"]
    /\ blobs = DOMAIN files
    /\ refs = [r \in ({WorkspaceOwner(w) : w \in Created}
                         \union (IF HasWorkspace THEN {ManifestOwner({d1})} ELSE {})
                         \union (IF HasArtifact THEN {ArtifactOwner(w1)} ELSE {})) \X {d1}
                 |-> Retention]
    /\ workspaces = [w \in Created |-> [man |-> {d1}, key |-> KeyOf(w), expires |-> Retention]]
    /\ dirs = {KeyOf(w) : w \in Created}
    /\ nextKey = Cardinality(Created) + 1
    /\ manifests = [m \in IF HasWorkspace THEN {{d1}} ELSE {} |-> Retention]
    /\ artifacts = [w \in IF HasArtifact THEN {w1} ELSE {} |->
                       [digest |-> d1, expires |-> Retention]]
    /\ reserved = DOMAIN artifacts
    /\ stale = FALSE /\ displaced = {} /\ writeLock = None /\ pass = None
    /\ proc = [p \in Procs |-> Idle] /\ now = 0
    /\ torn = {} /\ materializeLock = None /\ mapLock = None
    /\ task = [p \in Procs |-> NoTask] /\ boot = "up" /\ recovering = {}

Starts == [create |-> {"create"}, derive |-> {"create", "base", "collect_workspaces"},
           execute |-> {"resolved", "collect_workspaces"},
           download |-> {"reader", "collect_workspaces"}]

\* The requests of a part.  Files are corrupted in the part "blobs" alone, the node
\* crashes in "blobs" and "execute", clients upload in "uploads" and "download".
InPart ==
    /\ \A p \in Procs : task[p].pc = "idle" =>
          /\ task'[p].pc \in {"idle"} \union Starts[part]
          /\ task'[p].ws = w1 \/ part = "create" \/ task'[p] = NoTask \/ task'[p].ws = None
          /\ proc'[p].op = "put" => part = "download" /\ proc'[p].digest = d1
    /\ boot' # "up" => part = "execute"
    /\ part = "create" => now' =< 1

\* Everything that can happen to one blob, and uploads of all of them.
InBlobs ==
    IF part = "blobs" THEN /\ \A r \in DOMAIN refs' : r[1] = WorkspaceOwner(w1)
                           /\ \A p \in Procs : proc'[p].digest \in {d1, None}
    ELSE /\ refs' = refs /\ files' = [d \in DOMAIN files' |-> "good"]
         /\ \A p \in Procs : proc'[p].op \in {"idle", "put"}

MCNext ==
    /\ UNCHANGED part
    /\ \/ part \in {"blobs", "uploads"} /\ BlobNext /\ UNCHANGED planeVars /\ InBlobs
       \/ part \notin {"blobs", "uploads"} /\ PlaneNext /\ InPart

MCSpec == MCInit /\ [][MCNext]_mcVars
================================================================================

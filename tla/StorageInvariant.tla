---------------------------- MODULE StorageInvariant ----------------------------
(***************************************************************************)
(* The inductive invariants of BlobStore and DataPlane, which              *)
(* BlobStoreProofs, DataPlaneSteps and DataPlaneProofs show to be kept.    *)
(*                                                                         *)
(* That of DataPlane, PlaneInv, has three layers.  What the operations do  *)
(* to the blob store are steps of BlobStore (StoreInv, with BlobInv); the  *)
(* tables, the directories and the locks need no more of the blob store    *)
(* than which calls are over (TableInv); and the references that keep      *)
(* artifacts and downloads need both (ByteInv).                            *)
(***************************************************************************)
EXTENDS DataPlane

-----------------------------------------------------------------------------
(* The blob store.                                                           *)

Pcs == {"idle", "writing", "renamed", "failed", "look", "hash", "corrupt", "unindex",
        "collect", "return"}

Calls == [op : {"idle", "put", "verify", "gc"}, pc : Pcs, digest : Digests \union {None},
          res : Results \union {None}]

PassType == [by : Procs, expired : SUBSET (Owners \X Digests), gone : SUBSET Digests,
           ok : BOOLEAN]

\* A call has a digest from its start to its end, except a collection.
TypeInv ==
    /\ proc \in [Procs -> Calls]
    /\ DOMAIN files \subseteq Digests /\ blobs \subseteq Digests
    /\ pass \in PassType \union {None}
    /\ \A p \in Procs : proc[p].pc \notin {"idle", "collect", "return"} => proc[p].digest \in Digests

\* The calls that write under write_lock.
Writing == {"writing", "renamed", "failed", "collect"}

LockInv == \A p \in Procs : proc[p].pc \in Writing => writeLock = p

\* The room that an upload found is still there when it inserts its row.
QuotaInv ==
    /\ IsFiniteSet(blobs) /\ Cardinality(blobs) =< Quota
    /\ \A p \in Procs : proc[p].pc \in {"writing", "renamed"} => Cardinality(blobs) + 1 =< Quota

\* The file of an upload stays in place until its row is inserted, unless a verification
\* takes it for the corrupt one it has read.
CommitInv ==
    \A p \in Procs : proc[p].pc = "renamed" => proc[p].digest \in DOMAIN files \union displaced

\* References are of blobs with a row, and not of those a pass has unlinked, but for the
\* references that it deletes.
RefInv ==
    /\ DOMAIN refs \subseteq References
    /\ \A r \in DOMAIN refs : r[2] \in blobs
    /\ pass # None => \A r \in DOMAIN refs \ pass.expired : r[2] \notin pass.gone
    /\ \A p \in Procs : proc[p].pc = "collect" => pass # None

BlobInv ==
    TypeInv /\ LockInv /\ QuotaInv /\ CommitInv /\ RefInv /\ IndexedReadable

-----------------------------------------------------------------------------
(* The data plane.                                                           *)

Creating == {"verify", "manifest", "manifest_refs", "tree", "insert"}
Activating == {"activate", "clear", "reserve"}
Collecting == {"collect_workspaces", "collect_manifests", "collect_artifacts", "collect_blobs"}
Runs == {"running", "capture", "capture_refs", "capture_insert"}
Reads == {"reader", "open", "stream", "close"}
Calling == {"idle", "verify", "capture", "open", "collect_blobs"}

TaskPcs == {"idle", "create", "base", "drop_row", "drop_refs", "resolved", "end_row", "end_refs"}
           \union Creating \union Activating \union Collecting \union Runs \union Reads

TaskType == [pc : TaskPcs, ws : Workspaces \union {None}, man : Manifests \union {{}},
             todo : SUBSET Digests, key : 0..MaxKeys, time : Nat, expires : Nat]

\* What a task stands for.
Proper(t) ==
    /\ t.pc \in {"create", "base", "resolved", "end_row", "end_refs"} \union Creating
                  \union Activating \union Runs => t.ws \in Workspaces
    /\ t.pc \in {"create", "base"} \union Creating => t.man \in Manifests
    /\ t.pc \in {"create", "base"} \union (Creating \ {"insert"}) => t.key = 0
    /\ t.pc \in Reads => t.todo = {Output}

\* During a start there is no task.
TaskInv ==
    /\ task \in [Procs -> TaskType]
    /\ \A p \in Procs :
          /\ Proper(task[p])
          /\ task[p].pc \in Collecting => task[p].time =< now
          /\ task[p].pc \notin Calling => proc[p].op = "idle"
          /\ boot # "up" => task[p].pc = "idle"

\* Nothing corrupts a file, so that no verification finds one corrupt; a collection
\* deletes references that have expired.
StoreInv ==
    /\ files \in [DOMAIN files -> {"good"}] /\ displaced = {} /\ stale \in BOOLEAN
    /\ writeLock \in Procs \union {None}
    /\ refs \in [DOMAIN refs -> Nat \union {None}]
    /\ now \in 0..MaxTime
    /\ \A p \in Procs : /\ proc[p].pc \notin {"corrupt", "unindex"}
                        /\ proc[p].op = "idle" <=> proc[p].pc = "idle"
    /\ pass # None => \A r \in pass.expired : /\ r \in DOMAIN refs
                                              /\ refs[r] # None /\ refs[r] =< now

\* The rows have their trees, which no other row or create shares; no other tree is there
\* than that of a create about to insert its row.
TreesInv ==
    /\ \A w \in DOMAIN workspaces : workspaces[w].key \in dirs \/ w \in torn
    /\ \A k \in dirs : \/ \E w \in DOMAIN workspaces : workspaces[w].key = k
                      \/ \E p \in Procs : task[p].pc = "insert" /\ task[p].key = k
    /\ \A w \in DOMAIN workspaces : workspaces[w].key < nextKey
    /\ \A v, w \in DOMAIN workspaces : workspaces[v].key = workspaces[w].key => v = w

\* A create has the lock, and the room it found, until its row is there; an execute has
\* the map until its execution has a row.
Fits(p) ==
    /\ task[p].pc \in Creating =>
          /\ materializeLock = p /\ task[p].ws \notin DOMAIN workspaces
          /\ Used + Cardinality(task[p].man) =< WorkspaceQuota
    /\ task[p].pc = "insert" =>
          /\ task[p].key \in dirs /\ task[p].key < nextKey
          /\ \A w \in DOMAIN workspaces : workspaces[w].key # task[p].key
    /\ task[p].pc \in Activating => mapLock = p /\ task[p].ws \notin reserved
    /\ task[p].pc \in {"clear", "reserve"} \union Runs =>
          task[p].ws \in DOMAIN workspaces /\ workspaces[task[p].ws].expires = None
    /\ task[p].pc \in Runs => task[p].ws \in reserved
    /\ task[p].pc = "end_row" => task[p].ws \in reserved \/ mapLock = p

\* The execution p runs in its workspace, and q may mark that of its own as terminal.
Apart(p, q) ==
    task[p].pc \in Runs /\ task[q].pc \in Runs \union {"end_row"} => task[p].ws # task[q].ws

TableTypes ==
    /\ workspaces \in [DOMAIN workspaces -> Row] /\ DOMAIN workspaces \subseteq Workspaces
    /\ dirs \subseteq 1..MaxKeys /\ nextKey \in 1..MaxKeys + 1
    /\ manifests \in [DOMAIN manifests -> Nat] /\ DOMAIN manifests \subseteq Manifests
    /\ reserved \subseteq Workspaces /\ torn \subseteq Workspaces
    /\ {materializeLock, mapLock} \subseteq Procs \union {None}
    /\ boot \in {"up", "rows", "refs", "manifests"} /\ recovering \subseteq Workspaces

TableInv ==
    /\ TableTypes /\ TreesInv
    /\ IsFiniteSet(Stored) /\ Used =< WorkspaceQuota
    /\ \A p \in Procs : Fits(p)
    /\ \A p, q \in Procs : p # q => Apart(p, q)

\* An artifact, one about to be recorded and a download have the reference that keeps
\* their blob for as long as they say.
Bytes(p) ==
    /\ task[p].pc \in Runs => task[p].ws \notin DOMAIN artifacts
    /\ task[p].pc = "capture_insert" /\ task[p].time > now =>
          LET r == <<ArtifactOwner(task[p].ws), Output>>
          IN r \in DOMAIN refs /\ refs[r] = task[p].time
    /\ task[p].pc \in {"open", "stream"} /\ task[p].expires > now =>
          LET r == <<ReaderOwner(p), Output>>
          IN r \in DOMAIN refs /\ refs[r] = task[p].expires

ByteInv ==
    /\ artifacts \in [DOMAIN artifacts -> [digest : {Output}, expires : Nat]]
    /\ DOMAIN artifacts \subseteq reserved
    /\ \A w \in DOMAIN artifacts : artifacts[w].expires > now =>
          LET r == <<ArtifactOwner(w), Output>>
          IN r \in DOMAIN refs /\ refs[r] = artifacts[w].expires
    /\ \A p \in Procs :
          /\ Bytes(p)
          /\ \A r \in DOMAIN refs : r[1] = ReaderOwner(p) => r[2] = Output

PlaneInv == BlobInv /\ StoreInv /\ TaskInv /\ TableInv /\ ByteInv

-----------------------------------------------------------------------------
(* What the operations do to the blob store.                                 *)

\* A call that is dropped while it hashes, or that has nothing to drop.
Aborts(p) ==
    /\ proc[p].pc \in {"hash", "idle"} /\ proc' = [proc EXCEPT ![p] = Idle]
    /\ UNCHANGED <<files, blobs, refs, stale, displaced, writeLock, pass, now>>

\* A statement on the table of references alone.
RefsStep ==
    /\ IndexFree /\ UNCHANGED BlobRest
    /\ DOMAIN refs' \subseteq References
    /\ refs' \in [DOMAIN refs' -> Nat \union {None}]
    /\ \A r \in DOMAIN refs' : r[2] \in blobs

\* A step of one call, of whichever operation.
CallStep(p) ==
    \/ BlobStep(p) \/ Drop(p) \/ Finish(p) \/ Aborts(p)
    \/ \E d \in Digests : PutStart(p, d) \/ VerifyStart(p, d)
    \/ \E t \in Nat : t =< now /\ GcUnlink(p, t)

StoreStep ==
    \/ \E p \in Procs : CallStep(p)
    \/ RefsStep \/ Tick \/ Reopen \/ UNCHANGED blobVars

================================================================================

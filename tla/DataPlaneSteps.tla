----------------------------- MODULE DataPlaneSteps -----------------------------
(***************************************************************************)
(* What keeps the invariant of DataPlane, for any workspaces, manifests,   *)
(* calls in flight, quotas and expiries, all operations at the same time:  *)
(* the lemmas for every operation, and the steps of a create, an execute,  *)
(* a download, a call of the blob store and the clock.  DataPlaneProofs    *)
(* has the others and the theorems.                                        *)
(***************************************************************************)
EXTENDS StorageInvariant, TLAPS

-----------------------------------------------------------------------------
(* What the operations do to the references.                                 *)

\* retain, set_reference_expiry and release_references are such statements, and so is the
\* release of several owners.
LEMMA RefsSteps ==
    ASSUME BlobInv, StoreInv, IndexFree, UNCHANGED BlobRest
    PROVE  /\ \A o \in Owners, D \in SUBSET Digests, e \in Nat \union {None} :
                 Retain(o, D, e) => RefsStep
           /\ \A o : \A e \in Nat \union {None} : SetReferenceExpiry(o, e) => RefsStep
           /\ \A o : ReleaseReferences(o) => RefsStep
           /\ \A S : refs' = OwnersReleased(S) => RefsStep
<1>1. /\ DOMAIN refs \subseteq References /\ \A r \in DOMAIN refs : r[2] \in blobs
      /\ refs \in [DOMAIN refs -> Nat \union {None}]
  BY DEF BlobInv, RefInv, StoreInv
<1>2. ASSUME NEW o \in Owners, NEW D \in SUBSET Digests, NEW e \in Nat \union {None}, Retain(o, D, e)
      PROVE  RefsStep
  <2>1. D \subseteq blobs /\ DOMAIN refs' = DOMAIN refs \union ({o} \X D)
    BY <1>2 DEF Retain, Retained
  <2>2. \A r \in DOMAIN refs' : refs'[r] \in Nat \union {None}
    BY <1>1, <1>2 DEF Retain, Retained
  <2>3. refs' = [r \in DOMAIN refs' |-> refs'[r]]
    BY <1>2 DEF Retain, Retained
  <2>4. DOMAIN refs' \subseteq References /\ \A r \in DOMAIN refs' : r[2] \in blobs
    BY <1>1, <2>1 DEF References
  <2> QED
    BY <2>2, <2>3, <2>4 DEF RefsStep
<1>3. ASSUME NEW o, NEW e \in Nat \union {None}, SetReferenceExpiry(o, e) PROVE RefsStep
  BY <1>1, <1>3 DEF SetReferenceExpiry, RefsStep
<1>4. ASSUME NEW S, refs' = Keep(refs, S) PROVE RefsStep
  BY <1>1, <1>4 DEF Keep, RefsStep
<1>5. \A o : ReleaseReferences(o) => RefsStep
  BY <1>4 DEF ReleaseReferences
<1>6. \A S : refs' = OwnersReleased(S) => RefsStep
  BY <1>4 DEF OwnersReleased
<1> QED
  BY <1>2, <1>3, <1>5, <1>6

-----------------------------------------------------------------------------
(* What the operations do to their tasks.                                    *)

Task(pc, ws, man, todo, key, time, expires) ==
    [pc |-> pc, ws |-> ws, man |-> man, todo |-> todo, key |-> key, time |-> time,
     expires |-> expires]

\* The task of p becomes t, and no other changes.
Becomes(p, t) ==
    /\ task' \in [Procs -> TaskType] /\ \A q \in Procs \ {p} : task'[q] = task[q]
    /\ task'[p].pc = t.pc /\ task'[p].ws = t.ws /\ task'[p].man = t.man
    /\ task'[p].todo = t.todo /\ task'[p].key = t.key /\ task'[p].time = t.time
    /\ task'[p].expires = t.expires

\* The task of p goes on at pc.
Goes(p, pc) ==
    Becomes(p, Task(pc, task[p].ws, task[p].man, task[p].todo, task[p].key, task[p].time,
                    task[p].expires))

\* The task of p is over.
Stops(p) == Becomes(p, Task("idle", None, {}, {}, 0, 0, 0))

\* The task of a process that does nothing.
LEMMA Nothing ==
    /\ NoTask \in TaskType /\ NoTask.pc = "idle" /\ NoTask.ws = None /\ NoTask.man = {}
    /\ NoTask.todo = {} /\ NoTask.key = 0 /\ NoTask.time = 0 /\ NoTask.expires = 0
BY DataPlaneAssumption DEF NoTask, TaskType, TaskPcs

\* A task that only goes on, and one that is over.
LEMMA Going ==
    ASSUME TaskInv, NEW p \in Procs
    PROVE  /\ \A pc \in TaskPcs : Proceed(p, pc) => Goes(p, pc)
           /\ End(p) => Stops(p)
<1>1. task \in [Procs -> TaskType] /\ task[p] \in TaskType
  BY DEF TaskInv
<1>2. ASSUME NEW pc \in TaskPcs, Proceed(p, pc) PROVE Goes(p, pc)
  BY Zenon, <1>1, <1>2 DEF Proceed, Goes, Becomes, TaskType, Task
<1>3. ASSUME End(p) PROVE Stops(p)
  BY Zenon, <1>1, <1>3, Nothing DEF End, Stops, Becomes, Task
<1> QED
  BY <1>2, <1>3

\* The steps of a create.
LEMMA CreateTasks ==
    ASSUME TaskInv, TableTypes, now \in Nat, NEW p \in Procs
    PROVE  /\ \A w \in Workspaces, m \in Manifests :
                 StartCreate(p, w, m) => Becomes(p, Task("create", w, m, {}, 0, 0, 0))
           /\ \A w \in Workspaces, m, base \in Manifests :
                 StartDerive(p, w, base, m) => Becomes(p, Task("base", w, m, base, 0, 0, 0))
           /\ CreateAdmit(p) =>
                 \/ Stops(p)
                 \/ Becomes(p, Task("verify", task[p].ws, task[p].man, task[p].man, task[p].key,
                                    task[p].time, task[p].expires))
           /\ CreateVerified(p) =>
                 \E todo : Becomes(p, Task("verify", task[p].ws, task[p].man, todo, task[p].key,
                                           task[p].time, task[p].expires))
           /\ CreateRetain(p) =>
                 \/ Stops(p)
                 \/ Becomes(p, Task("manifest", task[p].ws, task[p].man, task[p].todo, task[p].key,
                                    now + Retention, task[p].expires))
           /\ StoreManifestRow(p) =>
                 \E e \in Nat : Becomes(p, Task("manifest_refs", task[p].ws, task[p].man,
                                                task[p].todo, task[p].key, task[p].time, e))
           /\ CreateTree(p) =>
                 Becomes(p, Task("insert", task[p].ws, task[p].man, task[p].todo, nextKey,
                                 task[p].time, task[p].expires))
<1>1. /\ task \in [Procs -> TaskType] /\ task[p] \in TaskType /\ MaxKeys \in Nat
      /\ now + Retention \in Nat /\ Manifests \subseteq SUBSET Digests
  BY SMTT(30), DataPlaneAssumption DEF TaskInv
<1>2. \A w \in Workspaces, m \in Manifests :
        StartCreate(p, w, m) => Becomes(p, Task("create", w, m, {}, 0, 0, 0))
  <2> TAKE w \in Workspaces, m \in Manifests
  <2> DEFINE t == [NoTask EXCEPT !.pc = "create", !.ws = w, !.man = m]
  <2>1. /\ t \in TaskType /\ t.pc = "create" /\ t.ws = w /\ t.man = m /\ t.todo = {}
        /\ t.key = 0 /\ t.time = 0 /\ t.expires = 0
    BY Zenon, <1>1, Nothing DEF TaskType, TaskPcs
  <2>2. StartCreate(p, w, m) => task' = [task EXCEPT ![p] = t]
    BY DEF StartCreate
  <2> HIDE DEF t
  <2> QED
    BY Zenon, <1>1, <2>1, <2>2 DEF Becomes, Task
<1>3. \A w \in Workspaces, m, base \in Manifests :
        StartDerive(p, w, base, m) => Becomes(p, Task("base", w, m, base, 0, 0, 0))
  <2> TAKE w \in Workspaces, m, base \in Manifests
  <2> DEFINE t == [NoTask EXCEPT !.pc = "base", !.ws = w, !.man = m, !.todo = base]
  <2>1. /\ t \in TaskType /\ t.pc = "base" /\ t.ws = w /\ t.man = m /\ t.todo = base
        /\ t.key = 0 /\ t.time = 0 /\ t.expires = 0
    BY Zenon, <1>1, Nothing DEF TaskType, TaskPcs
  <2>2. StartDerive(p, w, base, m) => task' = [task EXCEPT ![p] = t]
    BY DEF StartDerive
  <2> HIDE DEF t
  <2> QED
    BY <1>1, <2>1, <2>2 DEF Becomes, Task
<1>4. ASSUME CreateAdmit(p), ~Stops(p)
      PROVE  Becomes(p, Task("verify", task[p].ws, task[p].man, task[p].man, task[p].key,
                             task[p].time, task[p].expires))
  <2>1. task' = [task EXCEPT ![p].pc = "verify", ![p].todo = task[p].man]
    BY <1>4, Going DEF CreateAdmit
  <2> QED
    BY Zenon, <1>1, <2>1 DEF Becomes, Task, TaskType, TaskPcs, Creating
<1>5. ASSUME CreateVerified(p)
      PROVE  Becomes(p, Task("verify", task[p].ws, task[p].man, task[p].todo \ {proc[p].digest},
                             task[p].key, task[p].time, task[p].expires))
  BY <1>1, <1>5 DEF CreateVerified, Returned, Becomes, Task, TaskType
<1>6. ASSUME CreateRetain(p), ~Stops(p)
      PROVE  Becomes(p, Task("manifest", task[p].ws, task[p].man, task[p].todo, task[p].key,
                             now + Retention, task[p].expires))
  <2>1. task' = [task EXCEPT ![p].pc = "manifest", ![p].time = now + Retention]
    BY <1>6, Going DEF CreateRetain
  <2> QED
    BY Zenon, <1>1, <2>1 DEF Becomes, Task, TaskType, TaskPcs, Creating
<1>7. ASSUME StoreManifestRow(p)
      PROVE  \E e \in Nat : Becomes(p, Task("manifest_refs", task[p].ws, task[p].man, task[p].todo,
                                            task[p].key, task[p].time, e))
  <2>1. PICK e \in Nat : task' = [task EXCEPT ![p].pc = "manifest_refs", ![p].expires = e]
    BY Zenon, <1>1, <1>7 DEF StoreManifestRow, TableTypes
  <2>2. Becomes(p, Task("manifest_refs", task[p].ws, task[p].man, task[p].todo, task[p].key,
                        task[p].time, e))
    BY ZenonT(30), <1>1, <2>1 DEF Becomes, Task, TaskType, TaskPcs, Creating
  <2> QED
    BY Zenon, <2>2
<1>8. ASSUME CreateTree(p)
      PROVE  Becomes(p, Task("insert", task[p].ws, task[p].man, task[p].todo, nextKey,
                             task[p].time, task[p].expires))
  <2>1. nextKey \in 0..MaxKeys
    BY <1>1, <1>8 DEF CreateTree, TableTypes
  <2>2. task' = [task EXCEPT ![p].pc = "insert", ![p].key = nextKey]
    BY Zenon, <1>8 DEF CreateTree
  <2> QED
    BY Zenon, <1>1, <2>1, <2>2 DEF Becomes, Task, TaskType, TaskPcs, Creating
<1> QED
  BY Zenon, <1>2, <1>3, <1>4, <1>5, <1>6, <1>7, <1>8

\* The steps of an execution, of a download and of a collection.
LEMMA OtherTasks ==
    ASSUME TaskInv, TableTypes, now \in Nat, NEW p \in Procs,
           artifacts \in [DOMAIN artifacts -> [digest : {Output}, expires : Nat]]
    PROVE  /\ \A w \in Workspaces :
                 ExecuteResolve(p, w) => Becomes(p, Task("resolved", w, {}, {}, 0, 0, 0))
           /\ ExecuteLookup(p) =>
                 \/ Stops(p)
                 \/ \E key : Becomes(p, Task("activate", task[p].ws, task[p].man, task[p].todo, key,
                                             task[p].time, task[p].expires))
           /\ RunEnds(p) =>
                 \/ Goes(p, "end_row")
                 \/ Becomes(p, Task("capture", task[p].ws, task[p].man, task[p].todo, task[p].key,
                                    now + Retention, task[p].expires))
           /\ MarkTerminalRow(p) =>
                 Becomes(p, Task("end_refs", task[p].ws, task[p].man, task[p].todo, task[p].key,
                                 task[p].time, now + Retention))
           /\ \A w \in Workspaces :
                 DownloadGet(p, w) => Becomes(p, Task("reader", w, {}, {Output}, 0, 0, 0))
           /\ DownloadRetain(p) =>
                 \/ Stops(p)
                 \/ Becomes(p, Task("open", task[p].ws, task[p].man, task[p].todo, task[p].key,
                                    task[p].time, now + ReaderLease))
           /\ DownloadChunk(p) =>
                 Becomes(p, Task("stream", task[p].ws, task[p].man, task[p].todo, task[p].key,
                                 task[p].time, now + ReaderLease))
           /\ StartCollect(p) => Becomes(p, Task("collect_workspaces", None, {}, {}, 0, now, 0))
<1>1. /\ task \in [Procs -> TaskType] /\ task[p] \in TaskType /\ MaxKeys \in Nat
      /\ now + Retention \in Nat /\ now + ReaderLease \in Nat /\ Output \in Digests
  BY DataPlaneAssumption DEF TaskInv
<1>2. \A w \in Workspaces :
        ExecuteResolve(p, w) => Becomes(p, Task("resolved", w, {}, {}, 0, 0, 0))
  <2> TAKE w \in Workspaces
  <2> DEFINE t == [NoTask EXCEPT !.pc = "resolved", !.ws = w]
  <2>1. /\ t \in TaskType /\ t.pc = "resolved" /\ t.ws = w /\ t.man = {} /\ t.todo = {}
        /\ t.key = 0 /\ t.time = 0 /\ t.expires = 0
    BY Zenon, <1>1, Nothing DEF TaskType, TaskPcs
  <2>2. ExecuteResolve(p, w) => task' = [task EXCEPT ![p] = t]
    BY DEF ExecuteResolve
  <2> HIDE DEF t
  <2> QED
    BY Zenon, <1>1, <2>1, <2>2 DEF Becomes, Task
<1>3. ASSUME ExecuteLookup(p), ~Stops(p)
      PROVE  Becomes(p, Task("activate", task[p].ws, task[p].man, task[p].todo,
                             workspaces[task[p].ws].key, task[p].time, task[p].expires))
  <2>1. /\ task' = [task EXCEPT ![p].pc = "activate", ![p].key = workspaces[task[p].ws].key]
        /\ task[p].ws \in DOMAIN workspaces
    BY <1>3, Going DEF ExecuteLookup
  <2>2. workspaces[task[p].ws].key \in 0..MaxKeys
    BY <1>1, <2>1 DEF TableTypes, Row
  <2> QED
    BY Zenon, <1>1, <2>1, <2>2 DEF Becomes, Task, TaskType, TaskPcs, Activating
<1>4. ASSUME RunEnds(p), ~Goes(p, "end_row")
      PROVE  Becomes(p, Task("capture", task[p].ws, task[p].man, task[p].todo, task[p].key,
                             now + Retention, task[p].expires))
  <2>1. task' = [task EXCEPT ![p].pc = "capture", ![p].time = now + Retention]
    BY <1>4, Going DEF RunEnds, Proceed, TaskPcs
  <2> QED
    BY Zenon, <1>1, <2>1 DEF Becomes, Task, TaskType, TaskPcs, Runs
<1>5. ASSUME MarkTerminalRow(p)
      PROVE  Becomes(p, Task("end_refs", task[p].ws, task[p].man, task[p].todo, task[p].key,
                             task[p].time, now + Retention))
  <2>1. task' = [task EXCEPT ![p].pc = "end_refs", ![p].expires = now + Retention]
    BY <1>5 DEF MarkTerminalRow
  <2> QED
    BY Zenon, <1>1, <2>1 DEF Becomes, Task, TaskType, TaskPcs
<1>6. \A w \in Workspaces :
        DownloadGet(p, w) => Becomes(p, Task("reader", w, {}, {Output}, 0, 0, 0))
  <2> TAKE w \in Workspaces
  <2> DEFINE t == [NoTask EXCEPT !.pc = "reader", !.ws = w, !.todo = {Output}]
  <2>1. /\ t \in TaskType /\ t.pc = "reader" /\ t.ws = w /\ t.man = {} /\ t.todo = {Output}
        /\ t.key = 0 /\ t.time = 0 /\ t.expires = 0
    BY Zenon, <1>1, Nothing DEF TaskType, TaskPcs, Reads
  <2>2. DownloadGet(p, w) => task' = [task EXCEPT ![p] = t]
    <3>1. w \in DOMAIN artifacts => artifacts[w].digest = Output
      OBVIOUS
    <3> QED
      BY Zenon, <3>1 DEF DownloadGet
  <2> HIDE DEF t
  <2> QED
    BY <1>1, <2>1, <2>2 DEF Becomes, Task
<1>7. ASSUME DownloadRetain(p), ~Stops(p)
      PROVE  Becomes(p, Task("open", task[p].ws, task[p].man, task[p].todo, task[p].key,
                             task[p].time, now + ReaderLease))
  <2>1. task' = [task EXCEPT ![p].pc = "open", ![p].expires = now + ReaderLease]
    BY <1>7, Going DEF DownloadRetain
  <2> QED
    BY Zenon, <1>1, <2>1 DEF Becomes, Task, TaskType, TaskPcs, Reads
<1>8. ASSUME DownloadChunk(p)
      PROVE  Becomes(p, Task("stream", task[p].ws, task[p].man, task[p].todo, task[p].key,
                             task[p].time, now + ReaderLease))
  BY <1>1, <1>8 DEF DownloadChunk, At, Becomes, Task, TaskType
<1>9. ASSUME StartCollect(p)
      PROVE  Becomes(p, Task("collect_workspaces", None, {}, {}, 0, now, 0))
  <2> DEFINE t == [NoTask EXCEPT !.pc = "collect_workspaces", !.time = now]
  <2>1. /\ t \in TaskType /\ t.pc = "collect_workspaces" /\ t.ws = None /\ t.man = {} /\ t.todo = {}
        /\ t.key = 0 /\ t.time = now /\ t.expires = 0
    BY Zenon, <1>1, Nothing DEF TaskType, TaskPcs, Collecting
  <2>2. task' = [task EXCEPT ![p] = t]
    BY <1>9 DEF StartCollect
  <2> HIDE DEF t
  <2> QED
    BY <1>1, <2>1, <2>2 DEF Becomes, Task
<1> QED
  BY Zenon, <1>2, <1>3, <1>4, <1>5, <1>6, <1>7, <1>8, <1>9

\* A proper task keeps TaskInv.
LEMMA TaskKept ==
    ASSUME TaskInv, NEW p \in Procs, NEW t, Becomes(p, t), Proper(t), boot = "up",
           UNCHANGED <<boot, now>>, \A q \in Procs \ {p} : proc'[q] = proc[q],
           t.pc \in Collecting => t.time =< now,
           t.pc \notin Calling => proc'[p].op = "idle"
    PROVE  TaskInv'
<1>1. /\ task' \in [Procs -> TaskType] /\ \A q \in Procs \ {p} : task'[q] = task[q]
      /\ task'[p].pc = t.pc /\ task'[p].time = t.time
  BY Zenon DEF Becomes
<1>2. Proper(task'[p])
  BY Zenon DEF Becomes, Proper
<1> QED
  BY <1>1, <1>2 DEF TaskInv

-----------------------------------------------------------------------------
(* What a step of one process leaves as it is.                               *)

\* A process takes a free lock or releases its own.
OwnLocks(p) ==
    /\ materializeLock' # materializeLock => {materializeLock, materializeLock'} \subseteq {p, None}
    /\ mapLock' # mapLock => {mapLock, mapLock'} \subseteq {p, None}

\* The references that keep artifacts and the downloads of others stay until they expire.
Keeps(p, r) ==
    /\ r[2] = Output /\ refs[r] \in Nat /\ refs[r] > now
    /\ \/ \E w \in Workspaces : r[1] = ArtifactOwner(w) /\ (task[p].pc \in Runs => w # task[p].ws)
       \/ \E q \in Procs \ {p} : r[1] = ReaderOwner(q)

Spared(p) ==
    /\ \A r \in DOMAIN refs : Keeps(p, r) => r \in DOMAIN refs' /\ refs'[r] = refs[r]
    /\ \A r \in DOMAIN refs', q \in Procs : r[1] = ReaderOwner(q) => r \in DOMAIN refs \/ r[2] = Output

\* A statement changes the references of the owners S alone.
Only(S) ==
    /\ \A r \in DOMAIN refs : r[1] \notin S => r \in DOMAIN refs' /\ refs'[r] = refs[r]
    /\ \A r \in DOMAIN refs' : r[1] \notin S => r \in DOMAIN refs

\* The statements on references change those of the owners they name.
LEMMA OnlyOwners ==
    ASSUME BlobInv
    PROVE  /\ \A o, D, e : Retain(o, D, e) => Only({o})
           /\ \A o, e : SetReferenceExpiry(o, e) => Only({o}) /\ DOMAIN refs' = DOMAIN refs
           /\ \A o : ReleaseReferences(o) => Only({o})
           /\ \A S : refs' = OwnersReleased(S) => Only(S) /\ DOMAIN refs' \subseteq DOMAIN refs
<1>1. DOMAIN refs \subseteq References
  BY DEF BlobInv, RefInv
<1>2. \A o, D, e : Retain(o, D, e) => Only({o})
  BY DEF Retain, Retained, Only
<1>3. \A o, e : SetReferenceExpiry(o, e) => Only({o}) /\ DOMAIN refs' = DOMAIN refs
  BY DEF SetReferenceExpiry, Only
<1>4. \A o : ReleaseReferences(o) => Only({o})
  BY <1>1 DEF ReleaseReferences, Keep, Only
<1>5. \A S : refs' = OwnersReleased(S) => Only(S) /\ DOMAIN refs' \subseteq DOMAIN refs
  BY <1>1 DEF OwnersReleased, Keep, Only
<1> QED
  BY Zenon, <1>2, <1>3, <1>4, <1>5

\* Those of workspaces and manifests keep nothing of an artifact or a download.
LEMMA SparedByOthers ==
    ASSUME NEW p \in Procs, NEW S, Only(S),
           \A o \in S : \E x : o = WorkspaceOwner(x) \/ o = ManifestOwner(x)
    PROVE  Spared(p)
<1>1. \A w : ArtifactOwner(w) \notin S /\ ReaderOwner(w) \notin S
  BY Zenon DEF ArtifactOwner, ReaderOwner, WorkspaceOwner, ManifestOwner
<1>2. \A r \in DOMAIN refs :
        (\E w : r[1] = ArtifactOwner(w) \/ r[1] = ReaderOwner(w)) => r \in DOMAIN refs' /\ refs'[r] = refs[r]
  BY Zenon, <1>1 DEF Only
<1>3. \A r \in DOMAIN refs' : (\E w : r[1] = ReaderOwner(w)) => r \in DOMAIN refs
  BY Zenon, <1>1 DEF Only
<1>4. ASSUME NEW r \in DOMAIN refs, Keeps(p, r) PROVE r \in DOMAIN refs' /\ refs'[r] = refs[r]
  <2>1. \E w : r[1] = ArtifactOwner(w) \/ r[1] = ReaderOwner(w)
    BY <1>4, Zenon DEF Keeps
  <2> QED
    BY Zenon, <1>2, <2>1
<1>5. ASSUME NEW r \in DOMAIN refs', NEW q \in Procs, r[1] = ReaderOwner(q) PROVE r \in DOMAIN refs
  BY Zenon, <1>3, <1>5
<1> QED
  BY <1>4, <1>5, Zenon DEF Spared

\* A step that changes no row, directory or reservation.
LEMMA TableKept ==
    ASSUME TableInv, NEW p \in Procs, \A q \in Procs \ {p} : task'[q] = task[q],
           UNCHANGED <<workspaces, dirs, reserved, torn, nextKey, boot, recovering>>,
           manifests' \in [DOMAIN manifests' -> Nat], DOMAIN manifests' \subseteq Manifests,
           OwnLocks(p), task[p].pc # "insert", Fits(p)',
           \A q \in Procs \ {p} : Apart(p, q)' /\ Apart(q, p)'
    PROVE  TableInv'
<1>1. TableTypes'
  BY DEF TableInv, TableTypes, OwnLocks
<1>2. Stored' = Stored /\ Used' = Used
  BY Zenon DEF Stored, Used
<1>3. TreesInv'
  <2>1. \A k \in dirs : (\E q \in Procs : task[q].pc = "insert" /\ task[q].key = k) =>
                           \E q \in Procs : task'[q].pc = "insert" /\ task'[q].key = k
    OBVIOUS
  <2> QED
    BY <2>1 DEF TableInv, TreesInv
<1>4. ASSUME NEW q \in Procs PROVE Fits(q)'
  <2>1. CASE q # p
    BY <1>2, <2>1, BlobAssumption DEF TableInv, Fits, OwnLocks
  <2> QED
    BY Zenon, <2>1
<1>5. ASSUME NEW q \in Procs, NEW r \in Procs, q # r PROVE Apart(q, r)'
  <2>1. CASE q # p /\ r # p
    BY Zenon, <1>5, <2>1 DEF TableInv, Apart
  <2> QED
    BY Zenon, <1>5, <2>1
<1> QED
  BY Zenon, <1>1, <1>2, <1>3, <1>4, <1>5 DEF TableInv

\* A step that changes no record of an artifact.
LEMMA ByteKept ==
    ASSUME ByteInv, TaskInv, TableInv, NEW p \in Procs, \A q \in Procs \ {p} : task'[q] = task[q],
           UNCHANGED <<artifacts, now>>, reserved \subseteq reserved', Spared(p), Bytes(p)'
    PROVE  ByteInv'
<1>1. \A w \in DOMAIN artifacts : w \in Workspaces /\ (task[p].pc \in Runs => w # task[p].ws)
  BY Zenon DEF ByteInv, Bytes, TableInv, TableTypes
<1>2. ASSUME NEW w \in DOMAIN artifacts, artifacts[w].expires > now
      PROVE  <<ArtifactOwner(w), Output>> \in DOMAIN refs' /\ refs'[<<ArtifactOwner(w), Output>>] = artifacts[w].expires
  BY <1>1, <1>2 DEF ByteInv, Spared, Keeps
<1>3. ASSUME NEW q \in Procs PROVE Bytes(q)'
  <2>1. CASE q # p
    <3>1. task'[q] = task[q] /\ Bytes(q) /\ task[q] \in TaskType /\ Proper(task[q])
      BY Zenon, <2>1 DEF ByteInv, TaskInv
    <3>2. task[q].pc = "capture_insert" =>
             /\ task[q].ws \in Workspaces /\ (task[p].pc \in Runs => task[q].ws # task[p].ws)
      BY Zenon, <2>1, <3>1 DEF TableInv, Apart, Runs, Proper
    <3>3. ASSUME task[q].pc = "capture_insert", task[q].time > now
          PROVE  LET r == <<ArtifactOwner(task[q].ws), Output>>
                 IN r \in DOMAIN refs' /\ refs'[r] = task[q].time
      BY Zenon, <3>1, <3>2, <3>3 DEF Bytes, Spared, Keeps, TaskType
    <3>4. ASSUME task[q].pc \in {"open", "stream"}, task[q].expires > now
          PROVE  LET r == <<ReaderOwner(q), Output>>
                 IN r \in DOMAIN refs' /\ refs'[r] = task[q].expires
      BY Zenon, <2>1, <3>1, <3>4 DEF Bytes, Spared, Keeps, TaskType
    <3> QED
      BY <3>1, <3>3, <3>4 DEF Bytes
  <2> QED
    BY <2>1
<1>4. ASSUME NEW q \in Procs, NEW r \in DOMAIN refs', r[1] = ReaderOwner(q) PROVE r[2] = Output
  BY <1>4 DEF ByteInv, Spared
<1> QED
  BY Zenon, <1>2, <1>3, <1>4 DEF ByteInv

\* A step of p that changes no more than its task, locks, retained manifests and references.
LEMMA OwnStep ==
    ASSUME PlaneInv, NEW p \in Procs, NEW t, Becomes(p, t), Proper(t), boot = "up",
           task[p].pc # "insert",
           UNCHANGED <<workspaces, dirs, artifacts, reserved, torn, nextKey, boot, recovering, now>>,
           manifests' \in [DOMAIN manifests' -> Nat], DOMAIN manifests' \subseteq Manifests,
           OwnLocks(p), Spared(p), \A q \in Procs \ {p} : proc'[q] = proc[q],
           t.pc \in Collecting => t.time =< now,
           t.pc \notin Calling => proc'[p].op = "idle",
           Fits(p)', Bytes(p)',
           t.pc \in Runs \union {"end_row"} => task[p].pc \in Runs /\ t.ws = task[p].ws
    PROVE  TaskInv' /\ TableInv' /\ ByteInv'
<1>1. TaskInv'
  BY Zenon, TaskKept DEF PlaneInv
<1>2. \A q \in Procs \ {p} : task'[q] = task[q]
  BY Zenon DEF Becomes
<1>3. ASSUME NEW q \in Procs \ {p} PROVE Apart(p, q)' /\ Apart(q, p)'
  <2>1. Apart(p, q) /\ Apart(q, p) /\ task'[q] = task[q] /\ task'[p].pc = t.pc /\ task'[p].ws = t.ws
    BY Zenon, <1>2 DEF PlaneInv, TableInv, Becomes
  <2> QED
    BY Zenon, <2>1 DEF Apart
<1>4. TableInv'
  BY Zenon, <1>2, <1>3, TableKept DEF PlaneInv
<1>5. ByteInv'
  BY Zenon, <1>2, ByteKept DEF PlaneInv
<1> QED
  BY Zenon, <1>1, <1>4, <1>5

Plain == {"idle", "create", "base", "drop_row", "drop_refs", "resolved", "end_refs", "reader", "close"}
         \union Collecting

\* The same when nothing depends on what the task of p does next.
LEMMA PlainStep ==
    ASSUME PlaneInv, NEW p \in Procs, NEW t, Becomes(p, t), Proper(t), boot = "up",
           t.pc \in Plain, task[p].pc # "insert",
           UNCHANGED <<workspaces, dirs, artifacts, reserved, torn, nextKey, boot, recovering, now>>,
           manifests' \in [DOMAIN manifests' -> Nat], DOMAIN manifests' \subseteq Manifests,
           OwnLocks(p), Spared(p), \A q \in Procs \ {p} : proc'[q] = proc[q],
           t.pc \in Collecting => t.time =< now, proc'[p].op = "idle"
    PROVE  TaskInv' /\ TableInv' /\ ByteInv'
<1>1. task'[p].pc = t.pc /\ t.pc \notin Runs \union {"end_row", "insert", "clear", "reserve", "open", "stream"}
  BY DEF Becomes, Plain, Runs, Collecting
<1>2. t.pc \notin Creating \union Activating
  BY Zenon DEF Plain, Creating, Activating, Collecting
<1>3. Fits(p)'
  BY Zenon, <1>1, <1>2 DEF Fits
<1>4. Bytes(p)'
  BY <1>1 DEF Bytes, Runs
<1> QED
  BY Zenon, <1>1, <1>3, <1>4, OwnStep

\* The statements and calls of the blob store leave the references that are needed.
LEMMA SparedAnyway ==
    ASSUME NEW p \in Procs, UNCHANGED refs
    PROVE  Spared(p)
BY Zenon DEF Spared

-----------------------------------------------------------------------------
(* The steps of the operations.                                              *)

PlaneStep == StoreStep /\ TaskInv' /\ TableInv' /\ ByteInv'

\* What is known of a process before its step.
LEMMA Before ==
    ASSUME PlaneInv, NEW p \in Procs
    PROVE  /\ TaskInv /\ TableTypes /\ now \in Nat /\ task[p] \in TaskType /\ Proper(task[p])
           /\ proc \in [Procs -> Calls]
           /\ artifacts \in [DOMAIN artifacts -> [digest : {Output}, expires : Nat]]
           /\ manifests \in [DOMAIN manifests -> Nat] /\ DOMAIN manifests \subseteq Manifests
           /\ {now + Retention, now + ReaderLease} \subseteq Nat
           /\ task[p].pc \in Creating => materializeLock = p
           /\ task[p].pc \in Activating => mapLock = p
BY DataPlaneAssumption DEF PlaneInv, TaskInv, TableInv, TableTypes, StoreInv, ByteInv, BlobInv, TypeInv, Fits

\* A step that changes nothing in the blob store.
LEMMA BlobsAsBefore ==
    ASSUME PlaneInv, NEW p \in Procs, BlobsSame
    PROVE  StoreStep /\ Spared(p) /\ UNCHANGED <<proc, now, refs>>
BY SparedAnyway DEF BlobsSame, blobVars, StoreStep

\* The start of a create, and the base of a derived one.
LEMMA PrepareSteps ==
    ASSUME PlaneInv, NEW p \in Procs
    PROVE  /\ \A w \in Workspaces, m \in Manifests : StartCreate(p, w, m) => PlaneStep
           /\ \A w \in Workspaces, m, base \in Manifests : StartDerive(p, w, base, m) => PlaneStep
           /\ DeriveBase(p) => PlaneStep
           /\ DropManifestRow(p) => PlaneStep
           /\ DropManifestRefs(p) => PlaneStep
<1> USE Before
<1>1. ASSUME NEW w \in Workspaces, NEW m \in Manifests, StartCreate(p, w, m) PROVE PlaneStep
  <2> DEFINE t == Task("create", w, m, {}, 0, 0, 0)
  <2>1. Becomes(p, t) /\ boot = "up" /\ task[p].pc = "idle" /\ proc[p].op = "idle"
    BY Zenon, <1>1, CreateTasks DEF StartCreate, Free, At
  <2>2. t.pc = "create" /\ Proper(t)
    BY DEF Task, Proper, Creating, Activating, Runs, Reads
  <2>3. StoreStep /\ Spared(p) /\ UNCHANGED <<proc, now, refs>>
    BY Zenon, <1>1, BlobsAsBefore DEF StartCreate
  <2> HIDE DEF t
  <2>4. OwnLocks(p)
    BY Zenon, <1>1 DEF StartCreate, LocksSame, OwnLocks
  <2> QED
    BY Zenon, <1>1, <2>1, <2>2, <2>3, <2>4, PlainStep DEF StartCreate, TablesSame, PlaneStep, Plain, Collecting
<1>2. ASSUME NEW w \in Workspaces, NEW m \in Manifests, NEW base \in Manifests, StartDerive(p, w, base, m)
      PROVE  PlaneStep
  <2> DEFINE t == Task("base", w, m, base, 0, 0, 0)
  <2>1. Becomes(p, t) /\ boot = "up" /\ task[p].pc = "idle" /\ proc[p].op = "idle"
    BY Zenon, <1>2, CreateTasks DEF StartDerive, Free, At
  <2>2. t.pc = "base" /\ Proper(t)
    BY DEF Task, Proper, Creating, Activating, Runs, Reads
  <2>3. StoreStep /\ Spared(p) /\ UNCHANGED <<proc, now, refs>>
    BY Zenon, <1>2, BlobsAsBefore DEF StartDerive
  <2> HIDE DEF t
  <2>4. OwnLocks(p)
    BY Zenon, <1>2 DEF StartDerive, LocksSame, OwnLocks
  <2> QED
    BY Zenon, <1>2, <2>1, <2>2, <2>3, <2>4, PlainStep DEF StartDerive, TablesSame, PlaneStep, Plain, Collecting
<1>3. ASSUME DeriveBase(p) PROVE PlaneStep
  <2>1. PICK pc \in {"create", "drop_row"} : Proceed(p, pc)
    BY Zenon, <1>3 DEF DeriveBase
  <2> DEFINE t == Task(pc, task[p].ws, task[p].man, task[p].todo, task[p].key, task[p].time, task[p].expires)
  <2>2. Becomes(p, t) /\ boot = "up" /\ task[p].pc = "base" /\ proc[p].op = "idle"
    BY Zenon, <1>3, <2>1, Going DEF DeriveBase, At, Goes, TaskPcs
  <2>3. t.pc \in {"create", "drop_row"} /\ Proper(t)
    BY Zenon, <2>2 DEF Task, Proper, Creating, Activating, Runs, Reads
  <2>4. StoreStep /\ Spared(p) /\ UNCHANGED <<proc, now, refs>>
    BY Zenon, <1>3, BlobsAsBefore DEF DeriveBase
  <2> HIDE DEF t
  <2>5. OwnLocks(p)
    BY Zenon, <1>3 DEF DeriveBase, LocksSame, OwnLocks
  <2> QED
    BY Zenon, <1>3, <2>2, <2>3, <2>4, <2>5, PlainStep DEF DeriveBase, TablesSame, PlaneStep, Plain, Collecting
<1>4. ASSUME DropManifestRow(p) PROVE PlaneStep
  <2> DEFINE t == Task("drop_refs", task[p].ws, task[p].man, task[p].todo, task[p].key, task[p].time, task[p].expires)
  <2>1. Becomes(p, t) /\ boot = "up" /\ task[p].pc = "drop_row" /\ proc[p].op = "idle"
    BY Zenon, <1>4, Going DEF DropManifestRow, At, Goes, TaskPcs
  <2>2. t.pc = "drop_refs" /\ Proper(t)
    BY Zenon DEF Task, Proper, Creating, Activating, Runs, Reads
  <2>3. StoreStep /\ Spared(p) /\ UNCHANGED <<proc, now, refs>>
    BY Zenon, <1>4, BlobsAsBefore DEF DropManifestRow
  <2> HIDE DEF t
  <2>4. OwnLocks(p)
    BY Zenon, <1>4 DEF DropManifestRow, LocksSame, OwnLocks
  <2>5. manifests' \in [DOMAIN manifests' -> Nat] /\ DOMAIN manifests' \subseteq Manifests
    BY Zenon, <1>4 DEF DropManifestRow
  <2> QED
    BY Zenon, <1>4, <2>1, <2>2, <2>3, <2>4, <2>5, PlainStep DEF DropManifestRow, PlaneStep, Plain, Collecting
<1>5. ASSUME DropManifestRefs(p) PROVE PlaneStep
  <2> DEFINE t == Task("idle", None, {}, {}, 0, 0, 0)
  <2>1. Becomes(p, t) /\ boot = "up" /\ task[p].pc = "drop_refs" /\ proc[p].op = "idle"
    BY Zenon, <1>5, Going DEF DropManifestRefs, At, Stops
  <2>2. t.pc = "idle" /\ Proper(t)
    BY Zenon DEF Task, Proper, Creating, Activating, Runs, Reads
  <2>3. StoreStep /\ UNCHANGED <<proc, now>>
    BY Zenon, <1>5, RefsSteps DEF DropManifestRefs, OnlyRefs, FilesSame, BlobRest, ReleaseReferences, StoreStep, PlaneInv
  <2>4. Spared(p)
    BY Zenon, <1>5, OnlyOwners, SparedByOthers DEF DropManifestRefs, PlaneInv
  <2> HIDE DEF t
  <2>5. OwnLocks(p)
    BY <1>5 DEF DropManifestRefs, LocksSame, OwnLocks
  <2> QED
    BY Zenon, <1>5, <2>1, <2>2, <2>3, <2>4, <2>5, PlainStep DEF DropManifestRefs, TablesSame, PlaneStep, Plain, Collecting
<1> QED
  BY Zenon, <1>1, <1>2, <1>3, <1>4, <1>5

\* A task that ends, with the lock it has.
LEMMA StopStep ==
    ASSUME PlaneInv, NEW p \in Procs, Stops(p), boot = "up", task[p].pc # "insert", TablesSame, now' = now,
           OwnLocks(p), Spared(p), \A q \in Procs \ {p} : proc'[q] = proc[q], proc'[p].op = "idle"
    PROVE  TaskInv' /\ TableInv' /\ ByteInv'
<1> DEFINE t == Task("idle", None, {}, {}, 0, 0, 0)
<1>1. t.pc = "idle" /\ Proper(t) /\ Becomes(p, t)
  BY Zenon DEF Task, Proper, Creating, Activating, Runs, Reads, Stops
<1> HIDE DEF t
<1> QED
  BY Zenon, <1>1, PlainStep, Before DEF TablesSame, Plain, Collecting

\* A create that goes on with its lock and its room.
LEMMA CreatingStep ==
    ASSUME PlaneInv, NEW p \in Procs, NEW t, Becomes(p, t), boot = "up",
           t.pc \in Creating \ {"insert"}, task[p].pc # "insert", t.key = 0,
           t.ws \in Workspaces, t.ws \notin DOMAIN workspaces,
           t.man \in Manifests, Used + Cardinality(t.man) =< WorkspaceQuota,
           UNCHANGED <<workspaces, dirs, artifacts, reserved, torn, nextKey, boot, recovering, now>>,
           manifests' \in [DOMAIN manifests' -> Nat], DOMAIN manifests' \subseteq Manifests,
           materializeLock \in {p, None}, materializeLock' = p, mapLock' = mapLock,
           Spared(p), \A q \in Procs \ {p} : proc'[q] = proc[q], proc'[p].op = "idle"
    PROVE  TaskInv' /\ TableInv' /\ ByteInv'
<1>1. /\ task'[p].pc = t.pc /\ task'[p].ws = t.ws /\ task'[p].man = t.man
      /\ t.pc \notin Runs \union Activating \union Reads \union Collecting
      /\ t.pc \notin {"end_row", "insert", "clear", "reserve", "open", "stream", "capture_insert"}
  BY DEF Becomes, Creating, Runs, Activating, Reads, Collecting
<1>2. Used' = Used
  BY Zenon DEF Used, Stored
<1>3. Fits(p)'
  BY Zenon, <1>1, <1>2 DEF Fits
<1>4. Bytes(p)'
  BY Zenon, <1>1 DEF Bytes
<1>5. Proper(t)
  BY Zenon, <1>1 DEF Proper
<1>6. OwnLocks(p)
  BY Zenon DEF OwnLocks
<1> QED
  BY Zenon, <1>1, <1>3, <1>4, <1>5, <1>6, OwnStep

\* A call of the blob store that returns to its caller.
LEMMA FinishStep ==
    ASSUME PlaneInv, NEW p \in Procs, Finish(p)
    PROVE  /\ StoreStep /\ Spared(p) /\ now' = now
           /\ proc'[p].op = "idle" /\ \A q \in Procs \ {p} : proc'[q] = proc[q]
<1>1. proc' = [proc EXCEPT ![p] = Idle] /\ proc \in [Procs -> Calls] /\ UNCHANGED <<refs, now>>
  BY Zenon, Before DEF Finish
<1> QED
  BY Zenon, <1>1, SparedAnyway DEF StoreStep, CallStep, Idle

\* A step of the call that p has made, of which its task learns at the end.
LEMMA CallsKept ==
    ASSUME PlaneInv, NEW p \in Procs, UNCHANGED planeVars, now' = now, task[p].pc \in Calling,
           \A q \in Procs \ {p} : proc'[q] = proc[q],
           \A r \in DOMAIN refs : refs[r] \in Nat /\ refs[r] > now => r \in DOMAIN refs' /\ refs'[r] = refs[r],
           DOMAIN refs' \subseteq DOMAIN refs
    PROVE  TaskInv' /\ TableInv' /\ ByteInv'
<1>1. TaskInv'
  BY Zenon DEF PlaneInv, TaskInv, planeVars
<1>2. TableInv'
  <2>1. UNCHANGED <<workspaces, dirs, manifests, reserved, torn, nextKey, materializeLock, mapLock, task, boot, recovering>>
    BY Zenon DEF planeVars
  <2> QED
    BY SMTT(30), <2>1 DEF PlaneInv, TableInv, TableTypes, TreesInv, Fits, Apart, Stored, Used
<1>3. Spared(p)
  BY Zenon DEF Spared, Keeps
<1>4. Bytes(p)'
  <2>1. Bytes(p) /\ task[p] \in TaskType /\ UNCHANGED <<task, artifacts>>
    BY Zenon DEF PlaneInv, ByteInv, TaskInv, planeVars
  <2> QED
    BY Zenon, <2>1 DEF Bytes, TaskType
<1>5. ByteInv'
  BY Zenon, <1>3, <1>4, ByteKept DEF PlaneInv, planeVars
<1> QED
  BY Zenon, <1>1, <1>2, <1>5

\* The owners of references.
LEMMA OwnersHere ==
    /\ \A w \in Workspaces : WorkspaceOwner(w) \in Owners /\ ArtifactOwner(w) \in Owners
    /\ \A m \in Manifests : ManifestOwner(m) \in Owners
    /\ \A p \in Procs : ReaderOwner(p) \in Owners
    /\ Manifests \subseteq SUBSET Digests /\ {Output} \in SUBSET Digests
BY Zenon, DataPlaneAssumption DEF WorkspaceOwner, ManifestOwner, ArtifactOwner, ReaderOwner

\* What a create under its lock has.
LEMMA CreatingBefore ==
    ASSUME PlaneInv, NEW p \in Procs, task[p].pc \in Creating
    PROVE  /\ materializeLock = p /\ task[p].ws \in Workspaces \ DOMAIN workspaces
           /\ task[p].man \in Manifests /\ Used + Cardinality(task[p].man) =< WorkspaceQuota
           /\ task[p].pc # "insert" => task[p].key = 0
<1>1. Fits(p) /\ Proper(task[p])
  BY DEF PlaneInv, TableInv, TaskInv
<1> QED
  BY Zenon, <1>1 DEF Fits, Proper

\* The lock, the lookups and the room of a create, and the hashing of its files.
LEMMA VerifySteps ==
    ASSUME PlaneInv, NEW p \in Procs
    PROVE  /\ CreateAdmit(p) => PlaneStep
           /\ CreateVerify(p) => PlaneStep
           /\ CreateVerified(p) => PlaneStep
           /\ CreateRefused(p) => PlaneStep
           /\ CreateDropped(p) => PlaneStep
<1> USE Before
<1>1. ASSUME CreateAdmit(p) PROVE PlaneStep
  <2>1. StoreStep /\ Spared(p) /\ UNCHANGED <<proc, now, refs>>
    BY Zenon, <1>1, BlobsAsBefore DEF CreateAdmit
  <2>2. boot = "up" /\ task[p].pc = "create" /\ proc[p].op = "idle"
    BY <1>1 DEF CreateAdmit, At
  <2>3. CASE End(p) /\ UNCHANGED materializeLock
    <3>1. Stops(p) /\ OwnLocks(p)
      BY Zenon, <1>1, <2>3, Going DEF CreateAdmit, OwnLocks
    <3> QED
      BY ZenonT(30), <1>1, <2>1, <2>2, <3>1, StopStep DEF CreateAdmit, PlaneStep
  <2>4. CASE /\ task[p].ws \notin DOMAIN workspaces
             /\ Used + Cardinality(task[p].man) =< WorkspaceQuota
             /\ task' = [task EXCEPT ![p].pc = "verify", ![p].todo = task[p].man]
             /\ materializeLock' = p
    <3> DEFINE t == Task("verify", task[p].ws, task[p].man, task[p].man, task[p].key, task[p].time, task[p].expires)
    <3>1. task'[p].pc = "verify"
      BY Zenon, <2>4 DEF TaskInv, TaskType
    <3>2. Becomes(p, t)
      BY Zenon, <1>1, <3>1, CreateTasks DEF Stops, Becomes, Task
    <3>3. t.pc = "verify" /\ t.ws = task[p].ws /\ t.man = task[p].man /\ t.key = 0
      BY Zenon, <2>2 DEF Task, Proper
    <3>4. t.ws \in Workspaces /\ t.man \in Manifests
      BY Zenon, <2>2, <3>3 DEF Proper
    <3> HIDE DEF t
    <3> QED
      BY ZenonT(30), <1>1, <2>1, <2>2, <2>4, <3>2, <3>3, <3>4, CreatingStep DEF CreateAdmit, TablesSame, PlaneStep, Creating
  <2> QED
    BY Zenon, <1>1, <2>3, <2>4 DEF CreateAdmit
<1>2. ASSUME CreateVerify(p) PROVE PlaneStep
  <2>1. PICK d \in task[p].todo : VerifyStart(p, d)
    BY Zenon, <1>2 DEF CreateVerify
  <2>2. d \in Digests /\ task[p].pc \in Calling
    BY Zenon, <1>2 DEF CreateVerify, At, Calling, TaskType
  <2>3. UNCHANGED <<refs, now>> /\ \A q \in Procs \ {p} : proc'[q] = proc[q]
    BY Zenon, <2>1 DEF VerifyStart
  <2>4. StoreStep
    BY Zenon, <2>1, <2>2 DEF StoreStep, CallStep
  <2> QED
    BY Zenon, <1>2, <2>2, <2>3, <2>4, CallsKept DEF CreateVerify, PlaneStep
<1>3. ASSUME CreateVerified(p) PROVE PlaneStep
  <2>1. task[p].pc = "verify" /\ boot = "up" /\ Finish(p)
    BY Zenon, <1>3 DEF CreateVerified, Returned
  <2>2. PICK todo : Becomes(p, Task("verify", task[p].ws, task[p].man, todo, task[p].key, task[p].time, task[p].expires))
    BY Zenon, <1>3, CreateTasks
  <2> DEFINE t == Task("verify", task[p].ws, task[p].man, todo, task[p].key, task[p].time, task[p].expires)
  <2>3. t.pc = "verify" /\ t.ws = task[p].ws /\ t.man = task[p].man /\ t.key = task[p].key /\ Becomes(p, t)
    BY Zenon, <2>2 DEF Task
  <2> HIDE DEF t
  <2> QED
    BY ZenonT(30), <1>3, <2>1, <2>3, FinishStep, CreatingBefore, CreatingStep
    DEF CreateVerified, TablesSame, LocksSame, PlaneStep, Creating
<1>4. ASSUME CreateRefused(p) PROVE PlaneStep
  <2>1. task[p].pc = "verify" /\ boot = "up" /\ Finish(p) /\ Stops(p) /\ materializeLock = p
    BY Zenon, <1>4, Going DEF CreateRefused, Creating
  <2>2. OwnLocks(p)
    BY Zenon, <1>4, <2>1 DEF CreateRefused, OwnLocks
  <2> QED
    BY Zenon, <1>4, <2>1, <2>2, FinishStep, StopStep DEF CreateRefused, PlaneStep
<1>5. ASSUME CreateDropped(p) PROVE PlaneStep
  <2>1. task[p].pc \in {"verify", "tree"} /\ boot = "up" /\ Stops(p) /\ materializeLock = p
    BY Zenon, <1>5, Going DEF CreateDropped, At, Creating
  <2>2. OwnLocks(p)
    BY Zenon, <1>5, <2>1 DEF CreateDropped, OwnLocks
  <2>3. Aborts(p)
    BY Zenon, <1>5 DEF CreateDropped, At, Aborts, FilesSame, PlaneInv, StoreInv
  <2>4. StoreStep
    BY Zenon, <2>3 DEF StoreStep, CallStep
  <2>5. Spared(p) /\ now' = now
    BY Zenon, <1>5, SparedAnyway DEF CreateDropped, FilesSame
  <2>6. proc'[p].op = "idle" /\ \A q \in Procs \ {p} : proc'[q] = proc[q]
    BY Zenon, <1>5 DEF CreateDropped, Idle
  <2> QED
    BY Zenon, <1>5, <2>1, <2>2, <2>4, <2>5, <2>6, StopStep DEF CreateDropped, PlaneStep
<1> QED
  BY Zenon, <1>1, <1>2, <1>3, <1>4, <1>5

\* The references and the retained manifest of a create.
LEMMA RetainSteps ==
    ASSUME PlaneInv, NEW p \in Procs
    PROVE  /\ CreateRetain(p) => PlaneStep
           /\ StoreManifestRow(p) => PlaneStep
           /\ StoreManifestRefs(p) => PlaneStep
<1> USE Before
<1>1. ASSUME CreateRetain(p) PROVE PlaneStep
  <2>1. boot = "up" /\ task[p].pc = "verify" /\ proc[p].op = "idle" /\ task[p].pc \in Creating
    BY Zenon, <1>1 DEF CreateRetain, At, Creating
  <2>2. /\ materializeLock = p /\ task[p].ws \in Workspaces \ DOMAIN workspaces /\ task[p].key = 0
        /\ task[p].man \in Manifests /\ Used + Cardinality(task[p].man) =< WorkspaceQuota
    BY Zenon, <2>1, CreatingBefore
  <2>3. CASE End(p) /\ materializeLock' = None /\ BlobsSame
    <3>1. Stops(p) /\ OwnLocks(p)
      BY Zenon, <1>1, <2>2, <2>3, Going DEF CreateRetain, OwnLocks
    <3>2. StoreStep /\ Spared(p) /\ UNCHANGED <<proc, now, refs>>
      BY Zenon, <2>3, BlobsAsBefore
    <3> QED
      BY Zenon, <1>1, <2>1, <3>1, <3>2, StopStep DEF CreateRetain, PlaneStep
  <2>4. CASE /\ Retain(WorkspaceOwner(task[p].ws), task[p].man, now + Retention)
             /\ task' = [task EXCEPT ![p].pc = "manifest", ![p].time = now + Retention]
             /\ OnlyRefs /\ UNCHANGED materializeLock
    <3> DEFINE t == Task("manifest", task[p].ws, task[p].man, task[p].todo, task[p].key,
                         now + Retention, task[p].expires)
    <3>1. task'[p].pc = "manifest"
      BY Zenon, <2>4 DEF TaskInv, TaskType
    <3>2. Becomes(p, t)
      BY Zenon, <1>1, <3>1, CreateTasks DEF Stops, Becomes, Task
    <3>3. t.pc = "manifest" /\ t.ws = task[p].ws /\ t.man = task[p].man /\ t.key = task[p].key
      BY DEF Task
    <3>4. StoreStep /\ UNCHANGED <<proc, now>>
      BY Zenon, <2>2, <2>4, RefsSteps, OwnersHere DEF OnlyRefs, FilesSame, BlobRest, Retain, StoreStep, PlaneInv
    <3>5. Spared(p)
      BY Zenon, <2>4, OnlyOwners, SparedByOthers DEF PlaneInv
    <3> HIDE DEF t
    <3> QED
      BY ZenonT(30), <1>1, <2>1, <2>2, <2>4, <3>2, <3>3, <3>4, <3>5, CreatingStep DEF CreateRetain, TablesSame, PlaneStep, Creating
  <2> QED
    BY Zenon, <1>1, <2>3, <2>4 DEF CreateRetain
<1>2. ASSUME StoreManifestRow(p) PROVE PlaneStep
  <2>1. boot = "up" /\ task[p].pc = "manifest" /\ proc[p].op = "idle" /\ task[p].pc \in Creating
    BY Zenon, <1>2 DEF StoreManifestRow, At, Creating
  <2>2. /\ materializeLock = p /\ task[p].ws \in Workspaces \ DOMAIN workspaces /\ task[p].key = 0
        /\ task[p].man \in Manifests /\ Used + Cardinality(task[p].man) =< WorkspaceQuota
    BY Zenon, <2>1, CreatingBefore
  <2>3. PICK e \in Nat : Becomes(p, Task("manifest_refs", task[p].ws, task[p].man, task[p].todo, task[p].key,
                                         task[p].time, e))
    BY Zenon, <1>2, CreateTasks
  <2> DEFINE t == Task("manifest_refs", task[p].ws, task[p].man, task[p].todo, task[p].key, task[p].time, e)
  <2>4. t.pc = "manifest_refs" /\ t.ws = task[p].ws /\ t.man = task[p].man /\ t.key = task[p].key /\ Becomes(p, t)
    BY Zenon, <2>3 DEF Task
  <2>5. manifests' \in [DOMAIN manifests' -> Nat] /\ DOMAIN manifests' \subseteq Manifests
    <3> DEFINE x == IF task[p].man \in DOMAIN manifests /\ manifests[task[p].man] > now + Retention
                    THEN manifests[task[p].man] ELSE now + Retention
    <3>1. x \in Nat
      OBVIOUS
    <3>2. manifests' = [k \in DOMAIN manifests \union {task[p].man} |->
                           IF k = task[p].man THEN x ELSE manifests[k]]
      BY Zenon, <1>2 DEF StoreManifestRow, Insert
    <3> HIDE DEF x
    <3> QED
      BY Zenon, <2>2, <3>1, <3>2
  <2>6. StoreStep /\ Spared(p) /\ UNCHANGED <<proc, now, refs>>
    BY Zenon, <1>2, BlobsAsBefore DEF StoreManifestRow
  <2> HIDE DEF t
  <2> QED
    BY <1>2, <2>1, <2>2, <2>4, <2>5, <2>6, CreatingStep DEF StoreManifestRow, LocksSame, PlaneStep, Creating
<1>3. ASSUME StoreManifestRefs(p) PROVE PlaneStep
  <2>1. boot = "up" /\ task[p].pc = "manifest_refs" /\ proc[p].op = "idle" /\ task[p].pc \in Creating
    BY Zenon, <1>3 DEF StoreManifestRefs, At, Creating
  <2>2. /\ materializeLock = p /\ task[p].ws \in Workspaces \ DOMAIN workspaces /\ task[p].key = 0
        /\ task[p].man \in Manifests /\ Used + Cardinality(task[p].man) =< WorkspaceQuota
    BY Zenon, <2>1, CreatingBefore
  <2>3. CASE End(p) /\ materializeLock' = None /\ BlobsSame
    <3>1. Stops(p) /\ OwnLocks(p)
      BY Zenon, <1>3, <2>2, <2>3, Going DEF StoreManifestRefs, OwnLocks
    <3>2. StoreStep /\ Spared(p) /\ UNCHANGED <<proc, now, refs>>
      BY <2>3, BlobsAsBefore
    <3> QED
      BY Zenon, <1>3, <2>1, <3>1, <3>2, StopStep DEF StoreManifestRefs, PlaneStep
  <2>4. CASE /\ Retain(ManifestOwner(task[p].man), task[p].man, task[p].expires)
             /\ Proceed(p, "tree") /\ OnlyRefs /\ UNCHANGED materializeLock
    <3> DEFINE t == Task("tree", task[p].ws, task[p].man, task[p].todo, task[p].key, task[p].time, task[p].expires)
    <3>1. Becomes(p, t)
      BY Zenon, <2>4, Going DEF Goes, TaskPcs, Creating
    <3>2. t.pc = "tree" /\ t.ws = task[p].ws /\ t.man = task[p].man /\ t.key = task[p].key
      BY Zenon DEF Task
    <3>3. task[p].expires \in Nat
      BY Zenon DEF TaskType
    <3>4. StoreStep /\ UNCHANGED <<proc, now>>
      BY Zenon, <2>2, <2>4, <3>3, RefsSteps, OwnersHere DEF OnlyRefs, FilesSame, BlobRest, Retain, StoreStep, PlaneInv
    <3>5. Spared(p)
      BY Zenon, <2>4, OnlyOwners, SparedByOthers DEF PlaneInv
    <3> HIDE DEF t
    <3> QED
      BY Zenon, <1>3, <2>1, <2>2, <2>4, <3>1, <3>2, <3>4, <3>5, CreatingStep DEF StoreManifestRefs, TablesSame, PlaneStep, Creating
  <2> QED
    BY Zenon, <1>3, <2>3, <2>4 DEF StoreManifestRefs
<1> QED
  BY Zenon, <1>1, <1>2, <1>3

\* No other create has the lock.
LEMMA CreateAlone ==
    ASSUME TableInv, NEW p \in Procs, task[p].pc \in Creating, NEW q \in Procs \ {p}
    PROVE  task[q].pc \notin Creating
BY DEF TableInv, Fits

\* The tree of a create is put in place under a key of its own.
LEMMA CreateTreeStep ==
    ASSUME PlaneInv, NEW p \in Procs, CreateTree(p)
    PROVE  PlaneStep
<1> USE Before
<1> DEFINE t == Task("insert", task[p].ws, task[p].man, task[p].todo, nextKey, task[p].time, task[p].expires)
<1>1. boot = "up" /\ task[p].pc = "tree" /\ proc[p].op = "idle" /\ task[p].pc \in Creating
  BY Zenon DEF CreateTree, At, Creating
<1>2. /\ materializeLock = p /\ task[p].ws \in Workspaces \ DOMAIN workspaces
      /\ task[p].man \in Manifests /\ Used + Cardinality(task[p].man) =< WorkspaceQuota
  BY Zenon, <1>1, CreatingBefore
<1>3. Becomes(p, t) /\ t.pc = "insert" /\ t.ws = task[p].ws /\ t.man = task[p].man /\ t.key = nextKey
  BY Zenon, CreateTasks DEF Task
<1> HIDE DEF t
<1>4. StoreStep /\ Spared(p) /\ UNCHANGED <<proc, now, refs>>
  BY Zenon, BlobsAsBefore DEF CreateTree
<1>5. /\ task'[p].pc = "insert" /\ task'[p].ws = task[p].ws /\ task'[p].man = task[p].man
      /\ task'[p].key = nextKey /\ \A q \in Procs \ {p} : task'[q] = task[q]
  BY Zenon, <1>3 DEF Becomes
<1>6. TaskInv'
  <2>1. Proper(t)
    BY Zenon, <1>2, <1>3 DEF Proper, Activating, Runs, Reads
  <2> QED
    BY Zenon, <1>1, <1>3, <1>4, <2>1, TaskKept DEF CreateTree, Collecting
<1>7. ByteInv'
  <2>1. Bytes(p)'
    BY <1>5 DEF Bytes, Runs
  <2> QED
    BY Zenon, <1>4, <1>5, <2>1, ByteKept DEF CreateTree, PlaneInv
<1>8. TableInv'
  <2>1. nextKey \in 1..MaxKeys /\ nextKey' = nextKey + 1 /\ MaxKeys \in Nat /\ dirs' = dirs \union {nextKey}
    BY DataPlaneAssumption DEF CreateTree, TableTypes
  <2>2. UNCHANGED <<workspaces, manifests, reserved, torn, boot, recovering, materializeLock, mapLock>>
    BY Zenon DEF CreateTree, LocksSame
  <2>3. TableTypes'
    BY SMTT(30), <2>1, <2>2 DEF TableTypes
  <2>4. \A w \in DOMAIN workspaces : workspaces[w].key \in Nat /\ workspaces[w].key < nextKey
    BY SMTT(30) DEF PlaneInv, TableInv, TreesInv, TableTypes, Row
  <2>5. TreesInv'
    <3>1. ASSUME NEW k \in dirs'
          PROVE  \/ \E w \in DOMAIN workspaces : workspaces[w].key = k
                 \/ \E q \in Procs : task'[q].pc = "insert" /\ task'[q].key = k
      <4>1. CASE k = nextKey
        BY Zenon, <1>5, <4>1
      <4>2. CASE k \in dirs
        <5>1. \/ \E w \in DOMAIN workspaces : workspaces[w].key = k
              \/ \E q \in Procs : task[q].pc = "insert" /\ task[q].key = k
          BY Zenon, <4>2 DEF PlaneInv, TableInv, TreesInv
        <5> QED
          BY Zenon, <1>1, <1>5, <5>1
      <4> QED
        BY <2>1, <3>1, <4>1, <4>2
    <3>2. TreesInv /\ \A w \in DOMAIN workspaces : workspaces[w].key < nextKey + 1
      BY SMTT(30), <2>1, <2>4 DEF PlaneInv, TableInv
    <3>3. \A w \in DOMAIN workspaces' : workspaces'[w].key \in dirs' \/ w \in torn'
      BY Zenon, <2>1, <2>2, <3>2 DEF TreesInv
    <3> QED
      BY Zenon, <2>1, <2>2, <3>1, <3>2, <3>3 DEF TreesInv
  <2>6. Stored' = Stored /\ Used' = Used
    BY Zenon, <2>2 DEF Stored, Used
  <2>7. ASSUME NEW q \in Procs PROVE Fits(q)'
    <3>1. CASE q = p
      BY SMTT(30), <1>2, <1>5, <2>1, <2>2, <2>4, <2>6, <3>1 DEF Fits, Activating, Runs
    <3>2. CASE q # p
      <4>1. task[q].pc \notin Creating /\ task'[q] = task[q] /\ Fits(q)
        BY Zenon, <1>1, <1>5, <3>2, CreateAlone DEF PlaneInv, TableInv
      <4> QED
        BY Zenon, <2>2, <4>1 DEF Fits, Creating
    <3> QED
      BY Zenon, <3>1, <3>2
  <2>8. ASSUME NEW q \in Procs, NEW r \in Procs, q # r PROVE Apart(q, r)'
    <3>1. Apart(q, r) /\ (q # p => task'[q] = task[q]) /\ (r # p => task'[r] = task[r])
      BY Zenon, <1>5, <2>8 DEF PlaneInv, TableInv
    <3> QED
      BY Zenon, <1>5, <3>1 DEF Apart, Runs
  <2> QED
    BY Zenon, <2>3, <2>5, <2>6, <2>7, <2>8 DEF PlaneInv, TableInv
<1> QED
  BY <1>4, <1>6, <1>7, <1>8 DEF PlaneStep

\* A create that fails takes its tree with it.
LEMMA CreateTreeFailedStep ==
    ASSUME PlaneInv, NEW p \in Procs, CreateTreeFailed(p)
    PROVE  PlaneStep
<1> USE Before
<1> DEFINE t == Task("idle", None, {}, {}, 0, 0, 0)
<1>1. boot = "up" /\ task[p].pc \in {"tree", "insert"} /\ proc[p].op = "idle" /\ task[p].pc \in Creating
  BY Zenon DEF CreateTreeFailed, At, Creating
<1>2. materializeLock = p /\ (task[p].pc = "tree" => task[p].key = 0)
  BY Zenon, <1>1, CreatingBefore
<1>3. Becomes(p, t) /\ t.pc = "idle"
  BY Zenon, Going DEF CreateTreeFailed, Task, Stops
<1> HIDE DEF t
<1>4. StoreStep /\ UNCHANGED <<proc, now>>
  BY Zenon, RefsSteps DEF CreateTreeFailed, OnlyRefs, FilesSame, BlobRest, ReleaseReferences, StoreStep, PlaneInv
<1>5. Spared(p)
  BY Zenon, OnlyOwners, SparedByOthers DEF CreateTreeFailed, PlaneInv
<1>6. task'[p].pc = "idle" /\ \A q \in Procs \ {p} : task'[q] = task[q]
  BY <1>3 DEF Becomes
<1>7. TaskInv'
  <2>1. Proper(t)
    BY Zenon, <1>3 DEF Proper, Creating, Activating, Runs, Reads
  <2> QED
    BY Zenon, <1>1, <1>3, <1>4, <2>1, TaskKept DEF CreateTreeFailed, Collecting
<1>8. ByteInv'
  <2>1. Bytes(p)'
    BY Zenon, <1>6 DEF Bytes, Runs
  <2> QED
    BY Zenon, <1>4, <1>5, <1>6, <2>1, ByteKept DEF CreateTreeFailed, PlaneInv
<1>9. TableInv'
  <2>1. UNCHANGED <<workspaces, manifests, reserved, torn, nextKey, boot, recovering, mapLock>>
    BY Zenon DEF CreateTreeFailed
  <2>2. dirs' = dirs \ {task[p].key} /\ materializeLock' = None
    BY Zenon DEF CreateTreeFailed
  <2>3. TableTypes'
    BY Zenon, <2>1, <2>2 DEF TableTypes
  <2>4. \A w \in DOMAIN workspaces : workspaces[w].key # task[p].key
    <3>1. \A w \in DOMAIN workspaces : workspaces[w].key \in 1..MaxKeys
      BY DEF TableTypes, Row
    <3>2. CASE task[p].pc = "insert"
      BY Zenon, <3>2 DEF PlaneInv, TableInv, Fits
    <3>3. CASE task[p].pc = "tree"
      <4>1. MaxKeys \in Nat /\ task[p].key = 0
        BY <1>2, <3>3, DataPlaneAssumption
      <4>2. 0 \notin 1..MaxKeys
        BY <4>1
      <4> QED
        BY Zenon, <3>1, <4>1, <4>2
    <3> QED
      BY Zenon, <1>1, <3>2, <3>3
  <2>5. TreesInv'
    <3>1. ASSUME NEW k \in dirs'
          PROVE  \/ \E w \in DOMAIN workspaces : workspaces[w].key = k
                 \/ \E q \in Procs : task'[q].pc = "insert" /\ task'[q].key = k
      <4>1. k \in dirs /\ k # task[p].key
        BY Zenon, <2>2, <3>1
      <4>2. \/ \E w \in DOMAIN workspaces : workspaces[w].key = k
            \/ \E q \in Procs : task[q].pc = "insert" /\ task[q].key = k
        BY Zenon, <4>1 DEF PlaneInv, TableInv, TreesInv
      <4> QED
        BY Zenon, <1>6, <4>1, <4>2
    <3> QED
      BY Zenon, <2>1, <2>2, <2>4, <3>1 DEF PlaneInv, TableInv, TreesInv
  <2>6. Stored' = Stored /\ Used' = Used
    BY Zenon, <2>1 DEF Stored, Used
  <2>7. ASSUME NEW q \in Procs PROVE Fits(q)'
    <3>1. CASE q = p
      BY Zenon, <1>6, <3>1 DEF Fits, Activating, Runs, Creating
    <3>2. CASE q # p
      <4>1. task[q].pc \notin Creating /\ task'[q] = task[q] /\ Fits(q)
        BY Zenon, <1>1, <1>6, <3>2, CreateAlone DEF PlaneInv, TableInv
      <4> QED
        BY Zenon, <2>1, <4>1 DEF Fits, Creating
    <3> QED
      BY <3>1, <3>2
  <2>8. ASSUME NEW q \in Procs, NEW r \in Procs, q # r PROVE Apart(q, r)'
    <3>1. Apart(q, r) /\ (q # p => task'[q] = task[q]) /\ (r # p => task'[r] = task[r])
      BY Zenon, <1>6, <2>8 DEF PlaneInv, TableInv
    <3> QED
      BY Zenon, <1>6, <3>1 DEF Apart, Runs
  <2> QED
    BY <2>3, <2>5, <2>6, <2>7, <2>8 DEF PlaneInv, TableInv
<1> QED
  BY Zenon, <1>4, <1>7, <1>8, <1>9 DEF PlaneStep

\* The row of a create is inserted; what is then stored is counted in DataPlaneProofs.
LEMMA CreateInsertStep ==
    ASSUME PlaneInv, NEW p \in Procs, CreateInsert(p), IsFiniteSet(Stored'), Used' =< WorkspaceQuota
    PROVE  PlaneStep
<1> USE Before
<1> DEFINE t == Task("idle", None, {}, {}, 0, 0, 0)
           ws == task[p].ws
           row == [man |-> task[p].man, key |-> task[p].key, expires |-> task[p].time]
<1>1. boot = "up" /\ task[p].pc = "insert" /\ proc[p].op = "idle" /\ task[p].pc \in Creating
  BY DEF CreateInsert, At, Creating
<1>2. /\ materializeLock = p /\ ws \in Workspaces /\ ws \notin DOMAIN workspaces
      /\ task[p].man \in Manifests /\ Used + Cardinality(task[p].man) =< WorkspaceQuota
  BY <1>1, CreatingBefore
<1>3. Becomes(p, t) /\ t.pc = "idle"
  BY Zenon, Going DEF CreateInsert, Task, Stops
<1> HIDE DEF t
<1>4. StoreStep /\ Spared(p) /\ UNCHANGED <<proc, now, refs>>
  BY BlobsAsBefore DEF CreateInsert
<1>5. task'[p].pc = "idle" /\ \A q \in Procs \ {p} : task'[q] = task[q]
  BY <1>3 DEF Becomes
<1>6. TaskInv'
  <2>1. Proper(t)
    BY <1>3 DEF Proper, Creating, Activating, Runs, Reads
  <2> QED
    BY <1>1, <1>3, <1>4, <2>1, TaskKept DEF CreateInsert, Collecting
<1>7. ByteInv'
  <2>1. Bytes(p)'
    BY <1>5 DEF Bytes, Runs
  <2> QED
    BY Zenon, <1>4, <1>5, <2>1, ByteKept DEF CreateInsert, PlaneInv
<1>8. TableInv'
  <2>1. UNCHANGED <<dirs, manifests, reserved, torn, nextKey, boot, recovering, mapLock>> /\ materializeLock' = None
    BY Zenon DEF CreateInsert
  <2>2. workspaces' = Insert(workspaces, ws, row)
    BY Zenon DEF CreateInsert
  <2>3. /\ task[p].key \in dirs /\ task[p].key < nextKey
        /\ \A w \in DOMAIN workspaces : workspaces[w].key # task[p].key
    BY Zenon, <1>1 DEF PlaneInv, TableInv, Fits
  <2>4. row \in Row /\ row.key = task[p].key /\ row.man = task[p].man
    BY Zenon, <1>2, <2>3 DEF Row, TableTypes, TaskType
  <2> HIDE DEF row
  <2>5. /\ DOMAIN workspaces' = DOMAIN workspaces \union {ws} /\ workspaces'[ws] = row
        /\ \A w \in DOMAIN workspaces : workspaces'[w] = workspaces[w]
        /\ workspaces' \in [DOMAIN workspaces' -> Row]
    BY Zenon, <1>2, <2>2, <2>4 DEF Insert, TableTypes
  <2>6. TableTypes'
    BY Zenon, <1>2, <2>1, <2>5 DEF TableTypes
  <2>7. TreesInv'
    <3> USE DEF TreesInv
    <3>1. TreesInv
      BY Zenon DEF PlaneInv, TableInv
    <3>2. \A w \in DOMAIN workspaces' : workspaces'[w].key \in dirs' \/ w \in torn'
      BY Zenon, <2>1, <2>3, <2>4, <2>5, <3>1
    <3>3. ASSUME NEW k \in dirs'
          PROVE  \/ \E w \in DOMAIN workspaces' : workspaces'[w].key = k
                 \/ \E q \in Procs : task'[q].pc = "insert" /\ task'[q].key = k
      <4>1. \/ \E w \in DOMAIN workspaces : workspaces[w].key = k
            \/ \E q \in Procs : task[q].pc = "insert" /\ task[q].key = k
        BY Zenon, <2>1, <3>1, <3>3
      <4> QED
        BY Zenon, <1>5, <2>4, <2>5, <4>1
    <3>4. \A w \in DOMAIN workspaces' : workspaces'[w].key < nextKey'
      BY Zenon, <2>1, <2>3, <2>4, <2>5, <3>1
    <3>5. \A v, w \in DOMAIN workspaces' : workspaces'[v].key = workspaces'[w].key => v = w
      BY SMTT(30), <2>3, <2>4, <2>5, <3>1
    <3> QED
      BY Zenon, <3>2, <3>3, <3>4, <3>5
  <2>8. ASSUME NEW q \in Procs PROVE Fits(q)'
    <3>1. CASE q = p
      BY <1>5, <3>1 DEF Fits, Activating, Runs, Creating
    <3>2. CASE q # p
      <4>1. task[q].pc \notin Creating /\ task'[q] = task[q] /\ Fits(q)
        BY ZenonT(30), <1>1, <1>5, <3>2, CreateAlone DEF PlaneInv, TableInv
      <4> QED
        BY Zenon, <2>1, <2>5, <4>1 DEF Fits, Creating
    <3> QED
      BY <3>1, <3>2
  <2>9. ASSUME NEW q \in Procs, NEW r \in Procs, q # r PROVE Apart(q, r)'
    <3>1. Apart(q, r) /\ (q # p => task'[q] = task[q]) /\ (r # p => task'[r] = task[r])
      BY <1>5, <2>9 DEF PlaneInv, TableInv
    <3> QED
      BY <1>5, <3>1 DEF Apart, Runs
  <2> QED
    BY Zenon, <2>6, <2>7, <2>8, <2>9 DEF TableInv
<1> QED
  BY <1>4, <1>6, <1>7, <1>8 DEF PlaneStep

-----------------------------------------------------------------------------
(* Executions.                                                               *)

\* Rows of which only the expiry changes.
LEMMA ExpiryTables ==
    ASSUME TableInv, NEW p \in Procs, \A q \in Procs \ {p} : task'[q] = task[q],
           workspaces' \in [DOMAIN workspaces' -> Row], DOMAIN workspaces' = DOMAIN workspaces,
           \A w \in DOMAIN workspaces : workspaces'[w].key = workspaces[w].key /\ workspaces'[w].man = workspaces[w].man,
           UNCHANGED <<dirs, manifests, reserved, torn, nextKey, boot, recovering, materializeLock, mapLock>>,
           task[p].pc # "insert", Fits(p)',
           \A q \in Procs \ {p} : task[q].pc \in {"clear", "reserve"} \union Runs =>
                                     workspaces'[task[q].ws].expires = None,
           \A q \in Procs \ {p} : Apart(p, q)' /\ Apart(q, p)'
    PROVE  TableInv'
<1>1. TableTypes'
  BY DEF TableInv, TableTypes
<1>2. Stored' = Stored /\ Used' = Used
  <2>1. Stored' = UNION {{w} \X workspaces'[w].man : w \in DOMAIN workspaces}
    BY DEF Stored
  <2>2. {{w} \X workspaces'[w].man : w \in DOMAIN workspaces} = {{w} \X workspaces[w].man : w \in DOMAIN workspaces}
    OBVIOUS
  <2> QED
    BY Zenon, <2>1, <2>2 DEF Stored, Used
<1>3. TreesInv'
  <2>1. \A k \in dirs : (\E q \in Procs : task[q].pc = "insert" /\ task[q].key = k) =>
                           \E q \in Procs : task'[q].pc = "insert" /\ task'[q].key = k
    OBVIOUS
  <2>2. \A k : (\E w \in DOMAIN workspaces : workspaces[w].key = k) =>
                  \E w \in DOMAIN workspaces' : workspaces'[w].key = k
    OBVIOUS
  <2> QED
    BY <2>1, <2>2 DEF TableInv, TreesInv
<1>4. ASSUME NEW q \in Procs PROVE Fits(q)'
  <2>1. CASE q # p
    BY <1>2, <2>1 DEF TableInv, Fits
  <2> QED
    BY <2>1
<1>5. ASSUME NEW q \in Procs, NEW r \in Procs, q # r PROVE Apart(q, r)'
  <2>1. CASE q # p /\ r # p
    BY ZenonT(30), <1>5, <2>1 DEF TableInv, Apart
  <2> QED
    BY Zenon, <1>5, <2>1
<1> QED
  BY Zenon, <1>1, <1>2, <1>3, <1>4, <1>5 DEF TableInv

\* The execution of a workspace that has none gets its row in the journal, or does not.
LEMMA ReserveTables ==
    ASSUME TableInv, NEW p \in Procs, \A q \in Procs \ {p} : task'[q] = task[q], task[p].pc = "reserve",
           task[p].ws \in Workspaces,
           UNCHANGED <<workspaces, dirs, manifests, torn, nextKey, boot, recovering, materializeLock>>,
           reserved' \in {reserved, reserved \union {task[p].ws}}, mapLock' = None,
           \/ task'[p].pc = "idle"
           \/ task'[p].pc = "running" /\ task'[p].ws = task[p].ws /\ task[p].ws \in reserved'
    PROVE  TableInv'
<1>1. mapLock = p /\ task[p].ws \notin reserved /\ task[p].ws \in DOMAIN workspaces
      /\ workspaces[task[p].ws].expires = None
  BY Zenon DEF TableInv, Fits, Activating
<1>2. \A q \in Procs \ {p} : /\ task[q].pc \notin Activating
                             /\ task[q].pc \in Runs \union {"end_row"} => task[q].ws \in reserved
  BY <1>1 DEF TableInv, Fits
<1>3. TableTypes'
  BY DEF TableInv, TableTypes
<1>4. Stored' = Stored /\ Used' = Used
  BY DEF Stored, Used
<1>5. TreesInv'
  <2>1. \A k \in dirs : (\E q \in Procs : task[q].pc = "insert" /\ task[q].key = k) =>
                           \E q \in Procs : task'[q].pc = "insert" /\ task'[q].key = k
    OBVIOUS
  <2> QED
    BY ZenonT(30), <2>1 DEF TableInv, TreesInv
<1>6. ASSUME NEW q \in Procs PROVE Fits(q)'
  <2>1. CASE q # p
    <3>1. Fits(q) /\ task'[q] = task[q] /\ reserved \subseteq reserved' /\ task[q].pc \notin Activating
      BY Zenon, <1>2, <2>1 DEF TableInv
    <3>2. task[q].pc = "end_row" => task[q].ws \in reserved
      BY Zenon, <1>2, <2>1
    <3> QED
      BY Zenon, <1>4, <3>1, <3>2 DEF Fits
  <2>2. CASE q = p
    BY Zenon, <1>1, <2>2 DEF Fits, Creating, Activating, Runs
  <2> QED
    BY Zenon, <2>1, <2>2
<1>7. ASSUME NEW q \in Procs, NEW r \in Procs, q # r PROVE Apart(q, r)'
  <2>1. CASE q # p /\ r # p
    BY Zenon, <1>7, <2>1 DEF TableInv, Apart
  <2>2. CASE q = p \/ r = p
    BY SMTT(30), <1>1, <1>2, <1>7, <2>2 DEF Apart, Runs
  <2> QED
    BY Zenon, <2>1, <2>2
<1> QED
  BY Zenon, <1>3, <1>4, <1>5, <1>6, <1>7 DEF TableInv

\* The lookups of an execute and the activation of its workspace.
LEMMA ActivateSteps ==
    ASSUME PlaneInv, NEW p \in Procs
    PROVE  /\ \A w \in Workspaces : ExecuteResolve(p, w) => PlaneStep
           /\ ExecuteLookup(p) => PlaneStep
           /\ ExecuteActivate(p) => PlaneStep
           /\ ExecuteClear(p) => PlaneStep
<1> USE Before
<1>1. ASSUME NEW w \in Workspaces, ExecuteResolve(p, w) PROVE PlaneStep
  <2> DEFINE t == Task("resolved", w, {}, {}, 0, 0, 0)
  <2>1. Becomes(p, t) /\ boot = "up" /\ task[p].pc = "idle" /\ proc[p].op = "idle"
    BY Zenon, <1>1, OtherTasks DEF ExecuteResolve, Free, At
  <2>2. t.pc = "resolved" /\ Proper(t)
    BY DEF Task, Proper, Creating, Activating, Runs, Reads
  <2>3. StoreStep /\ Spared(p) /\ UNCHANGED <<proc, now, refs>>
    BY Zenon, <1>1, BlobsAsBefore DEF ExecuteResolve
  <2> HIDE DEF t
  <2>4. OwnLocks(p)
    BY Zenon, <1>1 DEF ExecuteResolve, LocksSame, OwnLocks
  <2> QED
    BY Zenon, <1>1, <2>1, <2>2, <2>3, <2>4, PlainStep DEF ExecuteResolve, TablesSame, PlaneStep, Plain, Collecting
<1>2. ASSUME ExecuteLookup(p) PROVE PlaneStep
  <2>1. boot = "up" /\ task[p].pc = "resolved" /\ proc[p].op = "idle" /\ mapLock = None
    BY Zenon, <1>2 DEF ExecuteLookup, At
  <2>2. StoreStep /\ Spared(p) /\ UNCHANGED <<proc, now, refs>>
    BY Zenon, <1>2, BlobsAsBefore DEF ExecuteLookup
  <2>3. CASE End(p) /\ UNCHANGED mapLock
    <3>1. Stops(p) /\ OwnLocks(p)
      BY Zenon, <1>2, <2>3, Going DEF ExecuteLookup, OwnLocks
    <3> QED
      BY Zenon, <1>2, <2>1, <2>2, <3>1, StopStep DEF ExecuteLookup, PlaneStep
  <2>4. CASE /\ task[p].ws \notin reserved /\ mapLock' = p
             /\ task' = [task EXCEPT ![p].pc = "activate", ![p].key = workspaces[task[p].ws].key]
    <3>1. task'[p].pc = "activate"
      BY Zenon, <2>4 DEF TaskInv, TaskType
    <3>2. PICK key : Becomes(p, Task("activate", task[p].ws, task[p].man, task[p].todo, key,
                                     task[p].time, task[p].expires))
      BY Zenon, <1>2, <3>1, OtherTasks DEF Stops, Becomes, Task
    <3> DEFINE t == Task("activate", task[p].ws, task[p].man, task[p].todo, key, task[p].time, task[p].expires)
    <3>3. t.pc = "activate" /\ t.ws = task[p].ws /\ Becomes(p, t) /\ t.ws \in Workspaces
      BY Zenon, <2>1, <3>2 DEF Task, Proper
    <3> HIDE DEF t
    <3>4. task'[p].pc = "activate" /\ task'[p].ws = task[p].ws /\ Proper(t)
      BY Zenon, <3>3 DEF Becomes, Proper, Creating, Runs, Reads
    <3>5. Fits(p)'
      BY SMTT(30), <1>2, <2>4, <3>4 DEF Fits, Creating, Runs, ExecuteLookup, TablesSame
    <3>6. Bytes(p)' /\ OwnLocks(p)
      BY Zenon, <1>2, <2>1, <2>4, <3>4 DEF Bytes, Runs, OwnLocks, ExecuteLookup
    <3> QED
      BY Zenon, <1>2, <2>1, <2>2, <3>3, <3>4, <3>5, <3>6, OwnStep
      DEF ExecuteLookup, TablesSame, PlaneStep, Collecting, Runs
  <2> QED
    BY Zenon, <1>2, <2>3, <2>4 DEF ExecuteLookup
<1>3. ASSUME ExecuteActivate(p) PROVE PlaneStep
  <2>1. boot = "up" /\ task[p].pc = "activate" /\ proc[p].op = "idle" /\ mapLock = p /\ task[p].ws \notin reserved
    BY Zenon, <1>3 DEF ExecuteActivate, At, Activating, PlaneInv, TableInv, Fits
  <2>2. StoreStep /\ Spared(p) /\ UNCHANGED <<proc, now, refs>>
    BY Zenon, <1>3, BlobsAsBefore DEF ExecuteActivate
  <2>3. CASE End(p) /\ mapLock' = None /\ UNCHANGED workspaces
    <3>1. Stops(p) /\ OwnLocks(p)
      BY Zenon, <1>3, <2>1, <2>3, Going DEF ExecuteActivate, OwnLocks
    <3> QED
      BY Zenon, <1>3, <2>1, <2>2, <2>3, <3>1, StopStep DEF ExecuteActivate, PlaneStep, TablesSame
  <2>4. CASE /\ HasKey(task[p].ws, task[p].key)
             /\ workspaces' = [workspaces EXCEPT ![task[p].ws].expires = None]
             /\ Proceed(p, "clear") /\ UNCHANGED mapLock
    <3> DEFINE t == Task("clear", task[p].ws, task[p].man, task[p].todo, task[p].key, task[p].time, task[p].expires)
    <3>1. Becomes(p, t) /\ t.pc = "clear" /\ t.ws = task[p].ws /\ t.ws \in Workspaces
      BY Zenon, <2>1, <2>4, Going DEF Goes, TaskPcs, Activating, Task, Proper
    <3> HIDE DEF t
    <3>2. /\ task'[p].pc = "clear" /\ task'[p].ws = task[p].ws /\ Proper(t)
          /\ \A q \in Procs \ {p} : task'[q] = task[q]
      BY Zenon, <3>1 DEF Becomes, Proper, Creating, Runs, Reads
    <3>3. TaskInv'
      BY Zenon, <1>3, <2>1, <2>2, <3>1, <3>2, TaskKept DEF ExecuteActivate, Collecting
    <3>4. ByteInv'
      <4>1. Bytes(p)'
        BY Zenon, <3>2 DEF Bytes, Runs
      <4> QED
        BY Zenon, <1>3, <2>2, <3>2, <4>1, ByteKept DEF ExecuteActivate, PlaneInv
    <3>5. TableInv'
      <4>1. /\ workspaces' \in [DOMAIN workspaces' -> Row] /\ DOMAIN workspaces' = DOMAIN workspaces
            /\ workspaces'[task[p].ws].expires = None /\ task[p].ws \in DOMAIN workspaces
            /\ \A w \in DOMAIN workspaces : /\ workspaces'[w].key = workspaces[w].key
                                            /\ workspaces'[w].man = workspaces[w].man
                                            /\ workspaces'[w].expires \in {workspaces[w].expires, None}
        BY SMTT(30), <2>4 DEF HasKey, TableTypes, Row
      <4>2. Fits(p)'
        BY Zenon, <1>3, <2>1, <2>4, <3>2, <4>1 DEF Fits, Creating, Activating, Runs, ExecuteActivate
      <4>3. \A q \in Procs \ {p} : Apart(p, q)' /\ Apart(q, p)'
        BY Zenon, <3>2 DEF Apart, Runs
      <4>4. \A q \in Procs \ {p} : task[q].pc \in {"clear", "reserve"} \union Runs =>
                                      workspaces'[task[q].ws].expires = None
        BY Zenon, <4>1 DEF PlaneInv, TableInv, Fits
      <4> QED
        BY ZenonT(30), <1>3, <2>1, <2>4, <3>2, <4>1, <4>2, <4>3, <4>4, ExpiryTables DEF ExecuteActivate, PlaneInv
    <3> QED
      BY Zenon, <2>2, <3>3, <3>4, <3>5 DEF PlaneStep
  <2> QED
    BY Zenon, <1>3, <2>3, <2>4 DEF ExecuteActivate
<1>4. ASSUME ExecuteClear(p) PROVE PlaneStep
  <2> DEFINE t == Task("reserve", task[p].ws, task[p].man, task[p].todo, task[p].key, task[p].time, task[p].expires)
  <2>1. boot = "up" /\ task[p].pc = "clear" /\ proc[p].op = "idle" /\ Fits(p)
    BY Zenon, <1>4 DEF ExecuteClear, At, PlaneInv, TableInv
  <2>2. Becomes(p, t) /\ t.pc = "reserve" /\ t.ws = task[p].ws /\ t.ws \in Workspaces
    BY Zenon, <1>4, <2>1, Going DEF ExecuteClear, Goes, TaskPcs, Activating, Task, Proper
  <2> HIDE DEF t
  <2>3. task'[p].pc = "reserve" /\ task'[p].ws = task[p].ws /\ Proper(t)
    BY Zenon, <2>2 DEF Becomes, Proper, Creating, Runs, Reads
  <2>4. StoreStep /\ UNCHANGED <<proc, now>>
    <3>1. IndexFree /\ UNCHANGED BlobRest /\ SetReferenceExpiry(WorkspaceOwner(task[p].ws), None)
      BY Zenon, <1>4 DEF ExecuteClear, OnlyRefs, FilesSame, BlobRest, SetReferenceExpiry
    <3>2. RefsStep
      BY Zenon, <3>1, RefsSteps DEF PlaneInv
    <3> QED
      BY Zenon, <3>1, <3>2 DEF BlobRest, StoreStep
  <2>5. Spared(p)
    BY Zenon, <1>4, OnlyOwners, SparedByOthers DEF ExecuteClear, PlaneInv
  <2>6. Fits(p)'
    BY <1>4, <2>1, <2>3 DEF Fits, Creating, Activating, Runs, ExecuteClear, TablesSame, LocksSame
  <2>7. Bytes(p)' /\ OwnLocks(p)
    BY <1>4, <2>3 DEF Bytes, Runs, OwnLocks, ExecuteClear, LocksSame
  <2> QED
    BY Zenon, <1>4, <2>1, <2>2, <2>3, <2>4, <2>5, <2>6, <2>7, OwnStep
    DEF ExecuteClear, TablesSame, PlaneStep, Collecting, Runs
<1> QED
  BY Zenon, <1>1, <1>2, <1>3, <1>4

\* An execution that goes on or ends, its workspace active.
LEMMA RunningStep ==
    ASSUME PlaneInv, NEW p \in Procs, NEW t, Becomes(p, t), boot = "up", task[p].pc \in Runs,
           t.pc \in Runs \union {"end_row"}, t.ws = task[p].ws, t.time \in Nat, TablesSame, LocksSame, now' = now,
           Spared(p), \A q \in Procs \ {p} : proc'[q] = proc[q], proc'[p].op = "idle",
           t.pc = "capture_insert" /\ t.time > now =>
              LET r == <<ArtifactOwner(t.ws), Output>> IN r \in DOMAIN refs' /\ refs'[r] = t.time
    PROVE  TaskInv' /\ TableInv' /\ ByteInv'
<1>1. Fits(p) /\ Bytes(p) /\ Proper(task[p])
  BY Zenon DEF PlaneInv, TableInv, ByteInv, TaskInv
<1>2. task'[p].pc = t.pc /\ task'[p].ws = t.ws /\ task'[p].time = t.time
  BY Zenon DEF Becomes
<1>3. t.ws \in Workspaces /\ Proper(t)
  BY Zenon, <1>1 DEF Proper, Runs, Creating, Activating, Reads
<1>4. Fits(p)'
  BY Zenon, <1>1, <1>2 DEF Fits, TablesSame, LocksSame, Runs, Creating, Activating
<1>5. Bytes(p)'
  BY Zenon, <1>1, <1>2 DEF Bytes, TablesSame, Runs
<1>6. OwnLocks(p) /\ t.pc \notin Collecting /\ task[p].pc # "insert"
  BY Zenon DEF OwnLocks, LocksSame, Collecting, Runs
<1> QED
  BY Zenon, <1>2, <1>3, <1>4, <1>5, <1>6, OwnStep, Before DEF TablesSame

\* The reservation of an execution, or its refusal.
LEMMA ReserveSteps ==
    ASSUME PlaneInv, NEW p \in Procs
    PROVE  /\ ExecuteReserve(p) => PlaneStep
           /\ ExecuteDropped(p) => PlaneStep
<1> USE Before
<1> SUFFICES ASSUME ExecuteReserve(p) \/ ExecuteDropped(p) PROVE PlaneStep
  BY Zenon
<1>1. /\ boot = "up" /\ task[p].pc = "reserve" /\ proc[p].op = "idle" /\ task[p].ws \in Workspaces
      /\ UNCHANGED <<workspaces, dirs, manifests, artifacts, torn, nextKey, boot, recovering, materializeLock>>
  BY Zenon DEF ExecuteReserve, ExecuteDropped, At, Proper, Activating
<1>2. /\ mapLock = p /\ task[p].ws \notin reserved /\ task[p].ws \notin DOMAIN artifacts
      /\ task[p].ws \in DOMAIN workspaces /\ workspaces[task[p].ws].expires = None
  BY Zenon, <1>1 DEF PlaneInv, TableInv, Fits, Activating, ByteInv
<1>3. StoreStep /\ Spared(p) /\ UNCHANGED <<proc, now, refs>>
  BY Zenon, BlobsAsBefore DEF ExecuteReserve, ExecuteDropped
<1>4. CASE End(p) /\ mapLock' = None /\ reserved' \in {reserved, reserved \union {task[p].ws}}
  <2> DEFINE t == Task("idle", None, {}, {}, 0, 0, 0)
  <2>1. Becomes(p, t) /\ t.pc = "idle" /\ Proper(t)
    BY Zenon, <1>4, Going DEF Stops, Task, Proper, Creating, Activating, Runs, Reads
  <2> HIDE DEF t
  <2>2. task'[p].pc = "idle" /\ \A q \in Procs \ {p} : task'[q] = task[q]
    BY <2>1 DEF Becomes
  <2>3. TaskInv'
    BY <1>1, <1>3, <2>1, TaskKept DEF Collecting
  <2>4. TableInv'
    BY Zenon, <1>1, <1>4, <2>2, ReserveTables DEF PlaneInv
  <2>5. Bytes(p)'
    BY Zenon, <2>2 DEF Bytes, Runs
  <2>6. ByteInv'
    BY ZenonT(30), <1>1, <1>3, <1>4, <2>2, <2>5, ByteKept DEF PlaneInv
  <2> QED
    BY Zenon, <1>3, <2>3, <2>4, <2>6 DEF PlaneStep
<1>5. CASE reserved' = reserved \union {task[p].ws} /\ Proceed(p, "running") /\ mapLock' = None
  <2> DEFINE t == Task("running", task[p].ws, task[p].man, task[p].todo, task[p].key, task[p].time, task[p].expires)
  <2>1. Becomes(p, t) /\ t.pc = "running" /\ t.ws = task[p].ws
    BY Zenon, <1>5, Going DEF Goes, Task, TaskPcs, Runs
  <2> HIDE DEF t
  <2>2. Proper(t)
    BY Zenon, <1>1, <2>1 DEF Proper, Creating, Activating, Reads
  <2>3. task'[p].pc = "running" /\ task'[p].ws = task[p].ws /\ \A q \in Procs \ {p} : task'[q] = task[q]
    BY Zenon, <2>1 DEF Becomes
  <2>4. TaskInv'
    BY Zenon, <1>1, <1>3, <2>1, <2>2, TaskKept DEF Collecting
  <2>5. TableInv'
    BY Zenon, <1>1, <1>5, <2>3, ReserveTables DEF PlaneInv
  <2>6. Bytes(p)'
    BY Zenon, <1>1, <1>2, <2>3 DEF Bytes, Runs
  <2>7. ByteInv'
    BY Zenon, <1>1, <1>3, <1>5, <2>3, <2>6, ByteKept DEF PlaneInv
  <2> QED
    BY <1>3, <2>4, <2>5, <2>7 DEF PlaneStep
<1>6. CASE Proceed(p, "end_row") /\ UNCHANGED <<reserved, mapLock>>
  <2> DEFINE t == Task("end_row", task[p].ws, task[p].man, task[p].todo, task[p].key, task[p].time, task[p].expires)
  <2>1. Becomes(p, t) /\ t.pc = "end_row" /\ t.ws = task[p].ws
    BY Zenon, <1>6, Going DEF Goes, Task, TaskPcs
  <2> HIDE DEF t
  <2>2. Proper(t)
    BY Zenon, <1>1, <2>1 DEF Proper, Creating, Activating, Reads
  <2>3. task'[p].pc = "end_row" /\ task'[p].ws = task[p].ws /\ \A q \in Procs \ {p} : task'[q] = task[q]
    BY Zenon, <2>1 DEF Becomes
  <2>4. TaskInv'
    BY Zenon, <1>1, <1>3, <2>1, <2>2, TaskKept DEF Collecting
  <2>5. TableInv'
    <3>1. Fits(p)'
      BY Zenon, <1>2, <1>6, <2>3 DEF Fits, Creating, Activating, Runs
    <3>2. \A q \in Procs \ {p} : Apart(p, q)' /\ Apart(q, p)'
      BY Zenon, <1>2, <2>3 DEF Apart, Runs, PlaneInv, TableInv, Fits
    <3>3. OwnLocks(p)
      BY Zenon, <1>1, <1>6 DEF OwnLocks
    <3> QED
      BY Zenon, <1>1, <1>6, <2>3, <3>1, <3>2, <3>3, TableKept DEF PlaneInv
  <2>6. Bytes(p)'
    BY Zenon, <2>3 DEF Bytes, Runs
  <2>7. ByteInv'
    BY ZenonT(30), <1>1, <1>3, <1>6, <2>3, <2>6, ByteKept DEF PlaneInv
  <2> QED
    BY <1>3, <2>4, <2>5, <2>7 DEF PlaneStep
<1> QED
  BY Zenon, <1>4, <1>5, <1>6 DEF ExecuteReserve, ExecuteDropped

\* The end of the process, and the capture of its output.
LEMMA CaptureSteps ==
    ASSUME PlaneInv, NEW p \in Procs
    PROVE  /\ RunEnds(p) => PlaneStep
           /\ CaptureBlob(p) => PlaneStep
           /\ Captured(p) => PlaneStep
           /\ CaptureRetain(p) => PlaneStep
<1> USE Before
<1>1. ASSUME RunEnds(p) PROVE PlaneStep
  <2>1. boot = "up" /\ task[p].pc = "running" /\ proc[p].op = "idle" /\ task[p].pc \in Runs
    BY <1>1 DEF RunEnds, At, Runs
  <2>2. StoreStep /\ Spared(p) /\ UNCHANGED <<proc, now, refs>>
    BY <1>1, BlobsAsBefore DEF RunEnds
  <2>3. PICK pc \in {"end_row", "capture"}, time \in Nat :
           Becomes(p, Task(pc, task[p].ws, task[p].man, task[p].todo, task[p].key, time, task[p].expires))
    BY Zenon, <1>1, OtherTasks DEF Goes, TaskType
  <2> DEFINE t == Task(pc, task[p].ws, task[p].man, task[p].todo, task[p].key, time, task[p].expires)
  <2>4. Becomes(p, t) /\ t.pc \in {"end_row", "capture"} /\ t.ws = task[p].ws /\ t.time \in Nat
    BY Zenon, <2>3 DEF Task
  <2> HIDE DEF t
  <2> QED
    BY Zenon, <1>1, <2>1, <2>2, <2>4, RunningStep DEF RunEnds, PlaneStep, Runs
<1>2. ASSUME CaptureBlob(p) PROVE PlaneStep
  <2>1. PutStart(p, Output) /\ Output \in Digests /\ task[p].pc \in Calling
    BY Zenon, <1>2, DataPlaneAssumption DEF CaptureBlob, At, Calling
  <2>2. UNCHANGED <<refs, now>> /\ \A q \in Procs \ {p} : proc'[q] = proc[q]
    BY Zenon, <2>1 DEF PutStart
  <2>3. StoreStep
    BY Zenon, <2>1 DEF StoreStep, CallStep
  <2> QED
    BY Zenon, <1>2, <2>1, <2>2, <2>3, CallsKept DEF CaptureBlob, PlaneStep
<1>3. ASSUME Captured(p) PROVE PlaneStep
  <2>1. boot = "up" /\ task[p].pc = "capture" /\ task[p].pc \in Runs /\ Finish(p)
    BY <1>3 DEF Captured, Runs
  <2>2. PICK pc \in {"end_row", "capture_refs"} : Proceed(p, pc)
    BY <1>3 DEF Captured
  <2> DEFINE t == Task(pc, task[p].ws, task[p].man, task[p].todo, task[p].key, task[p].time, task[p].expires)
  <2>3. Becomes(p, t) /\ t.pc \in {"end_row", "capture_refs"} /\ t.ws = task[p].ws /\ t.time \in Nat
    BY Zenon, <2>2, Going DEF Task, Goes, TaskPcs, Runs, TaskType
  <2> HIDE DEF t
  <2> QED
    BY Zenon, <1>3, <2>1, <2>3, FinishStep, RunningStep DEF Captured, PlaneStep, Runs
<1>4. ASSUME CaptureRetain(p) PROVE PlaneStep
  <2>1. boot = "up" /\ task[p].pc = "capture_refs" /\ proc[p].op = "idle" /\ task[p].pc \in Runs
    BY Zenon, <1>4 DEF CaptureRetain, At, Runs
  <2>2. CASE Proceed(p, "end_row") /\ BlobsSame
    <3> DEFINE t == Task("end_row", task[p].ws, task[p].man, task[p].todo, task[p].key, task[p].time, task[p].expires)
    <3>1. Becomes(p, t) /\ t.pc = "end_row" /\ t.ws = task[p].ws /\ t.time \in Nat
      BY <2>2, Going DEF Task, Goes, TaskPcs, Runs, TaskType
    <3>2. StoreStep /\ Spared(p) /\ UNCHANGED <<proc, now, refs>>
      BY Zenon, <2>2, BlobsAsBefore
    <3> HIDE DEF t
    <3> QED
      BY Zenon, <1>4, <2>1, <3>1, <3>2, RunningStep DEF CaptureRetain, PlaneStep, Runs
  <2>3. CASE Retain(ArtifactOwner(task[p].ws), {Output}, task[p].time) /\ Proceed(p, "capture_insert") /\ OnlyRefs
    <3> DEFINE t == Task("capture_insert", task[p].ws, task[p].man, task[p].todo, task[p].key, task[p].time,
                         task[p].expires)
               r == <<ArtifactOwner(task[p].ws), Output>>
    <3>1. Becomes(p, t) /\ t.pc = "capture_insert" /\ t.ws = task[p].ws /\ t.time = task[p].time /\ t.time \in Nat
      BY Zenon, <2>3, Going DEF Task, Goes, TaskPcs, Runs, TaskType
    <3>2. task[p].ws \in Workspaces
      BY Zenon, <2>1 DEF Proper
    <3>3. StoreStep /\ UNCHANGED <<proc, now>>
      <4>1. IndexFree /\ UNCHANGED BlobRest
        BY Zenon, <2>3 DEF OnlyRefs, FilesSame, BlobRest, Retain
      <4>2. RefsStep
        BY Zenon, <2>3, <3>1, <3>2, <4>1, RefsSteps, OwnersHere DEF PlaneInv
      <4> QED
        BY Zenon, <4>1, <4>2 DEF BlobRest, StoreStep
    <3>4. Spared(p)
      <4>1. Only({ArtifactOwner(task[p].ws)})
        BY Zenon, <2>3, OnlyOwners DEF PlaneInv
      <4>2. ASSUME NEW x \in DOMAIN refs, Keeps(p, x) PROVE x[1] # ArtifactOwner(task[p].ws)
        BY SMTT(30), <2>1, <4>2 DEF Keeps, ArtifactOwner, ReaderOwner
      <4>3. \A q : ReaderOwner(q) # ArtifactOwner(task[p].ws)
        BY Zenon DEF ReaderOwner, ArtifactOwner
      <4> QED
        BY Zenon, <4>1, <4>2, <4>3 DEF Only, Spared
    <3>5. r \in DOMAIN refs' /\ refs'[r] = task[p].time
      BY Zenon, <2>3 DEF Retain, Retained
    <3> HIDE DEF t
    <3> QED
      BY Zenon, <1>4, <2>1, <3>1, <3>3, <3>4, <3>5, RunningStep DEF CaptureRetain, PlaneStep, Runs
  <2> QED
    BY Zenon, <1>4, <2>2, <2>3 DEF CaptureRetain
<1> QED
  BY Zenon, <1>1, <1>2, <1>3, <1>4

\* The record of the artifact.
LEMMA CaptureInsertStep ==
    ASSUME PlaneInv, NEW p \in Procs, CaptureInsert(p)
    PROVE  PlaneStep
<1> USE Before
<1> DEFINE t == Task("end_row", task[p].ws, task[p].man, task[p].todo, task[p].key, task[p].time, task[p].expires)
           ws == task[p].ws
           row == [digest |-> Output, expires |-> task[p].time]
<1>1. /\ boot = "up" /\ task[p].pc = "capture_insert" /\ proc[p].op = "idle" /\ task[p].pc \in Runs
      /\ UNCHANGED <<workspaces, dirs, manifests, reserved, torn, nextKey, boot, recovering, materializeLock, mapLock>>
  BY Zenon DEF CaptureInsert, At, Runs, LocksSame
<1>2. Fits(p) /\ Bytes(p) /\ ws \in Workspaces /\ ws \in reserved
  BY Zenon, <1>1 DEF PlaneInv, TableInv, ByteInv, Proper, Fits
<1>3. Becomes(p, t) /\ t.pc = "end_row" /\ t.ws = ws
  BY Zenon, Going DEF CaptureInsert, Task, Goes, TaskPcs
<1> HIDE DEF t
<1>4. task'[p].pc = "end_row" /\ task'[p].ws = ws /\ \A q \in Procs \ {p} : task'[q] = task[q]
  BY Zenon, <1>3 DEF Becomes
<1>5. StoreStep /\ Spared(p) /\ UNCHANGED <<proc, now, refs>>
  BY Zenon, BlobsAsBefore DEF CaptureInsert
<1>6. TaskInv'
  <2>1. Proper(t)
    BY Zenon, <1>2, <1>3 DEF Proper, Creating, Activating, Reads
  <2> QED
    BY Zenon, <1>1, <1>3, <1>5, <2>1, TaskKept DEF Collecting
<1>7. TableInv'
  <2>1. Fits(p)'
    BY Zenon, <1>1, <1>2, <1>4 DEF Fits, Creating, Activating, Runs
  <2>2. \A q \in Procs \ {p} : Apart(p, q)' /\ Apart(q, p)'
    BY Zenon, <1>1, <1>4 DEF Apart, Runs, PlaneInv, TableInv
  <2>3. OwnLocks(p)
    BY Zenon, <1>1 DEF OwnLocks
  <2> QED
    BY Zenon, <1>1, <1>4, <2>1, <2>2, <2>3, TableKept DEF PlaneInv
<1>8. ByteInv'
  <2>1. /\ row \in [digest : {Output}, expires : Nat] /\ row.expires = task[p].time
        /\ artifacts' = Insert(artifacts, ws, row)
    BY Zenon DEF CaptureInsert, TaskType
  <2> HIDE DEF row
  <2>2. /\ DOMAIN artifacts' = DOMAIN artifacts \union {ws} /\ artifacts'[ws] = row
        /\ \A w \in DOMAIN artifacts \ {ws} : artifacts'[w] = artifacts[w]
        /\ artifacts' \in [DOMAIN artifacts' -> [digest : {Output}, expires : Nat]]
    BY Zenon, <2>1 DEF Insert
  <2>3. ASSUME NEW w \in DOMAIN artifacts', artifacts'[w].expires > now
        PROVE  LET r == <<ArtifactOwner(w), Output>> IN r \in DOMAIN refs /\ refs[r] = artifacts'[w].expires
    <3>1. CASE w = ws
      BY Zenon, <1>1, <1>2, <2>1, <2>2, <2>3, <3>1 DEF Bytes
    <3>2. CASE w # ws
      BY Zenon, <2>2, <2>3, <3>2 DEF PlaneInv, ByteInv
    <3> QED
      BY Zenon, <3>1, <3>2
  <2>4. ASSUME NEW q \in Procs PROVE Bytes(q)'
    <3>1. CASE q = p
      BY Zenon, <1>4, <3>1 DEF Bytes, Runs
    <3>2. CASE q # p
      <4>1. Bytes(q) /\ task'[q] = task[q] /\ (task[q].pc \in Runs => task[q].ws # ws)
        BY Zenon, <1>1, <1>4, <3>2 DEF PlaneInv, ByteInv, TableInv, Apart
      <4> QED
        BY Zenon, <1>5, <2>2, <4>1 DEF Bytes
    <3> QED
      BY Zenon, <3>1, <3>2
  <2> QED
    BY Zenon, <1>1, <1>2, <1>5, <2>2, <2>3, <2>4 DEF PlaneInv, ByteInv
<1> QED
  BY Zenon, <1>5, <1>6, <1>7, <1>8 DEF PlaneStep

\* mark_terminal.
LEMMA TerminalSteps ==
    ASSUME PlaneInv, NEW p \in Procs
    PROVE  /\ MarkTerminalRow(p) => PlaneStep
           /\ MarkTerminalRefs(p) => PlaneStep
<1> USE Before
<1>1. ASSUME MarkTerminalRow(p) PROVE PlaneStep
  <2> DEFINE t == Task("end_refs", task[p].ws, task[p].man, task[p].todo, task[p].key, task[p].time, now + Retention)
  <2>1. /\ boot = "up" /\ task[p].pc = "end_row" /\ proc[p].op = "idle"
        /\ UNCHANGED <<dirs, manifests, artifacts, reserved, torn, nextKey, boot, recovering, materializeLock, mapLock>>
    BY Zenon, <1>1 DEF MarkTerminalRow, At, LocksSame
  <2>2. StoreStep /\ Spared(p) /\ UNCHANGED <<proc, now, refs>>
    BY Zenon, <1>1, BlobsAsBefore DEF MarkTerminalRow
  <2>3. Becomes(p, t) /\ t.pc = "end_refs" /\ t.ws = task[p].ws /\ t.ws \in Workspaces
    BY Zenon, <1>1, <2>1, OtherTasks DEF Task, Proper
  <2> HIDE DEF t
  <2>4. task'[p].pc = "end_refs" /\ \A q \in Procs \ {p} : task'[q] = task[q]
    BY <2>3 DEF Becomes
  <2>5. TaskInv'
    <3>1. Proper(t)
      BY Zenon, <2>3 DEF Proper, Creating, Activating, Runs, Reads
    <3> QED
      BY <2>1, <2>2, <2>3, <3>1, TaskKept DEF Collecting
  <2>6. ByteInv'
    <3>1. Bytes(p)'
      BY Zenon, <2>4 DEF Bytes, Runs
    <3> QED
      BY Zenon, <2>1, <2>2, <2>4, <3>1, ByteKept DEF PlaneInv
  <2>7. TableInv'
    <3>1. /\ workspaces' \in [DOMAIN workspaces' -> Row] /\ DOMAIN workspaces' = DOMAIN workspaces
          /\ \A w \in DOMAIN workspaces : /\ workspaces'[w].key = workspaces[w].key
                                          /\ workspaces'[w].man = workspaces[w].man
                                          /\ w # task[p].ws => workspaces'[w] = workspaces[w]
      BY SMTT(30), <1>1 DEF MarkTerminalRow, TableTypes, Row
    <3>2. ASSUME NEW q \in Procs \ {p}, task[q].pc \in {"clear", "reserve"} \union Runs
          PROVE  workspaces'[task[q].ws].expires = None
      <4>1. Fits(p) /\ Fits(q) /\ Apart(q, p)
        BY Zenon DEF PlaneInv, TableInv
      <4>2. task[q].ws # task[p].ws
        BY Zenon, <2>1, <3>2, <4>1 DEF Fits, Apart, Activating
      <4> QED
        BY Zenon, <3>1, <3>2, <4>1, <4>2 DEF Fits
    <3>3. Fits(p)'
      BY Zenon, <2>4 DEF Fits, Creating, Activating, Runs
    <3>4. \A q \in Procs \ {p} : Apart(p, q)' /\ Apart(q, p)'
      BY Zenon, <2>4 DEF Apart, Runs
    <3> QED
      BY Zenon, <2>1, <2>4, <3>1, <3>2, <3>3, <3>4, ExpiryTables DEF PlaneInv
  <2> QED
    BY <2>2, <2>5, <2>6, <2>7 DEF PlaneStep
<1>2. ASSUME MarkTerminalRefs(p) PROVE PlaneStep
  <2>1. boot = "up" /\ task[p].pc = "end_refs" /\ proc[p].op = "idle" /\ task[p].expires \in Nat
    BY Zenon, <1>2 DEF MarkTerminalRefs, At, TaskType
  <2>2. Stops(p) /\ OwnLocks(p)
    BY Zenon, <1>2, Going DEF MarkTerminalRefs, OwnLocks
  <2>3. StoreStep /\ UNCHANGED <<proc, now>>
    <3>1. IndexFree /\ UNCHANGED BlobRest /\ SetReferenceExpiry(WorkspaceOwner(task[p].ws), task[p].expires)
      BY Zenon, <1>2 DEF MarkTerminalRefs, OnlyRefs, FilesSame, BlobRest, SetReferenceExpiry
    <3>2. RefsStep
      BY Zenon, <2>1, <3>1, RefsSteps DEF PlaneInv
    <3> QED
      BY Zenon, <3>1, <3>2 DEF BlobRest, StoreStep
  <2>4. Spared(p)
    BY Zenon, <1>2, OnlyOwners, SparedByOthers DEF MarkTerminalRefs, PlaneInv
  <2> QED
    BY Zenon, <1>2, <2>1, <2>2, <2>3, <2>4, StopStep DEF MarkTerminalRefs, PlaneStep
<1> QED
  BY Zenon, <1>1, <1>2

\* The steps of an execution.
LEMMA ExecuteSteps ==
    ASSUME PlaneInv, NEW p \in Procs, Execute(p)
    PROVE  PlaneStep
BY ActivateSteps, ReserveSteps, CaptureSteps, CaptureInsertStep, TerminalSteps DEF Execute

-----------------------------------------------------------------------------
(* Downloads.                                                                *)

\* A download changes the references of its own reader.
LEMMA ReaderSpared ==
    ASSUME NEW p \in Procs, Only({ReaderOwner(p)}),
           \A r \in DOMAIN refs' : r[1] = ReaderOwner(p) => r \in DOMAIN refs \/ r[2] = Output
    PROVE  Spared(p)
<1>1. ASSUME NEW r \in DOMAIN refs, Keeps(p, r) PROVE r[1] # ReaderOwner(p)
  BY SMTT(30), <1>1 DEF Keeps, ArtifactOwner, ReaderOwner
<1>2. ASSUME NEW r \in DOMAIN refs', NEW q \in Procs, r[1] = ReaderOwner(q) PROVE r \in DOMAIN refs \/ r[2] = Output
  BY Zenon, <1>2 DEF Only
<1> QED
  BY Zenon, <1>1, <1>2 DEF Only, Spared

\* A download that has its reference, or is about to give it up.
LEMMA ReadingStep ==
    ASSUME PlaneInv, NEW p \in Procs, NEW t, Becomes(p, t), boot = "up", task[p].pc \in Reads, t.pc \in Reads,
           t.todo = {Output}, TablesSame, LocksSame, now' = now,
           Spared(p), \A q \in Procs \ {p} : proc'[q] = proc[q], proc'[p].op = "idle",
           t.pc \in {"open", "stream"} /\ t.expires > now =>
              LET r == <<ReaderOwner(p), Output>> IN r \in DOMAIN refs' /\ refs'[r] = t.expires
    PROVE  TaskInv' /\ TableInv' /\ ByteInv'
<1>1. task'[p].pc = t.pc /\ task'[p].expires = t.expires
  BY Zenon DEF Becomes
<1>2. t.pc \notin Runs \union Creating \union Activating \union Collecting \union {"end_row", "insert"}
  BY Zenon DEF Reads, Runs, Creating, Activating, Collecting
<1>3. Proper(t) /\ t.pc \notin {"create", "base", "resolved", "end_row", "end_refs"}
  BY Zenon, <1>2 DEF Proper, Reads
<1>4. Fits(p)'
  BY Zenon, <1>1, <1>2 DEF Fits, Activating
<1>5. Bytes(p)'
  BY Zenon, <1>1, <1>2 DEF Bytes, Runs
<1>6. OwnLocks(p) /\ task[p].pc # "insert"
  BY Zenon DEF OwnLocks, LocksSame, Reads
<1> QED
  BY Zenon, <1>1, <1>2, <1>3, <1>4, <1>5, <1>6, OwnStep, Before DEF TablesSame

\* The steps of a download.
LEMMA DownloadSteps ==
    ASSUME PlaneInv, NEW p \in Procs, Download(p)
    PROVE  PlaneStep
<1> USE Before
<1>1. ASSUME NEW w \in Workspaces, DownloadGet(p, w) PROVE PlaneStep
  <2> DEFINE t == Task("reader", w, {}, {Output}, 0, 0, 0)
  <2>1. Becomes(p, t) /\ boot = "up" /\ task[p].pc = "idle" /\ proc[p].op = "idle"
    BY Zenon, <1>1, OtherTasks DEF DownloadGet, Free, At
  <2>2. t.pc = "reader" /\ Proper(t)
    BY DEF Task, Proper, Creating, Activating, Runs, Reads
  <2>3. StoreStep /\ Spared(p) /\ UNCHANGED <<proc, now, refs>>
    BY Zenon, <1>1, BlobsAsBefore DEF DownloadGet
  <2> HIDE DEF t
  <2>4. OwnLocks(p)
    BY Zenon, <1>1 DEF DownloadGet, LocksSame, OwnLocks
  <2> QED
    BY Zenon, <1>1, <2>1, <2>2, <2>3, <2>4, PlainStep DEF DownloadGet, TablesSame, PlaneStep, Plain, Collecting
<1>2. ASSUME DownloadRetain(p) PROVE PlaneStep
  <2>1. boot = "up" /\ task[p].pc = "reader" /\ proc[p].op = "idle" /\ task[p].pc \in Reads /\ task[p].todo = {Output}
    BY Zenon, <1>2 DEF DownloadRetain, At, Reads, Proper
  <2>2. CASE End(p) /\ BlobsSame
    <3>1. Stops(p) /\ OwnLocks(p)
      BY Zenon, <1>2, <2>2, Going DEF DownloadRetain, OwnLocks, LocksSame
    <3>2. StoreStep /\ Spared(p) /\ UNCHANGED <<proc, now, refs>>
      BY Zenon, <2>2, BlobsAsBefore
    <3> QED
      BY Zenon, <1>2, <2>1, <3>1, <3>2, StopStep DEF DownloadRetain, PlaneStep
  <2>3. CASE /\ Retain(ReaderOwner(p), task[p].todo, now + ReaderLease)
             /\ task' = [task EXCEPT ![p].pc = "open", ![p].expires = now + ReaderLease]
             /\ OnlyRefs
    <3> DEFINE t == Task("open", task[p].ws, task[p].man, task[p].todo, task[p].key, task[p].time, now + ReaderLease)
               r == <<ReaderOwner(p), Output>>
    <3>1. task'[p].pc = "open"
      BY Zenon, <2>3 DEF TaskInv, TaskType
    <3>2. Becomes(p, t)
      BY Zenon, <1>2, <3>1, OtherTasks DEF Stops, Becomes, Task
    <3>3. t.pc = "open" /\ t.todo = {Output} /\ t.expires = now + ReaderLease
      BY Zenon, <2>1 DEF Task
    <3>4. StoreStep /\ UNCHANGED <<proc, now>>
      <4>1. IndexFree /\ UNCHANGED BlobRest
        BY Zenon, <2>3 DEF OnlyRefs, FilesSame, BlobRest, Retain
      <4>2. RefsStep
        BY Zenon, <2>1, <2>3, <4>1, RefsSteps, OwnersHere DEF PlaneInv
      <4> QED
        BY Zenon, <4>1, <4>2 DEF BlobRest, StoreStep
    <3>5. Spared(p)
      <4>1. Only({ReaderOwner(p)})
        BY Zenon, <2>3, OnlyOwners DEF PlaneInv
      <4>2. \A x \in DOMAIN refs' : x \in DOMAIN refs \/ x[2] = Output
        BY Zenon, <2>1, <2>3 DEF Retain, Retained
      <4> QED
        BY Zenon, <4>1, <4>2, ReaderSpared
    <3>6. r \in DOMAIN refs' /\ refs'[r] = now + ReaderLease
      BY Zenon, <2>1, <2>3 DEF Retain, Retained
    <3> HIDE DEF t
    <3> QED
      BY Zenon, <1>2, <2>1, <3>2, <3>3, <3>4, <3>5, <3>6, ReadingStep DEF DownloadRetain, PlaneStep, Reads
  <2> QED
    BY Zenon, <1>2, <2>2, <2>3 DEF DownloadRetain
<1>3. ASSUME DownloadVerify(p) PROVE PlaneStep
  <2>1. PICK d \in task[p].todo : VerifyStart(p, d)
    BY Zenon, <1>3 DEF DownloadVerify
  <2>2. d \in Digests /\ task[p].pc \in Calling
    BY Zenon, <1>3 DEF DownloadVerify, At, Calling, TaskType
  <2>3. UNCHANGED <<refs, now>> /\ \A q \in Procs \ {p} : proc'[q] = proc[q]
    BY Zenon, <2>1 DEF VerifyStart
  <2>4. StoreStep
    BY Zenon, <2>1, <2>2 DEF StoreStep, CallStep
  <2> QED
    BY Zenon, <1>3, <2>2, <2>3, <2>4, CallsKept DEF DownloadVerify, PlaneStep
<1>4. ASSUME DownloadOpen(p) PROVE PlaneStep
  <2>1. boot = "up" /\ task[p].pc = "open" /\ task[p].pc \in Reads /\ task[p].todo = {Output} /\ Finish(p)
    BY Zenon, <1>4 DEF DownloadOpen, Reads, Proper
  <2>2. PICK pc \in {"stream", "close"} : Proceed(p, pc)
    BY Zenon, <1>4 DEF DownloadOpen
  <2> DEFINE t == Task(pc, task[p].ws, task[p].man, task[p].todo, task[p].key, task[p].time, task[p].expires)
  <2>3. Becomes(p, t) /\ t.pc \in {"stream", "close"} /\ t.todo = {Output} /\ t.expires = task[p].expires
    BY Zenon, <2>1, <2>2, Going DEF Task, Goes, TaskPcs, Reads
  <2> HIDE DEF t
  <2>4. task[p].expires > now =>
           LET r == <<ReaderOwner(p), Output>> IN r \in DOMAIN refs' /\ refs'[r] = task[p].expires
    BY Zenon, <2>1 DEF PlaneInv, ByteInv, Bytes, Finish
  <2> QED
    BY Zenon, <1>4, <2>1, <2>3, <2>4, FinishStep, ReadingStep DEF DownloadOpen, PlaneStep, Reads
<1>5. ASSUME DownloadChunk(p) PROVE PlaneStep
  <2> DEFINE t == Task("stream", task[p].ws, task[p].man, task[p].todo, task[p].key, task[p].time, now + ReaderLease)
             r == <<ReaderOwner(p), Output>>
  <2>1. boot = "up" /\ task[p].pc = "stream" /\ proc[p].op = "idle" /\ task[p].pc \in Reads /\ task[p].todo = {Output}
    BY Zenon, <1>5 DEF DownloadChunk, At, Reads, Proper
  <2>2. Becomes(p, t) /\ t.pc = "stream" /\ t.todo = {Output} /\ t.expires = now + ReaderLease
    BY Zenon, <1>5, <2>1, OtherTasks DEF Task
  <2>3. StoreStep /\ UNCHANGED <<proc, now>>
    <3>1. IndexFree /\ UNCHANGED BlobRest /\ SetReferenceExpiry(ReaderOwner(p), now + ReaderLease)
      BY <1>5 DEF DownloadChunk, OnlyRefs, FilesSame, BlobRest, SetReferenceExpiry
    <3>2. RefsStep
      BY Zenon, <3>1, RefsSteps DEF PlaneInv
    <3> QED
      BY <3>1, <3>2 DEF BlobRest, StoreStep
  <2>4. Spared(p)
    <3>1. Only({ReaderOwner(p)}) /\ DOMAIN refs' = DOMAIN refs
      BY Zenon, <1>5, OnlyOwners DEF DownloadChunk, PlaneInv
    <3> QED
      BY Zenon, <3>1, ReaderSpared
  <2>5. r \in DOMAIN refs' /\ refs'[r] = now + ReaderLease
    <3>1. PICK x \in DOMAIN refs : x[1] = ReaderOwner(p)
      BY Zenon, <1>5 DEF DownloadChunk
    <3>2. x[2] = Output /\ x \in Owners \X Digests
      BY Zenon, <3>1 DEF PlaneInv, ByteInv, BlobInv, RefInv, References
    <3>3. x = r
      BY SMTT(30), <3>1, <3>2
    <3> QED
      BY Zenon, <1>5, <3>1, <3>3 DEF DownloadChunk, SetReferenceExpiry
  <2> HIDE DEF t
  <2> QED
    BY <1>5, <2>1, <2>2, <2>3, <2>4, <2>5, ReadingStep DEF DownloadChunk, PlaneStep, Reads
<1>6. ASSUME DownloadClose(p) PROVE PlaneStep
  <2>1. boot = "up" /\ task[p].pc \in {"stream", "close"} /\ proc[p].op = "idle"
    BY Zenon, <1>6 DEF DownloadClose, At
  <2>2. Stops(p) /\ OwnLocks(p)
    BY Zenon, <1>6, Going DEF DownloadClose, OwnLocks, LocksSame
  <2>3. StoreStep /\ UNCHANGED <<proc, now>>
    <3>1. IndexFree /\ UNCHANGED BlobRest /\ ReleaseReferences(ReaderOwner(p))
      BY Zenon, <1>6 DEF DownloadClose, OnlyRefs, FilesSame, BlobRest, ReleaseReferences
    <3>2. RefsStep
      BY Zenon, <3>1, RefsSteps DEF PlaneInv
    <3> QED
      BY Zenon, <3>1, <3>2 DEF BlobRest, StoreStep
  <2>4. Spared(p)
    <3>1. Only({ReaderOwner(p)})
      BY Zenon, <1>6, OnlyOwners DEF DownloadClose, PlaneInv
    <3>2. DOMAIN refs' \subseteq DOMAIN refs
      BY Zenon, <1>6 DEF DownloadClose, ReleaseReferences, Keep
    <3> QED
      BY Zenon, <3>1, <3>2, ReaderSpared
  <2> QED
    BY Zenon, <1>6, <2>1, <2>2, <2>3, <2>4, StopStep DEF DownloadClose, PlaneStep
<1> QED
  BY Zenon, <1>1, <1>2, <1>3, <1>4, <1>5, <1>6 DEF Download

-----------------------------------------------------------------------------
(* The calls of the blob store, and the clock.                               *)

\* The steps of a call of the blob store, and the start and the end of an upload.
LEMMA StoreSteps ==
    ASSUME PlaneInv, NEW p \in Procs
    PROVE  /\ InBlobStore(p) => PlaneStep
           /\ Uploaded(p) => PlaneStep
           /\ \A d \in Digests : Upload(p, d) => PlaneStep
<1> USE Before
<1>1. ASSUME NEW d \in Digests, Upload(p, d) PROVE PlaneStep
  <2>1. PutStart(p, d) /\ task[p].pc \in Calling
    BY Zenon, <1>1 DEF Upload, At, Calling
  <2>2. UNCHANGED <<refs, now>> /\ \A q \in Procs \ {p} : proc'[q] = proc[q]
    BY Zenon, <2>1 DEF PutStart
  <2>3. StoreStep
    BY Zenon, <2>1 DEF StoreStep, CallStep
  <2> QED
    BY Zenon, <1>1, <2>1, <2>2, <2>3, CallsKept DEF Upload, PlaneStep
<1>2. ASSUME Uploaded(p) PROVE PlaneStep
  <2>1. Finish(p) /\ task[p].pc \in Calling
    BY Zenon, <1>2 DEF Uploaded, Calling
  <2>2. UNCHANGED <<refs, now>> /\ \A q \in Procs \ {p} : proc'[q] = proc[q]
    BY Zenon, <2>1 DEF Finish
  <2>3. StoreStep
    BY Zenon, <2>1 DEF StoreStep, CallStep
  <2> QED
    BY Zenon, <1>2, <2>1, <2>2, <2>3, CallsKept DEF Uploaded, PlaneStep
<1>3. ASSUME InBlobStore(p) PROVE PlaneStep
  <2>1. StoreStep
    BY Zenon, <1>3 DEF InBlobStore, StoreStep, CallStep
  <2>2. task[p].pc \in Calling
    <3>1. CASE BlobStep(p)
      <4>1. proc[p].pc # "idle"
        BY Zenon, <3>1 DEF BlobStep, PutBody, PutRename, PutInsert, PutCleanup, VerifyLook, VerifyHash, VerifyQuarantine,
                    VerifyUnindex, GcCommit
      <4> QED
        BY Zenon, <4>1 DEF PlaneInv, StoreInv, TaskInv
    <3>2. CASE task[p].pc = "idle"
      BY Zenon, <3>2 DEF Calling
    <3> QED
      BY Zenon, <1>3, <3>1, <3>2 DEF InBlobStore
  <2>3. now' = now /\ \A q \in Procs \ {p} : proc'[q] = proc[q]
    BY Zenon, <1>3 DEF InBlobStore, Drop, BlobStep, PutBody, PutRename, PutInsert, PutCleanup, VerifyLook, VerifyHash,
                VerifyQuarantine, VerifyUnindex, GcCommit, Goto, Return
  <2>4. UNCHANGED refs \/ GcCommit(p)
    <3>1. ~VerifyUnindex(p)
      BY Zenon DEF VerifyUnindex, PlaneInv, StoreInv
    <3> QED
      BY Zenon, <1>3, <3>1 DEF InBlobStore, Drop, BlobStep, PutBody, PutRename, PutInsert, PutCleanup, VerifyLook, VerifyHash,
                        VerifyQuarantine
  <2>5. /\ DOMAIN refs' \subseteq DOMAIN refs
        /\ \A r \in DOMAIN refs : refs[r] \in Nat /\ refs[r] > now => r \in DOMAIN refs' /\ refs'[r] = refs[r]
    <3>1. CASE GcCommit(p)
      <4>1. pass # None /\ refs' = Keep(refs, DOMAIN refs \ pass.expired)
        BY Zenon, <3>1 DEF GcCommit, PlaneInv, BlobInv, RefInv
      <4>2. \A r \in pass.expired : refs[r] =< now
        BY Zenon, <4>1 DEF PlaneInv, StoreInv
      <4>3. \A r \in DOMAIN refs : refs[r] \in Nat /\ refs[r] > now => r \notin pass.expired
        BY <4>2
      <4> QED
        BY Zenon, <4>1, <4>3 DEF Keep
    <3> QED
      BY Zenon, <2>4, <3>1
  <2> QED
    BY Zenon, <1>3, <2>1, <2>2, <2>3, <2>5, CallsKept DEF InBlobStore, PlaneStep
<1> QED
  BY Zenon, <1>1, <1>2, <1>3

\* The tables say the same as long as nobody writes to them.
LEMMA TablesStay ==
    ASSUME TableInv,
           UNCHANGED <<workspaces, dirs, manifests, reserved, torn, nextKey, materializeLock,
                       mapLock, task, boot, recovering>>
    PROVE  TableInv'
<1>1. TableTypes' /\ TreesInv'
  BY Zenon DEF TableInv, TableTypes, TreesInv
<1>2. Stored' = Stored /\ Used' = Used
  BY Zenon DEF Stored, Used
<1>3. \A p \in Procs : Fits(p)'
  BY Zenon, <1>2 DEF TableInv, Fits
<1>4. \A p, q \in Procs : p # q => Apart(p, q)'
  BY Zenon DEF TableInv, Apart
<1> QED
  BY Zenon, <1>1, <1>2, <1>3, <1>4 DEF TableInv

\* The clock.
LEMMA PassesStep ==
    ASSUME PlaneInv, Passes
    PROVE  PlaneStep
<1>1. /\ now \in Nat /\ now' = now + 1
      /\ UNCHANGED <<refs, proc, workspaces, dirs, manifests, artifacts, reserved, torn, nextKey, materializeLock,
                     mapLock, task, boot, recovering>>
  BY DataPlaneAssumption, BlobAssumption DEF Passes, Tick, planeVars, PlaneInv, StoreInv
<1>2. StoreStep
  BY Zenon DEF StoreStep, Passes
<1>3. TaskInv'
  <2>1. \A p \in Procs : task[p].time \in Nat
    BY Zenon DEF PlaneInv, TaskInv, TaskType
  <2> QED
    BY SMTT(30), <1>1, <2>1 DEF PlaneInv, TaskInv
<1>4. TableInv'
  BY Zenon, <1>1, TablesStay DEF PlaneInv
<1>5. ByteInv'
  <2>1. \A w \in DOMAIN artifacts : artifacts[w].expires \in Nat
    BY Zenon DEF PlaneInv, ByteInv
  <2>2. \A p \in Procs : task[p].time \in Nat /\ task[p].expires \in Nat
    BY Zenon DEF PlaneInv, TaskInv, TaskType
  <2>3. \A p \in Procs : Bytes(p)'
    BY SMTT(30), <1>1, <2>2 DEF PlaneInv, ByteInv, Bytes
  <2> QED
    BY <1>1, <2>1, <2>3 DEF PlaneInv, ByteInv
<1> QED
  BY Zenon, <1>2, <1>3, <1>4, <1>5 DEF PlaneStep

================================================================================

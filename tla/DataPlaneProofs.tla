----------------------------- MODULE DataPlaneProofs -----------------------------
(***************************************************************************)
(* Theorems about DataPlane, for any workspaces, manifests, calls in       *)
(* flight, quotas and expiries, all operations at the same time.  The      *)
(* invariant is PlaneInv of StorageInvariant; here are what a create       *)
(* stores, and the steps of a collection, a crash and a start.             *)
(***************************************************************************)
EXTENDS DataPlaneSteps, BlobStoreProofs

-----------------------------------------------------------------------------
(* Creates.                                                                  *)

\* A new row adds the files of its manifest to what is stored.
LEMMA StoredInsert ==
    ASSUME TableInv, NEW w, w \notin DOMAIN workspaces, NEW m \in Manifests, NEW row, row.man = m,
           workspaces' = Insert(workspaces, w, row)
    PROVE  IsFiniteSet(Stored') /\ Used' =< Used + Cardinality(m)
<1>1. Stored' = Stored \union ({w} \X m)
  <2>1. DOMAIN workspaces' = DOMAIN workspaces \union {w} /\ workspaces'[w].man = m
    BY DEF Insert
  <2>2. \A v \in DOMAIN workspaces : workspaces'[v] = workspaces[v]
    BY Zenon DEF Insert
  <2>3. ASSUME NEW x PROVE x \in Stored' <=> x \in Stored \union ({w} \X m)
    <3>1. x \in Stored' <=> \E v \in DOMAIN workspaces' : x \in {v} \X workspaces'[v].man
      BY Zenon DEF Stored
    <3>2. x \in Stored <=> \E v \in DOMAIN workspaces : x \in {v} \X workspaces[v].man
      BY Zenon DEF Stored
    <3> QED
      BY Zenon, <2>1, <2>2, <3>1, <3>2
  <2> QED
    BY Zenon, <2>3
<1>2. IsFiniteSet(m) /\ Cardinality(m) \in Nat /\ IsFiniteSet(Stored) /\ Cardinality(Stored) \in Nat
  BY Zenon, DataPlaneAssumption, FS_CardinalityType DEF TableInv
<1>3. IsFiniteSet({w}) /\ Cardinality({w}) = 1
  BY Zenon, FS_Singleton
<1>4. IsFiniteSet({w} \X m) /\ Cardinality({w} \X m) = Cardinality(m)
  BY SMTT(30), <1>2, <1>3, FS_Product
<1>5. /\ IsFiniteSet(Stored \union ({w} \X m))
      /\ Cardinality(Stored \union ({w} \X m))
         = Cardinality(Stored) + Cardinality({w} \X m) - Cardinality(Stored \cap ({w} \X m))
  BY Zenon, <1>2, <1>4, FS_Union
<1>6. Cardinality(Stored \cap ({w} \X m)) \in Nat
  BY Zenon, <1>2, FS_Intersection, FS_CardinalityType
<1> QED
  BY SMTT(30), <1>1, <1>2, <1>4, <1>5, <1>6 DEF Used

\* The workspace quota holds when the row of a create is inserted.
LEMMA CreateInsertQuota ==
    ASSUME PlaneInv, NEW p \in Procs, CreateInsert(p)
    PROVE  IsFiniteSet(Stored') /\ Used' =< WorkspaceQuota
<1>1. task[p].pc \in Creating
  BY Zenon DEF CreateInsert, At, Creating
<1>2. /\ task[p].ws \notin DOMAIN workspaces
      /\ task[p].man \in Manifests /\ Used + Cardinality(task[p].man) =< WorkspaceQuota
  BY Zenon, <1>1, CreatingBefore
<1>3. \E row : row.man = task[p].man /\ workspaces' = Insert(workspaces, task[p].ws, row)
  <2> DEFINE row == [man |-> task[p].man, key |-> task[p].key, expires |-> task[p].time]
  <2>1. workspaces' = Insert(workspaces, task[p].ws, row)
    BY Zenon DEF CreateInsert
  <2>2. row.man = task[p].man
    OBVIOUS
  <2> QED
    BY Zenon, <2>1, <2>2
<1>4. IsFiniteSet(Stored') /\ Used' =< Used + Cardinality(task[p].man)
  BY Zenon, <1>2, <1>3, StoredInsert DEF PlaneInv
<1>5. IsFiniteSet(Stored) /\ IsFiniteSet(task[p].man)
  BY Zenon, <1>2, DataPlaneAssumption DEF PlaneInv, TableInv
<1>6. Used' \in Nat /\ Used \in Nat /\ Cardinality(task[p].man) \in Nat /\ WorkspaceQuota \in Nat
  BY Zenon, <1>4, <1>5, FS_CardinalityType, DataPlaneAssumption DEF Used
<1> QED
  BY SMTT(30), <1>2, <1>4, <1>6

\* The steps of a create.
LEMMA CreateSteps ==
    ASSUME PlaneInv, NEW p \in Procs, Create(p)
    PROVE  PlaneStep
BY Zenon, PrepareSteps, VerifySteps, RetainSteps, CreateTreeStep, CreateTreeFailedStep, CreateInsertStep,
   CreateInsertQuota DEF Create

-----------------------------------------------------------------------------
(* Collections.                                                              *)

\* Rows that are the same or gone use no more room.
LEMMA StoredLess ==
    ASSUME IsFiniteSet(Stored), DOMAIN workspaces' \subseteq DOMAIN workspaces,
           \A w \in DOMAIN workspaces' : workspaces'[w].man = workspaces[w].man
    PROVE  IsFiniteSet(Stored') /\ Used' =< Used /\ Used' \in Nat /\ Used \in Nat
<1>1. Stored' \subseteq Stored
  <2> SUFFICES ASSUME NEW x \in Stored' PROVE x \in Stored
    BY Zenon
  <2>1. PICK w \in DOMAIN workspaces' : x \in {w} \X workspaces'[w].man
    BY DEF Stored
  <2>2. w \in DOMAIN workspaces /\ x \in {w} \X workspaces[w].man
    BY Zenon, <2>1
  <2> QED
    BY Zenon, <2>2 DEF Stored
<1> QED
  BY Zenon, <1>1, FS_Subset, FS_CardinalityType DEF Used

\* Directories of rows with an expiry are removed, with their rows or without.
LEMMA CollectTables ==
    ASSUME TableInv, TaskInv, NEW p \in Procs, \A q \in Procs \ {p} : task'[q] = task[q],
           task[p].pc # "insert",
           task'[p].pc \in Plain,
           NEW gone \in SUBSET DOMAIN workspaces, \A w \in gone : workspaces[w].expires # None,
           dirs' = dirs \ {workspaces[w].key : w \in gone},
           \/ workspaces' = [w \in DOMAIN workspaces \ gone |-> workspaces[w]] /\ torn' = torn \ gone
           \/ /\ torn \union gone \subseteq torn' /\ torn' \subseteq torn \union DOMAIN workspaces
              /\ UNCHANGED workspaces,
           UNCHANGED <<manifests, reserved, nextKey, boot, recovering, materializeLock, mapLock>>
    PROVE  TableInv'
<1>1. TableTypes /\ TreesInv /\ IsFiniteSet(Stored) /\ Used =< WorkspaceQuota /\ \A q \in Procs : Fits(q)
  BY Zenon DEF TableInv
<1>2. /\ DOMAIN workspaces' \subseteq DOMAIN workspaces
      /\ \A w \in DOMAIN workspaces' : workspaces'[w] = workspaces[w]
      /\ \A w \in DOMAIN workspaces \ gone : w \in DOMAIN workspaces'
      /\ \A w \in gone : w \in DOMAIN workspaces' => w \in torn'
      /\ torn \intersect DOMAIN workspaces' \subseteq torn' /\ torn' \subseteq torn \union DOMAIN workspaces
      /\ workspaces' \in [DOMAIN workspaces' -> Row]
  BY Zenon, <1>1 DEF TableTypes
<1>3. TableTypes'
  BY Zenon, <1>1, <1>2 DEF TableTypes
<1>4. /\ \A k \in dirs : k \in dirs' <=> \A w \in gone : workspaces[w].key # k
      /\ dirs' \subseteq dirs
  BY Zenon
<1>5. TreesInv'
  <2>1. ASSUME NEW w \in DOMAIN workspaces' PROVE workspaces'[w].key \in dirs' \/ w \in torn'
    BY SMTT(30), <1>1, <1>2, <1>4, <2>1 DEF TreesInv
  <2>2. ASSUME NEW k \in dirs'
        PROVE  \/ \E w \in DOMAIN workspaces' : workspaces'[w].key = k
               \/ \E q \in Procs : task'[q].pc = "insert" /\ task'[q].key = k
    <3>1. \/ \E w \in DOMAIN workspaces : workspaces[w].key = k
          \/ \E q \in Procs : task[q].pc = "insert" /\ task[q].key = k
      BY Zenon, <1>1, <1>4, <2>2 DEF TreesInv
    <3> QED
      BY Zenon, <1>2, <1>4, <2>2, <3>1
  <2>3. \A w \in DOMAIN workspaces' : workspaces'[w].key < nextKey'
    BY Zenon, <1>1, <1>2 DEF TreesInv
  <2>4. \A v, w \in DOMAIN workspaces' : workspaces'[v].key = workspaces'[w].key => v = w
    BY Zenon, <1>1, <1>2 DEF TreesInv
  <2> QED
    BY Zenon, <2>1, <2>2, <2>3, <2>4 DEF TreesInv
<1>6. IsFiniteSet(Stored') /\ Used' =< Used /\ Used' \in Nat /\ Used \in Nat
  BY Zenon, <1>1, <1>2, StoredLess DEF TableInv
<1>7. Used' =< WorkspaceQuota
  BY SMTT(30), <1>1, <1>6, DataPlaneAssumption
<1>8. ASSUME NEW q \in Procs PROVE Fits(q)'
  <2>1. CASE q = p
    BY Zenon, <2>1 DEF Fits, Plain, Creating, Activating, Runs, Collecting
  <2>2. CASE q # p
    <3>1. Fits(q) /\ task'[q] = task[q]
      BY Zenon, <1>1, <2>2
    <3>2. task[q].pc \in Creating => Used' + Cardinality(task[q].man) =< WorkspaceQuota
      <4>1. task[q].pc \in Creating => Cardinality(task[q].man) \in Nat
        BY Zenon, DataPlaneAssumption, FS_CardinalityType DEF TaskInv, Proper
      <4> QED
        BY SMTT(30), <1>6, <3>1, <4>1, DataPlaneAssumption DEF Fits
    <3>3. task[q].pc = "insert" => task[q].key \in dirs'
      BY Zenon, <1>4, <3>1 DEF Fits
    <3>4. task[q].pc \in {"clear", "reserve"} \union Runs =>
             task[q].ws \in DOMAIN workspaces' /\ workspaces'[task[q].ws].expires = None
      BY Zenon, <1>2, <3>1 DEF Fits
    <3> QED
      BY Zenon, <1>2, <3>1, <3>2, <3>3, <3>4 DEF Fits
  <2> QED
    BY Zenon, <2>1, <2>2
<1>9. ASSUME NEW q \in Procs, NEW r \in Procs, q # r PROVE Apart(q, r)'
  <2>1. CASE q # p /\ r # p
    BY Zenon, <1>9, <2>1 DEF TableInv, Apart
  <2>2. CASE q = p \/ r = p
    BY Zenon, <2>2 DEF Apart, Plain, Runs, Collecting
  <2> QED
    BY Zenon, <2>1, <2>2
<1> QED
  BY ZenonT(30), <1>3, <1>5, <1>6, <1>7, <1>8, <1>9 DEF TableInv

\* The pass over the workspaces.
LEMMA CollectWorkspacesStep ==
    ASSUME PlaneInv, NEW p \in Procs, CollectWorkspaces(p)
    PROVE  PlaneStep
<1> USE Before
<1>1. /\ boot = "up" /\ task[p].pc = "collect_workspaces" /\ proc[p].op = "idle" /\ task[p].time =< now
      /\ UNCHANGED <<manifests, artifacts, reserved, nextKey, boot, recovering, materializeLock, mapLock>>
  BY Zenon DEF CollectWorkspaces, At, LocksSame, Collecting, TaskInv
<1>2. StoreStep /\ Spared(p) /\ UNCHANGED <<proc, now, refs>>
  BY Zenon, BlobsAsBefore DEF CollectWorkspaces
<1>3. PICK gone \in SUBSET DOMAIN workspaces :
        /\ \A w \in gone : workspaces[w].expires # None
        /\ dirs' = dirs \ {workspaces[w].key : w \in gone}
        /\ \/ workspaces' = [w \in DOMAIN workspaces \ gone |-> workspaces[w]] /\ torn' = torn \ gone
           \/ /\ torn \union gone \subseteq torn' /\ torn' \subseteq torn \union DOMAIN workspaces
              /\ UNCHANGED workspaces
        /\ End(p) \/ Proceed(p, "collect_manifests")
  <2>1. PICK expired \in AtMost({w \in DOMAIN workspaces : Over(workspaces[w].expires, task[p].time)}, Limit) :
          \/ /\ dirs' = dirs \ {workspaces[w].key : w \in expired}
             /\ workspaces' = [w \in DOMAIN workspaces \ expired |-> workspaces[w]]
             /\ torn' = torn \ expired
             /\ Proceed(p, "collect_manifests")
          \/ /\ \E failed \in expired : \E removed \in SUBSET (expired \ {failed}) :
                   /\ dirs' = dirs \ {workspaces[w].key : w \in removed}
                   /\ torn' \in {torn \union removed, torn \union removed \union {failed}}
             /\ End(p) /\ UNCHANGED workspaces
    BY Zenon DEF CollectWorkspaces
  <2>2. expired \subseteq DOMAIN workspaces /\ \A w \in expired : workspaces[w].expires # None
    BY <2>1 DEF AtMost, Over
  <2> QED
    BY Zenon, <2>1, <2>2
<1>4. \E t : Becomes(p, t) /\ t.pc \in {"idle", "collect_manifests"} /\ t.time =< now
  <2>1. CASE End(p)
    BY SMTT(30), <2>1, Going DEF Stops, Task
  <2>2. CASE Proceed(p, "collect_manifests")
    <3> DEFINE u == Task("collect_manifests", task[p].ws, task[p].man, task[p].todo, task[p].key, task[p].time,
                         task[p].expires)
    <3>1. Becomes(p, u) /\ u.pc = "collect_manifests" /\ u.time =< now
      BY Zenon, <1>1, <2>2, Going DEF Goes, Task, TaskPcs, Collecting
    <3> HIDE DEF u
    <3> QED
      BY Zenon, <3>1
  <2> QED
    BY Zenon, <1>3, <2>1, <2>2
<1>5. PICK t : Becomes(p, t) /\ t.pc \in {"idle", "collect_manifests"} /\ t.time =< now
  BY Zenon, <1>4
<1>6. task'[p].pc \in {"idle", "collect_manifests"} /\ \A q \in Procs \ {p} : task'[q] = task[q]
  BY Zenon, <1>5 DEF Becomes
<1>7. TaskInv'
  <2>1. Proper(t)
    BY Zenon, <1>5 DEF Proper, Creating, Activating, Runs, Reads
  <2> QED
    BY Zenon, <1>1, <1>2, <1>5, <2>1, TaskKept
<1>8. TableInv'
  BY Zenon, <1>1, <1>3, <1>6, CollectTables DEF PlaneInv, Plain, Collecting
<1>9. ByteInv'
  <2>1. Bytes(p)'
    BY Zenon, <1>6 DEF Bytes, Runs
  <2> QED
    BY <1>1, <1>2, <1>6, <2>1, ByteKept DEF PlaneInv
<1> QED
  BY Zenon, <1>2, <1>7, <1>8, <1>9 DEF PlaneStep

\* The pass over the artifacts.
LEMMA CollectArtifactsStep ==
    ASSUME PlaneInv, NEW p \in Procs, CollectArtifacts(p)
    PROVE  PlaneStep
<1> USE Before
<1> DEFINE t == Task("collect_blobs", task[p].ws, task[p].man, task[p].todo, task[p].key, task[p].time, task[p].expires)
<1>1. /\ boot = "up" /\ task[p].pc = "collect_artifacts" /\ proc[p].op = "idle" /\ task[p].time =< now
      /\ UNCHANGED <<workspaces, dirs, manifests, reserved, torn, nextKey, boot, recovering, materializeLock, mapLock>>
  BY Zenon DEF CollectArtifacts, At, LocksSame, Collecting, TaskInv
<1>2. StoreStep /\ Spared(p) /\ UNCHANGED <<proc, now, refs>>
  BY Zenon, BlobsAsBefore DEF CollectArtifacts
<1>3. Becomes(p, t) /\ t.pc = "collect_blobs" /\ t.time = task[p].time
  BY Zenon, Going DEF CollectArtifacts, Goes, Task, TaskPcs, Collecting
<1> HIDE DEF t
<1>4. task'[p].pc = "collect_blobs" /\ \A q \in Procs \ {p} : task'[q] = task[q]
  BY Zenon, <1>3 DEF Becomes
<1>5. TaskInv'
  <2>1. Proper(t)
    BY Zenon, <1>3 DEF Proper, Creating, Activating, Runs, Reads
  <2> QED
    BY Zenon, <1>1, <1>2, <1>3, <2>1, TaskKept
<1>6. TableInv'
  <2>1. Fits(p)'
    BY Zenon, <1>4 DEF Fits, Creating, Activating, Runs
  <2>2. \A q \in Procs \ {p} : Apart(p, q)' /\ Apart(q, p)'
    BY Zenon, <1>4 DEF Apart, Runs
  <2>3. OwnLocks(p)
    BY Zenon, <1>1 DEF OwnLocks
  <2> QED
    BY Zenon, <1>1, <1>4, <2>1, <2>2, <2>3, TableKept DEF PlaneInv
<1>7. ByteInv'
  <2>1. PICK S : artifacts' = [w \in DOMAIN artifacts \ S |-> artifacts[w]]
    BY Zenon DEF CollectArtifacts
  <2>2. /\ DOMAIN artifacts' \subseteq DOMAIN artifacts
        /\ \A w \in DOMAIN artifacts' : artifacts'[w] = artifacts[w]
        /\ artifacts' \in [DOMAIN artifacts' -> [digest : {Output}, expires : Nat]]
    BY <2>1
  <2>3. ASSUME NEW q \in Procs PROVE Bytes(q)'
    <3>1. CASE q = p
      BY Zenon, <1>4, <3>1 DEF Bytes, Runs
    <3>2. CASE q # p
      <4>1. Bytes(q) /\ task'[q] = task[q]
        BY Zenon, <1>4, <3>2 DEF PlaneInv, ByteInv
      <4> QED
        BY Zenon, <1>2, <2>2, <4>1 DEF Bytes
    <3> QED
      BY <3>1, <3>2
  <2> QED
    BY Zenon, <1>1, <1>2, <2>2, <2>3 DEF PlaneInv, ByteInv
<1> QED
  BY <1>2, <1>5, <1>6, <1>7 DEF PlaneStep

\* The steps of a collection.
LEMMA CollectSteps ==
    ASSUME PlaneInv, NEW p \in Procs, Collect(p)
    PROVE  PlaneStep
<1> USE Before
<1>1. ASSUME StartCollect(p) PROVE PlaneStep
  <2> DEFINE t == Task("collect_workspaces", None, {}, {}, 0, now, 0)
  <2>1. Becomes(p, t) /\ boot = "up" /\ task[p].pc = "idle" /\ proc[p].op = "idle"
    BY Zenon, <1>1, OtherTasks DEF StartCollect, Free, At
  <2>2. t.pc = "collect_workspaces" /\ t.time = now /\ Proper(t)
    BY DEF Task, Proper, Creating, Activating, Runs, Reads
  <2>3. StoreStep /\ Spared(p) /\ UNCHANGED <<proc, now, refs>>
    BY <1>1, BlobsAsBefore DEF StartCollect
  <2> HIDE DEF t
  <2>4. OwnLocks(p)
    BY Zenon, <1>1 DEF StartCollect, LocksSame, OwnLocks
  <2> QED
    BY SMTT(30), <1>1, <2>1, <2>2, <2>3, <2>4, PlainStep DEF StartCollect, TablesSame, PlaneStep, Plain, Collecting
<1>2. ASSUME CollectManifests(p) PROVE PlaneStep
  <2> DEFINE t == Task("collect_artifacts", task[p].ws, task[p].man, task[p].todo, task[p].key, task[p].time, task[p].expires)
  <2>1. boot = "up" /\ task[p].pc = "collect_manifests" /\ proc[p].op = "idle" /\ task[p].time =< now
    BY Zenon, <1>2 DEF CollectManifests, At, Collecting, TaskInv
  <2>2. Becomes(p, t) /\ t.pc = "collect_artifacts" /\ t.time = task[p].time
    BY Zenon, <1>2, Going DEF CollectManifests, Goes, Task, TaskPcs, Collecting
  <2> HIDE DEF t
  <2>3. Proper(t) /\ OwnLocks(p)
    BY Zenon, <1>2, <2>2 DEF Proper, Creating, Activating, Runs, Reads, CollectManifests, LocksSame, OwnLocks
  <2>4. PICK S : /\ manifests' = [m \in DOMAIN manifests \ S |-> manifests[m]]
                 /\ refs' = OwnersReleased({ManifestOwner(m) : m \in S})
    BY Zenon, <1>2 DEF CollectManifests
  <2>5. manifests' \in [DOMAIN manifests' -> Nat] /\ DOMAIN manifests' \subseteq Manifests
    BY <2>4
  <2>6. StoreStep /\ UNCHANGED <<proc, now>>
    <3>1. IndexFree /\ UNCHANGED BlobRest
      BY <1>2 DEF CollectManifests, OnlyRefs, FilesSame, BlobRest
    <3>2. RefsStep
      BY Zenon, <2>4, <3>1, RefsSteps DEF PlaneInv
    <3> QED
      BY <3>1, <3>2 DEF BlobRest, StoreStep
  <2>7. Spared(p)
    BY Zenon, <2>4, OnlyOwners, SparedByOthers DEF PlaneInv
  <2> QED
    BY Zenon, <1>2, <2>1, <2>2, <2>3, <2>5, <2>6, <2>7, PlainStep DEF CollectManifests, PlaneStep, Plain, Collecting
<1>3. ASSUME CollectBlobs(p) PROVE PlaneStep
  <2>1. GcUnlink(p, task[p].time) /\ task[p].time =< now /\ task[p].time \in Nat /\ task[p].pc \in Calling
    BY Zenon, <1>3 DEF CollectBlobs, At, Calling, Collecting, TaskInv, TaskType
  <2>2. UNCHANGED <<refs, now>> /\ \A q \in Procs \ {p} : proc'[q] = proc[q]
    BY Zenon, <2>1 DEF GcUnlink
  <2>3. StoreStep
    BY Zenon, <2>1 DEF StoreStep, CallStep
  <2> QED
    BY Zenon, <1>3, <2>1, <2>2, <2>3, CallsKept DEF CollectBlobs, PlaneStep
<1>4. ASSUME Collected(p) PROVE PlaneStep
  <2>1. boot = "up" /\ task[p].pc = "collect_blobs" /\ Finish(p) /\ Stops(p) /\ OwnLocks(p)
    BY Zenon, <1>4, Going DEF Collected, LocksSame, OwnLocks
  <2> QED
    BY Zenon, <1>4, <2>1, FinishStep, StopStep DEF Collected, PlaneStep
<1> QED
  BY Zenon, <1>1, <1>2, <1>3, <1>4, CollectWorkspacesStep, CollectArtifactsStep DEF Collect

-----------------------------------------------------------------------------
(* The restart, when there is no task.                                       *)

\* What is left to show of the tables and the references.
LEMMA Starting ==
    ASSUME PlaneInv, \A p \in Procs : task'[p].pc = "idle", now' = now, UNCHANGED <<artifacts, reserved>>,
           TableTypes', TreesInv', DOMAIN workspaces' \subseteq DOMAIN workspaces,
           \A w \in DOMAIN workspaces' : workspaces'[w].man = workspaces[w].man,
           \A r \in DOMAIN refs : \A w \in Workspaces :
              r = <<ArtifactOwner(w), Output>> /\ refs[r] \in Nat /\ refs[r] > now =>
                 r \in DOMAIN refs' /\ refs'[r] = refs[r],
           \A r \in DOMAIN refs' : \A p \in Procs : r[1] = ReaderOwner(p) => r \in DOMAIN refs
    PROVE  TableInv' /\ ByteInv'
<1>1. TableInv'
  <2>1. IsFiniteSet(Stored') /\ Used' =< Used /\ Used' \in Nat /\ Used \in Nat /\ Used =< WorkspaceQuota
    BY Zenon, StoredLess DEF PlaneInv, TableInv
  <2>2. Used' =< WorkspaceQuota
    BY SMTT(30), <2>1, DataPlaneAssumption
  <2>3. \A p \in Procs : Fits(p)'
    BY Zenon DEF Fits, Creating, Activating, Runs
  <2>4. \A p, q \in Procs : Apart(p, q)'
    BY Zenon DEF Apart, Runs
  <2> QED
    BY Zenon, <2>1, <2>2, <2>3, <2>4 DEF TableInv
<1>2. ByteInv'
  <2>1. \A p \in Procs : Bytes(p)'
    BY Zenon DEF Bytes, Runs
  <2>2. ASSUME NEW w \in DOMAIN artifacts, artifacts[w].expires > now
        PROVE  LET r == <<ArtifactOwner(w), Output>> IN r \in DOMAIN refs' /\ refs'[r] = artifacts[w].expires
    <3>1. /\ <<ArtifactOwner(w), Output>> \in DOMAIN refs /\ artifacts[w].expires \in Nat /\ w \in Workspaces
          /\ refs[<<ArtifactOwner(w), Output>>] = artifacts[w].expires
      BY Zenon, <2>2 DEF PlaneInv, ByteInv, TableInv, TableTypes
    <3> QED
      BY Zenon, <2>2, <3>1
  <2> QED
    BY Zenon, <2>1, <2>2 DEF PlaneInv, ByteInv
<1> QED
  BY Zenon, <1>1, <1>2

\* The process dies, and the stores are opened again.
LEMMA CrashStep ==
    ASSUME PlaneInv, Crash
    PROVE  PlaneStep
<1>1. StoreStep /\ now' = now
  BY Zenon DEF Crash, StoreStep, Reopen
<1>2. /\ task' = [p \in Procs |-> NoTask] /\ proc' = [p \in Procs |-> Idle] /\ boot' = "rows" /\ recovering' = {}
      /\ materializeLock' = None /\ mapLock' = None /\ UNCHANGED <<manifests, artifacts, reserved, nextKey>>
  BY Zenon DEF Crash, Reopen
<1>3. TaskInv'
  <2>1. Proper(NoTask)
    BY Zenon, Nothing DEF Proper, Creating, Activating, Runs, Reads
  <2> QED
    BY Zenon, <1>2, <2>1, Nothing DEF TaskInv, Collecting, Idle
<1>4. \A p \in Procs : task'[p].pc = "idle"
  BY Zenon, <1>2, Nothing
<1>5. /\ DOMAIN workspaces' = {w \in DOMAIN workspaces : workspaces[w].key \in dirs}
      /\ \A w \in DOMAIN workspaces' : workspaces'[w] = workspaces[w]
      /\ dirs' = {workspaces[w].key : w \in DOMAIN workspaces'} /\ torn' \subseteq torn
      /\ workspaces' \in [DOMAIN workspaces' -> Row]
  BY Zenon DEF Crash, WorkspacesReconciled, PlaneInv, TableInv, TableTypes
<1>6. TableTypes'
  BY Zenon, <1>2, <1>5 DEF PlaneInv, TableInv, TableTypes
<1>7. TreesInv'
  BY SMTT(30), <1>2, <1>5 DEF PlaneInv, TableInv, TreesInv
<1>8. ASSUME NEW r \in DOMAIN refs, NEW w \in Workspaces, r = <<ArtifactOwner(w), Output>>, refs[r] \in Nat, refs[r] > now
      PROVE  r \in DOMAIN refs' /\ refs'[r] = refs[r]
  <2>1. Output \in blobs /\ r \in References
    BY Zenon, <1>8 DEF PlaneInv, BlobInv, RefInv
  <2>2. pass # None => r \notin pass.expired
    BY SMTT(30), <1>8 DEF PlaneInv, StoreInv
  <2>3. pass # None => Output \notin pass.gone
    BY SMTT(30), <1>8, <2>2 DEF PlaneInv, BlobInv, RefInv
  <2>4. Output \in DOMAIN files
    BY Zenon, <2>1, <2>3 DEF PlaneInv, BlobInv, StoreInv, IndexedReadable
  <2>5. refs' = Keep(refs, Owners \X (blobs \intersect DOMAIN files))
    BY Zenon DEF Crash, Reopen, Reconciled
  <2>6. r \in Owners \X (blobs \intersect DOMAIN files)
    BY Zenon, <1>8, <2>1, <2>4, OwnersHere
  <2> QED
    BY Zenon, <2>5, <2>6 DEF Keep
<1>9. DOMAIN refs' \subseteq DOMAIN refs
  BY Zenon DEF Crash, Reopen, Reconciled, Keep
<1> QED
  BY ZenonT(30), <1>1, <1>2, <1>3, <1>4, <1>5, <1>6, <1>7, <1>8, <1>9, Starting DEF PlaneStep

\* What recover_retention and reconcile_manifests repair.
LEMMA BootSteps ==
    ASSUME PlaneInv, BootRows \/ BootRefs \/ BootManifests
    PROVE  PlaneStep
<1>1. /\ \A p \in Procs : task[p].pc = "idle"
      /\ UNCHANGED <<task, proc, now, artifacts, reserved, dirs, torn, nextKey, materializeLock, mapLock>>
  BY Zenon DEF BootRows, BootRefs, BootManifests, PlaneInv, TaskInv, BlobsSame, blobVars, OnlyRefs, FilesSame, LocksSame
<1>2. TaskInv'
  BY Zenon, <1>1 DEF PlaneInv, TaskInv
<1>3. TableTypes /\ TreesInv /\ now + Retention \in Nat
  BY SMTT(30), DataPlaneAssumption DEF PlaneInv, TableInv, StoreInv
<1>4. /\ DOMAIN workspaces' = DOMAIN workspaces /\ workspaces' \in [DOMAIN workspaces' -> Row]
      /\ \A w \in DOMAIN workspaces : workspaces'[w].key = workspaces[w].key /\ workspaces'[w].man = workspaces[w].man
  <2>1. CASE BootRows
    BY ZenonT(30), <1>3, <2>1 DEF BootRows, TableTypes, Row
  <2>2. CASE UNCHANGED workspaces
    BY Zenon, <1>3, <2>2 DEF TableTypes
  <2> QED
    BY Zenon, <2>1, <2>2 DEF BootRefs, BootManifests
<1>5. TreesInv'
  <2>1. \A k : (\E w \in DOMAIN workspaces : workspaces[w].key = k) =>
                  \E w \in DOMAIN workspaces' : workspaces'[w].key = k
    BY Zenon, <1>4
  <2> QED
    BY Zenon, <1>1, <1>3, <1>4, <2>1 DEF TreesInv
<1>6. TableTypes'
  <2>1. boot' \in {"up", "rows", "refs", "manifests"} /\ recovering' \subseteq Workspaces
    BY Zenon, <1>3 DEF BootRows, BootRefs, BootManifests, TableTypes
  <2>2. manifests' \in [DOMAIN manifests' -> Nat] /\ DOMAIN manifests' \subseteq Manifests
    BY Zenon, <1>3 DEF BootRows, BootRefs, BootManifests, TableTypes
  <2> QED
    BY Zenon, <1>1, <1>3, <1>4, <2>1, <2>2 DEF TableTypes
<1>7. /\ StoreStep
      /\ \E S : Only(S) /\ \A o \in S : \E x : o = WorkspaceOwner(x) \/ o = ManifestOwner(x)
  <2>1. CASE UNCHANGED blobVars
    <3>1. Only({})
      BY Zenon, <2>1 DEF Only, blobVars
    <3> QED
      BY SMTT(30), <2>1, <3>1 DEF StoreStep
  <2>2. ASSUME NEW w, SetReferenceExpiry(WorkspaceOwner(w), now + Retention), OnlyRefs
        PROVE  StoreStep /\ Only({WorkspaceOwner(w)})
    <3>1. IndexFree /\ UNCHANGED BlobRest
      BY Zenon, <2>2 DEF OnlyRefs, FilesSame, BlobRest, SetReferenceExpiry
    <3> QED
      BY Zenon, <1>3, <2>2, <3>1, RefsSteps, OnlyOwners DEF StoreStep, PlaneInv
  <2>3. ASSUME NEW S, refs' = OwnersReleased({ManifestOwner(m) : m \in S}), OnlyRefs, IndexFree
        PROVE  StoreStep /\ Only({ManifestOwner(m) : m \in S})
    <3>1. UNCHANGED BlobRest
      BY Zenon, <2>3 DEF OnlyRefs, FilesSame, BlobRest
    <3> QED
      BY Zenon, <2>3, <3>1, RefsSteps, OnlyOwners DEF StoreStep, PlaneInv
  <2>4. CASE BootRows
    BY Zenon, <2>1, <2>4 DEF BootRows, BlobsSame
  <2>5. CASE BootRefs
    <3>1. CASE UNCHANGED refs
      BY Zenon, <2>1, <2>5, <3>1 DEF BootRefs, OnlyRefs, FilesSame, blobVars
    <3>2. CASE \E w \in recovering : SetReferenceExpiry(WorkspaceOwner(w), now + Retention)
      <4>1. PICK w \in recovering : SetReferenceExpiry(WorkspaceOwner(w), now + Retention)
        BY Zenon, <3>2
      <4>2. StoreStep /\ Only({WorkspaceOwner(w)})
        BY Zenon, <2>2, <2>5, <4>1 DEF BootRefs
      <4> QED
        BY <4>2
    <3> QED
      BY Zenon, <2>5, <3>1, <3>2 DEF BootRefs
  <2>6. CASE BootManifests
    <3>1. PICK M : refs' = OwnersReleased({ManifestOwner(m) : m \in M})
      BY Zenon, <2>6 DEF BootManifests
    <3>2. StoreStep /\ Only({ManifestOwner(m) : m \in M})
      BY Zenon, <2>3, <2>6, <3>1 DEF BootManifests
    <3> QED
      BY SMTT(30), <3>2
  <2> QED
    BY <2>4, <2>5, <2>6
<1>8. PICK S : Only(S) /\ \A o \in S : \E x : o = WorkspaceOwner(x) \/ o = ManifestOwner(x)
  BY Zenon, <1>7
<1>9. \A x : ArtifactOwner(x) \notin S /\ ReaderOwner(x) \notin S
  BY Zenon, <1>8 DEF ArtifactOwner, ReaderOwner, WorkspaceOwner, ManifestOwner
<1>10. \A r \in DOMAIN refs : \A w : r = <<ArtifactOwner(w), Output>> => r \in DOMAIN refs' /\ refs'[r] = refs[r]
  BY Zenon, <1>8, <1>9 DEF Only
<1>11. \A r \in DOMAIN refs' : \A p : r[1] = ReaderOwner(p) => r \in DOMAIN refs
  BY Zenon, <1>8, <1>9 DEF Only
<1>12. TableInv' /\ ByteInv'
  BY Zenon, <1>1, <1>4, <1>5, <1>6, <1>10, <1>11, Starting
<1> QED
  BY Zenon, <1>2, <1>7, <1>12 DEF PlaneStep

-----------------------------------------------------------------------------
(* The invariant and what follows from it.                                   *)

\* The invariant holds of an empty data root.
LEMMA PlaneStart == PlaneInit => PlaneInv
<1> SUFFICES ASSUME PlaneInit PROVE PlaneInv
  BY Zenon
<1>1. BlobInv
  BY Zenon, InitInv DEF PlaneInit
<1>2. StoreInv
  <2>1. /\ files = [d \in {} |-> "good"] /\ refs = [r \in {} |-> None] /\ stale = FALSE /\ displaced = {}
        /\ writeLock = None /\ pass = None /\ proc = [p \in Procs |-> Idle] /\ now = 0
    BY Zenon DEF PlaneInit, BlobInit
  <2>2. \A p \in Procs : proc[p].pc = "idle" /\ proc[p].op = "idle"
    BY Zenon, <2>1 DEF Idle
  <2>3. DOMAIN files = {} /\ DOMAIN refs = {} /\ now \in 0..MaxTime
    BY SMTT(30), <2>1, BlobAssumption
  <2>4. files \in [DOMAIN files -> {"good"}] /\ refs \in [DOMAIN refs -> Nat \union {None}]
    BY Zenon, <2>1
  <2> QED
    BY Zenon, <2>1, <2>2, <2>3, <2>4 DEF StoreInv
<1>3. /\ task = [p \in Procs |-> NoTask] /\ boot = "up" /\ \A p \in Procs : task[p].pc = "idle"
  BY Zenon, Nothing DEF PlaneInit
<1>4. TaskInv
  <2>1. Proper(NoTask)
    BY Zenon, Nothing DEF Proper, Creating, Activating, Runs, Reads
  <2> QED
    BY Zenon, <1>3, <2>1, Nothing DEF TaskInv, Collecting, Calling
<1>5. TableInv
  <2>1. /\ DOMAIN workspaces = {} /\ workspaces \in [DOMAIN workspaces -> Row] /\ dirs = {} /\ torn = {} /\ reserved = {}
        /\ DOMAIN manifests = {} /\ manifests \in [DOMAIN manifests -> Nat]
        /\ nextKey = 1 /\ materializeLock = None /\ mapLock = None /\ recovering = {}
    BY Zenon DEF PlaneInit
  <2>2. TableTypes /\ TreesInv
    BY SMTT(30), <1>3, <2>1, DataPlaneAssumption DEF TableTypes, TreesInv
  <2>3. Stored = {}
    BY Zenon, <2>1 DEF Stored
  <2>4. IsFiniteSet(Stored) /\ Used =< WorkspaceQuota
    BY SMTT(30), <2>3, FS_EmptySet, DataPlaneAssumption DEF Used
  <2>5. \A p \in Procs : Fits(p)
    BY Zenon, <1>3 DEF Fits, Creating, Activating, Runs
  <2>6. \A p, q \in Procs : Apart(p, q)
    BY Zenon, <1>3 DEF Apart, Runs
  <2> QED
    BY Zenon, <2>2, <2>4, <2>5, <2>6 DEF TableInv
<1>6. ByteInv
  <2>1. DOMAIN artifacts = {} /\ artifacts \in [DOMAIN artifacts -> [digest : {Output}, expires : Nat]] /\ DOMAIN refs = {}
    BY Zenon DEF PlaneInit, BlobInit
  <2>2. \A p \in Procs : Bytes(p)
    BY Zenon, <1>3 DEF Bytes, Runs
  <2> QED
    BY Zenon, <2>1, <2>2 DEF ByteInv
<1> QED
  BY Zenon, <1>1, <1>2, <1>4, <1>5, <1>6 DEF PlaneInv

\* Every step keeps the invariant and is a step of the blob store.
LEMMA PlaneSteps ==
    ASSUME PlaneInv, [PlaneNext]_allVars
    PROVE  PlaneInv' /\ (StoreStep \/ UNCHANGED blobVars)
<1>1. CASE UNCHANGED allVars
  <2>1. UNCHANGED blobVars /\ UNCHANGED planeVars
    BY Zenon, <1>1 DEF allVars
  <2>2. BlobInv' /\ StoreInv'
    BY Zenon, <2>1, StoreStepInv DEF StoreStep, PlaneInv
  <2>3. TaskInv' /\ TableInv'
    <3>1. UNCHANGED <<now, workspaces, dirs, manifests, reserved, torn, nextKey, materializeLock,
                      mapLock, task, boot, recovering>>
      BY Zenon, <2>1 DEF blobVars, planeVars
    <3>2. TaskInv'
      BY <2>1 DEF blobVars, planeVars, PlaneInv, TaskInv
    <3> QED
      BY Zenon, <3>1, <3>2, TablesStay DEF PlaneInv
  <2>4. ByteInv'
    BY <2>1 DEF blobVars, planeVars, PlaneInv, ByteInv, Bytes
  <2> QED
    BY Zenon, <2>1, <2>2, <2>3, <2>4 DEF PlaneInv
<1>2. CASE PlaneNext
  <2>1. PlaneStep
    BY Zenon, <1>2, CreateSteps, ExecuteSteps, DownloadSteps, CollectSteps, StoreSteps, PassesStep, CrashStep, BootSteps
    DEF PlaneNext
  <2>2. BlobInv' /\ StoreInv'
    BY Zenon, <2>1, StoreStepInv DEF PlaneStep, PlaneInv
  <2> QED
    BY <2>1, <2>2 DEF PlaneStep, PlaneInv
<1> QED
  BY Zenon, <1>1, <1>2

\* The invariant of the node's stores.
LEMMA PlaneInvariant == PlaneSpec => []PlaneInv
<1>1. PlaneInv /\ [PlaneNext]_allVars => PlaneInv'
  BY Zenon, PlaneSteps
<1> QED
  BY <1>1, PlaneStart, PTL DEF PlaneSpec

\* Whatever else activates, refuses or ends the same workspace meanwhile, the workspace of a
\* running execution has no expiry, so that no collection takes it, and has its directory if
\* no pass that failed removed that before (execute, mark_active, mark_terminal,
\* garbage_collect).
THEOREM ActiveKeptHolds == PlaneSpec => []ActiveKept
<1>1. PlaneInv => ActiveKept
  <2> SUFFICES ASSUME PlaneInv, NEW p \in Procs, Running(p)
               PROVE  LET w == task[p].ws
                      IN /\ w \in DOMAIN workspaces /\ workspaces[w].expires = None
                         /\ workspaces[w].key \in dirs \/ w \in torn
    BY Zenon DEF ActiveKept
  <2>1. task[p].ws \in DOMAIN workspaces /\ workspaces[task[p].ws].expires = None
    BY Zenon DEF PlaneInv, TableInv, Fits, Running, Runs
  <2> QED
    BY Zenon, <2>1 DEF PlaneInv, TableInv, TreesInv
<1> QED
  BY <1>1, PlaneInvariant, PTL

\* A workspace loses its directory to a pass that fails, and to nothing else.
LEMMA NothingTorn ==
    ASSUME "io" \notin Faults, torn = {}, [PlaneNext]_allVars
    PROVE  torn' = {}
<1>1. CASE UNCHANGED torn
  BY Zenon, <1>1
<1>2. (UNCHANGED planeVars => UNCHANGED torn) /\ (TablesSame => UNCHANGED torn)
  BY Zenon DEF planeVars, TablesSame
<1>3. CASE Crash
  BY Zenon, <1>3 DEF Crash, WorkspacesReconciled
<1>4. ASSUME NEW p \in Procs, Create(p) PROVE UNCHANGED torn
  <2>1. \A w \in Workspaces, m \in Manifests : StartCreate(p, w, m) => UNCHANGED torn
    BY Zenon, <1>2 DEF StartCreate
  <2>2. \A w \in Workspaces, m, base \in Manifests : StartDerive(p, w, base, m) => UNCHANGED torn
    BY Zenon, <1>2 DEF StartDerive
  <2>3. DeriveBase(p) \/ DropManifestRow(p) \/ DropManifestRefs(p) => UNCHANGED torn
    BY Zenon, <1>2 DEF DeriveBase, DropManifestRow, DropManifestRefs
  <2>4. CreateAdmit(p) \/ CreateVerify(p) \/ CreateVerified(p) \/ CreateRefused(p) => UNCHANGED torn
    BY Zenon, <1>2 DEF CreateAdmit, CreateVerify, CreateVerified, CreateRefused
  <2>5. CreateRetain(p) \/ StoreManifestRow(p) \/ StoreManifestRefs(p) => UNCHANGED torn
    BY Zenon, <1>2 DEF CreateRetain, StoreManifestRow, StoreManifestRefs
  <2>6. CreateTree(p) \/ CreateTreeFailed(p) \/ CreateDropped(p) \/ CreateInsert(p) => UNCHANGED torn
    BY Zenon, <1>2 DEF CreateTree, CreateTreeFailed, CreateDropped, CreateInsert
  <2> QED
    BY Zenon, <1>4, <2>1, <2>2, <2>3, <2>4, <2>5, <2>6 DEF Create
<1>5. ASSUME NEW p \in Procs, Execute(p) PROVE UNCHANGED torn
  <2>1. (\E w \in Workspaces : ExecuteResolve(p, w)) \/ ExecuteLookup(p) \/ ExecuteActivate(p) => UNCHANGED torn
    BY Zenon, <1>2 DEF ExecuteResolve, ExecuteLookup, ExecuteActivate
  <2>2. ExecuteClear(p) \/ ExecuteReserve(p) \/ ExecuteDropped(p) \/ RunEnds(p) => UNCHANGED torn
    BY Zenon, <1>2 DEF ExecuteClear, ExecuteReserve, ExecuteDropped, RunEnds
  <2>3. CaptureBlob(p) \/ Captured(p) \/ CaptureRetain(p) \/ CaptureInsert(p) => UNCHANGED torn
    BY Zenon, <1>2 DEF CaptureBlob, Captured, CaptureRetain, CaptureInsert
  <2>4. MarkTerminalRow(p) \/ MarkTerminalRefs(p) => UNCHANGED torn
    BY Zenon, <1>2 DEF MarkTerminalRow, MarkTerminalRefs
  <2> QED
    BY Zenon, <1>5, <2>1, <2>2, <2>3, <2>4 DEF Execute
<1>6. ASSUME NEW p \in Procs, Download(p) PROVE UNCHANGED torn
  BY Zenon, <1>2, <1>6 DEF Download, DownloadGet, DownloadRetain, DownloadVerify, DownloadOpen, DownloadChunk,
     DownloadClose
<1>7. ASSUME NEW p \in Procs, CollectWorkspaces(p) PROVE torn' = {}
  BY Zenon, <1>7 DEF CollectWorkspaces
<1>8. ASSUME NEW p \in Procs, Collect(p), ~CollectWorkspaces(p) PROVE UNCHANGED torn
  BY Zenon, <1>2, <1>8 DEF Collect, StartCollect, CollectManifests, CollectArtifacts, CollectBlobs, Collected
<1>9. ASSUME NEW p \in Procs, Uploaded(p) \/ InBlobStore(p) \/ \E d \in Digests : Upload(p, d) PROVE UNCHANGED torn
  BY Zenon, <1>2, <1>9 DEF Uploaded, InBlobStore, Upload
<1>10. ASSUME BootRows \/ BootRefs \/ BootManifests \/ Passes PROVE UNCHANGED torn
  BY Zenon, <1>2, <1>10 DEF BootRows, BootRefs, BootManifests, Passes
<1> QED
  BY Zenon, <1>1, <1>2, <1>3, <1>4, <1>5, <1>6, <1>7, <1>8, <1>9, <1>10 DEF PlaneNext, allVars

\* The directory itself.
DirectoryKept ==
    \A p \in Procs : Running(p) => task[p].ws \in DOMAIN workspaces /\ workspaces[task[p].ws].key \in dirs

\* When no removal of a directory fails the exception is gone: the directory of the workspace
\* of a running execution is there for as long as it runs (execute, mark_active,
\* garbage_collect).
THEOREM DirectoryKeptHolds == ASSUME "io" \notin Faults PROVE PlaneSpec => []DirectoryKept
<1>1. PlaneInit => torn = {}
  BY Zenon DEF PlaneInit
<1>2. torn = {} /\ [PlaneNext]_allVars => (torn = {})'
  BY Zenon, NothingTorn
<1>3. ActiveKept /\ torn = {} => DirectoryKept
  BY Zenon DEF ActiveKept, DirectoryKept
<1> QED
  BY <1>1, <1>2, <1>3, ActiveKeptHolds, PTL DEF PlaneSpec

\* Overlapping creates, executions, collections and restarts leave the table of workspaces
\* whole, each row that resolve accepts with its directory, and within the quota
\* (materialize, mark_active, garbage_collect, reconcile).
THEOREM WorkspacesSoundHolds == PlaneSpec => []WorkspacesSound
<1>1. PlaneInv => WorkspacesSound
  <2> SUFFICES ASSUME PlaneInv PROVE PlaneTypeOK /\ ReadyHasTree /\ WorkspaceQuotaHeld
    BY Zenon DEF WorkspacesSound
  <2>1. TypeOK
    <3>1. BlobInv /\ StoreInv
      BY Zenon DEF PlaneInv
    <3>2. /\ DOMAIN files \subseteq Digests /\ files \in [DOMAIN files -> Content] /\ blobs \subseteq Digests
          /\ DOMAIN refs \subseteq References /\ refs \in [DOMAIN refs -> Nat \union {None}]
          /\ stale \in BOOLEAN /\ displaced \subseteq Digests /\ writeLock \in Procs \union {None} /\ now \in 0..MaxTime
      BY Zenon, <3>1 DEF BlobInv, TypeInv, RefInv, StoreInv, Content
    <3>3. \/ pass = None
          \/ /\ pass.by \in Procs /\ pass.gone \subseteq Digests
             /\ pass.expired \subseteq References /\ pass.ok \in BOOLEAN
      BY Zenon, <3>1 DEF BlobInv, TypeInv, PassType, References
    <3>4. \A p \in Procs :
             /\ proc[p].op \in {"idle", "put", "verify", "gc"}
             /\ proc[p].pc \in {"idle", "writing", "renamed", "failed", "look", "hash",
                                "corrupt", "unindex", "collect", "return"}
             /\ proc[p].digest \in Digests \union {None}
             /\ proc[p].res \in Results \union {None}
      BY Zenon, <3>1 DEF BlobInv, TypeInv, Calls, Pcs
    <3> QED
      BY Zenon, <3>2, <3>3, <3>4 DEF TypeOK
  <2>2. PlaneTypeOK
    <3>1. TableTypes /\ task \in [Procs -> TaskType] /\ DOMAIN artifacts \subseteq Workspaces
      BY Zenon DEF PlaneInv, TaskInv, TableInv, TableTypes, ByteInv
    <3>2. \A p \in Procs : DOMAIN task[p] = DOMAIN NoTask
      BY Zenon, <3>1 DEF TaskType, NoTask
    <3> QED
      BY Zenon, <2>1, <3>1, <3>2 DEF PlaneTypeOK, TableTypes
  <2>3. ReadyHasTree
    <3>1. \A p \in Procs : task[p].pc = "insert" => At(p, "insert")
      BY Zenon DEF PlaneInv, TaskInv, At, Calling
    <3> QED
      BY Zenon, <3>1 DEF PlaneInv, TableInv, TreesInv, ReadyHasTree
  <2>4. WorkspaceQuotaHeld
    BY Zenon DEF PlaneInv, TableInv, WorkspaceQuotaHeld
  <2> QED
    BY Zenon, <2>2, <2>3, <2>4
<1> QED
  BY <1>1, PlaneInvariant, PTL

\* No collection takes the bytes of an artifact that can still be got, nor those of a download
\* whose lease has not run out (capture_declared, artifact_download, collect_garbage).
THEOREM BytesKeptHolds == PlaneSpec => []BytesKept
<1>1. PlaneInv => BytesKept
  <2> SUFFICES ASSUME PlaneInv PROVE ArtifactPinned /\ DownloadKept
    BY Zenon DEF BytesKept
  <2>1. ArtifactPinned
    <3> SUFFICES ASSUME NEW w \in DOMAIN artifacts, Live(artifacts[w].expires)
                 PROVE  LET r == <<ArtifactOwner(w), artifacts[w].digest>>
                        IN /\ r \in DOMAIN refs /\ refs[r] = artifacts[w].expires
                           /\ artifacts[w].digest \in blobs
      BY Zenon DEF ArtifactPinned
    <3>1. artifacts[w].digest = Output /\ artifacts[w].expires > now
      BY SMTT(30), BlobAssumption DEF PlaneInv, ByteInv, Live
    <3>2. <<ArtifactOwner(w), Output>> \in DOMAIN refs /\ refs[<<ArtifactOwner(w), Output>>] = artifacts[w].expires
      BY Zenon, <3>1 DEF PlaneInv, ByteInv
    <3>3. Output \in blobs
      BY Zenon, <3>2 DEF PlaneInv, BlobInv, RefInv
    <3> QED
      BY Zenon, <3>1, <3>2, <3>3
  <2>2. DownloadKept
    <3> SUFFICES ASSUME NEW p \in Procs, At(p, "stream"), task[p].expires > now
                 PROVE  task[p].todo \subseteq blobs \intersect DOMAIN files
      BY Zenon DEF DownloadKept
    <3> DEFINE r == <<ReaderOwner(p), Output>>
    <3>1. task[p].todo = {Output} /\ task[p].pc = "stream" /\ task[p].expires \in Nat
      BY Zenon DEF PlaneInv, TaskInv, Proper, At, Reads, TaskType
    <3>2. r \in DOMAIN refs /\ refs[r] = task[p].expires
      BY Zenon, <3>1 DEF PlaneInv, ByteInv, Bytes
    <3>3. Output \in blobs
      BY <3>2 DEF PlaneInv, BlobInv, RefInv
    <3>4. pass # None => r \notin pass.expired
      BY <3>1, <3>2 DEF PlaneInv, StoreInv
    <3>5. pass # None => Output \notin pass.gone
      <4>1. r[2] = Output
        OBVIOUS
      <4> HIDE DEF r
      <4> QED
        BY Zenon, <3>2, <3>4, <4>1 DEF PlaneInv, BlobInv, RefInv
    <3>6. Output \in DOMAIN files
      BY Zenon, <3>3, <3>5 DEF PlaneInv, BlobInv, StoreInv, IndexedReadable
    <3> QED
      BY Zenon, <3>1, <3>3, <3>6
  <2> QED
    BY Zenon, <2>1, <2>2
<1> QED
  BY <1>1, PlaneInvariant, PTL

\* What the index offers is there, but for what a pass that has not committed has unlinked.
IndexedPresent == \A d \in blobs : d \in DOMAIN files \/ (pass # None /\ d \in pass.gone)

\* The operations of the node use the blob store as it can be used: with all of them running
\* and no file damaged, the blobs stay within their quota, what the index offers is there to
\* read, without the exceptions that verification makes in IndexedReadable, and no file that a
\* live reference pins is removed (put_stream, garbage_collect, remove_stale_parts as
\* materialize, capture_declared, artifact_download and collect_garbage call them).
THEOREM StoreKeptHolds == PlaneSpec => []QuotaHeld /\ []IndexedPresent /\ PinnedKept
<1> DEFINE Kept ==
      \A d \in DOMAIN files \ DOMAIN files' :
          Pinned(d) => \E p \in Procs : proc[p].pc = "corrupt" /\ proc[p].digest = d
<1>1. PlaneInv /\ [PlaneNext]_allVars => [Kept]_blobVars
  <2> SUFFICES ASSUME PlaneInv, [PlaneNext]_allVars, NEW d \in DOMAIN files \ DOMAIN files', Pinned(d)
               PROVE  FALSE
    BY Zenon
  <2>1. d \in blobs /\ d \in Digests /\ files' # files
    BY Zenon DEF Pinned, PlaneInv, BlobInv, RefInv, TypeInv
  <2>2. PICK r \in DOMAIN refs : r[2] = d /\ Live(refs[r])
    BY Zenon DEF Pinned
  <2>3. now \in Nat /\ refs[r] \in Nat \union {None} /\ \A p \in Procs : proc[p].pc \notin {"corrupt", "unindex"}
    BY SMTT(30), BlobAssumption DEF PlaneInv, StoreInv
  <2>4. ASSUME NEW p \in Procs, NEW t \in Nat, t =< now, GcUnlink(p, t) PROVE FALSE
    <3>1. PICK expired \in AtMost(Expired(t), Limit) :
          \E candidates \in AtMost(Unreferenced(expired), Limit) :
          \E gone \in SUBSET candidates : files' = Keep(files, Digests \ gone)
      BY Zenon, <2>4 DEF GcUnlink
    <3>2. d \in Unreferenced(expired)
      BY Zenon, <2>1, <3>1 DEF AtMost, Keep
    <3>3. r \in Expired(t)
      BY Zenon, <2>2, <3>2, <3>1 DEF Unreferenced, AtMost
    <3>4. refs[r] # None /\ refs[r] =< t /\ refs[r] > now
      BY Zenon, <2>2, <3>3 DEF Expired, Live
    <3> QED
      BY SMTT(30), <2>3, <2>4, <3>4
  <2>5. ASSUME NEW p \in Procs, PutCleanup(p) PROVE FALSE
    BY Zenon, <2>1, <2>5 DEF PutCleanup, Keep
  <2>6. ASSUME NEW p \in Procs, VerifyQuarantine(p) \/ VerifyUnindex(p) PROVE FALSE
    BY Zenon, <2>3, <2>6 DEF VerifyQuarantine, VerifyUnindex
  <2>7. ASSUME NEW p \in Procs, PutRename(p) PROVE FALSE
    BY Zenon, <2>7 DEF PutRename
  <2>8. ASSUME Reopen PROVE FALSE
    BY Zenon, <2>1, <2>8 DEF Reopen, Reconciled, Keep
  <2>9. ASSUME NEW p \in Procs,
               \/ PutBody(p) \/ PutInsert(p) \/ VerifyLook(p) \/ VerifyHash(p)
               \/ GcCommit(p) \/ Drop(p) \/ Finish(p) \/ Aborts(p)
               \/ \E b \in Digests : PutStart(p, b) \/ VerifyStart(p, b)
        PROVE  FALSE
    BY Zenon, <2>1, <2>9 DEF PutBody, PutInsert, VerifyLook, VerifyHash, GcCommit, Drop, Finish, Aborts,
                             PutStart, VerifyStart
  <2>10. ~Tick /\ ~RefsStep /\ ~UNCHANGED blobVars
    BY Zenon, <2>1 DEF Tick, RefsStep, BlobRest, blobVars
  <2>11. StoreStep
    BY Zenon, <2>10, PlaneSteps
  <2> QED
    BY Zenon, <2>4, <2>5, <2>6, <2>7, <2>8, <2>9, <2>10, <2>11 DEF StoreStep, CallStep, BlobStep
<1>2. PinnedKept <=> [][Kept]_blobVars
  BY Zenon DEF PinnedKept
<1>3. PlaneInv => QuotaHeld /\ IndexedPresent
  <2>1. PlaneInv => QuotaHeld
    BY DEF PlaneInv, BlobInv, QuotaInv, QuotaHeld
  <2>2. PlaneInv => IndexedPresent
    BY Zenon DEF PlaneInv, BlobInv, StoreInv, IndexedReadable, IndexedPresent
  <2> QED
    BY Zenon, <2>1, <2>2
<1> QED
  BY <1>1, <1>2, <1>3, PlaneInvariant, PTL DEF PlaneSpec
==================================================================================

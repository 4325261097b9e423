-------------------------- MODULE ExecutionNodeProofs --------------------------
(***************************************************************************)
(* What holds of a running node for every number of identities,            *)
(* controllers, permits and records, and whatever disturbs it: the types,  *)
(* that it implements the store, and the safety invariants of              *)
(* ExecutionNode.  NodeInv and its steps are in ExecutionNodeSteps.  At    *)
(* the end, what a lease promises: NoEarlyExpiry, from NodeInv and         *)
(* LeaseInv.                                                               *)
(***************************************************************************)
EXTENDS ExecutionNodeSteps

-----------------------------------------------------------------------------
(* The invariant, and what it gives.                                         *)

\* It holds when the node starts on an empty table.
LEMMA NodeInitInv == NodeInit => NodeInv
<1> SUFFICES ASSUME NodeInit PROVE NodeInv
  OBVIOUS
<1>1. rows = << >> /\ DOMAIN rows = {} /\ now = 0
  BY SMTT(30) DEF NodeInit, Init
<1>2. TypeOK /\ OneLiveGeneration /\ LatestInv
  BY Zenon, <1>1 DEF TypeOK, OneLiveGeneration, LatestInv
<1>3. /\ NoTask \in TaskType /\ NoMonitor \in MonType /\ NoRequest \in CtlType
      /\ None \in PubType
      /\ [draining |-> FALSE, stage |-> "serving", orphans |-> {}] \in StageType
  BY Zenon, NoTaskOK DEF NoMonitor, MonType, NoRequest, CtlType, PubType, StageType
<1>4. NoRecord \in RecType /\ NoRecord.snapshot = "None"
  BY DEF NoRecord, Record, RecType
<1>5. 0 \in 0..MaxGeneration
  BY StoreAssumption DEF StoreAssumption
<1>6. NodeTypeOK
  <2>1. executions \in [ExecutionIds -> 0..MaxGeneration]
    BY Zenon, <1>5 DEF NodeInit
  <2>2. rec \in [Keys -> RecType] /\ pub \in [Keys -> PubType] /\ task \in [Keys -> TaskType]
    BY Zenon, <1>3, <1>4 DEF NodeInit
  <2>3. /\ mon \in [Keys -> MonType] /\ ctl \in [Controllers -> CtlType]
        /\ node \in StageType /\ admit = None
    BY Zenon, <1>3 DEF NodeInit
  <2> QED
    BY Zenon, <1>2, <2>1, <2>2, <2>3, TypesByVariable
<1>7. MapInv /\ SnapshotInv
  BY Zenon, <1>4 DEF NodeInit, MapInv, SnapshotInv, SnapshotDurable
<1>8. TaskInv
  BY Zenon, NoTaskOK DEF NodeInit, TaskInv, TaskOK, Unpublished, Early
<1>9. CtlInv
  BY Zenon DEF NodeInit, CtlInv, CtlOK, NoRequest, Holding
<1>10. ShutdownInv
  BY Zenon DEF NodeInit, ShutdownInv, ShutdownReachesAll, StoppedIsQuiet
<1> QED
  BY Zenon, <1>2, <1>6, <1>7, <1>8, <1>9, <1>10 DEF NodeInv

\* Every step of the node keeps it, and is one operation of the store or leaves it alone.
LEMMA NodeStepInv ==
    ASSUME NodeInv, [NodeNext]_nodeVars
    PROVE  NodeInv' /\ [Next]_vars
<1>1. CASE ExecuteNext
  <2>1. ASSUME NEW k \in Keys, NEW lease \in Leases, ExecuteAdmit(k, lease)
        PROVE  NodeInv' /\ [Next]_vars
    BY Zenon, <2>1, AdmitStep DEF ExecuteAdmit, vars
  <2>2. ASSUME NEW k \in Keys, ExecutePublish(k) \/ ExecuteSpawn(k)
        PROVE  NodeInv' /\ [Next]_vars
    BY <2>2, TaskPublications, LoopSteps DEF ExecuteSpawn, vars
  <2> QED
    BY Zenon, <1>1, <2>1, <2>2, ReserveStep DEF ExecuteNext
<1>2. ASSUME NEW k \in Keys, Install(k) \/ RunnerNext(k) \/ MonitorNext(k)
      PROVE  NodeInv' /\ [Next]_vars
  <2>1. UNCHANGED <<rows, now>>
    BY Zenon, <1>2
    DEF Install, RunnerNext, RunnerStart, RunnerOutput, RunnerReturn, ReaderEnd, MonitorNext,
        MonitorCheck, MonitorWait, MonitorCancelled, MonitorNotified, MonitorExpire
  <2> QED
    BY <1>2, <2>1, InstallStep, RunnerSteps, MonitorSteps DEF vars
<1>3. ASSUME NEW k \in Keys, RunNext(k)
      PROVE  NodeInv' /\ [Next]_vars
  <2>1. CASE RunStart(k) \/ RunReceive(k) \/ RunTerminal(k)
    BY <2>1, TaskPublications
  <2>2. CASE RunLaunch(k) \/ RunClosed(k) \/ RunPending(k) \/ RunJoin(k) \/ RunDecide(k)
    <3>1. UNCHANGED <<rows, now>>
      BY <2>2 DEF RunLaunch, RunClosed, RunPending, RunJoin, RunDecide
    <3> QED
      BY Zenon, <2>2, <3>1, LoopSteps DEF vars
  <2>3. CASE RunFinish(k)
    BY Zenon, <2>3, FinishStep DEF RunFinish, vars
  <2> QED
    BY <1>3, <2>1, <2>2, <2>3 DEF RunNext
<1>4. ASSUME NEW c \in Controllers, ControlNext(c)
      PROVE  NodeInv' /\ [Next]_vars
  <2>1. CASE \E r \in RenewalIds : RenewStore(c, r)
    BY <2>1, RenewStep
  <2>2. CASE CancelPublish(c)
    BY Zenon, <2>2, CancelPublication
  <2>3. CASE \/ \E k \in Keys, lease \in Leases, p \in Principals, op \in Operations :
                   ControlLookup(c, k, lease, p, op)
             \/ ControlLatest(c) \/ CancelCheck(c)
    BY Zenon, <2>3, LookupSteps DEF ControlLookup, ControlLatest, CancelCheck, vars
  <2>4. CASE ControlRecord(c) \/ RenewInstall(c) \/ CancelToken(c)
    BY Zenon, <2>4, RecordStep, ControlEnds DEF ControlRecord, RenewInstall, CancelToken, vars
  <2> QED
    BY <1>4, <2>1, <2>2, <2>3, <2>4 DEF ControlNext, ControlStep
<1>5. CASE ShutdownBegin \/ ShutdownCancel \/ ShutdownClose \/ Wait
  BY Zenon, <1>5, ShutdownSteps DEF ShutdownBegin, ShutdownCancel, ShutdownClose, Wait, vars
<1>6. CASE Restart \/ Crash
  BY Zenon, <1>6, StartStep DEF Restart, Crash
<1>7. CASE Clock \/ UNCHANGED nodeVars
  BY Zenon, <1>7, IdleSteps
<1>8. ASSUME NEW k \in Keys, OrphanEnds(k)
      PROVE  NodeInv' /\ [Next]_vars
  BY Zenon, <1>8, OrphanStep
<1> QED
  BY Zenon, <1>1, <1>2, <1>3, <1>4, <1>5, <1>6, <1>7, <1>8 DEF NodeNext

\* What is recorded of the executions whose process outlived its node.
OrphanInv == \A j \in node.orphans : j \in DOMAIN rows /\ rows[j].state = "Interrupted"

\* Only the start of a node leaves processes behind.
LEMMA OrphansKept ==
    ASSUME NodeInv, [NodeNext]_nodeVars, ~Start
    PROVE  node'.orphans \subseteq node.orphans
<1>1. node \in StageType
  BY Zenon, TypesByVariable DEF NodeInv
<1> DEFINE Failing == [node EXCEPT !.draining = TRUE]
<1>2. Failing.orphans = node.orphans
  BY Zenon, <1>1 DEF StageType
<1>3. ASSUME NEW k \in Keys, NEW who, NEW kind, Publish(k, who, kind)
      PROVE  node' = node \/ node' = Failing
  BY Zenon, <1>3 DEF Publish, PublishRefused, PublishCommitted, PublishFailed
<1>4. ASSUME NEW k \in Keys, RunNext(k) \/ ExecutePublish(k) \/ ExecuteSpawn(k)
      PROVE  node' = node \/ node' = Failing
  BY Zenon, <1>3, <1>4
  DEF RunNext, RunStart, RunLaunch, RunReceive, RunClosed, RunPending, RunJoin, RunDecide,
      RunTerminal, RunFinish, ExecutePublish, ExecuteSpawn
<1>5. ASSUME NEW c \in Controllers, CancelPublish(c)
      PROVE  node' = node \/ node' = Failing
  BY Zenon, <1>5 DEF CancelPublish, Publish, PublishRefused, PublishCommitted, PublishFailed
<1>6. ASSUME NEW c \in Controllers, ControlNext(c)
      PROVE  node' = node \/ node' = Failing
  BY Zenon, <1>5, <1>6
  DEF ControlNext, ControlStep, ControlLookup, ControlLatest, ControlRecord, RenewStore,
      RenewInstall, CancelCheck, CancelToken
<1>7. ASSUME NEW k \in Keys, Install(k) \/ RunnerNext(k) \/ MonitorNext(k)
      PROVE  node' = node
  BY Zenon, <1>7
  DEF Install, RunnerNext, RunnerStart, RunnerOutput, RunnerReturn, ReaderEnd, MonitorNext,
      MonitorCheck, MonitorWait, MonitorCancelled, MonitorNotified, MonitorExpire
<1>8. CASE ShutdownBegin \/ ShutdownCancel \/ ShutdownClose \/ Wait
  BY Zenon, <1>1, <1>8 DEF ShutdownBegin, ShutdownCancel, ShutdownClose, Wait, StageType
<1>9. ASSUME NEW k \in Keys, OrphanEnds(k)
      PROVE  node'.orphans \subseteq node.orphans
  BY <1>1, <1>9 DEF OrphanEnds, StageType
<1>10. CASE Clock \/ UNCHANGED nodeVars
  BY Zenon, <1>10 DEF Clock, nodeVars
<1>11. CASE ExecuteNext
  BY Zenon, <1>2, <1>4, <1>11 DEF ExecuteNext, ExecuteAdmit, ExecuteReserve
<1> HIDE DEF Failing
<1> QED
  BY Zenon, <1>2, <1>4, <1>6, <1>7, <1>8, <1>9, <1>10, <1>11 DEF NodeNext, Restart, Crash

\* A process runs while its row is live, so that recover interrupts the execution of one
\* that stays behind; no later step changes that row.
LEMMA OrphanInvStep ==
    ASSUME NodeInv, OrphanInv, [NodeNext]_nodeVars
    PROVE  OrphanInv'
<1>1. TypeOK /\ [Next]_vars /\ TaskInv
  BY Zenon, NodeStepInv, TypesByVariable DEF NodeInv
<1>2. \A k \in DOMAIN rows' : RowStep(k)
  BY Zenon, <1>1, RowSteps
<1>3. DOMAIN rows \subseteq DOMAIN rows'
  BY Zenon, <1>1, RowSteps
<1>4. ASSUME NEW j \in node.orphans
      PROVE  j \in DOMAIN rows' /\ rows'[j].state = "Interrupted"
  <2>1. j \in DOMAIN rows /\ rows[j].state = "Interrupted" /\ is_terminal(rows[j].state)
    BY <1>4 DEF OrphanInv, is_terminal, TerminalStates
  <2> QED
    BY Zenon, <1>2, <1>3, <2>1 DEF RowStep, RowKept, RowCreated, RowAppended, RowRenewed
<1>5. CASE Start
  <2>1. PICK survivors \in SUBSET LeftBehind :
           node' = [draining |-> FALSE, stage |-> "serving", orphans |-> survivors]
    BY Zenon, <1>5 DEF Start
  <2>2. ASSUME NEW j \in Keys, task[j].runner = "process"
        PROVE  j \in DOMAIN rows' /\ rows'[j].state = "Interrupted"
    <3>1. j \in DOMAIN rows /\ ~is_terminal(rows[j].state)
      BY Zenon, <1>1, <2>2 DEF TaskInv, TaskOK, Unpublished, Early
    <3>2. DOMAIN rows[j] = Columns /\ rows[j].state \in LiveStates
      BY Zenon, <1>1, <3>1, TypeOKByRow DEF RowOK, is_terminal
    <3>3. j \in DOMAIN rows' /\ rows'[j] = AppendEvent(rows[j], "Interrupted", "Interrupted", StateEventBytes)
      BY Zenon, <1>5, <3>1, <3>2 DEF Start, Recover
    <3>4. AppendEvent(rows[j], "Interrupted", "Interrupted", StateEventBytes).state = "Interrupted"
      BY <3>2, AppendColumns
    <3> QED
      BY Zenon, <3>3, <3>4
  <2>3. node'.orphans \subseteq LeftBehind
    BY Zenon, <2>1
  <2> QED
    BY Zenon, <1>4, <2>2, <2>3 DEF LeftBehind, OrphanInv
<1>6. CASE ~Start
  BY Zenon, <1>4, <1>6, OrphansKept DEF OrphanInv
<1> QED
  BY Zenon, <1>5, <1>6

\* A node never has runners of two generations of an identity at the same time.
LEMMA DisjointInv == NodeInv /\ OrphanInv => RunnersDisjoint
<1> SUFFICES ASSUME NodeInv, NEW j \in Keys, NEW k \in Keys, j[1] = k[1], j[2] < k[2],
                    task[k].pc # "none", task[j].runner \in {"called", "process"}
             PROVE  FALSE
  BY Zenon DEF RunnersDisjoint, OrphanInv
<1>1. k \in DOMAIN rows /\ task[j].pc \in Unpublished
  BY Zenon DEF NodeInv, TaskInv, TaskOK, Unpublished, Early
<1>2. ~is_terminal(rows[j].state)
  BY Zenon, <1>1, UnpublishedActive
<1>3. /\ j = <<k[1], j[2]>> /\ k = <<k[1], k[2]>> /\ k[1] \in ExecutionIds
      /\ j[2] \in Generations /\ k[2] \in Generations
  BY DEF Keys
<1>4. j[2] \in 1..(k[2] - 1)
  BY SMTT(30), <1>3, StoreAssumption DEF Generations, StoreAssumption
<1>5. is_terminal(rows[<<k[1], j[2]>>].state)
  BY Zenon, <1>1, <1>3, <1>4 DEF NodeInv, OneLiveGeneration
<1> QED
  BY Zenon, <1>2, <1>3, <1>5

\* The inductive invariant holds of every behaviour of the node.
THEOREM NodeInvariant == NodeSpec => []NodeInv
<1>1. NodeInv /\ [NodeNext]_nodeVars => NodeInv'
  BY NodeStepInv
<1> QED
  BY <1>1, NodeInitInv, PTL DEF NodeSpec

\* The variables of the node keep their types.
THEOREM NodeTypes == NodeSpec => []NodeTypeOK
<1>1. NodeInv => NodeTypeOK
  BY Zenon DEF NodeInv
<1> QED
  BY <1>1, NodeInvariant, PTL

\* No reader is told a state that is not durable (publish, under commit_lock).
THEOREM SnapshotsDurable == NodeSpec => []SnapshotDurable
<1>1. NodeInv => SnapshotDurable
  BY DEF NodeInv, SnapshotInv
<1> QED
  BY <1>1, NodeInvariant, PTL

\* One run of the node never has runners of two generations of an identity at the same time,
\* and a process that outlived an earlier run belongs to an Interrupted execution (execute,
\* run_execution, recover).
THEOREM RunnersApart == NodeSpec => []RunnersDisjoint
<1>1. NodeInit => OrphanInv
  <2>1. NodeInit => node.orphans = {}
    BY DEF NodeInit
  <2> QED
    BY Zenon, <2>1 DEF OrphanInv
<1>2. NodeInv /\ OrphanInv /\ [NodeNext]_nodeVars => OrphanInv'
  BY Zenon, OrphanInvStep
<1>3. NodeSpec => []OrphanInv
  BY <1>1, <1>2, NodeInvariant, PTL DEF NodeSpec
<1> QED
  BY <1>3, DisjointInv, NodeInvariant, PTL

\* A renewal never moves the deadline of another generation than its own (control).
THEOREM RenewalsFenced == NodeSpec => []RenewalFenced
<1>1. NodeInv => RenewalFenced
  BY Zenon DEF NodeInv, CtlInv, CtlOK, RenewalFenced
<1> QED
  BY <1>1, NodeInvariant, PTL

\* An execution admitted while shutdown begins is refused or cancelled (shutdown, execute).
THEOREM ShutdownReaches == NodeSpec => []ShutdownReachesAll
<1>1. NodeInv => ShutdownReachesAll
  BY Zenon DEF NodeInv, ShutdownInv
<1> QED
  BY <1>1, NodeInvariant, PTL

\* No runner is left when wait returns.
THEOREM StopIsQuiet == NodeSpec => []StoppedIsQuiet
<1>1. NodeInv => StoppedIsQuiet
  BY DEF NodeInv, ShutdownInv
<1> QED
  BY <1>1, NodeInvariant, PTL

\* The node implements the store, so that what is proved of the store holds of a running
\* node: the mapping is the identity on the table and the clock.
THEOREM NodeImplementsStore == NodeSpec => ImplementsStore
<1>1. NodeInit => Init
  BY DEF NodeInit
<1>2. NodeInv /\ [NodeNext]_nodeVars => [UNCHANGED vars \/ Next]_vars
  BY NodeStepInv
<1> QED
  BY <1>1, <1>2, NodeInvariant, PTL DEF NodeSpec, ImplementsStore

\* So a running node keeps every promise of its store, whatever its tasks, requests, failures,
\* crashes and restarts do between two statements: the journal of each execution is a run
\* without a gap within its bounds, every page of it is answered honestly, and an outcome is
\* journaled once and never rewritten (store.rs as execute, publish, control and start call
\* it).
THEOREM NodeKeepsStore ==
    NodeSpec => /\ []JournalIntact /\ []PageContract /\ []OutcomeJournaled
                /\ TerminalIsFinal /\ AppendOnly /\ LeaseExtension
<1>1. [UNCHANGED vars \/ Next]_vars => [Next]_vars
  OBVIOUS
<1>2. ImplementsStore => Spec
  BY <1>1, PTL DEF ImplementsStore, Spec
<1> QED
  BY <1>2, NodeImplementsStore, JournalCorrect, PagesHonest, OutcomeCorrect, TerminalFinal,
     JournalAppendOnly, LeaseMonotone, PTL

\* And it implements the contract: for any tasks and requests the generations of an identity
\* are accepted one after the other, each after the outcome of the one before, and concluded
\* at most once (ExecutionContract).
THEOREM NodeImplementsContract == NodeSpec => ImplementsContract
<1>1. [UNCHANGED vars \/ Next]_vars => [Next]_vars
  OBVIOUS
<1>2. ImplementsStore => Spec
  BY <1>1, PTL DEF ImplementsStore, Spec
<1> QED
  BY <1>2, NodeImplementsStore, StoreImplementsContract, PTL

\* So the generations of an identity stay in succession on a running node.
THEOREM NodeGenerationsFenced == NodeSpec => []OneLiveGeneration
<1>1. NodeInv => OneLiveGeneration
  BY DEF NodeInv
<1> QED
  BY <1>1, NodeInvariant, PTL

-----------------------------------------------------------------------------
(***************************************************************************)
(* Why the monitor of a lease never cuts a granted renewal short.          *)
(*                                                                         *)
(* The deadline of a lease is kept twice, in the row and in the record,    *)
(* and update_lease writes the first before the second.  LeaseInv says how *)
(* far they may be apart: the record is behind the row only while a        *)
(* renewal holds the mutex of the lease, and that renewal brings a         *)
(* deadline that is not earlier than the row's.                            *)
(***************************************************************************)

Installing(c, k) == ctl[c].pc = "install" /\ ctl[c].target = k

LeaseOK(k) ==
    /\ mon[k].pc # "none" => task[k].pc # "none"
    /\ task[k].pc # "none" =>
         /\ \A c \in Controllers : Installing(c, k) => rows[k].expires <= ctl[c].deadline
         /\ (\A c \in Controllers : ~Installing(c, k)) => rows[k].expires <= rec[k].expires

LeaseInv == \A k \in Keys : LeaseOK(k)

\* What NoEarlyExpiry says of one step.
ExpiryDue == \A k \in Keys : ~rec[k].expired /\ rec'[k].expired => now >= rows[k].expires

-----------------------------------------------------------------------------
(* The steps that have nothing to do with the deadlines.                     *)

RecFrame == \A k \in Keys : rec'[k].expires = rec[k].expires

ExpiredFrame == \A k \in Keys : rec'[k].expired = rec[k].expired

RowFrame == \A k \in DOMAIN rows : rows'[k].expires = rows[k].expires

TaskFrame ==
    /\ \A k \in Keys : task'[k].pc # "none" <=> task[k].pc # "none"
    /\ \A k \in Keys : mon'[k].pc # "none" => mon[k].pc # "none" \/ task'[k].pc # "none"

CtlFrame ==
    \A c \in Controllers : /\ ctl'[c].pc = "install" <=> ctl[c].pc = "install"
                           /\ ctl[c].pc = "install" => ctl'[c] = ctl[c]

\* They keep the invariant.
LEMMA FrameKeeps ==
    ASSUME NodeInv, LeaseInv, RecFrame, RowFrame, TaskFrame, CtlFrame
    PROVE  LeaseInv'
<1> SUFFICES ASSUME NEW k \in Keys PROVE LeaseOK(k)'
  BY DEF LeaseInv
<1>1. LeaseOK(k) /\ TaskOK(k)
  BY DEF LeaseInv, NodeInv, TaskInv
<1>2. \A c \in Controllers : Installing(c, k)' <=> Installing(c, k)
  BY DEF CtlFrame, Installing
<1>3. \A c \in Controllers : Installing(c, k) => ctl'[c].deadline = ctl[c].deadline
  BY DEF CtlFrame, Installing
<1>4. task[k].pc # "none" => k \in DOMAIN rows
  BY Zenon, <1>1 DEF TaskOK
<1>5. mon'[k].pc # "none" => task'[k].pc # "none"
  BY <1>1 DEF LeaseOK, TaskFrame
<1>6. task'[k].pc # "none" => rows'[k].expires = rows[k].expires /\ rec'[k].expires = rec[k].expires
  BY <1>4 DEF TaskFrame, RowFrame, RecFrame
<1> QED
  BY Zenon, <1>1, <1>2, <1>3, <1>5, <1>6 DEF LeaseOK, TaskFrame

\* Steps that leave tasks and monitors alone.
LEMMA TasksIdle ==
    ASSUME UNCHANGED <<task, mon>> PROVE TaskFrame
BY DEF TaskFrame

\* Steps that change no deadline and declare nothing expired.
LEMMA FrameStep ==
    ASSUME NodeInv, LeaseInv, RecFrame, ExpiredFrame, RowFrame, TaskFrame, CtlFrame
    PROVE  LeaseInv' /\ ExpiryDue
<1>1. ExpiryDue
  BY Zenon DEF ExpiryDue, ExpiredFrame
<1> QED
  BY Zenon, <1>1, FrameKeeps

\* A publication changes no deadline.
LEMMA PublishFrame ==
    ASSUME NodeInv, NEW k \in Keys, NEW who, NEW kind \in PublishedKinds, Publish(k, who, kind)
    PROVE  RowFrame /\ RecFrame /\ ExpiredFrame
<1>1. rec \in [Keys -> RecType] /\ TypeOK
  BY TypesByVariable DEF NodeInv
<1>2. CASE PublishRefused(k)
  BY Zenon, <1>2 DEF PublishRefused, RowFrame, RecFrame, ExpiredFrame
<1>3. CASE PublishFailed(k, kind)
  <2> DEFINE v == [rec[k] EXCEPT !.cancelled = TRUE]
  <2>1. v \in RecType /\ v.expires = rec[k].expires /\ v.expired = rec[k].expired
    BY Zenon, <1>1 DEF RecType
  <2>2. rec' = [rec EXCEPT ![k] = v] /\ rows' = rows
    BY <1>1, <1>3 DEF PublishFailed
  <2> HIDE DEF v
  <2>3. rec'[k] = v /\ \A j \in Keys : j # k => rec'[j] = rec[j]
    BY <1>1, <2>1, <2>2, Updated
  <2> QED
    BY Zenon, <2>1, <2>2, <2>3 DEF RowFrame, RecFrame, ExpiredFrame
<1>4. CASE PublishCommitted(k, who, kind)
  <2>1. PICK size \in Sizes(kind) : CommitEvent(k, kind, size)
    BY Zenon, <1>4 DEF PublishCommitted
  <2>2. k \in DOMAIN rows /\ DOMAIN rows[k] = Columns
    BY Zenon, <1>1, <2>1, TypeOKByRow DEF CommitEvent, CommitResult, RowOK
  <2>3. rows' = [rows EXCEPT ![k] = AppendEvent(rows[k], SnapshotState(kind), kind, size)]
    BY Zenon, <2>1 DEF CommitEvent
  <2>4. rows'[k] = AppendEvent(rows[k], SnapshotState(kind), kind, size)
    BY Zenon, <2>2, <2>3
  <2>5. rows'[k].expires = rows[k].expires
    BY SMTT(30), <2>2, <2>4, AppendColumns
  <2> QED
    BY <1>4, <2>3, <2>5 DEF PublishCommitted, RowFrame, RecFrame, ExpiredFrame
<1> QED
  BY Zenon, <1>2, <1>3, <1>4 DEF Publish

\* A step of the task of k leaves it a task.
LEMMA TaskFramed ==
    ASSUME NodeInv, NEW k \in Keys, NEW t, task' = [task EXCEPT ![k] = t],
           task[k].pc # "none", t.pc # "none",
           mon' = mon \/ mon' = [mon EXCEPT ![k].pc = "check"]
    PROVE  TaskFrame
<1>1. task \in [Keys -> TaskType] /\ mon \in [Keys -> MonType]
  BY Zenon, TypesByVariable DEF NodeInv
<1>2. task'[k] = t /\ \A j \in Keys : j # k => task'[j] = task[j] /\ mon'[j] = mon[j]
  BY Zenon, <1>1
<1> QED
  BY Zenon, <1>2 DEF TaskFrame

\* So do all steps of execute and run_execution after the reservation, and of the runner.
LEMMA TaskFrames ==
    ASSUME NodeInv, LeaseInv, NEW k \in Keys,
           ExecutePublish(k) \/ ExecuteSpawn(k) \/ RunnerNext(k) \/ RunNext(k)
    PROVE  LeaseInv' /\ ExpiryDue
<1>1. task \in [Keys -> TaskType] /\ rec \in [Keys -> RecType] /\ TaskOK(k)
  BY Zenon, TypesByVariable DEF NodeInv, TaskInv
<1>2. CtlFrame
  BY Zenon DEF ExecutePublish, ExecuteSpawn, RunnerNext, RunnerStart, RunnerOutput, RunnerReturn,
         ReaderEnd, RunNext, RunStart, RunLaunch, RunReceive, RunClosed, RunPending, RunJoin,
         RunDecide, RunTerminal, RunFinish, CtlFrame
<1>3. ASSUME NEW pc, pc # "none", task[k].pc # "none", mon' = mon \/ mon' = [mon EXCEPT ![k].pc = "check"],
             NEW t, t.pc = pc, task' = [task EXCEPT ![k] = t]
      PROVE  TaskFrame
  BY Zenon, <1>3, TaskFramed
<1>4. TaskFrame
  <2>1. CASE ExecutePublish(k)
    BY Zenon, <1>1, <1>3, <2>1 DEF ExecutePublish, TaskType
  <2>2. CASE ExecuteSpawn(k)
    BY Zenon, <1>1, <1>3, <2>2 DEF ExecuteSpawn, TaskType
  <2>3. CASE RunnerStart(k)
    BY <1>1, <1>3, <2>3 DEF RunnerStart, Return, TaskType, TaskOK
  <2>4. CASE RunnerOutput(k)
    <3>1. task'[k].pc = task[k].pc /\ \A j \in Keys : j # k => task'[j] = task[j]
      BY <1>1, <2>4 DEF RunnerOutput, TaskType
    <3> QED
      BY Zenon, <2>4, <3>1 DEF RunnerOutput, TaskFrame
  <2>5. CASE RunnerReturn(k)
    <3>1. task'[k].pc = task[k].pc /\ \A j \in Keys : j # k => task'[j] = task[j]
      <4>1. PICK value, open : task' = [task EXCEPT ![k].runner = value, ![k].open = open]
        BY Zenon, <2>5 DEF RunnerReturn, Return
      <4> QED
        BY <1>1, <4>1 DEF TaskType
    <3> QED
      BY <2>5, <3>1 DEF RunnerReturn, TaskFrame
  <2>6. CASE ReaderEnd(k)
    <3>1. task'[k].pc = task[k].pc /\ \A j \in Keys : j # k => task'[j] = task[j]
      BY <1>1, <2>6 DEF ReaderEnd, TaskType
    <3> QED
      BY <2>6, <3>1 DEF ReaderEnd, TaskFrame
  <2>7. CASE RunStart(k)
    BY Zenon, <1>1, <1>3, <2>7 DEF RunStart, TaskType
  <2>8. CASE RunLaunch(k)
    BY ZenonT(30), <1>1, <1>3, <2>8 DEF RunLaunch, TaskType
  <2>9. CASE RunReceive(k)
    BY Zenon, <1>1, <1>3, <2>9 DEF RunReceive, TaskType
  <2>10. CASE RunClosed(k)
    BY Zenon, <1>1, <1>3, <2>10 DEF RunClosed, TaskType
  <2>11. CASE RunPending(k)
    BY Zenon, <1>1, <1>3, <2>11 DEF RunPending, TaskType
  <2>12. CASE RunJoin(k)
    BY <1>1, <1>3, <2>12 DEF RunJoin, TaskType
  <2>13. CASE RunDecide(k)
    BY Zenon, <1>1, <1>3, <2>13 DEF RunDecide, TaskType
  <2>14. CASE RunTerminal(k)
    BY Zenon, <1>1, <1>3, <2>14 DEF RunTerminal, TaskType
  <2>15. CASE RunFinish(k)
    BY Zenon, <1>1, <1>3, <2>15 DEF RunFinish, NoTask
  <2> QED
    BY Zenon, <2>1, <2>2, <2>3, <2>4, <2>5, <2>6, <2>7, <2>8, <2>9, <2>10, <2>11, <2>12, <2>13,
       <2>14, <2>15 DEF RunnerNext, RunNext
<1>5. RowFrame /\ RecFrame /\ ExpiredFrame
  <2>1. CASE ExecutePublish(k) \/ RunStart(k) \/ RunReceive(k)
    <3>1. {"Accepted", "Running", "Output"} \subseteq PublishedKinds
      BY DEF PublishedKinds, Kinds, LiveStates, TerminalStates
    <3> QED
      BY <2>1, <3>1, PublishFrame DEF ExecutePublish, RunStart, RunReceive
  <2>2. CASE RunTerminal(k)
    <3>1. task[k].runner \in PublishedKinds
      BY Zenon, <1>1, <2>2 DEF RunTerminal, TaskOK, PublishedKinds, Kinds, TerminalStates
    <3> QED
      BY <2>2, <3>1, PublishFrame DEF RunTerminal
  <2>3. CASE RunFinish(k)
    <3> DEFINE v == [rec[k] EXCEPT !.finished = TRUE]
    <3>1. v \in RecType /\ v.expires = rec[k].expires /\ v.expired = rec[k].expired
      BY Zenon, <1>1 DEF RecType
    <3>2. rec' = [rec EXCEPT ![k] = v] /\ rows' = rows
      BY <1>1, <2>3 DEF RunFinish
    <3> HIDE DEF v
    <3>3. rec'[k] = v /\ \A j \in Keys : j # k => rec'[j] = rec[j]
      BY <1>1, <3>1, <3>2, Updated
    <3> QED
      BY Zenon, <3>1, <3>2, <3>3 DEF RowFrame, RecFrame, ExpiredFrame
  <2>4. CASE UNCHANGED <<rows, rec>>
    BY <2>4 DEF RowFrame, RecFrame, ExpiredFrame
  <2> QED
    BY Zenon, <2>1, <2>2, <2>3, <2>4
    DEF ExecuteSpawn, RunnerNext, RunnerStart, RunnerOutput, RunnerReturn, ReaderEnd, RunNext,
        RunLaunch, RunClosed, RunPending, RunJoin, RunDecide
<1> QED
  BY Zenon, <1>2, <1>4, <1>5, FrameStep

-----------------------------------------------------------------------------
(* The monitor.                                                              *)

\* A lease is declared expired by a monitor that holds the mutex of the lease and finds the
\* deadline of the record passed.
LEMMA MonitorDue ==
    ASSUME NodeInv, LeaseInv, NEW k \in Keys, MonitorNext(k)
    PROVE  LeaseInv' /\ ExpiryDue
<1>1. /\ mon \in [Keys -> MonType] /\ rec \in [Keys -> RecType] /\ LeaseOK(k) /\ TaskOK(k)
      /\ now \in Nat /\ TypeOK
  BY Zenon, TypesByVariable DEF NodeInv, LeaseInv, TaskInv, TypeOK
<1>2. UNCHANGED <<rows, now, task, ctl>>
  BY DEF MonitorNext, MonitorCheck, MonitorWait, MonitorCancelled, MonitorNotified, MonitorExpire
<1>3. RowFrame /\ CtlFrame
  BY Zenon, <1>2 DEF RowFrame, CtlFrame
<1>4. TaskFrame
  <2>1. \A j \in Keys : mon'[j].pc # "none" => mon[j].pc # "none"
    BY <1>1
    DEF MonitorNext, MonitorCheck, MonitorWait, MonitorCancelled, MonitorNotified,
        MonitorExpire, NoMonitor, MonType, Waiting
  <2> QED
    BY Zenon, <1>2, <2>1 DEF TaskFrame
<1>5. CASE rec' = rec
  <2>1. RecFrame /\ ExpiredFrame
    BY Zenon, <1>5 DEF RecFrame, ExpiredFrame
  <2> QED
    BY Zenon, <1>3, <1>4, <2>1, FrameStep
<1>6. CASE rec' # rec
  <2> DEFINE v == [rec[k] EXCEPT !.expired = TRUE, !.cancelled = TRUE]
  <2>1. /\ rec' = [rec EXCEPT ![k] = v] /\ ~LeaseHeld(k) /\ now >= rec[k].expires
        /\ mon[k].pc # "none"
    BY Zenon, <1>1, <1>6
    DEF MonitorNext, MonitorCheck, MonitorWait, MonitorCancelled, MonitorNotified,
        MonitorExpire, Waiting
  <2>2. v \in RecType /\ v.expires = rec[k].expires
    BY Zenon, <1>1 DEF RecType
  <2> HIDE DEF v
  <2>3. rec'[k] = v /\ \A j \in Keys : j # k => rec'[j] = rec[j]
    BY <1>1, <2>1, <2>2, Updated
  <2>4. RecFrame
    BY Zenon, <2>2, <2>3 DEF RecFrame
  <2>5. now >= rows[k].expires
    <3>1. task[k].pc # "none" /\ k \in DOMAIN rows
      BY Zenon, <1>1, <2>1 DEF LeaseOK, TaskOK
    <3>2. rows[k].expires <= rec[k].expires
      BY Zenon, <1>1, <2>1, <3>1 DEF LeaseOK, LeaseHeld, Installing
    <3>3. rows[k].expires \in Nat /\ rec[k].expires \in Nat
      BY Zenon, <1>1, <3>1, TypeOKByRow DEF RowOK, RecType
    <3> QED
      BY SMTT(30), <1>1, <2>1, <3>2, <3>3
  <2>6. ExpiryDue
    BY <2>3, <2>5, Zenon DEF ExpiryDue
  <2> QED
    BY Zenon, <1>3, <1>4, <2>4, <2>6, FrameKeeps
<1> QED
  BY <1>5, <1>6

-----------------------------------------------------------------------------
(* Requests.                                                                 *)

\* The steps of a request before and after a renewal.
LEMMA ControlFrames ==
    ASSUME NodeInv, LeaseInv, NEW c \in Controllers,
           \/ \E k \in Keys, lease \in Leases, p \in Principals, op \in Operations :
                 ControlLookup(c, k, lease, p, op)
           \/ ControlLatest(c) \/ ControlRecord(c)
           \/ CancelCheck(c) \/ CancelPublish(c) \/ CancelToken(c)
    PROVE  LeaseInv' /\ ExpiryDue
<1>1. /\ ctl \in [Controllers -> CtlType] /\ rec \in [Keys -> RecType] /\ CtlOK(c)
      /\ DOMAIN rows \subseteq Keys
  BY Zenon, TypesByVariable DEF NodeInv, CtlInv, TypeOK
<1>2. TaskFrame
  BY Zenon, TasksIdle
  DEF ControlLookup, ControlLatest, ControlRecord, CancelCheck, CancelPublish, CancelToken
<1>3. CtlFrame
  <2>1. ASSUME ctl[c].pc # "install", NEW v, v.pc # "install", ctl' = [ctl EXCEPT ![c] = v]
        PROVE  CtlFrame
    BY Zenon, <1>1, <2>1 DEF CtlFrame
  <2>2. ASSUME NEW k \in Keys, NEW lease, NEW p, NEW op, ControlLookup(c, k, lease, p, op)
        PROVE  CtlFrame
    <3> DEFINE v == [ctl[c] EXCEPT !.pc = "lookup", !.op = op, !.key = k]
    <3>1. ctl[c].pc = "idle"
      <4>1. ctl[c] = NoRequest
        BY Zenon, <2>2 DEF ControlLookup
      <4>2. NoRequest.pc = "idle"
        BY Zenon DEF NoRequest
      <4> QED
        BY <4>1, <4>2
    <3>2. ctl' = [ctl EXCEPT ![c].pc = "lookup", ![c].op = op, ![c].key = k]
      BY Zenon, <2>2 DEF ControlLookup
    <3>3. ctl' = [ctl EXCEPT ![c] = v]
      BY Zenon, <1>1, <3>2
    <3>4. v.pc = "lookup"
      BY <1>1 DEF CtlType
    <3> HIDE DEF v
    <3> QED
      BY Zenon, <2>1, <3>1, <3>3, <3>4
  <2>3. ASSUME NEW pc, pc # "install", ctl[c].pc # "install", ctl' = [ctl EXCEPT ![c].pc = pc]
        PROVE  CtlFrame
    <3>1. ctl' = [ctl EXCEPT ![c] = [ctl[c] EXCEPT !.pc = pc]]
      BY <1>1, <2>3
    <3>2. [ctl[c] EXCEPT !.pc = pc].pc = pc
      BY Zenon, <1>1 DEF CtlType
    <3> QED
      BY Zenon, <2>1, <2>3, <3>1, <3>2
  <2>4. ASSUME ctl[c].pc # "install", Answer(c) PROVE CtlFrame
    <3>1. NoRequest.pc = "idle"
      BY DEF NoRequest
    <3> QED
      BY Zenon, <2>1, <2>4, <3>1 DEF Answer
  <2>5. CASE ControlLatest(c) \/ CancelCheck(c)
    BY <2>3, <2>4, <2>5 DEF ControlLatest, CancelCheck
  <2>6. CASE CancelPublish(c) \/ CancelToken(c)
    BY Zenon, <2>3, <2>4, <2>6 DEF CancelPublish, CancelToken
  <2>7. CASE ControlRecord(c)
    <3>1. ctl[c].op # "install" /\ ctl[c].pc = "latest"
      BY Zenon, <1>1, <2>7 DEF CtlType, ControlRecord
    <3>2. CASE Answer(c)
      BY Zenon, <2>4, <3>1, <3>2
    <3>3. ASSUME NEW k, ctl' = [ctl EXCEPT ![c].pc = ctl[c].op, ![c].target = k] PROVE CtlFrame
      <4> DEFINE v == [ctl[c] EXCEPT !.pc = ctl[c].op, !.target = k]
      <4>1. ctl' = [ctl EXCEPT ![c] = v]
        BY Zenon, <1>1, <3>3
      <4>2. v.pc = ctl[c].op
        BY <1>1 DEF CtlType
      <4> HIDE DEF v
      <4> QED
        BY Zenon, <2>1, <3>1, <4>1, <4>2
    <3> QED
      BY Zenon, <2>7, <3>2, <3>3 DEF ControlRecord
  <2> QED
    BY Zenon, <2>2, <2>5, <2>6, <2>7
<1>4. ASSUME NEW k \in Keys, NEW b \in BOOLEAN, rec' = [rec EXCEPT ![k].cancelled = b]
      PROVE  RecFrame /\ ExpiredFrame
  <2> DEFINE v == [rec[k] EXCEPT !.cancelled = b]
  <2>1. v \in RecType /\ v.expires = rec[k].expires /\ v.expired = rec[k].expired
    BY Zenon, <1>1 DEF RecType
  <2>2. rec' = [rec EXCEPT ![k] = v]
    BY Zenon, <1>1, <1>4
  <2> HIDE DEF v
  <2>3. rec'[k] = v /\ \A j \in Keys : j # k => rec'[j] = rec[j]
    BY Zenon, <1>1, <2>1, <2>2, Updated
  <2> QED
    BY <2>1, <2>3 DEF RecFrame, ExpiredFrame
<1>5. RowFrame /\ RecFrame /\ ExpiredFrame
  <2>1. CASE UNCHANGED <<rows, rec>>
    BY Zenon, <2>1 DEF RowFrame, RecFrame, ExpiredFrame
  <2>2. CASE CancelPublish(c)
    <3>1. ctl[c].target \in Keys /\ "Cancelling" \in PublishedKinds
      BY Zenon, <1>1, <2>2
      DEF CancelPublish, CtlOK, Holding, PublishedKinds, Kinds, LiveStates, TerminalStates
    <3> QED
      BY Zenon, <2>2, <3>1, PublishFrame DEF CancelPublish
  <2>3. CASE CancelToken(c)
    <3> DEFINE k == ctl[c].target
               b == rec[k].cancelled \/ ~is_terminal(rec[k].snapshot)
    <3>1. k \in Keys /\ b \in BOOLEAN
      BY <1>1, <2>3 DEF CancelToken, CtlOK, Holding
    <3>2. rec' = [rec EXCEPT ![k].cancelled = b] /\ rows' = rows
      BY <1>1, <2>3, <3>1 DEF CancelToken
    <3> HIDE DEF k, b
    <3> QED
      BY Zenon, <1>4, <3>1, <3>2 DEF RowFrame
  <2>4. CASE ControlRecord(c) /\ rec' # rec
    <3> DEFINE id == ctl[c].key[1]
               k  == <<id, executions[id]>>
    <3>1. executions[id] # 0 /\ rec' = [rec EXCEPT ![k].cancelled = TRUE] /\ rows' = rows
      BY Zenon, <2>4 DEF ControlRecord
    <3>2. id \in ExecutionIds
      BY Zenon, <1>1, <2>4 DEF ControlRecord, CtlOK, Keys
    <3>3. k \in Keys
      BY Zenon, <3>1, <3>2, MapHolds
    <3> HIDE DEF k
    <3> QED
      BY Zenon, <1>4, <3>1, <3>3 DEF RowFrame
  <2> QED
    BY Zenon, <2>1, <2>2, <2>3, <2>4 DEF ControlLookup, ControlLatest, ControlRecord, CancelCheck
<1> QED
  BY Zenon, <1>2, <1>3, <1>5, FrameStep

\* The store grants: the row is ahead of the record from here on, and the request brings
\* the deadline of the row.
LEMMA RenewGrants ==
    ASSUME NodeInv, LeaseInv, NEW c \in Controllers, NEW r \in RenewalIds, RenewStore(c, r)
    PROVE  LeaseInv' /\ ExpiryDue
<1>1. /\ ctl \in [Controllers -> CtlType] /\ CtlOK(c) /\ TypeOK
  BY Zenon, TypesByVariable DEF NodeInv, CtlInv
<1>2. /\ UNCHANGED <<rec, task, mon>> /\ ctl[c].pc = "renew" /\ ~LeaseHeld(ctl[c].target)
  BY DEF RenewStore
<1>3. RecFrame /\ ExpiredFrame /\ TaskFrame
  BY Zenon, <1>2, TasksIdle DEF RecFrame, ExpiredFrame
<1>4. CASE Answer(c) /\ UNCHANGED rows
  <2>1. NoRequest.pc = "idle"
    BY DEF NoRequest
  <2>2. CtlFrame
    BY Zenon, <1>1, <1>2, <1>4, <2>1 DEF Answer, CtlFrame
  <2>3. RowFrame
    BY Zenon, <1>4 DEF RowFrame
  <2> QED
    BY Zenon, <1>3, <2>2, <2>3, FrameStep
<1>5. ASSUME NEW k, k = ctl[c].key, NEW lease, lease = rows[k].lease, NEW t \in Deadlines,
             NEW granted, granted = UpdateLeaseResult(k, lease, r, t), granted # None,
             \/ UpdateLease(k, lease, r, t)
             \/ rows[k].renewal = r /\ UNCHANGED <<rows, now>>,
             ctl' = [ctl EXCEPT ![c].pc = "install", ![c].deadline = granted]
      PROVE  LeaseInv' /\ ExpiryDue
  <2>1. granted \in Nat /\ ctl[c].target = k
    BY SMTT(30), <1>2, <1>5, Granted
  <2>2. k \in DOMAIN rows /\ DOMAIN rows[k] = Columns
    BY Zenon, <1>1, <1>2, <1>5, TypeOKByRow DEF CtlOK, RowOK
  <2>3. rows'[k].expires = granted /\ \A j \in DOMAIN rows : j # k => rows'[j] = rows[j]
    <3>1. CASE UpdateLease(k, lease, r, t)
      BY Zenon, <1>5, <2>2, <3>1 DEF UpdateLease, Columns
    <3>2. CASE rows[k].renewal = r /\ UNCHANGED <<rows, now>>
      BY Zenon, <1>5, <3>2 DEF UpdateLeaseResult
    <3> QED
      BY Zenon, <1>5, <3>1, <3>2
  <2> DEFINE v == [ctl[c] EXCEPT !.pc = "install", !.deadline = granted]
  <2>4. v.pc = "install" /\ v.deadline = granted /\ v.target = k /\ v \in CtlType
    BY Zenon, <1>1, <2>1 DEF CtlType
  <2>5. ctl' = [ctl EXCEPT ![c] = v]
    <3>1. ctl' = [ctl EXCEPT ![c].pc = "install", ![c].deadline = granted]
      BY Zenon, <1>5
    <3> QED
      BY Zenon, <1>1, <3>1
  <2> HIDE DEF v
  <2>6. ctl'[c] = v /\ \A d \in Controllers : d # c => ctl'[d] = ctl[d]
    BY Zenon, <1>1, <2>4, <2>5, Updated
  <2>7. \A d \in Controllers : Installing(d, k)' <=> d = c
    BY Zenon, <1>2, <2>1, <2>4, <2>6 DEF Installing, LeaseHeld
  <2>8. ASSUME NEW j \in Keys, j # k PROVE LeaseOK(j)'
    <3>1. LeaseOK(j) /\ TaskOK(j)
      BY Zenon DEF LeaseInv, NodeInv, TaskInv
    <3>2. \A d \in Controllers : Installing(d, j)' <=> Installing(d, j)
      BY Zenon, <1>2, <2>4, <2>6, <2>8 DEF Installing
    <3>3. \A d \in Controllers : Installing(d, j) => ctl'[d] = ctl[d]
      BY Zenon, <1>2, <2>6 DEF Installing
    <3>4. task[j].pc # "none" => rows'[j].expires = rows[j].expires
      BY Zenon, <2>3, <2>8, <3>1 DEF TaskOK
    <3> QED
      BY Zenon, <1>2, <3>1, <3>2, <3>3, <3>4 DEF LeaseOK
  <2>9. k \in Keys => LeaseOK(k)'
    <3> SUFFICES ASSUME k \in Keys PROVE LeaseOK(k)'
      OBVIOUS
    <3>1. LeaseOK(k)
      BY DEF LeaseInv
    <3>2. granted <= granted
      BY SMTT(30), <2>1
    <3>3. rows'[k].expires <= ctl'[c].deadline
      BY Zenon, <2>3, <2>4, <2>6, <3>2
    <3>4. \A d \in Controllers : Installing(d, k)' => rows'[k].expires <= ctl'[d].deadline
      BY Zenon, <2>7, <3>3
    <3>5. ~\A d \in Controllers : ~Installing(d, k)'
      BY Zenon, <2>7
    <3> QED
      BY Zenon, <1>2, <3>1, <3>4, <3>5 DEF LeaseOK
  <2>10. LeaseInv'
    BY Zenon, <2>8, <2>9 DEF LeaseInv
  <2>11. ExpiryDue
    BY Zenon, <1>2 DEF ExpiryDue
  <2> QED
    BY Zenon, <2>10, <2>11
<1> QED
  BY <1>4, <1>5 DEF RenewStore

\* The record catches up with the row.
LEMMA RenewInstalls ==
    ASSUME NodeInv, LeaseInv, NEW c \in Controllers, RenewInstall(c)
    PROVE  LeaseInv' /\ ExpiryDue
<1>1. /\ ctl \in [Controllers -> CtlType] /\ rec \in [Keys -> RecType]
      /\ mon \in [Keys -> MonType] /\ CtlOK(c) /\ now \in Nat
      /\ DOMAIN rows \subseteq Keys /\ TypeOK
  BY Zenon, TypesByVariable DEF NodeInv, CtlInv, TypeOK
<1>2. UNCHANGED <<rows, now, task>> /\ ctl[c].pc = "install" /\ Answer(c)
  BY Zenon DEF RenewInstall
<1>3. PICK k \in Keys : k = ctl[c].target
  BY Zenon, <1>1, <1>2 DEF CtlOK, Holding
<1>4. PICK at \in Nat : at >= ctl[c].deadline /\ rec' = [rec EXCEPT ![k].expires = at]
  <2> DEFINE at == now + (IF ctl[c].deadline > now THEN ctl[c].deadline - now ELSE 0)
  <2>1. at \in Nat /\ at >= ctl[c].deadline
    BY <1>1 DEF CtlType
  <2>2. rec' = [rec EXCEPT ![k].expires = at]
    BY <1>3 DEF RenewInstall
  <2> HIDE DEF at
  <2> QED
    BY Zenon, <2>1, <2>2
<1> DEFINE v == [rec[k] EXCEPT !.expires = at]
<1>5. v \in RecType /\ v.expires = at /\ v.expired = rec[k].expired
  BY <1>1 DEF RecType
<1>6. rec' = [rec EXCEPT ![k] = v]
  BY Zenon, <1>1, <1>4
<1> HIDE DEF v
<1>7. rec'[k] = v /\ \A j \in Keys : j # k => rec'[j] = rec[j]
  BY Zenon, <1>1, <1>5, <1>6, Updated
<1>8. ctl'[c].pc = "idle" /\ \A d \in Controllers : d # c => ctl'[d] = ctl[d]
  BY Zenon, <1>1, <1>2 DEF Answer, NoRequest
<1>9. \A j \in Keys : mon'[j].pc # "none" => mon[j].pc # "none"
  BY Zenon, <1>1, <1>3 DEF RenewInstall, MonType
<1>10. ASSUME NEW j \in Keys PROVE LeaseOK(j)'
  <2>1. LeaseOK(j) /\ TaskOK(j)
    BY Zenon DEF LeaseInv, NodeInv, TaskInv
  <2>2. \A d \in Controllers :
          Installing(d, j)' => Installing(d, j) /\ ctl'[d].deadline = ctl[d].deadline
    BY Zenon, <1>8 DEF Installing
  <2>3. CASE j = k
    <3>1. Installing(c, k)
      BY Zenon, <1>2, <1>3 DEF Installing
    <3>2. task[k].pc # "none" => rows[k].expires <= rec'[k].expires
      <4> SUFFICES ASSUME task[k].pc # "none" PROVE rows[k].expires <= rec'[k].expires
        BY Zenon
      <4>1. rows[k].expires <= ctl[c].deadline /\ k \in DOMAIN rows
        BY Zenon, <2>1, <2>3, <3>1 DEF LeaseOK, TaskOK
      <4>2. rows[k].expires \in Nat /\ ctl[c].deadline \in Nat
        BY Zenon, <1>1, <4>1, TypeOKByRow DEF RowOK, CtlType
      <4> QED
        BY SMTT(30), <1>4, <1>5, <1>7, <4>1, <4>2
    <3> QED
      BY Zenon, <1>2, <1>9, <2>1, <2>2, <2>3, <3>2 DEF LeaseOK
  <2>4. CASE j # k
    <3>1. \A d \in Controllers : Installing(d, j)' <=> Installing(d, j)
      BY Zenon, <1>2, <1>3, <1>8, <2>4 DEF Installing
    <3> QED
      BY Zenon, <1>2, <1>7, <1>9, <2>1, <2>2, <2>4, <3>1 DEF LeaseOK
  <2> QED
    BY Zenon, <2>3, <2>4
<1>11. ExpiryDue
  BY <1>5, <1>7, Zenon DEF ExpiryDue
<1> QED
  BY Zenon, <1>10, <1>11 DEF LeaseInv

-----------------------------------------------------------------------------
(* The rest.                                                                 *)

\* A reservation starts with the record no earlier than the row, and no renewal of it can
\* be under way.
LEMMA ReserveGrants ==
    ASSUME NodeInv, LeaseInv, NEW d \in Digests, NEW p \in Principals, ExecuteReserve(d, p)
    PROVE  LeaseInv' /\ ExpiryDue
<1>1. /\ task \in [Keys -> TaskType] /\ rec \in [Keys -> RecType] /\ now \in Nat /\ TypeOK
      /\ admit \in [key : Keys, lease : Leases] \cup {None}
  BY Zenon, TypesByVariable DEF NodeInv, TypeOK
<1>2. UNCHANGED <<mon, ctl>> /\ admit # None
  BY DEF ExecuteReserve
<1>3. CASE UNCHANGED <<rows, rec, task>>
  <2>1. RowFrame /\ RecFrame /\ ExpiredFrame /\ CtlFrame /\ TaskFrame
    BY Zenon, <1>2, <1>3 DEF RowFrame, RecFrame, ExpiredFrame, CtlFrame, TaskFrame
  <2> QED
    BY Zenon, <2>1, FrameStep
<1>4. ASSUME NEW k \in Keys, NEW t \in Deadlines, NEW lease,
             Reserve(k[1], k[2], d, p, lease, t),
             rec' = [rec EXCEPT ![k] = Record("Accepted", lease, FALSE, now + LeaseTtl)],
             task' = [task EXCEPT ![k].pc = "accepted"]
      PROVE  LeaseInv' /\ ExpiryDue
  <2>1. k = <<k[1], k[2]>>
    BY DEF Keys
  <2>2. /\ k \notin DOMAIN rows /\ rows'[k].expires = t
        /\ \A j \in DOMAIN rows : rows'[j] = rows[j]
    BY Zenon, <1>4, <2>1 DEF Reserve, ReserveResult, Insert, NewRow
  <2>3. t <= now + LeaseTtl
    <3>1. now \in Nat /\ LeaseTtl \in Nat /\ t \in Deadlines
      BY Zenon, <1>1, <1>4, StoreAssumption DEF StoreAssumption
    <3> QED
      BY SMTT(30), <3>1 DEF Deadlines
  <2>4. /\ rec'[k].expires = now + LeaseTtl /\ ~rec'[k].expired
        /\ \A j \in Keys : j # k => rec'[j] = rec[j]
    BY Zenon, <1>1, <1>4 DEF Record
  <2>5. \A j \in Keys : j # k => task'[j] = task[j]
    BY Zenon, <1>1, <1>4
  <2>6. task'[k].pc = "accepted"
    BY Zenon, <1>1, <1>4 DEF TaskType
  <2>7. \A c \in Controllers : ~Installing(c, k)'
    <3>1. \A c \in Controllers : ~Installing(c, k)
      BY Zenon, <2>2 DEF NodeInv, CtlInv, CtlOK, Holding, Installing
    <3> QED
      BY Zenon, <1>2, <3>1 DEF Installing
  <2>8. LeaseOK(k)'
    BY Zenon, <2>2, <2>3, <2>4, <2>6, <2>7 DEF LeaseOK
  <2>9. ASSUME NEW j \in Keys, j # k PROVE LeaseOK(j)'
    <3>1. LeaseOK(j) /\ TaskOK(j)
      BY Zenon DEF LeaseInv, NodeInv, TaskInv
    <3>2. task[j].pc # "none" => rows'[j] = rows[j]
      BY Zenon, <2>2, <3>1 DEF TaskOK
    <3> QED
      BY Zenon, <1>2, <2>4, <2>5, <2>9, <3>1, <3>2 DEF LeaseOK, Installing
  <2>10. ExpiryDue
    BY <2>4, Zenon DEF ExpiryDue
  <2> QED
    BY Zenon, <2>8, <2>9, <2>10 DEF LeaseInv
<1>5. admit.key \in Keys
  BY Zenon, <1>1, <1>2
<1> QED
  BY Zenon, <1>3, <1>4, <1>5 DEF ExecuteReserve

\* After a start nothing runs whose lease could expire.
LEMMA StartIdle ==
    ASSUME Start
    PROVE  LeaseInv' /\ ExpiryDue
<1>1. \A k \in Keys : task'[k].pc = "none" /\ mon'[k].pc = "none"
  BY Zenon DEF Start, Fresh, NoTask, NoMonitor
<1>2. \A k \in Keys : ~rec'[k].expired
  BY Zenon DEF Start, Fresh, Record, NoRecord
<1>3. LeaseInv'
  BY <1>1 DEF LeaseInv, LeaseOK
<1>4. ExpiryDue
  BY <1>2, Zenon DEF ExpiryDue
<1> QED
  BY Zenon, <1>3, <1>4

\* Admission, the installation of a snapshot, shutdown and the clock.
LEMMA OtherFrames ==
    ASSUME NodeInv, LeaseInv,
           \/ \E k \in Keys, lease \in Leases : ExecuteAdmit(k, lease)
           \/ \E k \in Keys : Install(k) \/ OrphanEnds(k)
           \/ ShutdownBegin \/ ShutdownCancel \/ ShutdownClose \/ Wait
           \/ Clock \/ UNCHANGED nodeVars
    PROVE  LeaseInv' /\ ExpiryDue
<1>1. rec \in [Keys -> RecType]
  BY Zenon, TypesByVariable DEF NodeInv
<1>2. UNCHANGED <<rows, task, mon, ctl>>
  BY Zenon DEF ExecuteAdmit, Install, OrphanEnds, ShutdownBegin, ShutdownCancel, ShutdownClose, Wait,
         Clock, Tick, nodeVars
<1>3. RowFrame /\ TaskFrame /\ CtlFrame
  BY <1>2 DEF RowFrame, TaskFrame, CtlFrame
<1>4. RecFrame /\ ExpiredFrame
  <2>1. CASE rec' = rec
    BY <2>1 DEF RecFrame, ExpiredFrame
  <2>2. ASSUME NEW k \in Keys, Install(k) PROVE RecFrame /\ ExpiredFrame
    <3> DEFINE v == [rec[k] EXCEPT !.snapshot = pub[k].state]
    <3>1. v.expires = rec[k].expires /\ v.expired = rec[k].expired
      BY Zenon, <1>1 DEF RecType
    <3>2. rec'[k] = v /\ \A j \in Keys : j # k => rec'[j] = rec[j]
      BY Zenon, <1>1, <2>2 DEF Install
    <3> HIDE DEF v
    <3> QED
      BY Zenon, <3>1, <3>2 DEF RecFrame, ExpiredFrame
  <2>3. CASE ShutdownCancel
    <3> SUFFICES ASSUME NEW k \in Keys
                 PROVE  rec'[k].expires = rec[k].expires /\ rec'[k].expired = rec[k].expired
      BY DEF RecFrame, ExpiredFrame
    <3> DEFINE v == [rec[k] EXCEPT !.cancelled = TRUE]
    <3>1. v.expires = rec[k].expires /\ v.expired = rec[k].expired
      BY <1>1 DEF RecType
    <3>2. rec'[k] = v \/ rec'[k] = rec[k]
      BY Zenon, <2>3 DEF ShutdownCancel
    <3> HIDE DEF v
    <3> QED
      BY Zenon, <3>1, <3>2
  <2> QED
    BY Zenon, <2>1, <2>2, <2>3
    DEF ExecuteAdmit, OrphanEnds, ShutdownBegin, ShutdownClose, Wait, Clock, nodeVars
<1> QED
  BY Zenon, <1>3, <1>4, FrameStep

\* Every step keeps the invariant and declares a lease expired only when it is.
LEMMA LeaseStep ==
    ASSUME NodeInv, LeaseInv, [NodeNext]_nodeVars
    PROVE  LeaseInv' /\ ExpiryDue
<1>1. CASE ExecuteNext
  BY Zenon, <1>1, OtherFrames, ReserveGrants, TaskFrames DEF ExecuteNext
<1>2. ASSUME NEW k \in Keys,
             Install(k) \/ RunnerNext(k) \/ RunNext(k) \/ MonitorNext(k) \/ OrphanEnds(k)
      PROVE  LeaseInv' /\ ExpiryDue
  BY Zenon, <1>2, OtherFrames, TaskFrames, MonitorDue
<1>3. ASSUME NEW c \in Controllers, ControlNext(c)
      PROVE  LeaseInv' /\ ExpiryDue
  BY Zenon, <1>3, ControlFrames, RenewGrants, RenewInstalls DEF ControlNext, ControlStep
<1>4. CASE Restart \/ Crash
  BY Zenon, <1>4, StartIdle DEF Restart, Crash
<1>5. CASE ShutdownBegin \/ ShutdownCancel \/ ShutdownClose \/ Wait \/ Clock \/ UNCHANGED nodeVars
  BY Zenon, <1>5, OtherFrames
<1> QED
  BY Zenon, <1>1, <1>2, <1>3, <1>4, <1>5 DEF NodeNext

\* Nothing runs when the node is new.
LEMMA LeaseInit == NodeInit => LeaseInv
BY DEF NodeInit, LeaseInv, LeaseOK, NoTask, NoMonitor

\* A renewal the store has granted is never cut short: monitor_lease declares a lease
\* expired only when the durable deadline has passed as well, for every interleaving of its
\* wake-up, renewals and the clock.
THEOREM ExpiryIsDue == NodeSpec => NoEarlyExpiry
<1>1. NodeInv /\ LeaseInv /\ [NodeNext]_nodeVars => LeaseInv'
  BY LeaseStep
<1>2. NodeSpec => []LeaseInv
  BY <1>1, LeaseInit, NodeInvariant, PTL DEF NodeSpec
<1>3. NodeInv /\ LeaseInv /\ [NodeNext]_nodeVars
        => [\A k \in Keys :
              ~rec[k].expired /\ rec'[k].expired => now >= rows[k].expires]_nodeVars
  BY LeaseStep DEF ExpiryDue
<1> QED
  BY <1>2, <1>3, NodeInvariant, PTL DEF NodeSpec, NoEarlyExpiry

=============================================================================

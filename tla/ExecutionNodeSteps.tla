-------------------------- MODULE ExecutionNodeSteps ---------------------------
(***************************************************************************)
(* The inductive invariant of a running node, and the steps that keep it:  *)
(* those of a task and its runner, of a monitor, of a control request and  *)
(* of whatever publishes an event, then admission, shutdown and start.     *)
(* What the invariant gives is in ExecutionNodeProofs.                     *)
(*                                                                         *)
(* No safety invariant of ExecutionNode is inductive by itself. NodeInv    *)
(* adds what the code never writes down: the map holds the newest          *)
(* generation of an identity or none; an execution that has not published  *)
(* its outcome has a live row, is in the map and is not finished; a runner *)
(* runs only inside the loop of its task; a control request holds a record *)
(* at least as new as the generation it named; and nothing is admitted     *)
(* once shutdown has gone through the map.                                 *)
(***************************************************************************)
EXTENDS ExecutionNode, ExecutionStoreProofs

\* k is the newest generation of its identity.
Newest(k) == k \in DOMAIN rows /\ \A j \in DOMAIN rows : j[1] = k[1] => j[2] <= k[2]

\* Every identity that was ever used has a newest generation.
LatestInv == \A j \in DOMAIN rows : \E k \in Keys : k[1] = j[1] /\ Newest(k)

MapInv ==
    \A id \in ExecutionIds :
        executions[id] # 0 => /\ Newest(<<id, executions[id]>>)
                              /\ rec[<<id, executions[id]>>].snapshot # "None"

SnapshotInv ==
    /\ SnapshotDurable
    /\ \A k \in Keys : pub[k] # None => rec[k].snapshot # "None"

\* The stages up to the one that publishes the outcome.
Early == {"accepted", "spawn", "start", "launch", "loop", "poll"}
Unpublished == Early \cup {"decide", "terminal"}

TaskOK(k) ==
    /\ task[k].pc # "none" => k \in DOMAIN rows /\ rec[k].snapshot # "None"
    /\ task[k].pc \in Unpublished => /\ ~is_terminal(rows[k].state)
                                     /\ executions[k[1]] = k[2]
                                     /\ ~rec[k].finished
    /\ task[k].runner \in {"called", "process"} => task[k].pc \in {"loop", "poll"}
    /\ task[k].joined => /\ task[k].pc \notin {"none", "accepted", "spawn", "start", "launch"}
                         /\ task[k].pc \in {"loop", "poll"} => Returned(k)
    /\ task[k].pc = "terminal" => task[k].runner \in TerminalStates
    /\ task[k].queued <= task[k].sent

TaskInv == \A k \in Keys : TaskOK(k)

Holding == {"renew", "install", "cancel", "publish", "token"}

CtlOK(c) ==
    /\ ctl[c].pc # "idle" => ctl[c].key \in DOMAIN rows /\ ctl[c].op # "none"
    /\ ctl[c].pc \in Holding => /\ ctl[c].target \in DOMAIN rows
                                /\ ctl[c].target[1] = ctl[c].key[1]
                                /\ ctl[c].target[2] >= ctl[c].key[2]
                                /\ rec[ctl[c].target].snapshot # "None"
    /\ ctl[c].pc = "install" => ctl[c].target = ctl[c].key

CtlInv == \A c \in Controllers : CtlOK(c)

ShutdownInv ==
    /\ node.stage # "serving" => node.draining
    /\ node.stage \in {"cancelled", "closing", "stopped"} => admit = None
    /\ ShutdownReachesAll
    /\ StoppedIsQuiet

NodeInv ==
    /\ NodeTypeOK /\ OneLiveGeneration /\ LatestInv
    /\ MapInv /\ SnapshotInv /\ TaskInv /\ CtlInv /\ ShutdownInv

-----------------------------------------------------------------------------
(* Types, by variable.                                                       *)

RecType == [snapshot : States \cup {"None"}, lease : Leases \cup {None},
            cancelled : BOOLEAN, finished : BOOLEAN, expires : Nat, expired : BOOLEAN]

PubType == [by : Controllers \cup {"task"}, state : States] \cup {None}

TaskType == [pc : {"none", "accepted", "spawn", "start", "launch", "loop", "poll",
                   "decide", "terminal", "finish", "done", "panicked"},
             runner : {"none", "called", "process"} \cup TerminalStates \cup Errors,
             open : BOOLEAN, queued : 0..MaxOutput, sent : 0..MaxOutput,
             joined : BOOLEAN, closed : BOOLEAN]

MonType == [pc : {"none", "check", "read", "wait", "notified"}, deadline : Nat]

CtlType == [pc : {"idle", "lookup", "latest", "renew", "install", "cancel", "publish", "token"},
            op : {"none", "renew", "cancel"}, key : Keys \cup {None},
            target : Keys \cup {None}, deadline : Nat]

StageType == [draining : BOOLEAN,
              stage : {"serving", "draining", "cancelled", "closing", "stopped"},
              orphans : SUBSET Keys]

\* NodeTypeOK with a name for the type of each variable.
LEMMA TypesByVariable ==
    NodeTypeOK <=> /\ TypeOK
                   /\ executions \in [ExecutionIds -> 0..MaxGeneration]
                   /\ admit \in [key : Keys, lease : Leases] \cup {None}
                   /\ rec \in [Keys -> RecType]
                   /\ pub \in [Keys -> PubType]
                   /\ task \in [Keys -> TaskType]
                   /\ mon \in [Keys -> MonType]
                   /\ ctl \in [Controllers -> CtlType]
                   /\ node \in StageType
BY DEF NodeTypeOK, RecType, PubType, TaskType, MonType, CtlType, StageType

\* The same of the state after a step.
LEMMA NextTypes ==
    ASSUME TypeOK',
           executions' \in [ExecutionIds -> 0..MaxGeneration],
           admit' \in [key : Keys, lease : Leases] \cup {None},
           rec' \in [Keys -> RecType],
           pub' \in [Keys -> PubType],
           task' \in [Keys -> TaskType],
           mon' \in [Keys -> MonType],
           ctl' \in [Controllers -> CtlType],
           node' \in StageType
    PROVE  NodeTypeOK'
BY DEF NodeTypeOK, RecType, PubType, TaskType, MonType, CtlType, StageType

\* What changing a function at one argument does.
LEMMA Updated ==
    ASSUME NEW D, NEW T, NEW f \in [D -> T], NEW k \in D, NEW v \in T, NEW g,
           g = [f EXCEPT ![k] = v]
    PROVE  g \in [D -> T] /\ g[k] = v /\ \A j \in D : j # k => g[j] = f[j]
OBVIOUS

-----------------------------------------------------------------------------
(* What publish does.                                                        *)

\* Its three outcomes: nothing, a commit that is still to be installed, a failure.
Published(k, who, kind) ==
    /\ k \in DOMAIN rows /\ ~is_terminal(rows[k].state) /\ ~is_terminal(rec[k].snapshot)
    /\ DOMAIN rows' = DOMAIN rows
    /\ \A j \in DOMAIN rows : j # k => rows'[j] = rows[j]
    /\ rows'[k].state = SnapshotState(kind)
    /\ pub' = [pub EXCEPT ![k] = [by |-> who, state |-> SnapshotState(kind)]]
    /\ UNCHANGED <<now, rec, node>>

NotPublished(k) ==
    /\ UNCHANGED <<rows, now, pub>>
    /\ \/ UNCHANGED <<rec, node>>
       \/ /\ rec' = [rec EXCEPT ![k].cancelled = TRUE]
          /\ node' = [node EXCEPT !.draining = TRUE]

\* publish is a commit of the store or leaves it alone, and has one of these outcomes.
LEMMA PublishOutcomes ==
    ASSUME TypeOK, NEW k, NEW who, NEW kind \in PublishedKinds, Publish(k, who, kind)
    PROVE  /\ [Next]_vars
           /\ pub[k] = None
           /\ Published(k, who, kind) \/ NotPublished(k)
<1>1. pub[k] = None
  BY DEF Publish
<1>2. CASE PublishRefused(k)
  BY <1>1, <1>2 DEF PublishRefused, NotPublished, vars
<1>3. CASE PublishFailed(k, kind)
  BY Zenon, <1>1, <1>3 DEF PublishFailed, NotPublished, vars
<1>4. CASE PublishCommitted(k, who, kind)
  <2>1. PICK size \in Sizes(kind) : CommitEvent(k, kind, size)
    BY <1>4 DEF PublishCommitted
  <2>2. k \in DOMAIN rows /\ ~is_terminal(rows[k].state)
    BY <2>1 DEF CommitEvent, CommitResult
  <2>3. Next
    BY Zenon, <2>1, <2>2 DEF Next
  <2>4. DOMAIN rows[k] = Columns
    BY Zenon, <2>2, TypeOKByRow DEF RowOK
  <2>5. rows' = [rows EXCEPT ![k] = AppendEvent(rows[k], SnapshotState(kind), kind, size)]
    BY <2>1 DEF CommitEvent
  <2>6. rows'[k] = AppendEvent(rows[k], SnapshotState(kind), kind, size)
    BY <2>2, <2>5
  <2>7. rows'[k].state = SnapshotState(kind)
    BY <2>4, <2>6, AppendColumns
  <2> QED
    BY Zenon, <1>1, <1>4, <2>1, <2>2, <2>3, <2>5, <2>7 DEF PublishCommitted, Published, CommitEvent
<1> QED
  BY <1>2, <1>3, <1>4 DEF Publish

-----------------------------------------------------------------------------
(* What a step keeps when it leaves the table and the snapshots alone.       *)

\* Neither the state of a row nor the map, the publications or a snapshot change.
Quiet ==
    /\ DOMAIN rows' = DOMAIN rows
    /\ \A k \in DOMAIN rows : rows'[k].state = rows[k].state
    /\ UNCHANGED <<executions, admit, pub>>
    /\ \A k \in Keys : rec'[k].snapshot = rec[k].snapshot

\* The conjuncts about rows, the map and snapshots survive a quiet step.
LEMMA QuietKeeps ==
    ASSUME NodeInv, Quiet
    PROVE  OneLiveGeneration' /\ LatestInv' /\ MapInv' /\ SnapshotInv'
<1>1. OneLiveGeneration' /\ LatestInv'
  BY Zenon DEF NodeInv, Quiet, OneLiveGeneration, LatestInv, Newest
<1>2. \A id \in ExecutionIds : executions[id] # 0 => <<id, executions[id]>> \in Keys
  BY Zenon, TypesByVariable DEF NodeInv, MapInv, Newest, TypeOK
<1>3. MapInv'
  BY Zenon, <1>2 DEF NodeInv, Quiet, MapInv, Newest
<1>4. SnapshotInv'
  BY Zenon DEF NodeInv, Quiet, SnapshotInv, SnapshotDurable
<1> QED
  BY Zenon, <1>1, <1>3, <1>4

\* The tasks keep their invariant when they do nothing and none is marked finished.
LEMMA QuietTasks ==
    ASSUME NodeInv, Quiet, task' = task, \A k \in Keys : rec'[k].finished = rec[k].finished
    PROVE  TaskInv'
<1> SUFFICES ASSUME NEW k \in Keys PROVE TaskOK(k)'
  BY DEF TaskInv
<1>1. TaskOK(k)
  BY DEF NodeInv, TaskInv
<1> QED
  BY Zenon, <1>1 DEF TaskOK, Quiet, Returned, Unpublished, Early

\* No row goes away and no record goes out of use.
Grows ==
    /\ DOMAIN rows \subseteq DOMAIN rows'
    /\ \A k \in Keys : rec[k].snapshot # "None" => rec'[k].snapshot # "None"

\* A step that leaves rows and records alone lets nothing shrink.
LEMMA QuietGrows ==
    ASSUME Quiet PROVE Grows
BY Zenon DEF Quiet, Grows

\* A control request that does nothing keeps its invariant then.
LEMMA RequestKept ==
    ASSUME NodeInv, Grows, NEW c \in Controllers, ctl'[c] = ctl[c]
    PROVE  CtlOK(c)'
<1>1. CtlOK(c)
  BY DEF NodeInv, CtlInv
<1>2. DOMAIN rows \subseteq Keys
  BY Zenon, TypesByVariable DEF NodeInv, TypeOK
<1> QED
  BY <1>1, <1>2 DEF CtlOK, Grows

\* So do all of them.
LEMMA RequestsKept ==
    ASSUME NodeInv, Grows, ctl' = ctl
    PROVE  CtlInv'
BY RequestKept DEF CtlInv

\* Shutdown keeps what it has reached while no execution starts anew and no token is
\* reset, as long as the node is up or nothing runs.
LEMMA ShutdownKept ==
    ASSUME NodeInv, admit' = admit, node'.stage = node.stage,
           node.draining => node'.draining,
           \A k \in Keys : rec[k].cancelled => rec'[k].cancelled,
           \A k \in Keys : task'[k].pc \in Early => task[k].pc \in Early,
           Up \/ task' = task
    PROVE  ShutdownInv'
<1>1. ShutdownInv
  BY Zenon DEF NodeInv
<1>2. ShutdownReachesAll'
  BY <1>1 DEF ShutdownInv, ShutdownReachesAll, Early
<1>3. StoppedIsQuiet'
  BY <1>1 DEF ShutdownInv, StoppedIsQuiet, Up
<1>4. node'.stage # "serving" => node'.draining
  BY <1>1, Zenon DEF ShutdownInv
<1>5. node'.stage \in {"cancelled", "closing", "stopped"} => admit' = None
  BY <1>1 DEF ShutdownInv
<1> QED
  BY Zenon, <1>2, <1>3, <1>4, <1>5 DEF ShutdownInv

\* A step of the task of one execution, which touches nothing else but its monitor.
LEMMA TaskStep ==
    ASSUME NodeInv, NEW k \in Keys, Up,
           UNCHANGED <<rows, now, executions, admit, rec, pub, ctl, node>>,
           mon' \in [Keys -> MonType],
           task' \in [Keys -> TaskType],
           \A j \in Keys : j # k => task'[j] = task[j],
           task'[k].pc \in Early => task[k].pc \in Early,
           TaskOK(k)'
    PROVE  NodeInv'
<1>1. NodeTypeOK'
  <2>1. TypeOK'
    BY Zenon, TypesByVariable DEF NodeInv, TypeOK
  <2> QED
    BY Zenon, <2>1, TypesByVariable, NextTypes DEF NodeInv
<1>2. Quiet
  BY Zenon DEF Quiet
<1>3. TaskInv'
  <2> SUFFICES ASSUME NEW j \in Keys, j # k PROVE TaskOK(j)'
    BY DEF TaskInv
  <2>1. TaskOK(j)
    BY Zenon DEF NodeInv, TaskInv
  <2> QED
    BY Zenon, <2>1 DEF TaskOK, Returned
<1>4. ShutdownInv'
  BY Zenon, ShutdownKept
<1> QED
  BY Zenon, <1>1, <1>2, <1>3, <1>4, QuietKeeps, QuietGrows, RequestsKept DEF NodeInv

-----------------------------------------------------------------------------
(* The steps of a task and its runner that leave the record alone.           *)

\* What a step of the task of k has to show.
TaskMoves(k) ==
    /\ mon' \in [Keys -> MonType]
    /\ task' \in [Keys -> TaskType]
    /\ \A j \in Keys : j # k => task'[j] = task[j]
    /\ task'[k].pc \in Early => task[k].pc \in Early
    /\ TaskOK(k)'

\* The runner starts, writes, returns and lets go of the channel.
LEMMA RunnerSteps ==
    ASSUME NodeInv, NEW k \in Keys, RunnerNext(k)
    PROVE  NodeInv'
<1>1. /\ task \in [Keys -> TaskType] /\ mon \in [Keys -> MonType] /\ TaskOK(k)
  BY TypesByVariable DEF NodeInv, TaskInv
<1>2. Exits \subseteq TerminalStates /\ MaxOutput \in Nat
  BY Zenon, NodeAssumption DEF TerminalStates
<1>3. CASE RunnerStart(k)
  <2>1. TaskMoves(k)
    BY SMTT(30), <1>1, <1>2, <1>3
    DEF RunnerStart, Return, TaskMoves, TaskType, TaskOK, Returned, Errors, Results, TerminalStates
  <2> QED
    BY Zenon, <1>3, <2>1, TaskStep DEF RunnerStart, TaskMoves
<1>4. CASE RunnerOutput(k)
  <2>1. TaskMoves(k)
    BY <1>1, <1>2, <1>4 DEF RunnerOutput, TaskMoves, TaskType, TaskOK, Returned, Errors, Results
  <2> QED
    BY <1>4, <2>1, TaskStep DEF RunnerOutput, TaskMoves
<1>5. CASE RunnerReturn(k)
  <2>1. PICK value \in Results \cup Errors, open \in BOOLEAN : Return(k, value, open)
    BY Zenon, <1>5 DEF RunnerReturn, Results, Errors
  <2>2. task' = [task EXCEPT ![k].runner = value, ![k].open = open]
    BY <2>1 DEF Return
  <2>3. value \in TerminalStates \cup Errors
    BY <1>2 DEF Results, TerminalStates
  <2>4. task' \in [Keys -> TaskType] /\ \A j \in Keys : j # k => task'[j] = task[j]
    <3>1. [task[k] EXCEPT !.runner = value, !.open = open] \in TaskType
      BY ZenonT(30), <1>1, <2>3 DEF TaskType
    <3>2. task' = [task EXCEPT ![k] = [task[k] EXCEPT !.runner = value, !.open = open]]
      BY Zenon, <1>1, <2>2
    <3> QED
      BY <1>1, <3>1, <3>2, Updated
  <2>5. /\ task'[k].pc = task[k].pc /\ task'[k].runner = value /\ task'[k].joined = task[k].joined
        /\ task'[k].queued = task[k].queued /\ task'[k].sent = task[k].sent
    BY <1>1, <2>2 DEF TaskType
  <2>6. value \notin {"called", "process"} /\ task[k].pc \in {"loop", "poll"}
    BY Zenon, <1>1, <1>5, <2>3 DEF TerminalStates, Errors, TaskOK, RunnerReturn
  <2>7. TaskOK(k)'
    BY Zenon, <1>1, <1>5, <2>5, <2>6 DEF TaskOK, Returned, RunnerReturn
  <2> QED
    BY Zenon, <1>1, <1>5, <2>4, <2>5, <2>7, TaskStep DEF RunnerReturn
<1>6. CASE ReaderEnd(k)
  <2>1. task' \in [Keys -> TaskType] /\ \A j \in Keys : j # k => task'[j] = task[j]
    <3>1. [task[k] EXCEPT !.open = FALSE] \in TaskType
      BY ZenonT(30), <1>1 DEF TaskType
    <3>2. task' = [task EXCEPT ![k] = [task[k] EXCEPT !.open = FALSE]]
      BY <1>1, <1>6 DEF ReaderEnd
    <3> QED
      BY <1>1, <3>1, <3>2, Updated
  <2>2. /\ task'[k].pc = task[k].pc /\ task'[k].runner = task[k].runner
        /\ task'[k].joined = task[k].joined
        /\ task'[k].queued = task[k].queued /\ task'[k].sent = task[k].sent
    BY <1>1, <1>6 DEF ReaderEnd, TaskType
  <2>3. TaskOK(k)'
    BY <1>1, <1>6, <2>2 DEF TaskOK, Returned, ReaderEnd
  <2> QED
    BY Zenon, <1>1, <1>6, <2>1, <2>2, <2>3, TaskStep DEF ReaderEnd
<1> QED
  BY Zenon, <1>3, <1>4, <1>5, <1>6 DEF RunnerNext

\* The task is spawned, launches its runner and goes round its loop up to the outcome.
LEMMA LoopSteps ==
    ASSUME NodeInv, NEW k \in Keys,
           ExecuteSpawn(k) \/ RunLaunch(k) \/ RunClosed(k) \/ RunPending(k) \/ RunJoin(k)
             \/ RunDecide(k)
    PROVE  NodeInv'
<1>1. /\ task \in [Keys -> TaskType] /\ mon \in [Keys -> MonType] /\ TaskOK(k)
  BY TypesByVariable DEF NodeInv, TaskInv
<1>2. CASE ExecuteSpawn(k)
  <2>1. TaskMoves(k)
    BY SMTT(30), <1>1, <1>2
    DEF ExecuteSpawn, TaskMoves, TaskType, MonType, TaskOK, Returned, Early, Unpublished
  <2> QED
    BY Zenon, <1>2, <2>1, TaskStep DEF ExecuteSpawn, TaskMoves
<1>3. CASE RunLaunch(k)
  <2>1. TaskMoves(k)
    BY <1>1, <1>3 DEF RunLaunch, TaskMoves, TaskType, TaskOK, Returned, Early, Unpublished
  <2> QED
    BY <1>3, <2>1, TaskStep DEF RunLaunch, TaskMoves
<1>4. CASE RunClosed(k)
  <2> DEFINE pc == IF ~task[k].joined THEN "loop"
                   ELSE IF task[k].runner \in Results THEN "decide" ELSE "panicked"
  <2>1. task' = [task EXCEPT ![k].closed = TRUE, ![k].pc = pc]
    BY <1>4 DEF RunClosed
  <2>2. pc \in {"loop", "decide", "panicked"} /\ (pc # "loop" => task[k].joined)
    OBVIOUS
  <2> HIDE DEF pc
  <2>3. task' \in [Keys -> TaskType] /\ \A j \in Keys : j # k => task'[j] = task[j]
    <3>1. [task[k] EXCEPT !.closed = TRUE, !.pc = pc] \in TaskType
      BY ZenonT(30), <1>1, <2>2 DEF TaskType
    <3>2. task' = [task EXCEPT ![k] = [task[k] EXCEPT !.closed = TRUE, !.pc = pc]]
      BY Zenon, <1>1, <2>1
    <3> QED
      BY Zenon, <1>1, <3>1, <3>2, Updated
  <2>4. /\ task'[k].pc = pc /\ task'[k].runner = task[k].runner
        /\ task'[k].joined = task[k].joined
        /\ task'[k].queued = task[k].queued /\ task'[k].sent = task[k].sent
    BY <1>1, <2>1 DEF TaskType
  <2>5. task[k].pc = "loop"
    BY <1>4 DEF RunClosed
  <2>6. pc # "loop" => task[k].runner \notin {"called", "process"}
    BY Zenon, <1>1, <2>2, <2>5, NodeAssumption DEF TaskOK, Returned, Results, Errors
  <2>7. TaskOK(k)'
    BY Zenon, <1>1, <1>4, <2>2, <2>4, <2>5, <2>6 DEF TaskOK, Returned, RunClosed, Unpublished, Early
  <2> QED
    BY Zenon, <1>1, <1>4, <2>3, <2>4, <2>5, <2>7, TaskStep DEF RunClosed, Early
<1>5. CASE RunPending(k)
  <2>1. TaskMoves(k)
    BY <1>1, <1>5 DEF RunPending, TaskMoves, TaskType, TaskOK, Returned, Early, Unpublished
  <2> QED
    BY Zenon, <1>5, <2>1, TaskStep DEF RunPending, TaskMoves
<1>6. CASE RunJoin(k)
  <2>1. TaskMoves(k)
    BY <1>1, <1>6 DEF RunJoin, TaskMoves, TaskType, TaskOK, Returned, Early, Unpublished
  <2> QED
    BY Zenon, <1>6, <2>1, TaskStep DEF RunJoin, TaskMoves
<1>7. CASE RunDecide(k)
  <2>1. TerminalState(k) \in TerminalStates
    BY Zenon, NodeAssumption DEF TerminalState, Results, TerminalStates
  <2>2. task' \in [Keys -> TaskType] /\ \A j \in Keys : j # k => task'[j] = task[j]
    <3>1. [task[k] EXCEPT !.pc = "terminal", !.runner = TerminalState(k)] \in TaskType
      BY ZenonT(30), <1>1, <2>1 DEF TaskType
    <3>2. task' = [task EXCEPT ![k] = [task[k] EXCEPT !.pc = "terminal", !.runner = TerminalState(k)]]
      BY Zenon, <1>1, <1>7 DEF RunDecide
    <3> QED
      BY <1>1, <3>1, <3>2, Updated
  <2>3. /\ task'[k].pc = "terminal" /\ task'[k].runner = TerminalState(k)
        /\ task'[k].joined = task[k].joined
        /\ task'[k].queued = task[k].queued /\ task'[k].sent = task[k].sent
    BY Zenon, <1>1, <1>7 DEF RunDecide, TaskType
  <2>4. task[k].pc = "decide" /\ TerminalState(k) \notin {"called", "process"}
    BY Zenon, <1>7, <2>1 DEF RunDecide, TerminalStates
  <2>5. TaskOK(k)'
    BY Zenon, <1>1, <1>7, <2>1, <2>3, <2>4 DEF TaskOK, RunDecide, Unpublished
  <2> QED
    BY Zenon, <1>1, <1>7, <2>2, <2>3, <2>5, TaskStep DEF RunDecide, Early
<1> QED
  BY <1>2, <1>3, <1>4, <1>5, <1>6, <1>7

-----------------------------------------------------------------------------
(* The steps that leave the table, the snapshots and the tasks alone.        *)

\* Such a step owes the types of what it changes and the invariant of the requests.
LEMMA QuietStoreStep ==
    ASSUME NodeInv, Quiet, UNCHANGED <<task, node>>, TypeOK',
           rec' \in [Keys -> RecType], mon' \in [Keys -> MonType],
           ctl' \in [Controllers -> CtlType], CtlInv',
           \A k \in Keys : rec'[k].finished = rec[k].finished,
           \A k \in Keys : rec[k].cancelled => rec'[k].cancelled
    PROVE  NodeInv'
<1>1. NodeTypeOK'
  BY Zenon, TypesByVariable, NextTypes DEF NodeInv, Quiet
<1>2. ShutdownInv'
  BY Zenon, ShutdownKept DEF Quiet
<1> QED
  BY Zenon, <1>1, <1>2, QuietKeeps, QuietTasks DEF NodeInv

\* The same when the store is left alone.
LEMMA QuietStep ==
    ASSUME NodeInv, Quiet, UNCHANGED <<rows, now, task, node>>,
           rec' \in [Keys -> RecType], mon' \in [Keys -> MonType],
           ctl' \in [Controllers -> CtlType], CtlInv',
           \A k \in Keys : rec'[k].finished = rec[k].finished,
           \A k \in Keys : rec[k].cancelled => rec'[k].cancelled
    PROVE  NodeInv'
<1>1. TypeOK'
  BY Zenon, TypesByVariable DEF NodeInv, TypeOK
<1> QED
  BY Zenon, <1>1, QuietStoreStep

\* A step of one request.
LEMMA RequestMoves ==
    ASSUME NodeInv, Grows, NEW c \in Controllers, NEW v \in CtlType,
           ctl' = [ctl EXCEPT ![c] = v], CtlOK(c)'
    PROVE  ctl' \in [Controllers -> CtlType] /\ CtlInv'
<1>1. ctl \in [Controllers -> CtlType]
  BY Zenon, TypesByVariable DEF NodeInv
<1>2. ctl' \in [Controllers -> CtlType] /\ \A d \in Controllers : d # c => ctl'[d] = ctl[d]
  BY Zenon, <1>1, Updated
<1>3. \A d \in Controllers : d # c => CtlOK(d)'
  BY Zenon, <1>2, RequestKept
<1> QED
  BY Zenon, <1>2, <1>3 DEF CtlInv

\* An answered request asks for nothing.
LEMMA Answered ==
    ASSUME NodeInv, Quiet, NEW c \in Controllers, Answer(c)
    PROVE  ctl' \in [Controllers -> CtlType] /\ CtlInv'
<1>1. ctl \in [Controllers -> CtlType]
  BY TypesByVariable DEF NodeInv
<1>2. NoRequest \in CtlType
  BY DEF NoRequest, CtlType
<1>3. ctl'[c].pc = "idle"
  BY <1>1 DEF Answer, NoRequest
<1>4. CtlOK(c)'
  BY Zenon, <1>3 DEF CtlOK, Holding
<1> QED
  BY Zenon, <1>2, <1>4, QuietGrows, RequestMoves DEF Answer

\* A change of one record that keeps its snapshot.
LEMMA RecordMoves ==
    ASSUME NodeInv, NEW k \in Keys, NEW v \in RecType, rec' = [rec EXCEPT ![k] = v],
           v.snapshot = rec[k].snapshot, v.finished = rec[k].finished,
           rec[k].cancelled => v.cancelled
    PROVE  /\ rec' \in [Keys -> RecType]
           /\ \A j \in Keys : rec'[j].snapshot = rec[j].snapshot
           /\ \A j \in Keys : rec'[j].finished = rec[j].finished
           /\ \A j \in Keys : rec[j].cancelled => rec'[j].cancelled
<1>1. rec \in [Keys -> RecType]
  BY Zenon, TypesByVariable DEF NodeInv
<1>2. rec' \in [Keys -> RecType] /\ rec'[k] = v /\ \A j \in Keys : j # k => rec'[j] = rec[j]
  BY Zenon, <1>1, Updated
<1> QED
  BY <1>2, Zenon

\* monitor_lease.
LEMMA MonitorSteps ==
    ASSUME NodeInv, NEW k \in Keys, MonitorNext(k)
    PROVE  NodeInv'
<1>1. /\ mon \in [Keys -> MonType] /\ rec \in [Keys -> RecType]
      /\ ctl \in [Controllers -> CtlType]
  BY Zenon, TypesByVariable DEF NodeInv
<1>2. UNCHANGED <<rows, now, executions, admit, pub, task, ctl, node>>
  BY DEF MonitorNext, MonitorCheck, MonitorWait, MonitorCancelled, MonitorNotified, MonitorExpire
<1>3. mon' \in [Keys -> MonType]
  <2>1. NoMonitor \in MonType /\ [pc |-> "read", deadline |-> rec[k].expires] \in MonType
    BY Zenon, <1>1 DEF NoMonitor, MonType, RecType
  <2> QED
    BY <1>1, <2>1
    DEF MonitorNext, MonitorCheck, MonitorWait, MonitorCancelled, MonitorNotified,
        MonitorExpire, MonType
<1>4. /\ rec' \in [Keys -> RecType]
      /\ \A j \in Keys : rec'[j].snapshot = rec[j].snapshot
      /\ \A j \in Keys : rec'[j].finished = rec[j].finished
      /\ \A j \in Keys : rec[j].cancelled => rec'[j].cancelled
  <2>1. CASE rec' = rec
    BY Zenon, <1>1, <2>1
  <2>2. CASE rec' # rec
    <3> DEFINE v == [rec[k] EXCEPT !.expired = TRUE, !.cancelled = TRUE]
    <3>1. rec' = [rec EXCEPT ![k] = v]
      BY Zenon, <1>1, <2>2
      DEF MonitorNext, MonitorCheck, MonitorWait, MonitorCancelled, MonitorNotified,
          MonitorExpire
    <3>2. v \in RecType /\ v.snapshot = rec[k].snapshot /\ v.finished = rec[k].finished
      BY Zenon, <1>1 DEF RecType
    <3>3. v.cancelled
      BY <1>1 DEF RecType
    <3> QED
      BY Zenon, <3>1, <3>2, <3>3, RecordMoves
  <2> QED
    BY <2>1, <2>2
<1>5. Quiet
  BY <1>2, <1>4 DEF Quiet
<1> QED
  BY Zenon, <1>1, <1>2, <1>3, <1>4, <1>5, QuietStep, QuietGrows, RequestsKept

\* A request finds the row it names, and that it is the latest.
LEMMA LookupSteps ==
    ASSUME NodeInv, NEW c \in Controllers,
           \/ \E k \in Keys, lease \in Leases, p \in Principals, op \in Operations :
                 ControlLookup(c, k, lease, p, op)
           \/ ControlLatest(c)
           \/ CancelCheck(c)
    PROVE  NodeInv'
<1>1. /\ mon \in [Keys -> MonType] /\ rec \in [Keys -> RecType]
      /\ ctl \in [Controllers -> CtlType] /\ CtlOK(c)
  BY Zenon, TypesByVariable DEF NodeInv, CtlInv
<1>2. UNCHANGED <<rows, now, executions, admit, rec, pub, task, mon, node>>
  BY Zenon DEF ControlLookup, ControlLatest, CancelCheck
<1>3. Quiet
  BY <1>2 DEF Quiet
<1>4. ctl' \in [Controllers -> CtlType] /\ CtlInv'
  <2>1. ASSUME NEW k \in Keys, NEW lease \in Leases, NEW p \in Principals,
               NEW op \in Operations, ControlLookup(c, k, lease, p, op)
        PROVE  ctl' \in [Controllers -> CtlType] /\ CtlInv'
    <3> DEFINE v == [ctl[c] EXCEPT !.pc = "lookup", !.op = op, !.key = k]
    <3>1. v \in CtlType /\ v.pc = "lookup" /\ v.op = op /\ v.key = k
      BY ZenonT(30), <1>1, NodeAssumption DEF CtlType
    <3>2. ctl' = [ctl EXCEPT ![c] = v]
      BY Zenon, <1>1, <2>1 DEF ControlLookup
    <3>3. ctl'[c] = v /\ k \in DOMAIN rows /\ op # "none"
      BY Zenon, <1>1, <2>1, <3>2, NodeAssumption DEF ControlLookup
    <3> HIDE DEF v
    <3>4. CtlOK(c)'
      BY Zenon, <1>2, <3>1, <3>3 DEF CtlOK, Holding
    <3> QED
      BY Zenon, <1>3, <3>1, <3>2, <3>4, QuietGrows, RequestMoves
  <2>2. ASSUME NEW pc \in {"latest", "publish"}, ctl' = [ctl EXCEPT ![c].pc = pc],
               ctl[c].pc # "idle", pc = "publish" => ctl[c].pc = "cancel"
        PROVE  ctl' \in [Controllers -> CtlType] /\ CtlInv'
    <3> DEFINE v == [ctl[c] EXCEPT !.pc = pc]
    <3>1. /\ v \in CtlType /\ v.pc = pc /\ v.op = ctl[c].op /\ v.key = ctl[c].key
          /\ v.target = ctl[c].target
      BY <1>1 DEF CtlType
    <3>2. ctl' = [ctl EXCEPT ![c] = v] /\ ctl'[c] = v
      BY <1>1, <2>2
    <3> HIDE DEF v
    <3>3. CtlOK(c)'
      BY <1>1, <1>2, <2>2, <3>1, <3>2 DEF CtlOK, Holding
    <3> QED
      BY Zenon, <1>3, <3>1, <3>2, <3>3, QuietGrows, RequestMoves
  <2>3. CASE ControlLatest(c)
    BY Zenon, <1>3, <2>2, <2>3, Answered DEF ControlLatest
  <2>4. CASE CancelCheck(c)
    BY Zenon, <1>3, <2>2, <2>4, Answered DEF CancelCheck
  <2> QED
    BY Zenon, <2>1, <2>3, <2>4
<1> QED
  BY <1>1, <1>2, <1>3, <1>4, QuietStep

\* What the map holds for an identity is a record that is in use, of a key as new as any
\* other of the identity.
LEMMA MapHolds ==
    ASSUME NodeInv, NEW id \in ExecutionIds, executions[id] # 0
    PROVE  LET k == <<id, executions[id]>>
           IN  /\ k \in Keys /\ k \in DOMAIN rows /\ rec[k].snapshot # "None"
               /\ \A j \in DOMAIN rows : j[1] = id => j[2] <= executions[id]
BY Zenon, TypesByVariable DEF NodeInv, MapInv, Newest, TypeOK

\* The request takes the record of its identity from the map.
LEMMA RecordStep ==
    ASSUME NodeInv, NEW c \in Controllers, ControlRecord(c)
    PROVE  NodeInv'
<1>1. /\ mon \in [Keys -> MonType] /\ rec \in [Keys -> RecType]
      /\ ctl \in [Controllers -> CtlType] /\ CtlOK(c) /\ DOMAIN rows \subseteq Keys
  BY Zenon, TypesByVariable DEF NodeInv, CtlInv, TypeOK
<1>2. UNCHANGED <<rows, now, executions, admit, pub, task, mon, node>>
  BY Zenon DEF ControlRecord
<1>3. ctl[c].key \in DOMAIN rows /\ ctl[c].op \in {"renew", "cancel"}
  BY Zenon, <1>1 DEF ControlRecord, CtlOK, CtlType
<1> DEFINE id == ctl[c].key[1]
           k  == <<id, executions[id]>>
<1>4. id \in ExecutionIds /\ ctl[c].key[2] \in Nat
  BY SMTT(30), <1>1, <1>3 DEF Keys, Generations
<1>5. CASE Answer(c) /\ UNCHANGED rec
  <2>1. Quiet
    BY Zenon, <1>2, <1>5 DEF Quiet
  <2> QED
    BY Zenon, <1>1, <1>2, <1>5, <2>1, Answered, QuietStep
<1>6. CASE /\ executions[id] # 0 /\ Answer(c)
           /\ rec' = [rec EXCEPT ![k].cancelled = TRUE]
  <2> DEFINE v == [rec[k] EXCEPT !.cancelled = TRUE]
  <2>1. k \in Keys
    BY Zenon, <1>4, <1>6, MapHolds
  <2>2. v \in RecType /\ v.snapshot = rec[k].snapshot /\ v.finished = rec[k].finished
    BY Zenon, <1>1, <2>1 DEF RecType
  <2>3. v.cancelled
    BY <1>1, <2>1 DEF RecType
  <2>4. rec' = [rec EXCEPT ![k] = v]
    BY <1>1, <1>6, <2>1
  <2> HIDE DEF v, k
  <2>5. /\ rec' \in [Keys -> RecType]
        /\ \A j \in Keys : rec'[j].snapshot = rec[j].snapshot
        /\ \A j \in Keys : rec'[j].finished = rec[j].finished
        /\ \A j \in Keys : rec[j].cancelled => rec'[j].cancelled
    BY Zenon, <2>1, <2>2, <2>3, <2>4, RecordMoves
  <2>6. Quiet
    BY Zenon, <1>2, <2>5 DEF Quiet
  <2> QED
    BY Zenon, <1>1, <1>2, <1>6, <2>5, <2>6, Answered, QuietStep
<1>7. CASE /\ executions[id] # 0 /\ UNCHANGED rec
           /\ ctl' = [ctl EXCEPT ![c].pc = ctl[c].op, ![c].target = k]
  <2> DEFINE v == [ctl[c] EXCEPT !.pc = ctl[c].op, !.target = k]
  <2>1. /\ k \in Keys /\ k \in DOMAIN rows /\ rec[k].snapshot # "None"
        /\ ctl[c].key[2] <= executions[id] /\ k[1] = id /\ k[2] = executions[id]
    BY Zenon, <1>3, <1>4, <1>7, MapHolds
  <2>2. executions[id] \in Nat
    BY SMTT(30), <1>4, TypesByVariable, StoreAssumption DEF NodeInv
  <2>3. v \in CtlType
    BY ZenonT(30), <1>1, <1>3, <2>1 DEF CtlType
  <2>4. /\ v.pc = ctl[c].op /\ v.op = ctl[c].op /\ v.key = ctl[c].key /\ v.target = k
    BY <1>1 DEF CtlType
  <2>5. ctl' = [ctl EXCEPT ![c] = v] /\ ctl'[c] = v
    BY Zenon, <1>1, <1>7
  <2>6. Quiet
    BY Zenon, <1>2, <1>7 DEF Quiet
  <2> HIDE DEF v, k
  <2>7. CtlOK(c)'
    BY Zenon, <1>2, <1>3, <1>4, <1>7, <2>1, <2>2, <2>4, <2>5 DEF CtlOK, Holding
  <2>8. ctl' \in [Controllers -> CtlType] /\ CtlInv'
    BY Zenon, <2>3, <2>5, <2>6, <2>7, QuietGrows, RequestMoves
  <2> QED
    BY Zenon, <1>1, <1>2, <1>7, <2>6, <2>8, QuietStep
<1> QED
  BY Zenon, <1>5, <1>6, <1>7 DEF ControlRecord

\* A granted renewal is an operation of the store or repeats one, of a live row, and the
\* row is the one whose record the request holds: a newer one would have been reserved
\* after the end of this one.
LEMMA Granted ==
    ASSUME NodeInv, NEW c \in Controllers, NEW r \in RenewalIds, NEW t \in Deadlines,
           ctl[c].pc = "renew",
           NEW k, k = ctl[c].key, NEW lease, lease = rows[k].lease,
           UpdateLeaseResult(k, lease, r, t) # None,
           UpdateLease(k, lease, r, t) \/ UNCHANGED <<rows, now>>
    PROVE  /\ [Next]_vars
           /\ UpdateLeaseResult(k, lease, r, t) \in Nat
           /\ ctl[c].target = k
           /\ DOMAIN rows' = DOMAIN rows
           /\ \A j \in DOMAIN rows : rows'[j].state = rows[j].state
<1>1. /\ CtlOK(c) /\ DOMAIN rows \subseteq Keys /\ k \in DOMAIN rows /\ now \in Nat
      /\ \A j \in DOMAIN rows : RowOK(rows[j])
  BY Zenon, TypesByVariable, TypeOKByRow DEF NodeInv, CtlInv, CtlOK
<1>2. ~is_terminal(rows[k].state) /\ lease \in Leases /\ rows[k].expires \in Nat
  BY Zenon, <1>1 DEF UpdateLeaseResult, RowOK
<1>3. t \in Nat
  BY SMTT(30), <1>1, StoreAssumption DEF Deadlines, StoreAssumption
<1>4. UpdateLeaseResult(k, lease, r, t) \in Nat
  BY Zenon, <1>2, <1>3 DEF UpdateLeaseResult
<1>5. [Next]_vars
  BY Zenon, <1>1, <1>2 DEF Next, vars
<1>6. ctl[c].target = k
  <2> DEFINE j == ctl[c].target
  <2>1. j \in DOMAIN rows /\ j[1] = k[1] /\ j[2] >= k[2]
    BY Zenon, <1>1 DEF CtlOK, Holding
  <2>2. /\ j = <<j[1], j[2]>> /\ k = <<k[1], k[2]>> /\ j[1] \in ExecutionIds
        /\ j[2] \in Generations /\ k[2] \in Generations
    BY SMTT(30), <1>1, <2>1 DEF Keys
  <2> HIDE DEF j
  <2>3. ASSUME j[2] > k[2] PROVE FALSE
    <3>1. j[2] \in Nat /\ k[2] \in Nat /\ k[2] >= 1
      BY SMTT(30), <2>2, StoreAssumption DEF Generations, StoreAssumption
    <3>2. k[2] \in 1..(j[2] - 1)
      BY SMTT(30), <2>3, <3>1
    <3>3. <<j[1], j[2]>> \in DOMAIN rows
      BY Zenon, <2>1, <2>2
    <3>4. is_terminal(rows[<<j[1], k[2]>>].state)
      BY Zenon, <2>2, <3>2, <3>3 DEF NodeInv, OneLiveGeneration
    <3> QED
      BY Zenon, <1>2, <2>1, <2>2, <3>4
  <2>4. j[2] = k[2]
    BY SMTT(30), <2>1, <2>2, <2>3, StoreAssumption DEF Generations, StoreAssumption
  <2>5. j = k
    BY Zenon, <2>1, <2>2, <2>4
  <2> QED
    BY Zenon, <2>5 DEF j
<1>7. DOMAIN rows' = DOMAIN rows /\ \A j \in DOMAIN rows : rows'[j].state = rows[j].state
  <2>1. DOMAIN rows[k] = Columns
    BY Zenon, <1>1 DEF RowOK
  <2> QED
    BY SMTT(30), <1>1, <2>1 DEF UpdateLease, Columns
<1> QED
  BY Zenon, <1>4, <1>5, <1>6, <1>7

\* renew: the store grants or refuses.
LEMMA RenewStep ==
    ASSUME NodeInv, NEW c \in Controllers, NEW r \in RenewalIds, RenewStore(c, r)
    PROVE  NodeInv' /\ [Next]_vars
<1>1. /\ mon \in [Keys -> MonType] /\ rec \in [Keys -> RecType]
      /\ ctl \in [Controllers -> CtlType] /\ CtlOK(c) /\ TypeOK
  BY Zenon, TypesByVariable DEF NodeInv, CtlInv
<1>2. UNCHANGED <<executions, admit, rec, pub, task, mon, node>> /\ ctl[c].pc = "renew"
  BY Zenon DEF RenewStore
<1>3. CASE Answer(c) /\ UNCHANGED <<rows, now>>
  <2>1. Quiet
    BY Zenon, <1>2, <1>3 DEF Quiet
  <2>2. [Next]_vars
    BY Zenon, <1>3 DEF vars
  <2> QED
    BY Zenon, <1>1, <1>2, <1>3, <2>1, <2>2, Answered, QuietStep
<1> DEFINE k == ctl[c].key
           lease == rows[k].lease
           granted(t) == UpdateLeaseResult(k, lease, r, t)
<1>4. ASSUME NEW t \in Deadlines, granted(t) # None,
             UpdateLease(k, lease, r, t) \/ UNCHANGED <<rows, now>>,
             ctl' = [ctl EXCEPT ![c].pc = "install", ![c].deadline = granted(t)]
      PROVE  NodeInv' /\ [Next]_vars
  <2>1. /\ [Next]_vars /\ granted(t) \in Nat /\ ctl[c].target = k
        /\ DOMAIN rows' = DOMAIN rows
        /\ \A j \in DOMAIN rows : rows'[j].state = rows[j].state
    BY SMTT(30), <1>2, <1>4, Granted
  <2> HIDE DEF granted
  <2>2. TypeOK'
    BY Zenon, <1>1, <2>1, TypeStep
  <2>3. Quiet
    BY Zenon, <1>2, <2>1 DEF Quiet
  <2> DEFINE v == [ctl[c] EXCEPT !.pc = "install", !.deadline = granted(t)]
  <2>4. /\ v \in CtlType /\ v.pc = "install" /\ v.key = ctl[c].key /\ v.op = ctl[c].op
        /\ v.target = ctl[c].target
    BY Zenon, <1>1, <2>1 DEF CtlType
  <2>5. ctl' = [ctl EXCEPT ![c] = v] /\ ctl'[c] = v
    BY Zenon, <1>1, <1>4
  <2> HIDE DEF v
  <2>6. CtlOK(c)'
    BY Zenon, <1>1, <1>2, <2>1, <2>4, <2>5 DEF CtlOK, Holding
  <2>7. ctl' \in [Controllers -> CtlType] /\ CtlInv'
    BY Zenon, <2>3, <2>4, <2>5, <2>6, QuietGrows, RequestMoves
  <2> QED
    BY Zenon, <1>1, <1>2, <2>1, <2>2, <2>3, <2>7, QuietStoreStep
<1> QED
  BY Zenon, <1>3, <1>4 DEF RenewStore

\* The granted deadline is installed, and a cancel reaches its token.
LEMMA ControlEnds ==
    ASSUME NodeInv, NEW c \in Controllers, RenewInstall(c) \/ CancelToken(c)
    PROVE  NodeInv'
<1>1. /\ mon \in [Keys -> MonType] /\ rec \in [Keys -> RecType] /\ now \in Nat
      /\ ctl \in [Controllers -> CtlType] /\ CtlOK(c) /\ DOMAIN rows \subseteq Keys
  BY Zenon, TypesByVariable DEF NodeInv, CtlInv, TypeOK
<1>2. /\ UNCHANGED <<rows, now, executions, admit, pub, task, node>> /\ Answer(c)
      /\ ctl[c].pc \in {"install", "token"}
  BY Zenon DEF RenewInstall, CancelToken
<1> DEFINE k == ctl[c].target
<1>3. k \in Keys
  BY Zenon, <1>1, <1>2 DEF CtlOK, Holding
<1>4. mon' \in [Keys -> MonType]
  <2>1. CASE CancelToken(c)
    BY Zenon, <1>1, <2>1 DEF CancelToken
  <2>2. CASE RenewInstall(c)
    <3> DEFINE v == [mon[k] EXCEPT !.pc = IF @ = "wait" THEN "notified" ELSE @]
    <3>1. v \in MonType
      BY Zenon, <1>1, <1>3 DEF MonType
    <3>2. mon' = [mon EXCEPT ![k] = v]
      BY Zenon, <1>1, <1>3, <2>2 DEF RenewInstall
    <3> HIDE DEF v, k
    <3> QED
      BY Zenon, <1>1, <1>3, <3>1, <3>2, Updated
  <2> QED
    BY Zenon, <2>1, <2>2
<1>5. /\ rec' \in [Keys -> RecType]
      /\ \A j \in Keys : rec'[j].snapshot = rec[j].snapshot
      /\ \A j \in Keys : rec'[j].finished = rec[j].finished
      /\ \A j \in Keys : rec[j].cancelled => rec'[j].cancelled
  <2>1. CASE RenewInstall(c)
    <3> DEFINE at == now + (IF ctl[c].deadline > now THEN ctl[c].deadline - now ELSE 0)
               v  == [rec[k] EXCEPT !.expires = at]
    <3>1. at \in Nat
      BY <1>1 DEF CtlType
    <3>2. rec' = [rec EXCEPT ![k] = v]
      BY <1>1, <1>3, <2>1 DEF RenewInstall
    <3> HIDE DEF at, k
    <3>3. /\ v \in RecType /\ v.snapshot = rec[k].snapshot /\ v.finished = rec[k].finished
          /\ v.cancelled = rec[k].cancelled
      BY <1>1, <1>3, <3>1 DEF RecType
    <3> HIDE DEF v
    <3> QED
      BY Zenon, <1>3, <3>2, <3>3, RecordMoves
  <2>2. CASE CancelToken(c)
    <3> DEFINE b == rec[k].cancelled \/ ~is_terminal(rec[k].snapshot)
               v == [rec[k] EXCEPT !.cancelled = b]
    <3>1. b \in BOOLEAN /\ (rec[k].cancelled => b)
      OBVIOUS
    <3>2. rec' = [rec EXCEPT ![k] = v]
      BY <1>1, <1>3, <2>2 DEF CancelToken
    <3> HIDE DEF b, k
    <3>3. /\ v \in RecType /\ v.snapshot = rec[k].snapshot /\ v.finished = rec[k].finished
          /\ v.cancelled = b
      BY <1>1, <1>3, <3>1 DEF RecType
    <3> HIDE DEF v
    <3>4. rec[k].cancelled => v.cancelled
      BY Zenon, <3>1, <3>3
    <3> QED
      BY Zenon, <1>3, <3>2, <3>3, <3>4, RecordMoves
  <2> QED
    BY Zenon, <1>2, <2>1, <2>2
<1>6. Quiet
  BY Zenon, <1>2, <1>5 DEF Quiet
<1> QED
  BY Zenon, <1>2, <1>4, <1>5, <1>6, Answered, QuietStep

\* A task before it is spawned.
LEMMA NoTaskOK ==
    /\ NoTask \in TaskType
    /\ NoTask.pc = "none" /\ NoTask.runner = "none" /\ ~NoTask.joined
    /\ NoTask.queued <= NoTask.sent
<1>1. 0 \in 0..MaxOutput
  BY NodeAssumption
<1>2. NoTask \in TaskType
  BY Zenon, <1>1 DEF TaskType, NoTask
<1>3. NoTask.queued = 0 /\ NoTask.sent = 0
  BY Zenon DEF NoTask
<1> QED
  BY <1>2, <1>3 DEF NoTask

\* The record is marked finished once the task has nothing left to do.
LEMMA FinishStep ==
    ASSUME NodeInv, NEW k \in Keys, RunFinish(k)
    PROVE  NodeInv'
<1>1. /\ task \in [Keys -> TaskType] /\ mon \in [Keys -> MonType] /\ rec \in [Keys -> RecType]
      /\ ctl \in [Controllers -> CtlType] /\ TypeOK
  BY TypesByVariable DEF NodeInv
<1>2. UNCHANGED <<rows, now, executions, admit, pub, mon, ctl, node>> /\ task[k].pc = "finish" /\ Up
  BY DEF RunFinish
<1> DEFINE t == [NoTask EXCEPT !.pc = "done"]
           v == [rec[k] EXCEPT !.finished = TRUE]
<1>3. t \in TaskType /\ t.pc = "done" /\ t.runner = "none" /\ ~t.joined /\ t.queued <= t.sent
  <2>1. NoTask \in TaskType
    BY NoTaskOK
  <2>2. t \in TaskType /\ t.pc = "done" /\ t.runner = "none"
    BY Zenon, <2>1 DEF TaskType, NoTask
  <2>3. t.joined = FALSE /\ t.queued = 0 /\ t.sent = 0
    BY <2>1 DEF TaskType, NoTask
  <2> QED
    BY <2>2, <2>3
<1>4. v \in RecType /\ v.snapshot = rec[k].snapshot /\ v.cancelled = rec[k].cancelled
  BY Zenon, <1>1 DEF RecType
<1>5. rec' = [rec EXCEPT ![k] = v] /\ task' = [task EXCEPT ![k] = t]
  BY <1>1 DEF RunFinish
<1> HIDE DEF t, v
<1>6. /\ rec' \in [Keys -> RecType] /\ rec'[k] = v
      /\ \A j \in Keys : j # k => rec'[j] = rec[j]
  BY <1>1, <1>4, <1>5, Updated
<1>7. /\ task' \in [Keys -> TaskType] /\ task'[k] = t
      /\ \A j \in Keys : j # k => task'[j] = task[j]
  BY Zenon, <1>1, <1>3, <1>5, Updated
<1>8. Quiet
  BY Zenon, <1>2, <1>4, <1>6 DEF Quiet
<1>9. NodeTypeOK'
  <2>1. TypeOK'
    BY Zenon, <1>1, <1>2 DEF TypeOK
  <2> QED
    BY Zenon, <1>2, <1>6, <1>7, <2>1, TypesByVariable, NextTypes DEF NodeInv
<1>10. TaskInv'
  <2>1. TaskOK(k)'
    <3>1. k \in DOMAIN rows /\ rec[k].snapshot # "None"
      BY Zenon, <1>2 DEF NodeInv, TaskInv, TaskOK
    <3> QED
      BY Zenon, <1>2, <1>3, <1>4, <1>6, <1>7, <3>1 DEF TaskOK, Unpublished, Early
  <2>2. ASSUME NEW j \in Keys, j # k PROVE TaskOK(j)'
    <3>1. TaskOK(j)
      BY Zenon DEF NodeInv, TaskInv
    <3> QED
      BY Zenon, <1>2, <1>6, <1>7, <2>2, <3>1 DEF TaskOK, Returned
  <2> QED
    BY Zenon, <2>1, <2>2 DEF TaskInv
<1>11. ShutdownInv'
  <2>1. \A j \in Keys : rec[j].cancelled => rec'[j].cancelled
    BY <1>4, <1>6, Zenon
  <2>2. \A j \in Keys : task'[j].pc \in Early => task[j].pc \in Early
    BY Zenon, <1>3, <1>7 DEF Early
  <2> QED
    BY Zenon, <1>2, <2>1, <2>2, ShutdownKept
<1> QED
  BY Zenon, <1>2, <1>8, <1>9, <1>10, <1>11, QuietKeeps, QuietGrows, RequestsKept DEF NodeInv

-----------------------------------------------------------------------------
(* The steps that publish.                                                   *)

\* What publish leaves as it was.
PublishKeeps(k) ==
    /\ DOMAIN rows' = DOMAIN rows
    /\ \A j \in DOMAIN rows : j # k => rows'[j] = rows[j]
    /\ \A j \in Keys : rec'[j].snapshot = rec[j].snapshot
    /\ \A j \in Keys : rec'[j].finished = rec[j].finished
    /\ \A j \in Keys : rec[j].cancelled => rec'[j].cancelled
    /\ node'.stage = node.stage
    /\ node.draining => node'.draining

\* publish keeps the types and the conjuncts about rows, the map and snapshots, and a
\* state that is no outcome does not end an execution.
LEMMA PublishStep ==
    ASSUME NodeInv, NEW k \in Keys, NEW who \in Controllers \cup {"task"},
           NEW kind \in PublishedKinds, Publish(k, who, kind),
           rec[k].snapshot # "None", UNCHANGED <<executions, admit>>
    PROVE  /\ [Next]_vars /\ TypeOK'
           /\ rec' \in [Keys -> RecType] /\ pub' \in [Keys -> PubType] /\ node' \in StageType
           /\ PublishKeeps(k)
           /\ ~is_terminal(SnapshotState(kind)) /\ k \in DOMAIN rows /\ ~is_terminal(rows[k].state)
                => ~is_terminal(rows'[k].state)
           /\ OneLiveGeneration' /\ LatestInv' /\ MapInv' /\ SnapshotInv'
<1>1. /\ rec \in [Keys -> RecType] /\ pub \in [Keys -> PubType] /\ node \in StageType
      /\ TypeOK /\ DOMAIN rows \subseteq Keys
  BY Zenon, TypesByVariable DEF NodeInv, TypeOK
<1>2. [Next]_vars /\ pub[k] = None /\ (Published(k, who, kind) \/ NotPublished(k))
  BY Zenon, <1>1, PublishOutcomes
<1>3. TypeOK' /\ OneLiveGeneration'
  BY Zenon, <1>1, <1>2, TypeStep, GenerationStep DEF NodeInv
<1>4. SnapshotState(kind) \in States /\ SnapshotState(kind) \in Kinds
  BY Zenon DEF PublishedKinds, Kinds, SnapshotState, States, LiveStates
<1> DEFINE p == [by |-> who, state |-> SnapshotState(kind)]
           v == [rec[k] EXCEPT !.cancelled = TRUE]
<1>5. p \in PubType /\ p # None /\ p.state = SnapshotState(kind)
  BY <1>4, NodeAssumption DEF PubType
<1>6. /\ v \in RecType /\ v.snapshot = rec[k].snapshot /\ v.finished = rec[k].finished
      /\ v.cancelled
  BY Zenon, <1>1 DEF RecType
<1>7. rec' \in [Keys -> RecType] /\ node' \in StageType /\ PublishKeeps(k)
  <2>1. node' \in StageType /\ node'.stage = node.stage
    BY Zenon, <1>1, <1>2 DEF Published, NotPublished, StageType
  <2>2. node.draining => node'.draining
    BY <1>1, <1>2 DEF Published, NotPublished, StageType
  <2>3. rec' = rec \/ rec' = [rec EXCEPT ![k] = v]
    BY <1>1, <1>2 DEF Published, NotPublished
  <2> HIDE DEF v
  <2>4. /\ rec' \in [Keys -> RecType]
        /\ \A j \in Keys : rec'[j].snapshot = rec[j].snapshot
        /\ \A j \in Keys : rec'[j].finished = rec[j].finished
        /\ \A j \in Keys : rec[j].cancelled => rec'[j].cancelled
    BY <1>1, <1>6, <2>3, RecordMoves
  <2>5. DOMAIN rows' = DOMAIN rows /\ \A j \in DOMAIN rows : j # k => rows'[j] = rows[j]
    BY Zenon, <1>2 DEF Published, NotPublished
  <2> QED
    BY Zenon, <2>1, <2>2, <2>4, <2>5 DEF PublishKeeps
<1>8. CASE NotPublished(k)
  <2>1. Quiet
    BY Zenon, <1>7, <1>8 DEF Quiet, NotPublished, PublishKeeps
  <2>2. pub' \in [Keys -> PubType] /\ rows' = rows
    BY Zenon, <1>1, <1>8 DEF NotPublished
  <2> QED
    BY Zenon, <1>2, <1>3, <1>7, <2>1, <2>2, QuietKeeps
<1>9. CASE Published(k, who, kind)
  <2> HIDE DEF p
  <2>1. pub' = [pub EXCEPT ![k] = p]
    BY Zenon, <1>9 DEF Published, p
  <2>2. /\ pub' \in [Keys -> PubType] /\ pub'[k] = p
        /\ \A j \in Keys : j # k => pub'[j] = pub[j]
    BY Zenon, <1>1, <1>5, <2>1, Updated
  <2>3. rows'[k].state = SnapshotState(kind) /\ k \in DOMAIN rows
    BY Zenon, <1>9 DEF Published
  <2>4. LatestInv'
    BY Zenon, <1>7 DEF NodeInv, LatestInv, Newest, PublishKeeps
  <2>5. MapInv'
    <3>1. \A id \in ExecutionIds : executions[id] # 0 => <<id, executions[id]>> \in Keys
      BY Zenon, MapHolds
    <3> QED
      BY Zenon, <1>7, <3>1 DEF NodeInv, MapInv, Newest, PublishKeeps
  <2>6. SnapshotInv'
    <3>1. ~is_terminal(rec[k].snapshot)
      BY Zenon, <1>9 DEF Published
    <3>2. ASSUME NEW j \in Keys, j # k
          PROVE  /\ rec'[j].snapshot = rec[j].snapshot /\ pub'[j] = pub[j]
                 /\ j \in DOMAIN rows => rows'[j] = rows[j]
      BY Zenon, <1>7, <2>2, <3>2 DEF PublishKeeps
    <3>3. SnapshotDurable'
      <4>1. /\ DOMAIN rows' = DOMAIN rows /\ SnapshotDurable
            /\ rec'[k].snapshot = rec[k].snapshot
        BY Zenon, <1>7 DEF PublishKeeps, NodeInv, SnapshotInv
      <4>2. pub'[k] # None /\ pub'[k].state = rows'[k].state
        BY Zenon, <1>5, <2>2, <2>3
      <4>3. ASSUME NEW j \in Keys, rec'[j].snapshot # "None"
            PROVE  /\ j \in DOMAIN rows'
                   /\ IF pub'[j] = None THEN rec'[j].snapshot = rows'[j].state
                      ELSE pub'[j].state = rows'[j].state /\ ~is_terminal(rec'[j].snapshot)
        <5>1. CASE j = k
          BY Zenon, <2>3, <3>1, <4>1, <4>2, <5>1
        <5>2. CASE j # k
          BY Zenon, <3>2, <4>1, <4>3, <5>2 DEF SnapshotDurable
        <5> QED
          BY Zenon, <5>1, <5>2
      <4> QED
        BY Zenon, <4>3 DEF SnapshotDurable
    <3>4. \A j \in Keys : pub'[j] # None => rec'[j].snapshot # "None"
      BY ZenonT(30), <1>7, <2>2, <3>2 DEF NodeInv, SnapshotInv, PublishKeeps
    <3> QED
      BY Zenon, <3>3, <3>4 DEF SnapshotInv
  <2> QED
    BY Zenon, <1>2, <1>3, <1>7, <2>2, <2>3, <2>4, <2>5, <2>6
<1> QED
  BY Zenon, <1>2, <1>8, <1>9

\* A publication by the task itself, which goes on to t.
LEMMA TaskPublishes ==
    ASSUME NodeInv, NEW k \in Keys, NEW kind \in PublishedKinds, Publish(k, "task", kind), Up,
           UNCHANGED <<executions, admit, mon, ctl>>,
           NEW t \in TaskType, task' = [task EXCEPT ![k] = t],
           task[k].pc # "none", t.pc # "none",
           t.pc \in Unpublished => task[k].pc \in Unpublished /\ ~is_terminal(SnapshotState(kind)),
           t.pc \in Early => task[k].pc \in Early,
           t.runner = task[k].runner, t.joined = task[k].joined,
           t.runner \in {"called", "process"} => t.pc \in {"loop", "poll"},
           t.joined => t.pc = task[k].pc \/ t.pc = "finish",
           t.pc # "terminal", t.queued <= t.sent
    PROVE  NodeInv' /\ [Next]_vars
<1>1. /\ task \in [Keys -> TaskType] /\ mon \in [Keys -> MonType]
      /\ ctl \in [Controllers -> CtlType] /\ TaskOK(k)
  BY Zenon, TypesByVariable DEF NodeInv, TaskInv
<1>2. k \in DOMAIN rows /\ rec[k].snapshot # "None"
  BY Zenon, <1>1 DEF TaskOK
<1>3. /\ [Next]_vars /\ TypeOK'
      /\ rec' \in [Keys -> RecType] /\ pub' \in [Keys -> PubType] /\ node' \in StageType
      /\ PublishKeeps(k)
      /\ ~is_terminal(SnapshotState(kind)) /\ ~is_terminal(rows[k].state)
           => ~is_terminal(rows'[k].state)
      /\ OneLiveGeneration' /\ LatestInv' /\ MapInv' /\ SnapshotInv'
  BY Zenon, <1>2, PublishStep
<1>4. /\ task' \in [Keys -> TaskType] /\ task'[k] = t
      /\ \A j \in Keys : j # k => task'[j] = task[j]
  BY Zenon, <1>1, Updated
<1>5. NodeTypeOK'
  BY Zenon, <1>1, <1>3, <1>4, TypesByVariable, NextTypes DEF NodeInv
<1>6. TaskOK(k)'
  <2>1. rec'[k].snapshot # "None" /\ k \in DOMAIN rows' /\ rec'[k].finished = rec[k].finished
    BY Zenon, <1>2, <1>3 DEF PublishKeeps
  <2>2. t.pc \in Unpublished => /\ ~is_terminal(rows'[k].state)
                                /\ executions'[k[1]] = k[2]
                                /\ ~rec'[k].finished
    BY Zenon, <1>1, <1>3, <2>1 DEF TaskOK
  <2>3. t.joined => /\ t.pc \notin {"none", "accepted", "spawn", "start", "launch"}
                    /\ t.pc \in {"loop", "poll"} => t.runner \in Results \cup Errors
    BY Zenon, <1>1 DEF TaskOK, Returned
  <2> QED
    BY Zenon, <1>4, <2>1, <2>2, <2>3 DEF TaskOK, Returned
<1>7. ASSUME NEW j \in Keys, j # k PROVE TaskOK(j)'
  <2>1. TaskOK(j)
    BY Zenon DEF NodeInv, TaskInv
  <2> QED
    BY Zenon, <1>3, <1>4, <1>7, <2>1 DEF TaskOK, Returned, PublishKeeps, Unpublished, Early
<1>8. TaskInv'
  BY Zenon, <1>6, <1>7 DEF TaskInv
<1>9. CtlInv'
  <2>1. Grows
    BY Zenon, <1>3 DEF Grows, PublishKeeps
  <2> QED
    BY Zenon, <2>1, RequestsKept
<1>10. ShutdownInv'
  <2>1. \A j \in Keys : task'[j].pc \in Early => task[j].pc \in Early
    BY Zenon, <1>4
  <2> QED
    BY Zenon, <1>3, <2>1, ShutdownKept DEF PublishKeeps
<1> QED
  BY Zenon, <1>3, <1>5, <1>8, <1>9, <1>10 DEF NodeInv

\* execute publishes Accepted; the task Running, its output and its outcome.
LEMMA TaskPublications ==
    ASSUME NodeInv, NEW k \in Keys,
           ExecutePublish(k) \/ RunStart(k) \/ RunReceive(k) \/ RunTerminal(k)
    PROVE  NodeInv' /\ [Next]_vars
<1>1. task \in [Keys -> TaskType] /\ TaskOK(k)
  BY Zenon, TypesByVariable DEF NodeInv, TaskInv
<1>2. Up /\ UNCHANGED <<executions, admit, mon, ctl>>
  BY Zenon DEF ExecutePublish, RunStart, RunReceive, RunTerminal
<1>3. ASSUME NEW pc \in {"spawn", "launch", "finish"}, task' = [task EXCEPT ![k].pc = pc],
             NEW kind \in PublishedKinds, Publish(k, "task", kind),
             \/ pc = "spawn" /\ task[k].pc = "accepted" /\ kind = "Accepted"
             \/ pc = "launch" /\ task[k].pc = "start" /\ kind = "Running"
             \/ pc = "finish" /\ task[k].pc = "terminal"
      PROVE  NodeInv' /\ [Next]_vars
  <2> DEFINE t == [task[k] EXCEPT !.pc = pc]
  <2>1. /\ t \in TaskType /\ t.pc = pc /\ t.runner = task[k].runner
        /\ t.joined = task[k].joined /\ t.queued = task[k].queued /\ t.sent = task[k].sent
    BY <1>1 DEF TaskType
  <2>2. task' = [task EXCEPT ![k] = t]
    BY <1>1, <1>3
  <2> HIDE DEF t
  <2>3. pc \in Unpublished => task[k].pc \in Unpublished /\ ~is_terminal(SnapshotState(kind))
    BY Zenon, <1>3 DEF Unpublished, Early, is_terminal, TerminalStates, SnapshotState
  <2>4. pc \in Early => task[k].pc \in Early
    BY Zenon, <1>3 DEF Early
  <2>5. /\ task[k].pc # "none" /\ pc # "none" /\ pc # "terminal" /\ t.queued <= t.sent
        /\ task[k].runner \notin {"called", "process"}
        /\ task[k].joined => pc = "finish"
    BY Zenon, <1>1, <1>3, <2>1 DEF TaskOK
  <2> QED
    BY Zenon, <1>2, <1>3, <2>1, <2>2, <2>3, <2>4, <2>5, TaskPublishes
<1>4. "Accepted" \in PublishedKinds /\ "Running" \in PublishedKinds /\ "Output" \in PublishedKinds
  BY DEF PublishedKinds, Kinds, LiveStates, TerminalStates
<1>5. CASE ExecutePublish(k)
  BY Zenon, <1>3, <1>4, <1>5 DEF ExecutePublish
<1>6. CASE RunStart(k)
  BY Zenon, <1>3, <1>4, <1>6 DEF RunStart
<1>7. CASE RunTerminal(k)
  <2>1. task[k].runner \in PublishedKinds
    BY Zenon, <1>1, <1>7 DEF RunTerminal, TaskOK, PublishedKinds, Kinds, TerminalStates
  <2> QED
    BY Zenon, <1>3, <1>7, <2>1 DEF RunTerminal
<1>8. CASE RunReceive(k)
  <2> DEFINE t == [task[k] EXCEPT !.queued = @ - 1]
  <2>1. task[k].pc = "loop" /\ task[k].queued > 0 /\ Publish(k, "task", "Output")
    BY <1>8 DEF RunReceive
  <2>2. task[k].queued \in 0..MaxOutput /\ task[k].sent \in 0..MaxOutput
    BY <1>1 DEF TaskType
  <2>3. task[k].queued - 1 \in 0..MaxOutput /\ task[k].queued - 1 <= task[k].sent
    <3>1. task[k].queued <= task[k].sent /\ MaxOutput \in Nat
      BY Zenon, <1>1, NodeAssumption DEF TaskOK
    <3> QED
      BY SMTT(30), <2>1, <2>2, <3>1
  <2>4. /\ t \in TaskType /\ t.pc = task[k].pc /\ t.runner = task[k].runner
        /\ t.joined = task[k].joined /\ t.queued = task[k].queued - 1 /\ t.sent = task[k].sent
    BY <1>1, <2>3 DEF TaskType
  <2>5. task' = [task EXCEPT ![k] = t]
    BY <1>1, <1>8 DEF RunReceive
  <2> HIDE DEF t
  <2>6. ~is_terminal(SnapshotState("Output"))
    BY DEF is_terminal, TerminalStates, SnapshotState
  <2>7. t.queued <= t.sent
    BY Zenon, <2>3, <2>4
  <2> QED
    BY Zenon, <1>2, <1>4, <2>1, <2>4, <2>5, <2>6, <2>7, TaskPublishes
<1> QED
  BY Zenon, <1>5, <1>6, <1>7, <1>8

\* A cancel publishes Cancelling on the record it holds.
LEMMA CancelPublication ==
    ASSUME NodeInv, NEW c \in Controllers, CancelPublish(c)
    PROVE  NodeInv' /\ [Next]_vars
<1>1. /\ task \in [Keys -> TaskType] /\ mon \in [Keys -> MonType]
      /\ ctl \in [Controllers -> CtlType] /\ CtlOK(c) /\ DOMAIN rows \subseteq Keys
  BY Zenon, TypesByVariable DEF NodeInv, CtlInv, TypeOK
<1>2. UNCHANGED <<executions, admit, task, mon>> /\ ctl[c].pc = "publish"
  BY DEF CancelPublish
<1> DEFINE k == ctl[c].target
<1>3. k \in DOMAIN rows /\ k \in Keys /\ rec[k].snapshot # "None" /\ Publish(k, c, "Cancelling")
  BY Zenon, <1>1, <1>2 DEF CtlOK, Holding, CancelPublish
<1>4. "Cancelling" \in PublishedKinds /\ ~is_terminal(SnapshotState("Cancelling"))
  BY Zenon DEF PublishedKinds, Kinds, LiveStates, TerminalStates, is_terminal, SnapshotState
<1> HIDE DEF k
<1>5. /\ [Next]_vars /\ TypeOK'
      /\ rec' \in [Keys -> RecType] /\ pub' \in [Keys -> PubType] /\ node' \in StageType
      /\ PublishKeeps(k)
      /\ ~is_terminal(rows[k].state) => ~is_terminal(rows'[k].state)
      /\ OneLiveGeneration' /\ LatestInv' /\ MapInv' /\ SnapshotInv'
  BY Zenon, <1>2, <1>3, <1>4, PublishStep
<1>6. Grows
  BY Zenon, <1>5 DEF Grows, PublishKeeps
<1>7. ctl' \in [Controllers -> CtlType] /\ CtlInv'
  <2> DEFINE v == [ctl[c] EXCEPT !.pc = "token"]
  <2>1. /\ v \in CtlType /\ v.pc = "token" /\ v.key = ctl[c].key /\ v.op = ctl[c].op
        /\ v.target = ctl[c].target
    BY <1>1 DEF CtlType
  <2>2. ctl' = [ctl EXCEPT ![c] = v] /\ ctl'[c] = v
    BY <1>1 DEF CancelPublish
  <2> HIDE DEF v
  <2>3. CtlOK(c)'
    BY Zenon, <1>1, <1>2, <1>6, <2>1, <2>2 DEF CtlOK, Holding, Grows
  <2> QED
    BY Zenon, <1>6, <2>1, <2>2, <2>3, RequestMoves
<1>8. NodeTypeOK'
  BY Zenon, <1>1, <1>2, <1>5, <1>7, TypesByVariable, NextTypes DEF NodeInv
<1>9. TaskInv'
  <2> SUFFICES ASSUME NEW j \in Keys PROVE TaskOK(j)'
    BY DEF TaskInv
  <2>1. TaskOK(j)
    BY Zenon DEF NodeInv, TaskInv
  <2>2. j \in DOMAIN rows /\ ~is_terminal(rows[j].state) => ~is_terminal(rows'[j].state)
    BY Zenon, <1>5 DEF PublishKeeps
  <2> QED
    BY Zenon, <1>2, <1>5, <2>1, <2>2 DEF TaskOK, Returned, PublishKeeps, Unpublished, Early
<1>10. ShutdownInv'
  BY Zenon, <1>2, <1>5, ShutdownKept DEF PublishKeeps
<1> QED
  BY Zenon, <1>5, <1>7, <1>8, <1>9, <1>10 DEF NodeInv

\* The committed snapshot is installed.
LEMMA InstallStep ==
    ASSUME NodeInv, NEW k \in Keys, Install(k)
    PROVE  NodeInv'
<1>1. /\ task \in [Keys -> TaskType] /\ mon \in [Keys -> MonType] /\ rec \in [Keys -> RecType]
      /\ pub \in [Keys -> PubType] /\ ctl \in [Controllers -> CtlType] /\ TypeOK
  BY TypesByVariable DEF NodeInv
<1>2. UNCHANGED <<rows, now, executions, admit, task, mon, ctl, node>> /\ pub[k] # None
  BY Zenon DEF Install
<1>3. pub[k].state \in States /\ pub[k].state # "None"
  BY Zenon, <1>1, <1>2 DEF PubType, States, LiveStates, TerminalStates
<1> DEFINE v == [rec[k] EXCEPT !.snapshot = pub[k].state]
<1>4. /\ v \in RecType /\ v.snapshot = pub[k].state /\ v.finished = rec[k].finished
      /\ v.cancelled = rec[k].cancelled
  BY Zenon, <1>1, <1>3 DEF RecType
<1>5. rec' = [rec EXCEPT ![k] = v] /\ pub' = [pub EXCEPT ![k] = None]
  BY Zenon, <1>1 DEF Install
<1> HIDE DEF v
<1>6. /\ rec' \in [Keys -> RecType] /\ rec'[k] = v
      /\ \A j \in Keys : j # k => rec'[j] = rec[j]
  BY Zenon, <1>1, <1>4, <1>5, Updated
<1>7. /\ pub' \in [Keys -> PubType] /\ pub'[k] = None
      /\ \A j \in Keys : j # k => pub'[j] = pub[j]
  <2>1. None \in PubType
    BY Zenon DEF PubType
  <2> QED
    BY Zenon, <1>1, <1>5, <2>1, Updated
<1>8. Grows
  BY Zenon, <1>2, <1>3, <1>4, <1>6 DEF Grows
<1>9. NodeTypeOK'
  <2>1. TypeOK'
    BY Zenon, <1>1, <1>2 DEF TypeOK
  <2> QED
    BY Zenon, <1>1, <1>2, <1>6, <1>7, <2>1, TypesByVariable, NextTypes DEF NodeInv
<1>10. OneLiveGeneration' /\ LatestInv'
  BY Zenon, <1>2 DEF NodeInv, OneLiveGeneration, LatestInv, Newest
<1>11. MapInv'
  <2>1. \A id \in ExecutionIds : executions[id] # 0 => <<id, executions[id]>> \in Keys
    BY Zenon, MapHolds
  <2> QED
    BY Zenon, <1>2, <1>8, <2>1 DEF NodeInv, MapInv, Newest, Grows
<1>12. SnapshotInv'
  <2>1. k \in DOMAIN rows /\ rows[k].state = pub[k].state
    BY Zenon, <1>2 DEF NodeInv, SnapshotInv, SnapshotDurable
  <2>2. SnapshotDurable'
    BY ZenonT(30), <1>2, <1>4, <1>6, <1>7, <2>1 DEF NodeInv, SnapshotInv, SnapshotDurable
  <2>3. \A j \in Keys : pub'[j] # None => rec'[j].snapshot # "None"
    BY Zenon, <1>6, <1>7 DEF NodeInv, SnapshotInv
  <2> QED
    BY Zenon, <2>2, <2>3 DEF SnapshotInv
<1>13. TaskInv'
  <2> SUFFICES ASSUME NEW j \in Keys PROVE TaskOK(j)'
    BY Zenon DEF TaskInv
  <2>1. TaskOK(j)
    BY DEF NodeInv, TaskInv
  <2>2. rec'[j].finished = rec[j].finished /\ (rec[j].snapshot # "None" => rec'[j].snapshot # "None")
    BY Zenon, <1>4, <1>6, <1>8 DEF Grows
  <2> QED
    BY Zenon, <1>2, <2>1, <2>2 DEF TaskOK, Returned
<1>14. ShutdownInv'
  <2>1. \A j \in Keys : rec[j].cancelled => rec'[j].cancelled
    BY <1>4, <1>6, Zenon
  <2> QED
    BY Zenon, <1>2, <2>1, ShutdownKept
<1> QED
  BY Zenon, <1>2, <1>8, <1>9, <1>10, <1>11, <1>12, <1>13, <1>14, RequestsKept DEF NodeInv

-----------------------------------------------------------------------------
(* Admission.                                                                *)

\* An execution that has not published its outcome is in the map, and whoever goes through
\* the map finds it active.
LEMMA UnpublishedActive ==
    ASSUME NodeInv, NEW k \in Keys, task[k].pc \in Unpublished
    PROVE  /\ Active(k) /\ ~is_terminal(rows[k].state) /\ k \in DOMAIN rows
           /\ k[1] \in Mapped /\ k = <<k[1], executions[k[1]]>>
<1>1. TaskOK(k)
  BY Zenon DEF NodeInv, TaskInv
<1>2. /\ k \in DOMAIN rows /\ rec[k].snapshot # "None" /\ ~rec[k].finished
      /\ ~is_terminal(rows[k].state) /\ executions[k[1]] = k[2]
  BY Zenon, <1>1 DEF TaskOK, Unpublished, Early
<1>3. ~is_terminal(rec[k].snapshot)
  BY <1>2 DEF NodeInv, SnapshotInv, SnapshotDurable
<1>4. k[1] \in ExecutionIds /\ k[2] # 0 /\ k = <<k[1], k[2]>>
  BY DEF Keys, Generations
<1> QED
  BY Zenon, <1>2, <1>3, <1>4 DEF Active, Mapped

\* execute takes the lock of the map and makes room by dropping what has ended.
LEMMA AdmitStep ==
    ASSUME NodeInv, NEW k \in Keys, NEW lease \in Leases, ExecuteAdmit(k, lease)
    PROVE  NodeInv'
<1>1. /\ executions \in [ExecutionIds -> 0..MaxGeneration] /\ TypeOK
      /\ task \in [Keys -> TaskType] /\ mon \in [Keys -> MonType] /\ rec \in [Keys -> RecType]
      /\ pub \in [Keys -> PubType] /\ ctl \in [Controllers -> CtlType] /\ node \in StageType
  BY Zenon, TypesByVariable DEF NodeInv
<1>2. UNCHANGED <<rows, now, rec, pub, task, mon, ctl, node>> /\ ~node.draining
  BY DEF ExecuteAdmit, Accepting
<1>3. PICK evicted \in Evictions :
        /\ executions' = [id \in ExecutionIds |-> IF id \in evicted THEN 0 ELSE executions[id]]
        /\ admit' \in {[key |-> k, lease |-> lease], None}
  BY DEF ExecuteAdmit
<1>4. \A id \in evicted : is_terminal(rec[<<id, executions[id]>>].snapshot)
  BY DEF Evictions
<1>5. NodeTypeOK'
  <2>1. TypeOK' /\ 0 \in 0..MaxGeneration
    BY SMTT(30), <1>1, <1>2, StoreAssumption DEF TypeOK, StoreAssumption
  <2>2. executions' \in [ExecutionIds -> 0..MaxGeneration]
    BY Zenon, <1>1, <1>3, <2>1
  <2>3. admit' \in [key : Keys, lease : Leases] \cup {None}
    BY <1>3
  <2> QED
    BY Zenon, <1>1, <1>2, <2>1, <2>2, <2>3, NextTypes
<1>6. OneLiveGeneration' /\ LatestInv' /\ SnapshotInv' /\ Grows
  BY Zenon, <1>2
  DEF NodeInv, OneLiveGeneration, LatestInv, Newest, SnapshotInv, SnapshotDurable, Grows
<1>7. MapInv'
  BY Zenon, <1>2, <1>3 DEF NodeInv, MapInv, Newest
<1>8. TaskInv'
  <2> SUFFICES ASSUME NEW j \in Keys PROVE TaskOK(j)'
    BY DEF TaskInv
  <2>1. TaskOK(j)
    BY DEF NodeInv, TaskInv
  <2>2. task[j].pc \in Unpublished => executions'[j[1]] = executions[j[1]]
    <3> SUFFICES ASSUME task[j].pc \in Unpublished PROVE executions'[j[1]] = executions[j[1]]
      OBVIOUS
    <3>1. Active(j) /\ j[1] \in Mapped /\ j = <<j[1], executions[j[1]]>>
      BY UnpublishedActive
    <3>2. j[1] \notin evicted
      BY Zenon, <1>4, <3>1 DEF Active
    <3> QED
      BY Zenon, <1>3, <3>1, <3>2 DEF Mapped
  <2> QED
    BY Zenon, <1>2, <2>1, <2>2 DEF TaskOK, Returned
<1>9. ShutdownInv'
  <2>1. node.stage = "serving"
    BY <1>2 DEF NodeInv, ShutdownInv
  <2> QED
    BY Zenon, <1>2, <2>1 DEF ShutdownInv, ShutdownReachesAll, StoppedIsQuiet
<1> QED
  BY Zenon, <1>2, <1>5, <1>6, <1>7, <1>8, <1>9, RequestsKept DEF NodeInv

\* A reserved key is the newest of its identity.
LEMMA ReservedNewest ==
    ASSUME TypeOK, NEW id \in ExecutionIds, NEW g \in Generations,
           <<id, g>> \notin DOMAIN rows, MayFollow(id, g),
           DOMAIN rows' = DOMAIN rows \cup {<<id, g>>}
    PROVE  Newest(<<id, g>>)'
<1> SUFFICES ASSUME NEW j \in DOMAIN rows, j[1] = id PROVE j[2] <= g
  BY StoreAssumption DEF Newest, Generations, StoreAssumption
<1>1. j = <<id, j[2]>> /\ j[2] \in Generations
  BY DEF TypeOK, Keys
<1>2. j[2] < g
  BY <1>1 DEF MayFollow
<1> QED
  BY SMTT(30), <1>1, <1>2, StoreAssumption DEF Generations, StoreAssumption

\* execute reserves its key, or gives up, and releases the lock of the map.
LEMMA ReserveStep ==
    ASSUME NodeInv, NEW d \in Digests, NEW p \in Principals, ExecuteReserve(d, p)
    PROVE  NodeInv' /\ [Next]_vars
<1>1. /\ executions \in [ExecutionIds -> 0..MaxGeneration] /\ TypeOK
      /\ task \in [Keys -> TaskType] /\ mon \in [Keys -> MonType] /\ rec \in [Keys -> RecType]
      /\ pub \in [Keys -> PubType] /\ ctl \in [Controllers -> CtlType] /\ node \in StageType
      /\ admit \in [key : Keys, lease : Leases] \cup {None}
  BY TypesByVariable DEF NodeInv
<1>2. UNCHANGED <<pub, mon, ctl, node>> /\ admit # None /\ admit' = None
  BY DEF ExecuteReserve
<1>3. admit.key \in Keys /\ admit.lease \in Leases
  BY <1>1, <1>2
<1>4. ShutdownInv'
  <2>1. ShutdownInv /\ node.stage \in {"serving", "draining"}
    BY Zenon, <1>1, <1>2 DEF NodeInv, ShutdownInv, StageType
  <2>2. node'.stage # "serving" => node'.draining
    BY <1>2, <2>1, Zenon DEF ShutdownInv
  <2> QED
    BY <1>2, <2>1, <2>2 DEF ShutdownInv, ShutdownReachesAll, StoppedIsQuiet
<1>5. CASE UNCHANGED <<rows, now, rec, executions, task>>
  <2>1. [Next]_vars /\ TypeOK'
    BY Zenon, <1>1, <1>5 DEF vars, TypeOK
  <2>2. NodeTypeOK'
    BY Zenon, <1>1, <1>2, <1>5, <2>1, NextTypes
  <2>3. OneLiveGeneration' /\ LatestInv' /\ SnapshotInv' /\ MapInv' /\ Grows
    BY Zenon, <1>2, <1>5
    DEF NodeInv, OneLiveGeneration, LatestInv, Newest, SnapshotInv, SnapshotDurable, MapInv,
        Grows
  <2>4. TaskInv'
    BY ZenonT(30), <1>5 DEF NodeInv, TaskInv, TaskOK, Returned
  <2> QED
    BY Zenon, <1>2, <1>4, <2>1, <2>2, <2>3, <2>4, RequestsKept DEF NodeInv
<1>6. ASSUME NEW k \in Keys, k = admit.key,
             \E t \in Deadlines : Reserve(k[1], k[2], d, p, admit.lease, t),
             rec' = [rec EXCEPT ![k] = Record("Accepted", admit.lease, FALSE, now + LeaseTtl)],
             executions' = [executions EXCEPT ![k[1]] = k[2]],
             task' = [task EXCEPT ![k].pc = "accepted"]
      PROVE  NodeInv' /\ [Next]_vars
  <2> DEFINE v == Record("Accepted", admit.lease, FALSE, now + LeaseTtl)
             e == [task[k] EXCEPT !.pc = "accepted"]
  <2>1. PICK t \in Deadlines : Reserve(k[1], k[2], d, p, admit.lease, t)
    BY Zenon, <1>6
  <2>2. k[1] \in ExecutionIds /\ k[2] \in Generations /\ k = <<k[1], k[2]>>
    BY <1>3 DEF Keys
  <2>3. k \notin DOMAIN rows /\ MayFollow(k[1], k[2])
    BY Zenon, <2>1, <2>2 DEF Reserve, ReserveResult
  <2>4. [Next]_vars
    BY Zenon, <1>3, <2>1, <2>2 DEF Next
  <2>5. TypeOK' /\ OneLiveGeneration'
    BY Zenon, <1>1, <2>4, TypeStep, GenerationStep DEF NodeInv
  <2>6. /\ DOMAIN rows' = DOMAIN rows \cup {k} /\ rows'[k].state = "Accepted"
        /\ \A j \in DOMAIN rows : rows'[j] = rows[j]
    BY Zenon, <2>1, <2>2, <2>3 DEF Reserve, Insert, NewRow
  <2>7. Newest(k)'
    BY SMTT(30), <1>1, <2>2, <2>3, <2>6, ReservedNewest
  <2>8. v \in RecType /\ v.snapshot = "Accepted" /\ v.finished = FALSE
    BY <1>1, <1>3, StoreAssumption
    DEF Record, RecType, States, LiveStates, TypeOK, StoreAssumption
  <2>9. TaskOK(k)
    BY <1>3 DEF NodeInv, TaskInv
  <2>10. /\ e \in TaskType /\ e.pc = "accepted" /\ e.runner = task[k].runner
         /\ e.joined = task[k].joined /\ e.queued = task[k].queued /\ e.sent = task[k].sent
    BY <1>1, <1>3 DEF TaskType
  <2>11. rec' = [rec EXCEPT ![k] = v] /\ task' = [task EXCEPT ![k] = e]
    BY Zenon, <1>1, <1>3, <1>6
  <2>12. k \in Keys /\ executions' = [executions EXCEPT ![k[1]] = k[2]]
    BY Zenon, <1>3, <1>6
  <2> HIDE DEF v, e
  <2>13. /\ rec' \in [Keys -> RecType] /\ rec'[k] = v
         /\ \A j \in Keys : j # k => rec'[j] = rec[j]
    BY Zenon, <1>1, <2>8, <2>11, <2>12, Updated
  <2>14. /\ task' \in [Keys -> TaskType] /\ task'[k] = e
         /\ \A j \in Keys : j # k => task'[j] = task[j]
    BY Zenon, <1>1, <2>10, <2>11, <2>12, Updated
  <2>15. /\ executions' \in [ExecutionIds -> 0..MaxGeneration] /\ executions'[k[1]] = k[2]
         /\ \A id \in ExecutionIds : id # k[1] => executions'[id] = executions[id]
    <3>1. k[2] \in 0..MaxGeneration
      BY SMTT(30), <2>2, StoreAssumption DEF Generations, StoreAssumption
    <3> QED
      BY Zenon, <1>1, <2>2, <2>12, <3>1, Updated
  <2>16. NodeTypeOK'
    BY Zenon, <1>1, <1>2, <2>5, <2>13, <2>14, <2>15, NextTypes
  <2>17. LatestInv'
    <3> SUFFICES ASSUME NEW j \in DOMAIN rows'
                 PROVE  \E i \in Keys : i[1] = j[1] /\ Newest(i)'
      BY Zenon DEF LatestInv
    <3>1. CASE j[1] = k[1]
      BY Zenon, <2>7, <2>12, <3>1
    <3>2. CASE j[1] # k[1]
      <4>1. PICK i \in Keys : i[1] = j[1] /\ Newest(i)
        BY Zenon, <2>6, <3>2 DEF NodeInv, LatestInv
      <4>2. Newest(i)'
        BY Zenon, <2>6, <3>2, <4>1 DEF Newest
      <4> QED
        BY Zenon, <4>1, <4>2
    <3> QED
      BY Zenon, <3>1, <3>2
  <2>18. MapInv'
    <3>1. ASSUME NEW id \in ExecutionIds, NEW j, j = <<id, executions'[id]>>,
                 executions'[id] # 0
          PROVE  Newest(j)' /\ rec'[j].snapshot # "None"
      <4>1. CASE id = k[1]
        BY Zenon, <2>2, <2>7, <2>8, <2>13, <2>15, <3>1, <4>1
      <4>2. CASE id # k[1]
        <5>1. executions'[id] = executions[id]
          BY Zenon, <2>15, <4>2
        <5>2. j \in Keys /\ Newest(j) /\ rec[j].snapshot # "None" /\ j # k /\ j[1] = id
          BY SMTT(30), <2>2, <3>1, <4>2, <5>1, MapHolds DEF NodeInv, MapInv
        <5>3. Newest(j)'
          BY Zenon, <2>6, <4>2, <5>2 DEF Newest
        <5> QED
          BY Zenon, <2>13, <5>2, <5>3
      <4> QED
        BY Zenon, <4>1, <4>2
    <3> QED
      BY Zenon, <3>1 DEF MapInv, Newest
  <2>19. SnapshotInv'
    <3>1. rec[k].snapshot = "None" /\ pub[k] = None
      BY Zenon, <2>3, <2>12 DEF NodeInv, SnapshotInv, SnapshotDurable
    <3>2. SnapshotDurable'
      BY ZenonT(30), <1>2, <2>6, <2>8, <2>13, <3>1 DEF NodeInv, SnapshotInv, SnapshotDurable
    <3>3. \A j \in Keys : pub'[j] # None => rec'[j].snapshot # "None"
      BY Zenon, <1>2, <2>13, <3>1 DEF NodeInv, SnapshotInv
    <3> QED
      BY Zenon, <3>2, <3>3 DEF SnapshotInv
  <2>20. TaskOK(k)'
    <3>1. task[k].pc = "none" /\ ~task[k].joined /\ task[k].runner \notin {"called", "process"}
      BY Zenon, <2>3, <2>9 DEF TaskOK
    <3>2. ~is_terminal("Accepted")
      BY Zenon DEF is_terminal, TerminalStates
    <3> QED
      BY Zenon, <2>6, <2>8, <2>9, <2>10, <2>13, <2>14, <2>15, <3>1, <3>2 DEF TaskOK
  <2>21. ASSUME NEW j \in Keys, j # k PROVE TaskOK(j)'
    <3>1. TaskOK(j) /\ task'[j] = task[j] /\ rec'[j] = rec[j]
      BY Zenon, <2>13, <2>14, <2>21 DEF NodeInv, TaskInv
    <3>2. task[j].pc \in Unpublished => j[1] # k[1]
      <4> SUFFICES ASSUME task[j].pc \in Unpublished, j[1] = k[1] PROVE FALSE
        OBVIOUS
      <4>1. j \in DOMAIN rows /\ ~is_terminal(rows'[j].state)
        BY Zenon, <2>6, UnpublishedActive
      <4>2. j = <<k[1], j[2]>> /\ j[2] \in Generations
        BY <2>21 DEF Keys
      <4>3. j[2] <= k[2] /\ j[2] # k[2]
        BY Zenon, <2>2, <2>6, <2>7, <2>21, <4>1, <4>2 DEF Newest
      <4>4. j[2] \in 1..(k[2] - 1)
        BY SMTT(30), <2>2, <4>2, <4>3, StoreAssumption DEF Generations, StoreAssumption
      <4>5. is_terminal(rows'[<<k[1], j[2]>>].state)
        BY Zenon, <2>2, <2>5, <2>6, <4>4 DEF OneLiveGeneration
      <4> QED
        BY Zenon, <4>1, <4>2, <4>5
    <3>3. task[j].pc \in Unpublished => executions'[j[1]] = executions[j[1]]
      BY Zenon, <2>15, <3>2 DEF Keys
    <3> QED
      BY Zenon, <2>6, <3>1, <3>3 DEF TaskOK, Returned, Unpublished, Early
  <2>22. CtlInv'
    <3>1. Grows
      BY Zenon, <2>6, <2>8, <2>13 DEF Grows
    <3> QED
      BY Zenon, <1>2, <3>1, RequestsKept
  <2> QED
    BY Zenon, <1>4, <2>4, <2>5, <2>16, <2>17, <2>18, <2>19, <2>20, <2>21, <2>22 DEF NodeInv, TaskInv
<1> QED
  BY Zenon, <1>3, <1>5, <1>6 DEF ExecuteReserve

-----------------------------------------------------------------------------
(* Shutdown, the start of the node and the clock.                            *)

\* A step of shutdown or wait changes the stage and at most cancels executions.
LEMMA StageStep ==
    ASSUME NodeInv, UNCHANGED <<rows, now, executions, admit, pub, task, mon, ctl>>,
           rec' \in [Keys -> RecType], node' \in StageType,
           \A k \in Keys : rec'[k].snapshot = rec[k].snapshot,
           \A k \in Keys : rec'[k].finished = rec[k].finished,
           ShutdownInv'
    PROVE  NodeInv'
<1>1. NodeTypeOK'
  <2>1. TypeOK'
    BY Zenon, TypesByVariable DEF NodeInv, TypeOK
  <2> QED
    BY Zenon, <2>1, TypesByVariable, NextTypes DEF NodeInv
<1>2. Quiet
  BY DEF Quiet
<1> QED
  BY Zenon, <1>1, <1>2, QuietKeeps, QuietTasks, QuietGrows, RequestsKept DEF NodeInv

\* shutdown and wait.
LEMMA ShutdownSteps ==
    ASSUME NodeInv, ShutdownBegin \/ ShutdownCancel \/ ShutdownClose \/ Wait
    PROVE  NodeInv'
<1>1. rec \in [Keys -> RecType] /\ node \in StageType /\ ShutdownInv
  BY TypesByVariable DEF NodeInv
<1>2. UNCHANGED <<rows, now, executions, admit, pub, task, mon, ctl>>
  BY DEF ShutdownBegin, ShutdownCancel, ShutdownClose, Wait
<1>3. CASE ShutdownBegin
  <2>1. rec' = rec /\ node' \in StageType /\ node'.stage = "draining" /\ node'.draining
    BY Zenon, <1>1, <1>3 DEF ShutdownBegin, StageType
  <2>2. ShutdownInv'
    BY <2>1 DEF ShutdownInv, ShutdownReachesAll, StoppedIsQuiet
  <2> QED
    BY Zenon, <1>1, <1>2, <2>1, <2>2, StageStep
<1>4. CASE ShutdownCancel
  <2> DEFINE held == {<<id, executions[id]>> : id \in Mapped}
  <2>1. /\ node' \in StageType /\ node'.stage = "cancelled" /\ node'.draining = node.draining
        /\ node.stage = "draining" /\ admit = None
    BY <1>1, <1>4 DEF ShutdownCancel, StageType
  <2>2. rec' = [k \in Keys |-> IF k \in held /\ Active(k)
                               THEN [rec[k] EXCEPT !.cancelled = TRUE] ELSE rec[k]]
    BY Zenon, <1>4 DEF ShutdownCancel
  <2>3. ASSUME NEW k \in Keys
        PROVE  /\ rec'[k] \in RecType /\ rec'[k].snapshot = rec[k].snapshot
               /\ rec'[k].finished = rec[k].finished
               /\ k \in held /\ Active(k) => rec'[k].cancelled
    <3> DEFINE v == [rec[k] EXCEPT !.cancelled = TRUE]
    <3>1. /\ v \in RecType /\ v.snapshot = rec[k].snapshot /\ v.finished = rec[k].finished
          /\ v.cancelled
      BY Zenon, <1>1 DEF RecType
    <3>2. rec'[k] = IF k \in held /\ Active(k) THEN v ELSE rec[k]
      BY <2>2
    <3> HIDE DEF v, held
    <3>3. CASE k \in held /\ Active(k)
      BY <3>1, <3>2, <3>3, Zenon
    <3>4. CASE ~(k \in held /\ Active(k))
      BY <1>1, <3>2, <3>4
    <3> QED
      BY <3>3, <3>4
  <2>4. rec' \in [Keys -> RecType]
    <3>1. DOMAIN rec' = Keys /\ rec' = [k \in Keys |-> rec'[k]]
      BY <2>2
    <3> HIDE DEF held
    <3> QED
      BY <2>3, <3>1
  <2>5. ShutdownReachesAll'
    <3> SUFFICES ASSUME NEW k \in Keys, task[k].pc \in Early PROVE rec'[k].cancelled
      BY <1>2 DEF ShutdownReachesAll, Early
    <3>1. Active(k) /\ k[1] \in Mapped /\ k = <<k[1], executions[k[1]]>>
      BY UnpublishedActive DEF Unpublished
    <3>2. k \in held
      BY <3>1
    <3> QED
      BY Zenon, <2>3, <3>1, <3>2
  <2>6. node'.stage # "serving" => node'.draining
    <3>1. node.draining
      BY Zenon, <1>1, <2>1 DEF ShutdownInv
    <3> QED
      BY <2>1, <3>1, Zenon
  <2>7. ShutdownInv'
    BY Zenon, <1>2, <2>1, <2>5, <2>6 DEF ShutdownInv, StoppedIsQuiet
  <2> QED
    BY <1>2, <2>1, <2>3, <2>4, <2>7, StageStep
<1>5. CASE ShutdownClose \/ Wait
  <2>1. /\ rec' = rec /\ node' \in StageType /\ node'.draining = node.draining
        /\ node'.stage \in {"closing", "stopped"} /\ node.stage \in {"cancelled", "closing"}
    BY Zenon, <1>1, <1>5 DEF ShutdownClose, Wait, StageType
  <2>2. node.draining /\ admit = None /\ ShutdownReachesAll
    BY <1>1, <2>1 DEF ShutdownInv
  <2>3. node'.draining
    BY <2>1, <2>2, Zenon
  <2>4. ShutdownReachesAll'
    BY Zenon, <1>2, <2>1, <2>2 DEF ShutdownReachesAll
  <2>5. StoppedIsQuiet'
    <3> SUFFICES ASSUME node'.stage = "stopped", NEW k \in Keys,
                        task[k].runner \in {"called", "process"}
                 PROVE  FALSE
      BY Zenon, <1>2, <2>2 DEF StoppedIsQuiet
    <3>1. Wait
      BY Zenon, <1>1, <1>5 DEF ShutdownClose, StageType
    <3>2. task[k].pc \in Unpublished
      BY DEF NodeInv, TaskInv, TaskOK, Unpublished, Early
    <3>3. Active(k) /\ k[1] \in Mapped /\ k = <<k[1], executions[k[1]]>>
      BY Zenon, <3>2, UnpublishedActive
    <3> QED
      BY Zenon, <3>1, <3>3 DEF Wait
  <2>6. ShutdownInv'
    BY Zenon, <1>2, <2>2, <2>3, <2>4, <2>5 DEF ShutdownInv
  <2> QED
    BY Zenon, <1>1, <1>2, <2>1, <2>6, StageStep
<1> QED
  BY <1>3, <1>4, <1>5

\* The newest generation exists, or is 0.
LEMMA LatestIs ==
    ASSUME TypeOK, LatestInv, NEW id \in ExecutionIds, NEW g, g = LatestGeneration(id)
    PROVE  /\ g \in 0..MaxGeneration
           /\ g = 0 \/ <<id, g>> \in DOMAIN rows
           /\ \A h \in Generations : <<id, h>> \in DOMAIN rows => h <= g
<1> SUFFICES \E x \in 0..MaxGeneration :
                /\ x = 0 \/ <<id, x>> \in DOMAIN rows
                /\ \A h \in Generations : <<id, h>> \in DOMAIN rows => h <= x
  BY DEF LatestGeneration
<1>1. CASE \A h \in Generations : <<id, h>> \notin DOMAIN rows
  <2>1. 0 \in 0..MaxGeneration
    BY StoreAssumption DEF StoreAssumption
  <2> QED
    BY <1>1, <2>1
<1>2. ASSUME NEW h \in Generations, <<id, h>> \in DOMAIN rows
      PROVE  \E x \in 0..MaxGeneration :
                /\ x = 0 \/ <<id, x>> \in DOMAIN rows
                /\ \A i \in Generations : <<id, i>> \in DOMAIN rows => i <= x
  <2>1. PICK k \in Keys : k[1] = <<id, h>>[1] /\ Newest(k)
    BY Zenon, <1>2 DEF LatestInv
  <2>2. k = <<id, k[2]>> /\ k[2] \in Generations
    BY <2>1 DEF Keys
  <2>3. k[2] \in 0..MaxGeneration
    BY <2>2, StoreAssumption DEF Generations, StoreAssumption
  <2>4. <<id, k[2]>> \in DOMAIN rows
    BY Zenon, <2>1, <2>2 DEF Newest
  <2>5. ASSUME NEW i \in Generations, <<id, i>> \in DOMAIN rows PROVE i <= k[2]
    <3>1. <<id, i>>[1] = k[1] /\ <<id, i>>[2] = i
      BY <2>2
    <3> QED
      BY Zenon, <2>1, <2>5, <3>1 DEF Newest
  <2> QED
    BY Zenon, <2>3, <2>4, <2>5
<1> QED
  BY Zenon, <1>1, <1>2

\* recover ends every row, and NodeServer::start fills memory from the table.
LEMMA StartStep ==
    ASSUME NodeInv, Start
    PROVE  NodeInv' /\ [Next]_vars
<1>1. TypeOK /\ LatestInv /\ OneLiveGeneration /\ DOMAIN rows \subseteq Keys /\ now \in Nat
  BY Zenon, TypesByVariable DEF NodeInv, TypeOK
<1>2. [Next]_vars
  BY DEF Start, Next
<1>3. TypeOK' /\ OneLiveGeneration'
  BY Zenon, <1>1, <1>2, TypeStep, GenerationStep
<1>4. DOMAIN rows' = DOMAIN rows /\ now' = now
  BY Zenon DEF Start, Recover
<1>5. \A k \in DOMAIN rows : rows'[k].state \in States /\ rows'[k].state # "None"
  BY Zenon, <1>3, <1>4 DEF TypeOK, States, LiveStates, TerminalStates
<1>6. \A id \in ExecutionIds :
        /\ LatestGeneration(id) \in 0..MaxGeneration
        /\ LatestGeneration(id) = 0 \/ <<id, LatestGeneration(id)>> \in DOMAIN rows
        /\ \A h \in Generations : <<id, h>> \in DOMAIN rows => h <= LatestGeneration(id)
  BY Zenon, <1>1, LatestIs
<1>7. /\ executions' = [id \in ExecutionIds |-> LatestGeneration(id)] /\ admit' = None
      /\ pub' = [k \in Keys |-> None] /\ task' = [k \in Keys |-> NoTask]
      /\ mon' = [k \in Keys |-> NoMonitor] /\ ctl' = [c \in Controllers |-> NoRequest]
      /\ rec' = [k \in Keys |-> IF k \in DOMAIN rows /\ LatestGeneration(k[1]) = k[2]
                                THEN Record(rows'[k].state, None, TRUE, now) ELSE NoRecord]
  BY Zenon DEF Start, Fresh
<1>7a. PICK survivors \in SUBSET LeftBehind :
          node' = [draining |-> FALSE, stage |-> "serving", orphans |-> survivors]
  BY Zenon DEF Start
<1>7b. survivors \in SUBSET Keys
  <2>1. node.orphans \in SUBSET Keys
    BY Zenon, TypesByVariable DEF NodeInv, StageType
  <2> QED
    BY Zenon, <1>7a, <2>1 DEF LeftBehind
<1>8. ASSUME NEW k \in Keys
      PROVE  /\ rec'[k] \in RecType
             /\ k \in DOMAIN rows /\ LatestGeneration(k[1]) = k[2]
                  => rec'[k].snapshot = rows'[k].state
             /\ rec'[k].snapshot # "None" => k \in DOMAIN rows /\ rec'[k].snapshot = rows'[k].state
  <2>1. NoRecord \in RecType /\ NoRecord.snapshot = "None"
    BY Zenon DEF NoRecord, Record, RecType
  <2>2. k \in DOMAIN rows => /\ Record(rows'[k].state, None, TRUE, now) \in RecType
                             /\ Record(rows'[k].state, None, TRUE, now).snapshot = rows'[k].state
    BY Zenon, <1>1, <1>5 DEF Record, RecType
  <2>3. CASE k \in DOMAIN rows /\ LatestGeneration(k[1]) = k[2]
    <3>1. rec'[k] = Record(rows'[k].state, None, TRUE, now)
      BY <1>7, <2>3
    <3> QED
      BY Zenon, <2>2, <2>3, <3>1
  <2>4. CASE ~(k \in DOMAIN rows /\ LatestGeneration(k[1]) = k[2])
    <3>1. rec'[k] = NoRecord
      BY Zenon, <1>7, <2>4
    <3> QED
      BY Zenon, <2>1, <2>4, <3>1
  <2> QED
    BY Zenon, <2>3, <2>4
<1>9. NodeTypeOK'
  <2>1. /\ NoTask \in TaskType /\ NoMonitor \in MonType /\ NoRequest \in CtlType
        /\ None \in PubType
    BY NoTaskOK DEF NoMonitor, MonType, NoRequest, CtlType, PubType
  <2>2. DOMAIN rec' = Keys /\ rec' = [k \in Keys |-> rec'[k]]
    BY Zenon, <1>7
  <2>3. rec' \in [Keys -> RecType]
    BY Zenon, <1>8, <2>2
  <2>4. executions' \in [ExecutionIds -> 0..MaxGeneration]
    BY Zenon, <1>6, <1>7
  <2>5. /\ pub' \in [Keys -> PubType] /\ task' \in [Keys -> TaskType]
        /\ mon' \in [Keys -> MonType] /\ ctl' \in [Controllers -> CtlType]
    BY <1>7, <2>1
  <2>6. node' \in StageType
    BY Zenon, <1>7a, <1>7b DEF StageType
  <2> QED
    BY Zenon, <1>3, <1>7, <2>3, <2>4, <2>5, <2>6, NextTypes
<1>10. LatestInv'
  BY <1>1, <1>4 DEF LatestInv, Newest
<1>11. MapInv'
  <2>1. ASSUME NEW id \in ExecutionIds, NEW k, k = <<id, executions'[id]>>, executions'[id] # 0
        PROVE  Newest(k)' /\ rec'[k].snapshot # "None"
    <3>1. executions'[id] = LatestGeneration(id)
      BY Zenon, <1>7
    <3>2. k \in DOMAIN rows /\ k \in Keys /\ k[1] = id /\ k[2] = LatestGeneration(id)
      BY Zenon, <1>1, <1>6, <2>1, <3>1
    <3>3. ASSUME NEW j \in DOMAIN rows, j[1] = id PROVE j[2] <= k[2]
      <4>1. j = <<id, j[2]>> /\ j[2] \in Generations
        BY <1>1, <3>3 DEF Keys
      <4> QED
        BY Zenon, <1>6, <3>2, <4>1
    <3> QED
      BY Zenon, <1>4, <1>5, <1>8, <3>2, <3>3 DEF Newest
  <2> QED
    BY Zenon, <2>1 DEF MapInv, Newest
<1>12. SnapshotInv'
  BY Zenon, <1>4, <1>7, <1>8 DEF SnapshotInv, SnapshotDurable
<1>13. TaskInv'
  <2> SUFFICES ASSUME NEW k \in Keys PROVE TaskOK(k)'
    BY DEF TaskInv
  <2>1. task'[k] = NoTask
    BY <1>7
  <2> QED
    BY <2>1, NoTaskOK DEF TaskOK, Unpublished, Early
<1>14. CtlInv'
  <2> SUFFICES ASSUME NEW c \in Controllers PROVE CtlOK(c)'
    BY Zenon DEF CtlInv
  <2>1. ctl'[c].pc = "idle"
    BY Zenon, <1>7 DEF NoRequest
  <2> QED
    BY <2>1 DEF CtlOK, Holding
<1>15. ShutdownInv'
  <2>1. node'.stage = "serving"
    BY Zenon, <1>7a
  <2> QED
    BY Zenon, <2>1 DEF ShutdownInv, ShutdownReachesAll, StoppedIsQuiet
<1> QED
  BY ZenonT(30), <1>2, <1>3, <1>9, <1>10, <1>11, <1>12, <1>13, <1>14, <1>15 DEF NodeInv

\* A process that outlived its node ends.
LEMMA OrphanStep ==
    ASSUME NodeInv, NEW k \in Keys, OrphanEnds(k)
    PROVE  NodeInv' /\ [Next]_vars
<1>1. UNCHANGED <<rows, now, executions, admit, rec, pub, task, mon, ctl>>
  BY Zenon DEF OrphanEnds
<1>2. rec \in [Keys -> RecType] /\ node \in StageType /\ ShutdownInv
  BY Zenon, TypesByVariable DEF NodeInv
<1>3. node' = [node EXCEPT !.orphans = @ \ {k}]
  BY Zenon DEF OrphanEnds
<1>4. /\ node' \in StageType
      /\ node'.stage = node.stage /\ node'.draining = node.draining
  BY <1>2, <1>3 DEF StageType
<1>5. ShutdownInv'
  BY Zenon, <1>1, <1>2, <1>4 DEF ShutdownInv, ShutdownReachesAll, StoppedIsQuiet
<1> QED
  BY Zenon, <1>1, <1>2, <1>4, <1>5, StageStep DEF vars

\* The clock, and a step that changes nothing.
LEMMA IdleSteps ==
    ASSUME NodeInv, Clock \/ UNCHANGED nodeVars
    PROVE  NodeInv' /\ [Next]_vars
<1>1. /\ UNCHANGED <<rows, executions, admit, rec, pub, task, mon, ctl, node>> /\ [Next]_vars
  BY DEF Clock, Tick, nodeVars, vars, Next
<1>2. /\ rec \in [Keys -> RecType] /\ mon \in [Keys -> MonType]
      /\ ctl \in [Controllers -> CtlType] /\ TypeOK
  BY TypesByVariable DEF NodeInv
<1>3. Quiet
  BY <1>1 DEF Quiet
<1>4. TypeOK'
  BY <1>1, <1>2, TypeStep
<1> QED
  BY Zenon, <1>1, <1>2, <1>3, <1>4, QuietStoreStep, QuietGrows, RequestsKept
=============================================================================

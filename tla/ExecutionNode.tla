----------------------------- MODULE ExecutionNode -----------------------------
(***************************************************************************)
(* The execution core of a running node (eggwork-server/src/lib.rs): the   *)
(* execute and control handlers, the tasks run_execution and monitor_lease *)
(* that execute spawns, publish, shutdown, wait and a restart.  They share *)
(* the durable store of ExecutionStore, whose operations are the steps     *)
(* that change rows.                                                       *)
(*                                                                         *)
(* A handler or task is a sequence of actions cut at its awaits.  What a   *)
(* request is refused with changes nothing and is not told apart.  The     *)
(* wall clock of the store and the monotonic clock of the tasks advance    *)
(* together.                                                               *)
(***************************************************************************)
EXTENDS ExecutionStore

CONSTANTS
    Controllers,            \* control requests in flight at the same time
    Operations,             \* what they ask for
    MaxActive,              \* permits of the execution semaphore
    MAX_RECENT_EXECUTIONS,  \* records kept in the map
    MaxOutput,              \* bound on the chunks one process writes
    Exits,                  \* the results of processes that end by themselves
    Disturbances            \* what may come between: "store", a durable write fails;
                            \* "setup" or "reader", the runner fails before its
                            \* process runs or after; "shutdown"; "crash"

ASSUME NodeAssumption ==
    /\ MaxActive \in Nat /\ MAX_RECENT_EXECUTIONS \in Nat
    /\ MaxOutput \in Nat
    /\ Exits \subseteq {"Succeeded", "Failed", "TimedOut"}
    /\ Operations \subseteq {"renew", "cancel"}
    /\ Disturbances \subseteq {"store", "setup", "reader", "shutdown", "crash"}
    /\ None \notin [by : Controllers \cup {"task"}, state : Kinds]

VARIABLES
    executions, \* the map: the generation of the record of an identity, 0 for none
    admit,      \* the key execute is admitting; not None, it holds the map's lock
    rec,        \* ExecutionRecord of every key
    pub,        \* commit_lock of every record: the publication to install, or None
    task,       \* the execute handler, then the run_execution task, of every key
    mon,        \* the monitor_lease task of every key
    ctl,        \* the control requests
    node        \* the draining flag, the stage of shutdown, and the keys whose process
                \* has outlived the run of the node that spawned it

nodeVars == <<rows, now, executions, admit, rec, pub, task, mon, ctl, node>>

LatestGeneration(id) ==
    CHOOSE g \in 0..MaxGeneration :
        /\ g = 0 \/ <<id, g>> \in DOMAIN rows
        /\ \A h \in Generations : <<id, h>> \in DOMAIN rows => h <= g

Record(state, lease, finished, expires) ==
    [snapshot |-> state, lease |-> lease, cancelled |-> FALSE, finished |-> finished,
     expires |-> expires, expired |-> FALSE]

\* A record no execution has used yet; the value of the lease matches no request.
NoRecord == Record("None", None, TRUE, 0)

NoTask == [pc |-> "none", runner |-> "none", open |-> FALSE, queued |-> 0,
           sent |-> 0, joined |-> FALSE, closed |-> FALSE]

NoMonitor == [pc |-> "none", deadline |-> 0]

NoRequest == [pc |-> "idle", op |-> "none", key |-> None, target |-> None, deadline |-> 0]

\* wait and shutdown look for records that are neither finished nor terminal.
Active(k) == ~rec[k].finished /\ ~is_terminal(rec[k].snapshot)

\* Handlers run until wait has returned; new requests come in until shutdown has
\* closed the listener.
Up == node.stage # "stopped"
Listening == node.stage \in {"serving", "draining", "cancelled"}

\* Leases are granted while their deadline lies within the bound on the clock.
InHorizon == now + LeaseTtl <= MaxTime

\* Mutant of LeaseHeld: update_lease runs without the lease mutex.
LeaseHeld_Never(k) == FALSE

\* update_lease runs with the record's lease mutex held.
LeaseHeld(k) == \E c \in Controllers : ctl[c].pc = "install" /\ ctl[c].target = k

-----------------------------------------------------------------------------
(* publish: under commit_lock, refuse a terminal base, commit, then install *)
(* the snapshot.  Between the two steps the store is ahead of the snapshot. *)

PublishRefused(k) ==
    /\ is_terminal(rec[k].snapshot) \/ CommitResult(k, 0) = "None"
    /\ UNCHANGED <<rows, now, pub, rec, node>>

\* Mutant of PublishCommitted: the row is updated without a journal entry.
PublishCommitted_Unjournaled(k, who, kind) ==
    /\ ~is_terminal(rec[k].snapshot)
    /\ rows' = [rows EXCEPT ![k].state = SnapshotState(kind)]
    /\ pub' = [pub EXCEPT ![k] = [by |-> who, state |-> SnapshotState(kind)]]
    /\ UNCHANGED <<now, rec, node>>

PublishCommitted(k, who, kind) ==
    /\ ~is_terminal(rec[k].snapshot)
    /\ \E size \in Sizes(kind) : CommitEvent(k, kind, size)
    /\ pub' = [pub EXCEPT ![k] = [by |-> who, state |-> SnapshotState(kind)]]
    /\ UNCHANGED <<rec, node>>

\* commit_event fails when SQLite does or the event is larger than the journal.
MayFail(k, kind) ==
    \/ "store" \in Disturbances
    \/ \E size \in Sizes(kind) : CommitResult(k, size) = "InvalidEvent"

\* Mutant of PublishFailed: the snapshot is installed although the write failed.
PublishFailed_Installs(k, kind) ==
    /\ ~is_terminal(rec[k].snapshot) /\ MayFail(k, kind)
    /\ rec' = [rec EXCEPT ![k].cancelled = TRUE, ![k].snapshot = SnapshotState(kind)]
    /\ node' = [node EXCEPT !.draining = TRUE]
    /\ UNCHANGED <<rows, now, pub>>

\* The node stops accepting executions and this one is cancelled.
PublishFailed(k, kind) ==
    /\ ~is_terminal(rec[k].snapshot) /\ MayFail(k, kind)
    /\ rec' = [rec EXCEPT ![k].cancelled = TRUE]
    /\ node' = [node EXCEPT !.draining = TRUE]
    /\ UNCHANGED <<rows, now, pub>>

Publish(k, who, kind) ==
    /\ pub[k] = None
    /\ PublishRefused(k) \/ PublishCommitted(k, who, kind) \/ PublishFailed(k, kind)

\* Whether a caller of publish still waits for it.
Publishing(k, who) == pub[k] # None /\ pub[k].by = who

Install(k) ==
    /\ Up /\ pub[k] # None
    /\ rec' = [rec EXCEPT ![k].snapshot = pub[k].state]
    /\ pub' = [pub EXCEPT ![k] = None]
    /\ UNCHANGED <<rows, now, executions, admit, task, mon, ctl, node>>

-----------------------------------------------------------------------------
(* execute: one section under the lock of the map, then Accepted is        *)
(* published with the lock released, then the two tasks are spawned.       *)

HasPermit(k) == task[k].pc \notin {"none", "done", "panicked"}

Mapped == {id \in ExecutionIds : executions[id] # 0}

\* Terminal records are evicted, in no particular order, until there is room.
Evictions ==
    LET terminal == {id \in Mapped : is_terminal(rec[<<id, executions[id]>>].snapshot)}
        excess   == Cardinality(Mapped) + 1 - MAX_RECENT_EXECUTIONS
    IN  {s \in SUBSET terminal :
            \/ excess <= 0 /\ s = {}
            \/ excess > 0 /\ Cardinality(s) = excess
            \/ excess > Cardinality(terminal) /\ s = terminal}

\* Mutant of Accepting: draining is not read again under the lock.
Accepting_Always == TRUE

Accepting == ~node.draining

ExecuteAdmit(k, lease) ==
    /\ Listening /\ admit = None
    /\ k \notin DOMAIN rows
    /\ Accepting
    /\ Cardinality({j \in Keys : HasPermit(j)}) < MaxActive
    /\ \E evicted \in Evictions :
         /\ executions' = [id \in ExecutionIds |-> IF id \in evicted THEN 0 ELSE executions[id]]
         /\ admit' = IF Cardinality(Mapped \ evicted) < MAX_RECENT_EXECUTIONS
                     THEN [key |-> k, lease |-> lease] ELSE None
    /\ UNCHANGED <<rows, now, rec, pub, task, mon, ctl, node>>

ExecuteReserve(digest, principal) ==
    /\ Up /\ admit # None
    /\ LET k == admit.key IN
       \/ /\ InHorizon
          /\ \E t \in Deadlines :
               Reserve(k[1], k[2], digest, principal, admit.lease, t)
          /\ rec' = [rec EXCEPT ![k] = Record("Accepted", admit.lease, FALSE, now + LeaseTtl)]
          /\ executions' = [executions EXCEPT ![k[1]] = k[2]]
          /\ task' = [task EXCEPT ![k].pc = "accepted"]
       \/ /\ \/ "store" \in Disturbances \/ ~InHorizon
             \/ ReserveResult(k[1], k[2], digest, principal, admit.lease) # "Created"
          /\ UNCHANGED <<rows, now, rec, executions, task>>
    /\ admit' = None
    /\ UNCHANGED <<pub, mon, ctl, node>>

ExecutePublish(k) ==
    /\ Up /\ task[k].pc = "accepted"
    /\ Publish(k, "task", "Accepted")
    /\ task' = [task EXCEPT ![k].pc = "spawn"]
    /\ UNCHANGED <<executions, admit, mon, ctl>>

ExecuteSpawn(k) ==
    /\ Up /\ task[k].pc = "spawn" /\ ~Publishing(k, "task")
    /\ task' = [task EXCEPT ![k].pc = "start"]
    /\ mon' = [mon EXCEPT ![k].pc = "check"]
    /\ UNCHANGED <<rows, now, executions, admit, rec, pub, ctl, node>>

-----------------------------------------------------------------------------
(* LocalProcessRunner::run as run_execution sees it: the value it returns, *)
(* the chunks on the output channel, and whether a sender is still open.   *)

Results == Exits \cup {"Cancelled"}

Errors == {"CancelledBeforeSpawn", "SetupError", "ReaderError"}

Returned(k) == task[k].runner \in Results \cup Errors

Return(k, value, open) ==
    task' = [task EXCEPT ![k].runner = value, ![k].open = open]

\* Up to the spawn of the process: cancelled, a failed setup, or a process.
RunnerStart(k) ==
    /\ Up /\ task[k].runner = "called"
    /\ \/ rec[k].cancelled /\ Return(k, "CancelledBeforeSpawn", FALSE)
       \/ "setup" \in Disturbances /\ Return(k, "SetupError", FALSE)
       \/ ~rec[k].cancelled /\ Return(k, "process", TRUE)
    /\ UNCHANGED <<rows, now, executions, admit, rec, pub, mon, ctl, node>>

\* A reader task forwards a chunk; a failed stdout reader leaves the stderr
\* reader running after run has returned.
RunnerOutput(k) ==
    /\ Up /\ task[k].open /\ task[k].runner # "called"
    /\ task[k].sent < MaxOutput
    /\ task' = [task EXCEPT ![k].sent = @ + 1, ![k].queued = @ + 1]
    /\ UNCHANGED <<rows, now, executions, admit, rec, pub, mon, ctl, node>>

RunnerReturn(k) ==
    /\ Up /\ task[k].runner = "process"
    /\ \/ \E value \in Exits : Return(k, value, FALSE)
       \/ rec[k].cancelled /\ Return(k, "Cancelled", FALSE)
       \/ "reader" \in Disturbances /\ \E open \in BOOLEAN : Return(k, "ReaderError", open)
    /\ UNCHANGED <<rows, now, executions, admit, rec, pub, mon, ctl, node>>

ReaderEnd(k) ==
    /\ Up /\ Returned(k) /\ task[k].open
    /\ task' = [task EXCEPT ![k].open = FALSE]
    /\ UNCHANGED <<rows, now, executions, admit, rec, pub, mon, ctl, node>>

-----------------------------------------------------------------------------
(* run_execution.                                                          *)

RunStart(k) ==
    /\ Up /\ task[k].pc = "start"
    /\ Publish(k, "task", "Running")
    /\ task' = [task EXCEPT ![k].pc = "launch"]
    /\ UNCHANGED <<executions, admit, mon, ctl>>

RunLaunch(k) ==
    /\ Up /\ task[k].pc = "launch" /\ ~Publishing(k, "task")
    /\ task' = [task EXCEPT ![k].pc = "loop", ![k].runner = "called", ![k].open = TRUE]
    /\ UNCHANGED <<rows, now, executions, admit, rec, pub, mon, ctl, node>>

\* The first arm of the biased select: a chunk is published as Running.
RunReceive(k) ==
    /\ Up /\ task[k].pc = "loop" /\ ~Publishing(k, "task")
    /\ ~task[k].closed /\ task[k].queued > 0
    /\ Publish(k, "task", "Output")
    /\ task' = [task EXCEPT ![k].queued = @ - 1]
    /\ UNCHANGED <<executions, admit, mon, ctl>>

\* The first arm finds the channel closed and empty.  With a result the loop
\* ends; with a runner error no arm of the select is left and it panics.
RunClosed(k) ==
    /\ Up /\ task[k].pc = "loop" /\ ~Publishing(k, "task")
    /\ ~task[k].closed /\ task[k].queued = 0 /\ ~task[k].open
    /\ task' = [task EXCEPT
                  ![k].closed = TRUE,
                  ![k].pc = IF ~task[k].joined THEN "loop"
                            ELSE IF task[k].runner \in Results THEN "decide"
                            ELSE "panicked"]
    /\ UNCHANGED <<rows, now, executions, admit, rec, pub, mon, ctl, node>>

\* The first arm is pending, so the second is polled.
RunPending(k) ==
    /\ Up /\ task[k].pc = "loop" /\ ~Publishing(k, "task") /\ ~task[k].joined
    /\ task[k].closed \/ (task[k].queued = 0 /\ task[k].open)
    /\ task' = [task EXCEPT ![k].pc = "poll"]
    /\ UNCHANGED <<rows, now, executions, admit, rec, pub, mon, ctl, node>>

\* Mutant of RunJoin: what the second arm gets is dropped.
RunJoin_Forgets(k) ==
    /\ Up /\ task[k].pc = "poll"
    /\ task' = [task EXCEPT ![k].pc = "loop"]
    /\ UNCHANGED <<rows, now, executions, admit, rec, pub, mon, ctl, node>>

\* The second arm joins the runner if it has returned; the loop ends if the
\* channel is closed and empty by now.
RunJoin(k) ==
    /\ Up /\ task[k].pc = "poll"
    /\ task' = [task EXCEPT
                  ![k].joined = Returned(k),
                  ![k].pc = IF Returned(k) /\ ~task[k].open /\ task[k].queued = 0
                            THEN "decide" ELSE "loop"]
    /\ UNCHANGED <<rows, now, executions, admit, rec, pub, mon, ctl, node>>

\* Mutant of TerminalState: the expiry of the lease is ignored.
TerminalState_Expired(k) ==
    IF task[k].runner \in Results THEN task[k].runner
    ELSE IF task[k].runner = "CancelledBeforeSpawn" THEN "Cancelled"
    ELSE "Failed"

\* The outcome of a finished runner, and of one that failed.
TerminalState(k) ==
    IF rec[k].expired THEN "Interrupted"
    ELSE IF task[k].runner \in Results THEN task[k].runner
    ELSE IF task[k].runner = "CancelledBeforeSpawn" THEN "Cancelled"
    ELSE "Failed"

\* Outputs are captured and the workspace is released after this step.
RunDecide(k) ==
    /\ Up /\ task[k].pc = "decide" /\ ~LeaseHeld(k)
    /\ task' = [task EXCEPT ![k].pc = "terminal", ![k].runner = TerminalState(k)]
    /\ UNCHANGED <<rows, now, executions, admit, rec, pub, mon, ctl, node>>

RunTerminal(k) ==
    /\ Up /\ task[k].pc = "terminal"
    /\ Publish(k, "task", task[k].runner)
    /\ task' = [task EXCEPT ![k].pc = "finish"]
    /\ UNCHANGED <<executions, admit, mon, ctl>>

RunFinish(k) ==
    /\ Up /\ task[k].pc = "finish" /\ ~Publishing(k, "task")
    /\ rec' = [rec EXCEPT ![k].finished = TRUE]
    /\ task' = [task EXCEPT ![k] = [NoTask EXCEPT !.pc = "done"]]
    /\ UNCHANGED <<rows, now, executions, admit, pub, mon, ctl, node>>

-----------------------------------------------------------------------------
(* monitor_lease: reads the deadline, then waits for it, a renewal or a    *)
(* cancel.  A renewal installed between the two notifies nobody.           *)

MonitorCheck(k) ==
    /\ Up /\ mon[k].pc = "check" /\ ~LeaseHeld(k)
    /\ mon' = [mon EXCEPT ![k] =
                  IF is_terminal(rec[k].snapshot) THEN NoMonitor
                  ELSE [pc |-> "read", deadline |-> rec[k].expires]]
    /\ UNCHANGED <<rows, now, executions, admit, rec, pub, task, ctl, node>>

MonitorWait(k) ==
    /\ Up /\ mon[k].pc = "read"
    /\ mon' = [mon EXCEPT ![k].pc = "wait"]
    /\ UNCHANGED <<rows, now, executions, admit, rec, pub, task, ctl, node>>

Waiting(k) == mon[k].pc \in {"wait", "notified"}

MonitorCancelled(k) ==
    /\ Up /\ Waiting(k) /\ rec[k].cancelled
    /\ mon' = [mon EXCEPT ![k] = NoMonitor]
    /\ UNCHANGED <<rows, now, executions, admit, rec, pub, task, ctl, node>>

MonitorNotified(k) ==
    /\ Up /\ mon[k].pc = "notified"
    /\ mon' = [mon EXCEPT ![k].pc = "check"]
    /\ UNCHANGED <<rows, now, executions, admit, rec, pub, task, ctl, node>>

\* Mutant of MonitorExpire: the monitor leaves when the lease was renewed.
MonitorExpire_Leaves(k) ==
    /\ Up /\ Waiting(k) /\ now >= mon[k].deadline /\ ~LeaseHeld(k)
    /\ rec' = IF now >= rec[k].expires
              THEN [rec EXCEPT ![k].expired = TRUE, ![k].cancelled = TRUE] ELSE rec
    /\ mon' = [mon EXCEPT ![k] = NoMonitor]
    /\ UNCHANGED <<rows, now, executions, admit, pub, task, ctl, node>>

\* The deadline that was read has passed: the one in force decides.
MonitorExpire(k) ==
    /\ Up /\ Waiting(k) /\ now >= mon[k].deadline /\ ~LeaseHeld(k)
    /\ IF now >= rec[k].expires
       THEN /\ rec' = [rec EXCEPT ![k].expired = TRUE, ![k].cancelled = TRUE]
            /\ mon' = [mon EXCEPT ![k] = NoMonitor]
       ELSE /\ mon' = [mon EXCEPT ![k].pc = "check"]
            /\ UNCHANGED rec
    /\ UNCHANGED <<rows, now, executions, admit, pub, task, ctl, node>>

-----------------------------------------------------------------------------
(* control: the row of the requested generation, the latest generation,    *)
(* and then the record the map holds for the identity.                     *)

Answer(c) == ctl' = [ctl EXCEPT ![c] = NoRequest]

ControlLookup(c, k, lease, principal, op) ==
    /\ Listening /\ ctl[c] = NoRequest
    /\ k \in DOMAIN rows
    /\ rows[k].principal = principal /\ rows[k].lease = lease
    /\ ctl' = [ctl EXCEPT ![c].pc = "lookup", ![c].op = op, ![c].key = k]
    /\ UNCHANGED <<rows, now, executions, admit, rec, pub, task, mon, node>>

ControlLatest(c) ==
    /\ Up /\ ctl[c].pc = "lookup"
    /\ IF LatestGeneration(ctl[c].key[1]) = ctl[c].key[2]
       THEN ctl' = [ctl EXCEPT ![c].pc = "latest"]
       ELSE Answer(c)
    /\ UNCHANGED <<rows, now, executions, admit, rec, pub, task, mon, node>>

\* The record is found by identity only; its snapshot is read once.  Cancel of
\* an execution that is already Cancelling only repeats the cancellation.
ControlRecord(c) ==
    /\ Up /\ ctl[c].pc = "latest" /\ admit = None
    /\ LET id == ctl[c].key[1]
           k  == <<id, executions[id]>>
       IN  IF \/ executions[id] = 0
              \/ rec[k].lease # rows[ctl[c].key].lease
              \/ is_terminal(rec[k].snapshot)
           THEN Answer(c) /\ UNCHANGED rec
           ELSE IF ctl[c].op = "cancel" /\ rec[k].snapshot = "Cancelling"
           THEN Answer(c) /\ rec' = [rec EXCEPT ![k].cancelled = TRUE]
           ELSE ctl' = [ctl EXCEPT ![c].pc = ctl[c].op, ![c].target = k] /\ UNCHANGED rec
    /\ UNCHANGED <<rows, now, executions, admit, pub, task, mon, node>>

\* The lease in memory refuses renew and cancel from its deadline on.
LeasePassed(k) == rec[k].expired \/ now >= rec[k].expires

RenewStore(c, renewal) ==
    /\ Up /\ ctl[c].pc = "renew" /\ ~LeaseHeld(ctl[c].target)
    /\ LET k == ctl[c].key
           lease == rows[k].lease
       IN  \/ /\ \/ LeasePassed(ctl[c].target) \/ "store" \in Disturbances \/ ~InHorizon
                 \/ \E t \in Deadlines : UpdateLeaseResult(k, lease, renewal, t) = None
              /\ Answer(c) /\ UNCHANGED <<rows, now>>
           \/ /\ ~LeasePassed(ctl[c].target) /\ InHorizon
              /\ \E t \in Deadlines :
                   LET granted == UpdateLeaseResult(k, lease, renewal, t)
                   IN  /\ granted # None
                       /\ \/ UpdateLease(k, lease, renewal, t)
                          \/ rows[k].renewal = renewal /\ UNCHANGED <<rows, now>>
                       /\ ctl' = [ctl EXCEPT ![c].pc = "install", ![c].deadline = granted]
    /\ UNCHANGED <<executions, admit, rec, pub, task, mon, node>>

\* expires_at becomes the instant the granted deadline is away from now.
RenewInstall(c) ==
    /\ Up /\ ctl[c].pc = "install"
    /\ LET k == ctl[c].target
           remaining == IF ctl[c].deadline > now THEN ctl[c].deadline - now ELSE 0
       IN  /\ rec' = [rec EXCEPT ![k].expires = now + remaining]
           /\ mon' = [mon EXCEPT ![k].pc = IF @ = "wait" THEN "notified" ELSE @]
    /\ Answer(c)
    /\ UNCHANGED <<rows, now, executions, admit, pub, task, node>>

CancelCheck(c) ==
    /\ Up /\ ctl[c].pc = "cancel" /\ ~LeaseHeld(ctl[c].target)
    /\ IF LeasePassed(ctl[c].target) THEN Answer(c)
       ELSE ctl' = [ctl EXCEPT ![c].pc = "publish"]
    /\ UNCHANGED <<rows, now, executions, admit, rec, pub, task, mon, node>>

CancelPublish(c) ==
    /\ Up /\ ctl[c].pc = "publish"
    /\ Publish(ctl[c].target, c, "Cancelling")
    /\ ctl' = [ctl EXCEPT ![c].pc = "token"]
    /\ UNCHANGED <<executions, admit, task, mon>>

CancelToken(c) ==
    /\ Up /\ ctl[c].pc = "token" /\ ~Publishing(ctl[c].target, c)
    /\ rec' = [rec EXCEPT ![ctl[c].target].cancelled =
                  @ \/ ~is_terminal(rec[ctl[c].target].snapshot)]
    /\ Answer(c)
    /\ UNCHANGED <<rows, now, executions, admit, pub, task, mon, node>>

-----------------------------------------------------------------------------
(* shutdown and wait, and the start of the node after it stopped or died.  *)

ShutdownBegin ==
    /\ "shutdown" \in Disturbances /\ node.stage = "serving"
    /\ node' = [node EXCEPT !.stage = "draining", !.draining = TRUE]
    /\ UNCHANGED <<rows, now, executions, admit, rec, pub, task, mon, ctl>>

ShutdownCancel ==
    /\ node.stage = "draining" /\ admit = None
    /\ LET held == {<<id, executions[id]>> : id \in Mapped}
       IN  rec' = [k \in Keys |-> IF k \in held /\ Active(k)
                                  THEN [rec[k] EXCEPT !.cancelled = TRUE] ELSE rec[k]]
    /\ node' = [node EXCEPT !.stage = "cancelled"]
    /\ UNCHANGED <<rows, now, executions, admit, pub, task, mon, ctl>>

\* The telemetry owner has stopped; requests came in until now.
ShutdownClose ==
    /\ node.stage = "cancelled"
    /\ node' = [node EXCEPT !.stage = "closing"]
    /\ UNCHANGED <<rows, now, executions, admit, rec, pub, task, mon, ctl>>

\* Mutant of Wait: a cancelled execution counts as finished.
Wait_Cancelled ==
    /\ node.stage = "closing" /\ admit = None
    /\ \A id \in Mapped : Active(<<id, executions[id]>>) => rec[<<id, executions[id]>>].cancelled
    /\ node' = [node EXCEPT !.stage = "stopped"]
    /\ UNCHANGED <<rows, now, executions, admit, rec, pub, task, mon, ctl>>

Wait ==
    /\ node.stage = "closing" /\ admit = None
    /\ \A id \in Mapped : ~Active(<<id, executions[id]>>)
    /\ node' = [node EXCEPT !.stage = "stopped"]
    /\ UNCHANGED <<rows, now, executions, admit, rec, pub, task, mon, ctl>>

\* What is in memory after NodeServer::start: the newest generation of every
\* identity, terminal since recover ran, under a lease no request matches.
Fresh ==
    /\ executions' = [id \in ExecutionIds |-> LatestGeneration(id)]
    /\ rec' = [k \in Keys |-> IF k \in DOMAIN rows /\ LatestGeneration(k[1]) = k[2]
                              THEN Record(rows'[k].state, None, TRUE, now) ELSE NoRecord]
    /\ admit' = None
    /\ pub' = [k \in Keys |-> None]
    /\ task' = [k \in Keys |-> NoTask]
    /\ mon' = [k \in Keys |-> NoMonitor]
    /\ ctl' = [c \in Controllers |-> NoRequest]

\* The processes a node leaves behind when it dies: kill_on_drop acts only if the
\* runner's future is dropped, and nothing reaps or adopts them later.
LeftBehind == node.orphans \cup {k \in Keys : task[k].runner = "process"}

Start ==
    /\ Recover
    /\ Fresh
    /\ \E survivors \in SUBSET LeftBehind :
         node' = [draining |-> FALSE, stage |-> "serving", orphans |-> survivors]

Restart == node.stage = "stopped" /\ Start

Crash == Up /\ "crash" \in Disturbances /\ Start

\* A process that has outlived its node ends by itself.
OrphanEnds(k) ==
    /\ k \in node.orphans
    /\ node' = [node EXCEPT !.orphans = @ \ {k}]
    /\ UNCHANGED <<rows, now, executions, admit, rec, pub, task, mon, ctl>>

Clock == Tick /\ UNCHANGED <<executions, admit, rec, pub, task, mon, ctl, node>>

-----------------------------------------------------------------------------
NodeInit ==
    /\ Init
    /\ executions = [id \in ExecutionIds |-> 0]
    /\ admit = None
    /\ rec = [k \in Keys |-> NoRecord]
    /\ pub = [k \in Keys |-> None]
    /\ task = [k \in Keys |-> NoTask]
    /\ mon = [k \in Keys |-> NoMonitor]
    /\ ctl = [c \in Controllers |-> NoRequest]
    /\ node = [draining |-> FALSE, stage |-> "serving", orphans |-> {}]

ExecuteNext ==
    \/ \E k \in Keys, lease \in Leases : ExecuteAdmit(k, lease)
    \/ \E d \in Digests, p \in Principals : ExecuteReserve(d, p)
    \/ \E k \in Keys : ExecutePublish(k) \/ ExecuteSpawn(k)

RunnerNext(k) == RunnerStart(k) \/ RunnerOutput(k) \/ RunnerReturn(k) \/ ReaderEnd(k)

RunNext(k) ==
    \/ RunStart(k) \/ RunLaunch(k) \/ RunReceive(k) \/ RunClosed(k) \/ RunPending(k)
    \/ RunJoin(k) \/ RunDecide(k) \/ RunTerminal(k) \/ RunFinish(k)

MonitorNext(k) ==
    \/ MonitorCheck(k) \/ MonitorWait(k)
    \/ MonitorCancelled(k) \/ MonitorNotified(k) \/ MonitorExpire(k)

ControlStep(c) ==
    \/ ControlLatest(c) \/ ControlRecord(c)
    \/ \E r \in RenewalIds : RenewStore(c, r)
    \/ RenewInstall(c) \/ CancelCheck(c) \/ CancelPublish(c) \/ CancelToken(c)

ControlNext(c) ==
    \/ \E k \in Keys, lease \in Leases, p \in Principals, op \in Operations :
          ControlLookup(c, k, lease, p, op)
    \/ ControlStep(c)

NodeNext ==
    \/ ExecuteNext
    \/ \E k \in Keys :
          Install(k) \/ RunnerNext(k) \/ RunNext(k) \/ MonitorNext(k) \/ OrphanEnds(k)
    \/ \E c \in Controllers : ControlNext(c)
    \/ ShutdownBegin \/ ShutdownCancel \/ ShutdownClose \/ Wait \/ Restart \/ Crash
    \/ Clock

NodeSpec == NodeInit /\ [][NodeNext]_nodeVars

\* The scheduler runs every task and handler that can run, a setup ends, and a
\* runner whose token is cancelled returns.  A process nobody cancels may run for
\* ever, and no request or shutdown need ever arrive.  The steps named together are
\* those of one task, of which one at a time is enabled.
TaskFairness ==
    /\ WF_nodeVars(\E d \in Digests, p \in Principals : ExecuteReserve(d, p))
    /\ \A k \in Keys :
         /\ WF_nodeVars(Install(k))
         /\ WF_nodeVars(ExecutePublish(k) \/ ExecuteSpawn(k) \/ RunNext(k))
         /\ WF_nodeVars(MonitorNext(k))
         /\ WF_nodeVars(\/ RunnerStart(k) \/ (rec[k].cancelled /\ RunnerReturn(k))
                        \/ ReaderEnd(k))
    /\ \A c \in Controllers : WF_nodeVars(ControlStep(c))
    /\ WF_nodeVars(ShutdownCancel \/ ShutdownClose \/ Wait)

\* The clock advances as well.
FairNodeSpec == NodeSpec /\ WF_nodeVars(Clock) /\ TaskFairness

-----------------------------------------------------------------------------
(* Properties.                                                             *)

States == LiveStates \cup TerminalStates

\* The variables of the node keep their types.
NodeTypeOK ==
    /\ TypeOK
    /\ executions \in [ExecutionIds -> 0..MaxGeneration]
    /\ admit \in [key : Keys, lease : Leases] \cup {None}
    /\ rec \in [Keys -> [snapshot : States \cup {"None"}, lease : Leases \cup {None},
                         cancelled : BOOLEAN, finished : BOOLEAN,
                         expires : Nat, expired : BOOLEAN]]
    /\ pub \in [Keys -> [by : Controllers \cup {"task"}, state : States] \cup {None}]
    /\ task \in [Keys ->
         [pc : {"none", "accepted", "spawn", "start", "launch", "loop", "poll",
                "decide", "terminal", "finish", "done", "panicked"},
          runner : {"none", "called", "process"} \cup TerminalStates \cup Errors,
          open : BOOLEAN, queued : 0..MaxOutput, sent : 0..MaxOutput,
          joined : BOOLEAN, closed : BOOLEAN]]
    /\ mon \in [Keys -> [pc : {"none", "check", "read", "wait", "notified"}, deadline : Nat]]
    /\ ctl \in [Controllers ->
         [pc : {"idle", "lookup", "latest", "renew", "install", "cancel", "publish", "token"},
          op : {"none", "renew", "cancel"}, key : Keys \cup {None},
          target : Keys \cup {None}, deadline : Nat]]
    /\ node \in [draining : BOOLEAN,
                 stage : {"serving", "draining", "cancelled", "closing", "stopped"},
                 orphans : SUBSET Keys]

\* No reader is told a state that is not durable: the snapshot of a record is
\* the state of its row, or is behind it by the one publication whose commit_lock
\* is held; no failed write, crash or race of publishers separates them.
SnapshotDurable ==
    \A k \in Keys : rec[k].snapshot # "None" =>
        /\ k \in DOMAIN rows
        /\ IF pub[k] = None THEN rec[k].snapshot = rows[k].state
           ELSE pub[k].state = rows[k].state /\ ~is_terminal(rec[k].snapshot)

\* A run of the node never runs two generations of an identity at the same time,
\* even while the older run_execution still installs its outcome (reserve is only
\* granted after a terminal commit, which follows the return of the runner).  What
\* may run beside a newer generation is a process that outlived an earlier run of
\* the node, and no outcome is claimed for it: its execution is Interrupted
\* (recover).
RunnersDisjoint ==
    /\ \A j, k \in Keys :
         (j[1] = k[1] /\ j[2] < k[2] /\ task[k].pc # "none")
             => task[j].runner \notin {"called", "process"}
    /\ \A j \in node.orphans : j \in DOMAIN rows /\ rows[j].state = "Interrupted"

\* An execution admitted while shutdown begins is either refused or cancelled:
\* once shutdown has gone through the map, and while requests still come in, no
\* execution is on its way to its outcome without its token cancelled (draining
\* is set before the lock of the map is taken, and execute reads it under that
\* lock).
ShutdownReachesAll ==
    node.stage \in {"cancelled", "closing", "stopped"} =>
        \A k \in Keys :
            task[k].pc \in {"accepted", "spawn", "start", "launch", "loop", "poll"}
                => rec[k].cancelled

\* When wait returns no runner of this node is left, although wait only looks at the newest
\* record of every identity and trusts its finished flag and snapshot.
StoppedIsQuiet ==
    node.stage = "stopped" =>
        \A k \in Keys : task[k].runner \notin {"called", "process"} /\ admit = None

\* A renewal never moves the deadline of another generation than its own: it may
\* hold the record of a newer generation under the same lease, but the store
\* has refused it by then (control, update_lease).
RenewalFenced ==
    \A c \in Controllers : ctl[c].pc = "install" => ctl[c].target = ctl[c].key

\* A renewal the store has granted is never cut short: monitor_lease declares a
\* lease expired only when the durable deadline has passed as well, however its
\* wake-up, the renewal and the clock interleave.
NoEarlyExpiry ==
    [][\A k \in Keys :
          ~rec[k].expired /\ rec'[k].expired => now >= rows[k].expires]_nodeVars

\* Every step of the node is one operation of the store or leaves it alone, so
\* what the store promises holds of the running node.  This is Spec; the steps
\* that leave the table alone come first because most do.
ImplementsStore == Init /\ [][UNCHANGED vars \/ Next]_vars

\* While the store can be written, every accepted execution gets its durable
\* outcome: the process ends, or its lease does and the monitor cancels it, however
\* often it is renewed, cancelled or interrupted by a crash, and also when the
\* runner fails.  The one exception is the task that panics when its runner fails
\* with a reader still open (RunnerErrorEnds).
AcceptedEnds ==
    \A k \in Keys :
        (k \in DOMAIN rows)
            ~> \/ k \in DOMAIN rows /\ is_terminal(rows[k].state)
               \/ task[k].pc = "panicked"

\* wait returns after a shutdown, even when the outcome of an execution cannot be
\* written.
ShutdownEnds == (node.stage = "draining") ~> (node.stage = "stopped")

\* An execution whose lease expires before run_execution reads the expired flag is
\* interrupted, also when its process has ended by then: the outcome of the process
\* is not claimed (monitor_lease).  The exception is that of AcceptedEnds.
ExpiryInterrupts ==
    \A k \in Keys :
        (rec[k].expired /\ task[k].pc \in {"start", "launch", "loop", "poll", "decide"})
            ~> \/ k \in DOMAIN rows /\ rows[k].state = "Interrupted"
               \/ task[k].pc = "panicked"

-----------------------------------------------------------------------------
(* Statements of the documentation that the code does not keep.            *)

\* A stale controller cannot cancel a newer generation: what a cancel publishes
\* on a record is of the generation that it named (control).
CancelFenced ==
    \A k \in Keys :
        pub[k] # None /\ pub[k].by \in Controllers => ctl[pub[k].by].key = k

\* Every error of the runner is mapped to a terminal state (run_execution).
RunnerErrorEnds ==
    \A k \in Keys :
        (task[k].runner \in Errors)
            ~> (k \in DOMAIN rows /\ is_terminal(rows[k].state))
=============================================================================

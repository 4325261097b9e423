-------------------------------- MODULE Deployment ------------------------------
(***************************************************************************)
(* The operator's side of a node: the persistent drain marker, the lock on *)
(* the state directory, offline garbage collection and an update of the    *)
(* installed release (eggwork-server/src/operations.rs, deployment.rs and  *)
(* bin/eggworkd.rs), against the admission of executions by the daemon     *)
(* (lib.rs).  Each eggworkd command is a process of its own, and only the  *)
(* marker, the lock and the database connect it with the daemon.           *)
(*                                                                         *)
(* What an execution does once it is admitted is in ExecutionNode; here it *)
(* has a row that counts as active until it ends or a daemon recovers it.  *)
(* The daemon is up as long as its NodeServer is there, which owns the     *)
(* lock.  An interrupted daemon drops it while the handlers and executions *)
(* of the process go on until the runtime is gone, so they may meet gc and *)
(* the next daemon.                                                        *)
(***************************************************************************)
EXTENDS Integers

CONSTANTS
    Handlers,       \* execute requests, one handler each
    MaxStarts       \* bound on the starts of the daemon

ASSUME StartsAssumption == MaxStarts \in Nat

VARIABLES
    marker,         \* the drain file is there
    daemon,         \* the server last started: up, its draining flag and what has set it
    starts,
    lock,           \* who holds the lock file: nobody, the daemon or gc
    handler,        \* handler[h]: where execute is
    startOf,        \* startOf[h]: the start of the process that handles h
    active,         \* the executions with a row that is not terminal
    update,         \* deployment apply
    installed,      \* the release of each installed member
    late            \* history: rows reserved since the marker was set

deploymentVars ==
    <<marker, daemon, starts, lock, handler, startOf, active, update, installed, late>>

----------------------------------------------------------------------------
Members == {"daemon", "helper"}
Releases == {"old", "new"}
Steps == {"idle", "planned", "marked", "quiet", "stopped", "committed", "restore", "done", "failed"}

\* The variables keep their types, and the daemon holds the lock as long as its NodeServer
\* is there (acquire_state_lock).
DeploymentTypeOK ==
    /\ marker \in BOOLEAN
    /\ daemon \in [up : BOOLEAN, draining : {"no", "marker", "stop", "store"}]
    /\ starts \in 0..MaxStarts
    /\ lock \in {"nobody", "daemon", "gc"}
    /\ handler \in [Handlers -> {"new", "checked", "held", "running", "over"}]
    /\ startOf \in [Handlers -> 0..starts]
    /\ active \subseteq Handlers /\ late \subseteq Handlers
    /\ update \in [step : Steps, force : BOOLEAN, marked : BOOLEAN, told : BOOLEAN,
                  wasUp : BOOLEAN]
    /\ installed \in [Members -> Releases]
    /\ lock = "daemon" <=> daemon.up

DeploymentInit ==
    /\ marker \in BOOLEAN
    /\ daemon = [up |-> FALSE, draining |-> "no"] /\ starts = 0
    /\ lock = "nobody"
    /\ handler = [h \in Handlers |-> "new"] /\ startOf = [h \in Handlers |-> 0]
    /\ active = {} /\ late = {}
    /\ \E force \in BOOLEAN :
          update = [step |-> "idle", force |-> force, marked |-> FALSE, told |-> FALSE,
                    wasUp |-> FALSE]
    /\ installed = [m \in Members |-> "old"]

----------------------------------------------------------------------------
(* The daemon.                                                               *)

\* NodeServer::start: the lock, recovery of the rows, the flag from the marker.
Launch ==
    /\ ~daemon.up /\ lock = "nobody" /\ starts < MaxStarts
    /\ daemon' = [up |-> TRUE, draining |-> IF marker THEN "marker" ELSE "no"]
    /\ lock' = "daemon" /\ starts' = starts + 1
    /\ active' = {}

StartDaemon ==
    /\ Launch
    /\ UNCHANGED <<marker, handler, startOf, update, installed, late>>

\* A request was taken by the server that is up.
Current(h) == daemon.up /\ startOf[h] = starts

\* The tasks of a process end with it: rows stay as they are.
Ended(start) ==
    [h \in Handlers |-> IF startOf[h] = start /\ handler[h] # "new" THEN "over" ELSE handler[h]]

\* The process of the last start is killed, with all its tasks.
Dies ==
    /\ daemon' = [up |-> FALSE, draining |-> "no"]
    /\ lock' = IF lock = "daemon" THEN "nobody" ELSE lock
    /\ handler' = Ended(starts)

DaemonEnds ==
    /\ daemon.up /\ Dies
    /\ UNCHANGED <<marker, starts, startOf, active, update, installed, late>>

\* Nobody holds the lock of the executions in the process of a start.
MapLockFree(start) == \A h \in Handlers : startOf[h] = start => handler[h] # "held"

\* run: an interrupt.  shutdown sets the flag first.
Interrupt ==
    /\ daemon.up /\ daemon' = [daemon EXCEPT !.draining = "stop"]
    /\ UNCHANGED <<marker, starts, lock, handler, startOf, active, update, installed, late>>

\* Mutant of ServerDropped: shutdown does not take the lock of the executions.
ServerDropped_Unwaited ==
    /\ daemon.up /\ daemon.draining = "stop"
    /\ daemon' = [daemon EXCEPT !.up = FALSE] /\ lock' = "nobody"
    /\ UNCHANGED <<marker, starts, handler, startOf, active, update, installed, late>>

\* shutdown goes on once it has had the lock of the executions, run returns, and the
\* NodeServer is dropped, the state lock with it.  The tasks of the process are not.
ServerDropped ==
    /\ daemon.up /\ daemon.draining = "stop" /\ MapLockFree(starts)
    /\ daemon' = [daemon EXCEPT !.up = FALSE] /\ lock' = "nobody"
    /\ UNCHANGED <<marker, starts, handler, startOf, active, update, installed, late>>

\* The runtime of a process without a server is gone, and its tasks with it.
ProcessEnds ==
    /\ \E start \in 1..starts :
          /\ ~(daemon.up /\ start = starts)
          /\ handler' = Ended(start)
    /\ UNCHANGED <<marker, daemon, starts, lock, startOf, active, update, installed, late>>

----------------------------------------------------------------------------
(* execute.                                                                  *)

\* The flag of the process that handles h, which an interrupt has set before its server
\* was dropped, or the marker.
Draining(h) == ~Current(h) \/ daemon.draining # "no" \/ marker

\* The check before the request is looked at.
CheckDrain(h) ==
    /\ daemon.up /\ handler[h] = "new"
    /\ startOf' = [startOf EXCEPT ![h] = starts]
    /\ handler' = [handler EXCEPT
                    ![h] = IF daemon.draining # "no" \/ marker THEN "over" ELSE "checked"]
    /\ UNCHANGED <<marker, daemon, starts, lock, active, update, installed, late>>

\* Mutant of Admit: the second check is dropped.
Admit_Once(h) ==
    /\ handler[h] = "checked" /\ MapLockFree(startOf[h])
    /\ handler' = [handler EXCEPT ![h] = "held"]
    /\ UNCHANGED <<marker, daemon, starts, lock, startOf, active, update, installed, late>>

\* The check that counts, under the lock of the executions, which is then kept.
Admit(h) ==
    /\ handler[h] = "checked" /\ MapLockFree(startOf[h])
    /\ handler' = [handler EXCEPT ![h] = IF Draining(h) THEN "over" ELSE "held"]
    /\ UNCHANGED <<marker, daemon, starts, lock, startOf, active, update, installed, late>>

\* The row is reserved and the lock given back, or the execution is refused.
ReserveRow(h) ==
    /\ handler[h] = "held"
    /\ \/ /\ handler' = [handler EXCEPT ![h] = "running"]
          /\ active' = active \union {h}
          /\ late' = IF marker THEN late \union {h} ELSE late
       \/ /\ handler' = [handler EXCEPT ![h] = "over"]
          /\ UNCHANGED <<active, late>>
    /\ UNCHANGED <<marker, daemon, starts, lock, startOf, update, installed>>

\* The execution ends.  When its end cannot be stored, as when the next daemon has
\* recovered its row, the row stays as it is and the process drains (publish).
Finish(h) ==
    /\ handler[h] = "running"
    /\ handler' = [handler EXCEPT ![h] = "over"]
    /\ \/ active' = active \ {h} /\ UNCHANGED daemon
       \/ /\ daemon' = IF Current(h) /\ daemon.draining # "stop"
                        THEN [daemon EXCEPT !.draining = "store"] ELSE daemon
          /\ UNCHANGED active
    /\ UNCHANGED <<marker, starts, lock, startOf, update, installed, late>>

----------------------------------------------------------------------------
(* Commands of the operator.                                                 *)

\* drain and undrain: set_persistent_drain, and nothing else.
SetDrain ==
    /\ marker' = ~marker /\ late' = {}
    /\ UNCHANGED <<daemon, starts, lock, handler, startOf, active, update, installed>>

\* collect_garbage --apply, under acquire_maintenance_lock.
StartGc ==
    /\ lock = "nobody" /\ lock' = "gc"
    /\ UNCHANGED <<marker, daemon, starts, handler, startOf, active, update, installed, late>>

EndGc ==
    /\ lock = "gc" /\ lock' = "nobody"
    /\ UNCHANGED <<marker, daemon, starts, handler, startOf, active, update, installed, late>>

----------------------------------------------------------------------------
(* deployment apply, by orchestrate_update_with_lifecycle_budgeted.          *)

UpdateStep(from, to) == update.step = from /\ update' = [update EXCEPT !.step = to]

\* note_drain_remains.
Told(from) ==
    update.step = from /\ update' = [update EXCEPT !.step = "failed", !.told = TRUE]

NodeSame == UNCHANGED <<daemon, starts, lock, handler, startOf, active, installed, late>>

\* The candidates are validated and staged before anything is changed.
Plan ==
    /\ \/ UpdateStep("idle", "planned")
       \/ UpdateStep("idle", "failed")
    /\ UNCHANGED marker /\ NodeSame

\* The marker.  The directory may fail to sync after the file has its name.
Mark ==
    /\ \/ /\ update.step = "planned" /\ marker' = TRUE
          /\ update' = [update EXCEPT !.step = "marked", !.marked = TRUE]
       \/ UpdateStep("planned", "failed") /\ marker' \in {marker, TRUE}
    /\ late' = IF marker THEN late ELSE {}
    /\ UNCHANGED <<daemon, starts, lock, handler, startOf, active, installed>>

\* wait_for_quiescence, by active_execution_count.
Quiesce ==
    /\ \/ (update.force \/ active = {}) /\ UpdateStep("marked", "quiet")
       \/ ~update.force /\ active # {} /\ Told("marked")
    /\ UNCHANGED marker /\ NodeSame

\* commit_with_lifecycle stops an owned service.  A foreign or unknown one is refused.
StopService ==
    /\ \/ /\ update.step = "quiet"
          /\ update' = [update EXCEPT !.step = "stopped", !.wasUp = daemon.up]
          /\ Dies
       \/ Told("quiet") /\ UNCHANGED <<daemon, lock, handler>>
    /\ UNCHANGED <<marker, starts, startOf, active, installed, late>>

\* Every member is replaced, or none is.
CommitRelease ==
    /\ \/ UpdateStep("stopped", "committed") /\ installed' = [m \in Members |-> "new"]
       \/ Told("stopped") /\ UNCHANGED installed
    /\ UNCHANGED <<marker, daemon, starts, lock, handler, startOf, active, late>>

\* The post-install check of daemon and helper; a failure rolls both back.
HealthCheck ==
    /\ UpdateStep("committed", "restore")
    /\ installed' \in {installed, [m \in Members |-> "old"]}
    /\ UNCHANGED <<marker, daemon, starts, lock, handler, startOf, active, late>>

\* RestoreIntent::Preserve: a service that was up is started again, with a receipt.  It
\* may fail to start, or to be in time.
Restore ==
    /\ \/ UpdateStep("restore", "done")
          /\ IF update.wasUp /\ ~daemon.up THEN Launch
             ELSE UNCHANGED <<daemon, starts, lock, active>>
       \/ Told("restore") /\ UNCHANGED <<daemon, starts, lock, active>>
    /\ UNCHANGED <<marker, handler, startOf, installed, late>>

----------------------------------------------------------------------------
DeploymentNext ==
    \/ StartDaemon \/ DaemonEnds \/ Interrupt \/ ServerDropped \/ ProcessEnds
    \/ \E h \in Handlers : CheckDrain(h) \/ Admit(h) \/ ReserveRow(h) \/ Finish(h)
    \/ SetDrain \/ StartGc \/ EndGc
    \/ Plan \/ Mark \/ Quiesce \/ StopService \/ CommitRelease \/ HealthCheck \/ Restore

DeploymentSpec == DeploymentInit /\ [][DeploymentNext]_deploymentVars

----------------------------------------------------------------------------
\* While gc deletes, no daemon has its server and no handler is between its last check and
\* its row: the handlers that outlive the server of an interrupted daemon, and with it the
\* lock on the state directory, can only be refused (shutdown, execute, acquire_state_lock,
\* acquire_maintenance_lock).  Executions accepted earlier may still be ending.
NothingAdmittedBesideGc ==
    lock = "gc" => ~daemon.up /\ \A h \in Handlers : handler[h] # "held"

\* From the time the marker is set, by an update or by the operator, to the time it is
\* cleared at most one execution still gets a row, the one that was between its check and
\* the row, on whatever release and however often the daemon is started (execute).
OneLateExecution == \A g, h \in late : g = h

\* An update that fails after the marker was set says that the node is left draining
\* (note_drain_remains).
FailureTold ==
    update.step = "failed" /\ update.marked => update.told

\* "Inspect the receipt, then `eggworkd undrain`": a node that is up and healthy admits
\* executions once the marker is gone.
UndrainTakesEffect == daemon.up /\ ~marker => daemon.draining # "marker"
=================================================================================

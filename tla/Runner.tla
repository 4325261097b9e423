--------------------------------- MODULE Runner ---------------------------------
(***************************************************************************)
(* LocalProcessRunner::run (eggwork-runner/src/lib.rs) with the process    *)
(* tree it owns (process_tree.rs, the Unix backend) and the sandbox helper *)
(* it may start instead of the target (eggwork-sandbox-helper/src/main.rs) *)
(* on Linux.                                                               *)
(*                                                                         *)
(* A process is <<k, role>>: k numbers the calls of spawn_platform, since  *)
(* a best-effort request whose helper fails is started a second time.  The *)
(* leader of a tree is the helper or the target itself.  The helper speaks *)
(* three bytes on a socket: how its set-up ended, whether the target was   *)
(* started and what its counters say afterwards.  It never waits for the   *)
(* runner to read them.                                                    *)
(*                                                                         *)
(* Timers may fire at any time.  One unit of output is one read of a       *)
(* reader; the bytes themselves are in OutputCapture.                      *)
(***************************************************************************)
EXTENDS Integers

CONSTANTS
    Requests,       \* what is asked for, see RequestType
    Streams,        \* stdout and stderr
    CaptureLimit,   \* capture_limit, per stream
    Channel,        \* capacity of the output channel
    None,
    Faults          \* "setup", a probe, a check or the helper fails; "slow", a timeout of
                    \* the handshake runs out; "signal", killpg fails; "stuck", the
                    \* leader is not reaped within the grace

\* A child of the target, one that has closed the pipes, one that has left the group.
Descendants == {"child", "quiet", "escaped"}

RequestType ==
    [backend   : {"trusted", "none"},               \* TrustedLandlockSetup, NoExecutionSetup
     sandbox   : {"none", "best", "required"},
     profile   : BOOLEAN,                           \* it names workspace_rw
     resources : {"none", "best", "required"},
     env       : SUBSET {"plain", "baseline", "denied"},
     overflow  : {"truncate", "terminate"},
     stdin     : BOOLEAN,
     output    : Nat,                               \* most it writes to a stream
     forks     : SUBSET Descendants]

ASSUME RunnerAssumption ==
    /\ Requests \subseteq RequestType
    /\ CaptureLimit \in Nat /\ Channel \in Nat
    /\ Faults \subseteq {"setup", "slow", "signal", "stuck"}
    /\ None \notin {"zero", "nonzero", "signal", "ok", "refuse", "reject", "failed", "direct",
                    "Exited", "TimedOut", "Cancelled", "OutputLimit", "Ok",
                    "CancelledBeforeSpawn", "InvalidRequest", "Setup",
                    "RequiredSetupUnavailable", "Spawn"}

VARIABLES
    request,
    pc,             \* where run is
    setup,          \* the SetupOutcome it will report
    tree,           \* the last tree spawned, 0 before
    alive,          \* the processes that exist
    helper,         \* where the helper of tree 1 is
    enforced,       \* what the helper enforces on itself and its children
    wire,           \* the bytes the helper has sent
    link,           \* the status socket
    runs,           \* history: how each target was started
    left,           \* history: the status the target of a tree ended with
    leaderStatus,   \* the status of the leader of the last tree, once it ended
    unit,           \* the last tree runs in a systemd scope
    cancelled, elapsed,
    io,             \* io[s]: what was written, is in the pipe, was captured and dropped
    reader,         \* reader[s]
    queue,          \* chunks in the output channel
    overflow,       \* the watch the readers share
    stdin,          \* the task that writes stdin
    result          \* what run has found out, and what it returns

vars == <<request, pc, setup, tree, alive, helper, enforced, wire, link, runs, left,
          leaderStatus, unit, cancelled, elapsed, io, reader, queue, overflow, stdin, result>>

----------------------------------------------------------------------------
Trees == 1..2
Roles == {"leader", "target"} \union Descendants
Statuses == {"zero", "nonzero", "signal"}
Outcomes == {"not_requested", "not_applied", "applied"}
Terminations == {"Exited", "TimedOut", "Cancelled", "OutputLimit"}
Errors == {"CancelledBeforeSpawn", "InvalidRequest", "Setup", "RequiredSetupUnavailable",
           "Spawn"}

\* The state of a run keeps its type; the output channel stays within its capacity
\* (spawn_reader).
RunnerTypeOK ==
    /\ request \in Requests
    /\ pc \in {"start", "prepare", "channel", "helper", "direct", "accept", "status", "second",
               "give_up", "abandon", "wait", "resource", "unit", "term", "kill", "reap", "stdin", "join",
               "done"}
    /\ setup \in [sandbox : Outcomes, resources : Outcomes]
    /\ tree \in 0..2 /\ alive \subseteq Trees \X Roles
    /\ helper \in {"none", "connect", "set_up", "spawn", "report", "wait", "over"}
    /\ enforced \in [sandbox : BOOLEAN, limits : BOOLEAN]
    /\ wire \in [setup : {None, "ok", "refuse", "reject"}, target : {None, "ok", "failed"},
                 post : {None} \union SUBSET {"exceeded", "unobserved"}]
    /\ link \in {"none", "open", "closed"}
    /\ runs \subseteq [tree : Trees, sandboxed : BOOLEAN, limited : BOOLEAN]
    /\ left \in [Trees -> Statuses \union {None}]
    /\ leaderStatus \in Statuses \union {None}
    /\ {unit, cancelled, elapsed, overflow} \subseteq BOOLEAN
    /\ io \in [Streams -> [written : Nat, pipe : Nat, captured : Nat, dropped : Nat]]
    /\ reader \in [Streams -> {"off", "reading", "eof"}]
    /\ queue \in 0..Channel
    /\ stdin \in {"off", "writing", "done"}
    /\ result \in [termination : Terminations \union {None}, status : Statuses \union {None},
                   exceeded : BOOLEAN, signalError : BOOLEAN,
                   then : {None, "direct"} \union Errors,
                   outcome : {None, "Ok"} \union Errors]

\* Pipes nobody has written to.
FreshPipes == [s \in Streams |-> [written |-> 0, pipe |-> 0, captured |-> 0, dropped |-> 0]]

Init ==
    /\ request \in Requests
    /\ pc = "start"
    /\ setup = [sandbox |-> "not_requested", resources |-> "not_requested"]
    /\ tree = 0 /\ alive = {}
    /\ helper = "none" /\ link = "none"
    /\ enforced = [sandbox |-> FALSE, limits |-> FALSE]
    /\ wire = [setup |-> None, target |-> None, post |-> None]
    /\ runs = {} /\ left = [k \in Trees |-> None] /\ leaderStatus = None
    /\ unit = FALSE /\ cancelled = FALSE /\ elapsed = FALSE
    /\ io = FreshPipes
    /\ reader = [s \in Streams |-> "off"]
    /\ queue = 0 /\ overflow = FALSE /\ stdin = "off"
    /\ result = [termination |-> None, status |-> None, exceeded |-> FALSE,
                 signalError |-> FALSE, then |-> None, outcome |-> None]

----------------------------------------------------------------------------
Leader(k) == <<k, "leader">>
Group(k) == {k} \X (Roles \ {"escaped"})
Whole(k) == {k} \X Roles
Holders(k) == {k} \X (Roles \ {"quiet"})
Helped(k) == k = 1 /\ helper # "none"
Target(k) == IF Helped(k) THEN <<k, "target">> ELSE Leader(k)

Fail(error) == pc' = "done" /\ result' = [result EXCEPT !.outcome = error]

\* What an action of one of the parts below leaves alone.
TreeSame == UNCHANGED <<tree, alive, runs, left, leaderStatus, unit>>
HelperSame == UNCHANGED <<helper, enforced, wire, link>>
OutputSame == UNCHANGED <<io, reader, queue, overflow, stdin>>
ClockSame == UNCHANGED <<request, cancelled, elapsed>>

----------------------------------------------------------------------------
(* Before anything is started.                                               *)

\* Nothing that is asked for is required, so that the run may go on without it.
Degradable == request.sandbox # "required" /\ request.resources # "required"

\* The outcomes reported once the helper is given up.
Degraded ==
    [sandbox |-> IF request.sandbox = "none" THEN setup.sandbox ELSE "not_applied",
     resources |-> IF setup.resources = "applied" THEN "not_applied" ELSE setup.resources]

\* validate accepts the request or not; a cancelled one is not looked at.
Start ==
    /\ pc = "start"
    /\ \/ cancelled /\ Fail("CancelledBeforeSpawn")
       \/ ~cancelled /\ pc' = "prepare" /\ UNCHANGED result
       \/ ~cancelled /\ Fail("InvalidRequest")
    /\ UNCHANGED setup
    /\ TreeSame /\ HelperSame /\ OutputSame /\ ClockSame

\* NoExecutionSetup::prepare.
PrepareNone ==
    /\ pc = "prepare" /\ request.backend = "none"
    /\ \/ /\ ~Degradable
          /\ Fail("RequiredSetupUnavailable") /\ UNCHANGED setup
       \/ /\ Degradable
          /\ setup' = [sandbox |-> IF request.sandbox = "none" THEN "not_requested"
                                   ELSE "not_applied",
                       resources |-> IF request.resources = "none" THEN "not_requested"
                                     ELSE "not_applied"]
          /\ pc' = "channel" /\ UNCHANGED result
    /\ TreeSame /\ HelperSame /\ OutputSame /\ ClockSame

Works == IF "setup" \in Faults THEN BOOLEAN ELSE {TRUE}

\* TrustedLandlockSetup::prepare: a probe of systemd and a check of the helper for the
\* resources, then the profile and another check of the helper for the sandbox.
PrepareTrusted ==
    /\ pc = "prepare" /\ request.backend = "trusted"
    /\ \E probed \in Works, trusted \in Works :
          LET outcome(level, works) ==
                  IF level = "none" THEN "not_requested"
                  ELSE IF works THEN "applied" ELSE "not_applied"
              resources == outcome(request.resources, probed)
              sandbox == outcome(request.sandbox, request.profile /\ trusted)
          IN \/ /\ \/ request.resources = "required" /\ resources # "applied"
                   \/ request.sandbox = "required" /\ sandbox # "applied"
                /\ Fail("Setup") /\ UNCHANGED setup
             \/ /\ request.resources = "required" => resources = "applied"
                /\ request.sandbox = "required" => sandbox = "applied"
                /\ setup' = [sandbox |-> sandbox, resources |-> resources]
                /\ pc' = "channel" /\ UNCHANGED result
    /\ TreeSame /\ HelperSame /\ OutputSame /\ ClockSame

UseHelper == setup.sandbox = "applied" \/ setup.resources = "applied"

\* SandboxChannel::new refuses a profile it does not know, and may fail.
OpenChannel ==
    /\ pc = "channel"
    /\ \/ ~UseHelper /\ pc' = "direct" /\ UNCHANGED <<setup, result>>
       \/ /\ UseHelper /\ (request.sandbox = "none" \/ request.profile)
          /\ pc' = "helper" /\ UNCHANGED <<setup, result>>
       \/ /\ UseHelper /\ Degradable
          /\ "setup" \in Faults \/ (request.sandbox # "none" /\ ~request.profile)
          /\ setup' = Degraded /\ pc' = "direct" /\ UNCHANGED result
       \/ /\ UseHelper /\ ~Degradable
          /\ "setup" \in Faults \/ (request.sandbox # "none" /\ ~request.profile)
          /\ Fail("Setup") /\ UNCHANGED setup
    /\ TreeSame /\ HelperSame /\ OutputSame /\ ClockSame

\* The command is run in a scope with the limits, named for later.
wrap_resource_command == setup.resources = "applied"

\* wrap_resource_command and spawn_platform; either may fail.
SpawnFailed ==
    /\ pc \in {"helper", "direct"} /\ "setup" \in Faults
    /\ Fail("Spawn")
    /\ UNCHANGED setup
    /\ TreeSame /\ HelperSame /\ OutputSame /\ ClockSame

SpawnHelper ==
    /\ pc = "helper" /\ pc' = "accept"
    /\ tree' = tree + 1 /\ alive' = alive \union {Leader(tree + 1)}
    /\ unit' = wrap_resource_command
    /\ helper' = "connect"
    /\ UNCHANGED <<setup, enforced, wire, link, runs, left, leaderStatus, result>>
    /\ OutputSame /\ ClockSame

\* The readers and the stdin task, as soon as the tree that counts is there.
Attached ==
    /\ reader' = [s \in Streams |-> "reading"]
    /\ stdin' = IF request.stdin THEN "writing" ELSE "done"
    /\ UNCHANGED <<queue, overflow>>

\* A second tree has pipes of its own: what the first one wrote is not read.
SpawnDirect ==
    /\ pc = "direct" /\ pc' = "wait"
    /\ tree' = tree + 1 /\ alive' = alive \union {Leader(tree + 1)}
    /\ unit' = wrap_resource_command
    /\ runs' = runs \union {[tree |-> tree + 1, sandboxed |-> FALSE, limited |-> unit']}
    /\ leaderStatus' = None
    /\ Attached /\ io' = FreshPipes
    /\ UNCHANGED <<setup, left, result>>
    /\ HelperSame /\ ClockSame

----------------------------------------------------------------------------
(* The helper, which is the leader of tree 1.                                *)

HelperAt(where) == helper = where /\ Leader(1) \in alive

\* The process of the helper ends; 125 is an exit status like any other.
HelperOver(status) ==
    /\ helper' = "over"
    /\ alive' = alive \ {Leader(1)}
    /\ leaderStatus' = IF tree = 1 THEN status ELSE leaderStatus

HelperRest == /\ UNCHANGED <<request, pc, setup, tree, left, unit, cancelled, elapsed, result>>
              /\ OutputSame

\* The listener is there until the handshake ends.
HelperConnect ==
    /\ HelperAt("connect")
    /\ \/ pc = "accept" /\ link' = "open" /\ helper' = "set_up" /\ UNCHANGED <<alive, leaderStatus>>
       \/ pc # "accept" /\ HelperOver("nonzero") /\ UNCHANGED link
    /\ UNCHANGED <<enforced, wire, runs>> /\ HelperRest

\* The keys of the specification are those of the baseline, then those of the request
\* that denied_environment_key lets through; read_spec wants them distinct.
SpecKeysDistinct == "baseline" \notin request.env

\* Mutant of HelperSetUp: the limits are not verified and the ruleset not enforced.
HelperSetUp_Unchecked ==
    /\ HelperAt("set_up") /\ link = "open"
    /\ wire' = [wire EXCEPT !.setup = "ok"] /\ helper' = "spawn"
    /\ UNCHANGED <<enforced, alive, leaderStatus, link, runs>> /\ HelperRest

\* read_spec rejects the specification, or verify_resource_limits or restrict refuses,
\* or the helper is confined and says so.  It ends when it cannot say anything.
HelperSetUp ==
    /\ HelperAt("set_up")
    /\ LET says(byte) == IF link = "open" THEN [wire EXCEPT !.setup = byte] ELSE wire
       IN \/ /\ ~SpecKeysDistinct \/ "setup" \in Faults
             /\ wire' = says("reject") /\ HelperOver("nonzero") /\ UNCHANGED enforced
          \/ /\ SpecKeysDistinct /\ "setup" \in Faults
             /\ wire' = says("refuse") /\ HelperOver("nonzero") /\ UNCHANGED enforced
          \/ /\ SpecKeysDistinct /\ link = "open"
             /\ enforced' = [sandbox |-> request.sandbox # "none", limits |-> unit]
             /\ wire' = says("ok") /\ helper' = "spawn" /\ UNCHANGED <<alive, leaderStatus>>
          \/ /\ SpecKeysDistinct /\ link = "closed"
             /\ HelperOver("nonzero") /\ UNCHANGED <<wire, enforced>>
    /\ UNCHANGED <<link, runs>> /\ HelperRest

\* The target is started as a child of the confined helper.
HelperSpawn ==
    /\ HelperAt("spawn")
    /\ \/ /\ alive' = alive \union {<<1, "target">>}
          /\ runs' = runs \union {[tree |-> 1, sandboxed |-> enforced.sandbox,
                                  limited |-> enforced.limits]}
          /\ helper' = "report" /\ UNCHANGED <<wire, leaderStatus>>
       \/ /\ "setup" \in Faults
          /\ wire' = IF link = "open" THEN [wire EXCEPT !.target = "failed"] ELSE wire
          /\ HelperOver("nonzero") /\ UNCHANGED runs
    /\ UNCHANGED <<link, enforced>> /\ HelperRest

HelperReport ==
    /\ HelperAt("report")
    /\ \/ /\ link = "open"
          /\ wire' = [wire EXCEPT !.target = "ok"] /\ helper' = "wait"
          /\ UNCHANGED <<alive, leaderStatus>>
       \/ /\ link = "closed"
          /\ HelperOver("nonzero") /\ UNCHANGED wire
    /\ UNCHANGED <<link, enforced, runs>> /\ HelperRest

\* Mutant of HelperReap: the status of the report replaces that of the target.
HelperReap_Reports ==
    /\ HelperAt("wait") /\ <<1, "target">> \notin alive
    /\ HelperOver("zero")
    /\ UNCHANGED <<wire, link, enforced, runs>> /\ HelperRest

\* ResourceEvents::status_code: a counter went up, or one could not be read.
status_code == SUBSET (IF unit THEN {"exceeded", "unobserved"} ELSE {})

\* The target ended: its counters are reported, if anyone listens, and its status is
\* that of the helper, with 128 + n for a signal.
HelperReap ==
    /\ HelperAt("wait") /\ <<1, "target">> \notin alive
    /\ \E post \in status_code :
          wire' = IF link = "open" THEN [wire EXCEPT !.post = post] ELSE wire
    /\ HelperOver(IF left[1] = "zero" THEN "zero" ELSE "nonzero")
    /\ UNCHANGED <<link, enforced, runs>> /\ HelperRest

\* The scope runs out of memory and the kernel picks the helper.
HelperKilled ==
    /\ helper \notin {"none", "over"} /\ Leader(1) \in alive /\ unit
    /\ HelperOver("signal")
    /\ UNCHANGED <<wire, link, enforced, runs>> /\ HelperRest

----------------------------------------------------------------------------
(* SandboxChannel::wait and what run does with its result.                   *)

\* The session goes, and with it the socket and the listener.  The leader alone is
\* killed, unless it said that it could not enforce what it was asked for and nothing
\* was required.
Abandon(then, killed) ==
    /\ pc' = (IF killed THEN "give_up" ELSE "abandon") /\ link' = "closed"
    /\ result' = [result EXCEPT !.then = then]
    /\ UNCHANGED <<setup, helper, enforced, wire>>
    /\ TreeSame /\ OutputSame /\ ClockSame

\* start_kill.
KillLeader ==
    /\ pc = "give_up" /\ pc' = "abandon"
    /\ alive' = alive \ {Leader(1)} /\ leaderStatus' = "signal" /\ helper' = "over"
    /\ UNCHANGED <<setup, tree, runs, left, unit, enforced, wire, link, result>>
    /\ OutputSame /\ ClockSame

\* BeforeTarget: nothing can have been started yet, as run sees it.
BeforeTarget == Abandon(IF Degradable THEN "direct" ELSE "Setup", TRUE)

Handshake(where) ==
    /\ pc = where
    /\ UNCHANGED <<setup, tree, alive, runs, left, leaderStatus, unit>>
    /\ HelperSame /\ ClockSame

HandshakeCancelled ==
    /\ pc \in {"accept", "status", "second"} /\ cancelled
    /\ Abandon("CancelledBeforeSpawn", TRUE)

\* A timeout, a failed accept or the end of the stream.
HandshakeLost ==
    /\ \/ "slow" \in Faults
       \/ Leader(1) \notin alive /\ CASE pc = "accept" -> link = "none"
                                       [] pc = "status" -> wire.setup = None
                                       [] OTHER -> wire.target = None
    /\ \/ pc \in {"accept", "status"} /\ BeforeTarget
       \/ pc = "second" /\ Abandon("Setup", TRUE)

Accepted ==
    /\ Handshake("accept") /\ link = "open"
    /\ pc' = "status"
    /\ UNCHANGED result /\ OutputSame

StatusRead ==
    /\ pc = "status" /\ wire.setup # None
    /\ \/ /\ wire.setup = "ok" /\ Handshake("status")
          /\ pc' = "second" /\ UNCHANGED result /\ OutputSame
       \/ /\ wire.setup = "refuse"
          /\ IF Degradable THEN Abandon("direct", FALSE)
             ELSE Abandon("RequiredSetupUnavailable", TRUE)
       \/ wire.setup = "reject" /\ BeforeTarget

TargetRead ==
    /\ pc = "second" /\ wire.target # None
    /\ \/ /\ wire.target = "ok" /\ Handshake("second")
          /\ pc' = "wait" /\ Attached /\ UNCHANGED <<io, result>>
       \/ wire.target = "failed" /\ Abandon("Spawn", TRUE)

\* The leader is reaped, and the request refused or started without the helper.
Abandoned ==
    /\ pc = "abandon" /\ Leader(1) \notin alive
    /\ \/ /\ result.then = "direct"
          /\ setup' = Degraded /\ pc' = "direct" /\ UNCHANGED result
       \/ /\ result.then # "direct"
          /\ Fail(result.then) /\ UNCHANGED setup
    /\ TreeSame /\ HelperSame /\ OutputSame /\ ClockSame

----------------------------------------------------------------------------
(* The processes.  A target does what it likes; of the others only that they exist,
   that they may write and that they end is of interest.                     *)

WorldRest == /\ UNCHANGED <<request, pc, setup, tree, runs, unit, cancelled, elapsed, result>>
             /\ HelperSame

TargetForks(k) ==
    /\ Target(k) \in alive
    /\ \E role \in request.forks : alive' = alive \union {<<k, role>>}
    /\ UNCHANGED <<left, leaderStatus>> /\ OutputSame /\ WorldRest

\* The target of tree k ends, with a status of its own or by a signal.
Ends(k, status) ==
    /\ left' = [left EXCEPT ![k] = status]
    /\ leaderStatus' = IF k = tree /\ ~Helped(k) THEN status ELSE leaderStatus

TargetExits(k) ==
    /\ Target(k) \in alive
    /\ \E status \in Statuses : Ends(k, status)
    /\ alive' = alive \ {Target(k)}
    /\ OutputSame /\ WorldRest

DescendantExits(k) ==
    /\ \E role \in Descendants :
          <<k, role>> \in alive /\ alive' = alive \ {<<k, role>>}
    /\ UNCHANGED <<left, leaderStatus>> /\ OutputSame /\ WorldRest

Writers == (alive \intersect Holders(tree)) \ (IF Helped(tree) THEN {Leader(tree)} ELSE {})

Write(s) ==
    /\ Writers # {} /\ io[s].written < request.output
    /\ io' = [io EXCEPT ![s].written = @ + 1, ![s].pipe = @ + 1]
    /\ UNCHANGED <<alive, left, leaderStatus, reader, queue, overflow, stdin>> /\ WorldRest

\* A process reads what it was sent, or there is none left to.
StdinWritten ==
    /\ stdin = "writing" /\ stdin' = "done"
    /\ UNCHANGED <<alive, left, leaderStatus, io, reader, queue, overflow>> /\ WorldRest

\* Mutant of ReadChunk: the reader waits for room in the channel.
ReadChunk_Waits(s) ==
    /\ reader[s] = "reading" /\ io[s].pipe > 0 /\ queue < Channel
    /\ io' = [io EXCEPT ![s].pipe = @ - 1, ![s].captured = @ + 1]
    /\ queue' = queue + 1
    /\ UNCHANGED <<alive, left, leaderStatus, reader, overflow, stdin>> /\ WorldRest

Crosses(s) == request.overflow = "terminate" /\ io[s].captured = CaptureLimit

\* spawn_reader: the chunk is counted, raises the overflow once as the count passes the
\* limit, and goes to the channel if there is room.
ReadChunk(s) ==
    /\ reader[s] = "reading" /\ io[s].pipe > 0
    /\ io' = [io EXCEPT ![s].pipe = @ - 1, ![s].captured = @ + 1,
                        ![s].dropped = IF queue < Channel THEN @ ELSE @ + 1]
    /\ queue' = IF queue < Channel THEN queue + 1 ELSE queue
    /\ overflow' = (overflow \/ Crosses(s))
    /\ UNCHANGED <<alive, left, leaderStatus, reader, stdin>> /\ WorldRest

\* Mutant of ReadEof: the reader stops with the leader.
ReadEof_Leader(s) ==
    /\ reader[s] = "reading" /\ io[s].pipe = 0 /\ Leader(tree) \notin alive
    /\ reader' = [reader EXCEPT ![s] = "eof"]
    /\ UNCHANGED <<alive, left, leaderStatus, io, queue, overflow, stdin>> /\ WorldRest

\* A pipe ends when no process that inherited it is left.
ReadEof(s) ==
    /\ reader[s] = "reading" /\ io[s].pipe = 0 /\ alive \intersect Holders(tree) = {}
    /\ reader' = [reader EXCEPT ![s] = "eof"]
    /\ UNCHANGED <<alive, left, leaderStatus, io, queue, overflow, stdin>> /\ WorldRest

\* The receiver of run_execution.
Receive ==
    /\ queue > 0 /\ queue' = queue - 1
    /\ UNCHANGED <<alive, left, leaderStatus, io, reader, overflow, stdin>> /\ WorldRest

Cancel ==
    /\ ~cancelled /\ pc # "done" /\ cancelled' = TRUE
    /\ UNCHANGED <<request, pc, setup, elapsed, result>>
    /\ TreeSame /\ HelperSame /\ OutputSame

Deadline ==
    /\ ~elapsed /\ pc = "wait" /\ elapsed' = TRUE
    /\ UNCHANGED <<request, pc, setup, cancelled, result>>
    /\ TreeSame /\ HelperSame /\ OutputSame

----------------------------------------------------------------------------
(* The wait, and the clean-up that follows it.                               *)

Settle(termination, status) ==
    /\ pc = "wait" /\ pc' = "resource"
    /\ result' = [result EXCEPT !.termination = termination, !.status = status]
    /\ UNCHANGED setup
    /\ TreeSame /\ HelperSame /\ OutputSame /\ ClockSame

LeaderEnded == tree > 0 /\ Leader(tree) \notin alive

\* The biased select: cancellation, then the deadline, then the overflow, then the
\* exit of the leader.
Settled ==
    \/ cancelled /\ Settle("Cancelled", None)
    \/ ~cancelled /\ elapsed /\ Settle("TimedOut", None)
    \/ ~cancelled /\ ~elapsed /\ overflow /\ Settle("OutputLimit", None)
    \/ ~cancelled /\ ~elapsed /\ ~overflow /\ LeaderEnded /\ Settle("Exited", leaderStatus)

\* SandboxSession::resource_status: what the helper says, or nothing if it is late.  It is
\* asked only after an exit.
resource_status ==
    IF result.termination = "Exited" THEN {{}, wire.post} \ {None} ELSE {{}}

\* systemctl show, however the wait was settled: whether the scope ran out of memory, if
\* that can be told.
unit_result == IF unit THEN BOOLEAN ELSE {FALSE}

ResourceStatus ==
    /\ pc = "resource" /\ pc' = "unit"
    /\ \E heard \in resource_status, oom \in unit_result :
          /\ result' = [result EXCEPT !.exceeded = oom \/ "exceeded" \in heard]
          /\ setup' = IF "unobserved" \in heard /\ setup.resources = "applied"
                      THEN [setup EXCEPT !.resources = "not_applied"] ELSE setup
    /\ TreeSame /\ HelperSame /\ OutputSame /\ ClockSame

\* Processes are killed: a target by the signal, a leader that is not yet reaped too.
Killed(victims) ==
    /\ alive' = alive \ victims
    /\ left' = [k \in Trees |-> IF Target(k) \in victims \intersect alive THEN "signal" ELSE left[k]]
    /\ leaderStatus' = IF Leader(tree) \in victims \intersect alive THEN "signal" ELSE leaderStatus
    /\ helper' = IF Leader(1) \in victims /\ helper # "none" THEN "over" ELSE helper

KillSame == /\ UNCHANGED <<setup, tree, runs, unit, enforced, wire, link>>
            /\ OutputSame /\ ClockSame

\* systemctl stop ends every process of the scope, or fails or times out.
StopUnit ==
    /\ pc = "unit" /\ pc' = "term"
    /\ \/ /\ unit
          /\ Killed(Whole(tree)) /\ UNCHANGED result
       \/ /\ unit
          /\ \E some \in SUBSET (alive \intersect Whole(tree)) : Killed(some)
          /\ result' = [result EXCEPT !.signalError = TRUE]
       \/ ~unit /\ Killed({}) /\ UNCHANGED result
    /\ KillSame

Exited == result.termination = "Exited"

\* An unreaped leader is still a member of its group.
GroupThere == alive \intersect Group(tree) # {} \/ ~Exited

\* SIGTERM to the group, which some of its members obey.  After an exit a signal that
\* fails ends the clean-up; otherwise SIGKILL is sent all the same.
TermGroup ==
    /\ pc = "term"
    /\ \/ /\ GroupThere /\ pc' = "kill"
          /\ \E some \in SUBSET (alive \intersect Group(tree)) : Killed(some)
          /\ UNCHANGED result
       \/ /\ ~GroupThere /\ pc' = "stdin"
          /\ Killed({}) /\ UNCHANGED result
       \/ /\ "signal" \in Faults /\ GroupThere
          /\ pc' = IF Exited THEN "stdin" ELSE "kill"
          /\ result' = [result EXCEPT !.signalError = TRUE]
          /\ Killed({})
    /\ KillSame

KillGroup ==
    /\ pc = "kill" /\ pc' = IF Exited THEN "stdin" ELSE "reap"
    /\ \/ Killed(Group(tree)) /\ UNCHANGED result
       \/ /\ "signal" \in Faults
          /\ Killed({}) /\ result' = [result EXCEPT !.signalError = TRUE]
    /\ KillSame

\* The leader is waited for, for the length of the grace.
Reap ==
    /\ pc = "reap" /\ pc' = "stdin"
    /\ \/ LeaderEnded /\ result' = [result EXCEPT !.status = leaderStatus]
       \/ (~LeaderEnded \/ "stuck" \in Faults) /\ UNCHANGED result
    /\ UNCHANGED setup
    /\ TreeSame /\ HelperSame /\ OutputSame /\ ClockSame

AwaitStdin ==
    /\ pc = "stdin" /\ stdin = "done" /\ pc' = "join"
    /\ UNCHANGED <<setup, result>>
    /\ TreeSame /\ HelperSame /\ OutputSame /\ ClockSame

JoinReaders ==
    /\ pc = "join" /\ \A s \in Streams : reader[s] = "eof"
    /\ Fail("Ok")
    /\ UNCHANGED setup
    /\ TreeSame /\ HelperSame /\ OutputSame /\ ClockSame

----------------------------------------------------------------------------
RunStep ==
    \/ Start \/ PrepareNone \/ PrepareTrusted \/ OpenChannel
    \/ SpawnHelper \/ SpawnDirect
    \/ HandshakeLost \/ Accepted \/ StatusRead \/ TargetRead \/ KillLeader \/ Abandoned
    \/ Settled \/ ResourceStatus \/ StopUnit \/ TermGroup \/ KillGroup \/ Reap
    \/ AwaitStdin \/ JoinReaders

HelperStep ==
    HelperConnect \/ HelperSetUp \/ HelperSpawn \/ HelperReport \/ HelperReap

Processes ==
    \/ \E k \in Trees : TargetForks(k) \/ TargetExits(k) \/ DescendantExits(k)
    \/ \E s \in Streams : Write(s)
    \/ StdinWritten \/ HelperKilled

Reading == \E s \in Streams : ReadChunk(s) \/ ReadEof(s)

Next ==
    \/ RunStep \/ SpawnFailed \/ HandshakeCancelled
    \/ HelperStep \/ Processes \/ Reading
    \/ Receive \/ Cancel \/ Deadline

\* The runtime polls what is ready, timers fire and the helper runs; the target need
\* not do anything, and a process that has no reader fails to write.
Fairness ==
    /\ WF_vars(RunStep) /\ WF_vars(HelperStep) /\ WF_vars(Deadline)
    /\ \A s \in Streams : WF_vars(ReadChunk(s)) /\ WF_vars(ReadEof(s))
    /\ WF_vars(alive \intersect Holders(tree) = {} /\ StdinWritten)

Spec == Init /\ [][Next]_vars

FairSpec == Spec /\ Fairness

----------------------------------------------------------------------------
\* execution_result: the state of the execution.
State ==
    IF result.exceeded THEN "Failed"
    ELSE CASE result.termination = "Exited" ->
                  IF result.status = "zero" THEN "Succeeded" ELSE "Failed"
           [] result.termination = "OutputLimit" -> "Failed"
           [] OTHER -> result.termination

Returned == result.outcome = "Ok"

\* No target ever runs outside what the request requires, however the probes, the
\* helper and the handshake fail, and whether or not it is started a second time (run).
RequiredEnforced ==
    \A r \in runs : /\ request.sandbox = "required" => r.sandboxed
                    /\ request.resources = "required" => r.limited

\* What the result says was applied was applied to the process it is about (run,
\* resource_result).
HonestReport ==
    Returned => \E r \in runs : /\ r.tree = tree
                                /\ setup.sandbox = "applied" => r.sandboxed
                                /\ setup.resources = "applied" => r.limited

\* An execution is reported as succeeded only if its own target, and not the helper in
\* front of it, ended with zero of itself (execution_result, the helper's exit_code).
SuccessIsReal == Returned /\ State = "Succeeded" => left[tree] = "zero"

\* A result is true of the process it is about: what was applied to it and how it ended
\* (run, resource_result, execution_result).
HonestResult == HonestReport /\ SuccessIsReal

\* When run returns a result and the signals were delivered, no member of the process
\* group is left (converge_after_leader_exit, terminate_and_reap).
GroupConverged ==
    Returned /\ ~result.signalError => alive \intersect Group(tree) = {}

\* The totals are those of everything the processes wrote, although chunks are dropped
\* when the channel is full and descendants write after the leader has ended
\* (spawn_reader, join_reader).
OutputComplete ==
    Returned => \A s \in Streams : io[s].captured = io[s].written

\* A run that returns is over: nothing of its group lives and nothing that was written is
\* missing from its totals, the channel never holding more than its bound (run).
ReturnIsEnd == RunnerTypeOK /\ GroupConverged /\ OutputComplete

\* A run returns, whatever the target does and whoever reads its output, unless a
\* descendant that left the group, or that no signal reached, holds the pipes (run).
RunReturns ==
    <>[](\/ pc = "done" \/ result.signalError
         \/ <<tree, "escaped">> \in alive)

\* "process-tree cleanup completes before the execution owner releases its lifetime
\* permit" (process_tree.rs): run does not return while a target it started lives.
TreeGone ==
    pc = "done" /\ ~result.signalError => \A k \in Trees : Target(k) \notin alive
================================================================================

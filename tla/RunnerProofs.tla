------------------------------- MODULE RunnerProofs ------------------------------
(***************************************************************************)
(* Proofs about the way from a request to its target.                      *)
(*                                                                         *)
(* Admission, for every limit, command and host: what is run is what was   *)
(* required.                                                               *)
(*                                                                         *)
(* Runner, for every request, any number of streams and any bound, and     *)
(* whichever of the faults happen.  The three safety properties need to    *)
(* know together what the path of a run implies: before the helper is      *)
(* there nothing is, what was prepared is required of the helper, a helper *)
(* that lives enforces it, the run without a helper promises nothing, a    *)
(* leader that ended with zero stands for a target that did, and a reader  *)
(* that has ended has read everything.                                     *)
(***************************************************************************)
EXTENDS Admission, Runner, TLAPS

-----------------------------------------------------------------------------
(* Admission.                                                                *)

\* What execute accepted asks nothing of the network; what is prepared is what the request
\* requires; and what runs has it.
AdmissionInv ==
    /\ wanted \in Wanted
    /\ step \in {"accepted", "valid", "prepared", "running"} => wanted.network = "Unrestricted"
    /\ step = "prepared" =>
          /\ wanted.isolation = "Required" => apply.sandbox
          /\ RequiredOf(wanted) # {} => apply.limits
    /\ NeverWeaker

\* The encoding of a requirement loses nothing of its level.
LEMMA LevelKept ==
    ASSUME NEW requirement \in RequirementType
    PROVE  Decoded(Encoded(requirement)).level = requirement.level
BY SMTT(30) DEF RequirementType, Decoded, Encoded, Requirement

\* Nor does that of a request.
LEMMA ReceivedMeans ==
    ASSUME NEW w \in Wanted
    PROVE  /\ Received(w).isolation = w.isolation /\ Received(w).network = w.network
           /\ RequiredOf(Received(w)) = RequiredOf(w)
<1>1. w \in WantedType
  BY Zenon, AdmissionAssumption
<1>2. /\ Received(w).isolation = w.isolation /\ Received(w).network = w.network
      /\ Received(w).memory = Decoded(Encoded(w.memory))
      /\ Received(w).cpu = Decoded(Encoded(w.cpu))
      /\ Received(w).pids = Decoded(Encoded(w.pids))
  BY SMTT(30), <1>1 DEF WantedType, Received
<1>3. \A d \in Dimensions : Received(w)[d].level = w[d].level
  <2>1. w.memory \in RequirementType /\ w.cpu \in RequirementType /\ w.pids \in RequirementType
    BY <1>1 DEF WantedType
  <2> QED
    BY <1>2, <2>1, LevelKept DEF Dimensions
<1> QED
  BY SMTT(30), <1>2, <1>3 DEF RequiredOf

\* The request starts with nothing accepted.
LEMMA AdmissionStart == AdmissionInit => AdmissionInv
BY DEF AdmissionInit, AdmissionInv, NeverWeaker

\* execute, the runner and the host keep it.
LEMMA AdmissionStep == AdmissionInv /\ [AdmissionNext]_admissionVars => AdmissionInv'
<1> SUFFICES ASSUME AdmissionInv, [AdmissionNext]_admissionVars PROVE AdmissionInv'
  OBVIOUS
<1> DEFINE w == Received(wanted)
<1>1. /\ wanted \in Wanted /\ w.isolation = wanted.isolation /\ w.network = wanted.network
      /\ RequiredOf(w) = RequiredOf(wanted)
  BY SMTT(30), ReceivedMeans DEF AdmissionInv
<1>2. CASE execute
  <2>1. UNCHANGED <<wanted, apply, launch>> /\ step' \in {"accepted", "refused"}
    BY SMTT(30), <1>2 DEF execute
  <2>2. step' = "accepted" => Answer(w) = "accepted"
    BY SMTT(30), <1>2 DEF execute
  <2>3. Answer(w) = "accepted" => w.network = "Unrestricted"
    BY SMTT(30) DEF Answer, check_network_supported
  <2> QED
    BY SMTT(30), <1>1, <2>1, <2>2, <2>3 DEF AdmissionInv, NeverWeaker
<1>3. CASE ValidateRequest
  <2>1. /\ UNCHANGED <<wanted, apply, launch>> /\ step = "accepted"
        /\ step' \in {"failed", "valid"}
    BY Zenon, <1>3 DEF ValidateRequest, Fails
  <2> QED
    BY <2>1 DEF AdmissionInv, NeverWeaker
<1>4. CASE prepare
  <2>1. UNCHANGED <<wanted, launch>> /\ step = "valid" /\ step' \in {"failed", "prepared"}
    BY <1>4 DEF prepare, Fails
  <2>2. step' = "prepared" => /\ w.isolation = "Required" => apply'.sandbox
                              /\ RequiredOf(w) # {} => apply'.limits
    <3> DEFINE limits == /\ Requested(w) # {} /\ Probe(Requested(w), host)
                         /\ verify_trusted_helper(host)
               sandbox == w.isolation # "None" /\ verify_trusted_helper(host)
    <3>1. IF (RequiredOf(w) # {} /\ ~limits) \/ (w.isolation = "Required" /\ ~sandbox)
          THEN step' = "failed"
          ELSE apply' = [sandbox |-> sandbox, limits |-> limits]
      BY Zenon, <1>4 DEF prepare, Fails
    <3>2. ASSUME step' = "prepared", w.isolation = "Required" PROVE apply'.sandbox
      <4>1. sandbox /\ apply' = [sandbox |-> sandbox, limits |-> limits]
        BY Zenon, <2>1, <3>1, <3>2
      <4>2. apply'.sandbox = sandbox
        BY Zenon, <4>1
      <4> QED
        BY Zenon, <4>1, <4>2
    <3>3. ASSUME step' = "prepared", RequiredOf(w) # {} PROVE apply'.limits
      <4>1. limits /\ apply' = [sandbox |-> sandbox, limits |-> limits]
        BY Zenon, <2>1, <3>1, <3>3
      <4>2. apply'.limits = limits
        BY ZenonT(30), <4>1
      <4> QED
        BY Zenon, <4>1, <4>2
    <3> QED
      BY Zenon, <3>2, <3>3
  <2>3. RequiredOf(wanted)' = RequiredOf(wanted)
    BY SMTT(30), <2>1 DEF RequiredOf
  <2> QED
    BY <1>1, <2>1, <2>2, <2>3 DEF AdmissionInv, NeverWeaker
<1>5. CASE SpawnTarget
  <2>1. /\ UNCHANGED <<wanted, apply>> /\ step = "prepared"
        /\ step' \in {"failed", "running"}
    BY Zenon, <1>5 DEF SpawnTarget, WithoutHelper, Fails, StartTarget
  <2>2. \/ step' = "failed"
        \/ w.isolation # "Required" /\ RequiredOf(w) = {}
        \/ ~(apply.sandbox \/ apply.limits)
        \/ launch'.sandboxed = apply.sandbox /\ launch'.limited = apply.limits
    <3>1. \/ step' = "failed"
          \/ w.isolation # "Required" /\ RequiredOf(w) = {}
          \/ ~(apply.sandbox \/ apply.limits)
          \/ \E environment : StartTarget("helper", environment, apply)
      BY Zenon, <1>5 DEF SpawnTarget, WithoutHelper, Fails
    <3>2. ASSUME NEW environment, StartTarget("helper", environment, apply)
          PROVE  launch'.sandboxed = apply.sandbox /\ launch'.limited = apply.limits
      BY SMTT(30), <3>2 DEF StartTarget
    <3> QED
      BY Zenon, <3>1, <3>2
  <2>3. RequiredOf(wanted)' = RequiredOf(wanted)
    BY SMTT(30), <2>1 DEF RequiredOf
  <2> QED
    BY ZenonT(30), <1>1, <2>1, <2>2, <2>3 DEF AdmissionInv, NeverWeaker
<1>6. CASE ChangeHost \/ UNCHANGED admissionVars
  BY Zenon, <1>6 DEF ChangeHost, admissionVars, AdmissionInv, NeverWeaker, RequiredOf
<1> QED
  BY SMTT(30), <1>2, <1>3, <1>4, <1>5, <1>6 DEF AdmissionNext

\* Whatever the node advertised when it started and whatever works on the host since, a
\* target runs only with the isolation and the limits its client requires
\* (check_isolation_supported, check_resources_supported, prepare, run).
THEOREM NeverWeakerHolds == AdmissionSpec => []NeverWeaker
<1>1. AdmissionInv => NeverWeaker
  BY DEF AdmissionInv
<1> QED
  BY <1>1, AdmissionStart, AdmissionStep, PTL DEF AdmissionSpec

-----------------------------------------------------------------------------
(* The runner.                                                               *)

BeforeHelper == {"start", "prepare", "channel", "helper"}
Handshakes == {"accept", "status", "second", "give_up", "abandon"}
AtEnd == {"resource", "unit", "term", "kill", "reap", "stdin", "join"}

\* run has a tree that counts.
Watched == pc \in AtEnd \union {"wait"} \/ Returned

\* What was prepared, and when it is given up.
SetupInv ==
    /\ setup.sandbox = "applied" => request.sandbox # "none"
    /\ pc \in {"channel", "helper"} \union Handshakes =>
          /\ request.sandbox = "required" => setup.sandbox = "applied"
          /\ request.resources = "required" => setup.resources = "applied"
    /\ pc = "direct" => Degradable /\ ~UseHelper
    /\ result.then = "direct" => Degradable

\* Which trees there are, and whether the helper lives.
TreeInv ==
    /\ pc \in BeforeHelper => tree = 0 /\ helper = "none" /\ wire.target = None
    /\ pc \in Handshakes => tree = 1 /\ helper # "none"
    /\ pc = "direct" => IF helper = "none" THEN tree = 0 ELSE tree = 1 /\ helper = "over"
    /\ Watched => tree \in Trees
    /\ helper \notin {"none", "over"} => Leader(1) \in alive
    /\ helper = "over" => Leader(1) \notin alive

\* The run r is that of tree k and had all of what is reported as applied.
Confining(r, k) ==
    /\ r.tree = k
    /\ setup.sandbox = "applied" => r.sandboxed
    /\ setup.resources = "applied" => r.limited

\* What the helper enforces, and on whom.
EnforcedInv ==
    /\ RequiredEnforced
    /\ helper \in {"connect", "set_up"} =>
          /\ setup.resources = "applied" => unit
          /\ request.resources = "required" => unit
    /\ helper = "spawn" =>
          /\ request.sandbox # "none" => enforced.sandbox
          /\ setup.resources = "applied" => enforced.limits
          /\ request.resources = "required" => enforced.limits
    /\ helper \in {"report", "wait"} \/ wire.target = "ok" => \E r \in runs : Confining(r, 1)
    /\ Watched => \E r \in runs : Confining(r, tree)

\* What a leader that ended with zero stands for, and what run found out.
StatusInv ==
    /\ leaderStatus = "zero" => /\ tree \in Trees /\ left[tree] = "zero"
                                /\ Target(tree) \notin alive /\ Leader(tree) \notin alive
    /\ Exited /\ result.status = "zero" => leaderStatus = "zero"
    /\ pc \in BeforeHelper \union Handshakes \union {"direct", "wait"} => result.termination = None
    /\ pc \in AtEnd \/ Returned => result.termination \in Terminations
    /\ pc = "reap" => ~Exited
    /\ Returned => pc = "done"

\* The group once it was signalled.
GroupInv ==
    (pc \in {"reap", "stdin", "join"} \/ Returned) /\ ~result.signalError
        => alive \intersect Group(tree) = {}

\* What was written is in the pipe or was read.
OutputInv ==
    /\ \A s \in Streams : io[s].written = io[s].pipe + io[s].captured
    /\ \A s \in Streams : reader[s] = "eof" =>
          io[s].pipe = 0 /\ alive \intersect Holders(tree) = {}
    /\ pc \in BeforeHelper \union Handshakes \union {"direct"} =>
          \A s \in Streams : reader[s] = "off"
    /\ Returned => \A s \in Streams : reader[s] = "eof"

RunnerInv ==
    /\ RunnerTypeOK /\ SetupInv /\ TreeInv /\ EnforcedInv
    /\ StatusInv /\ GroupInv /\ OutputInv

-----------------------------------------------------------------------------
(* Types.                                                                    *)

WireType ==
    [setup : {None, "ok", "refuse", "reject"}, target : {None, "ok", "failed"},
     post : {None} \union SUBSET {"exceeded", "unobserved"}]

PipeType == [written : Nat, pipe : Nat, captured : Nat, dropped : Nat]

ResultType ==
    [termination : Terminations \union {None}, status : Statuses \union {None},
     exceeded : BOOLEAN, signalError : BOOLEAN,
     then : {None, "direct"} \union Errors, outcome : {None, "Ok"} \union Errors]

\* The steps before anything is started, and those of the end, keep the types.
LEMMA RunTypes ==
    ASSUME RunnerTypeOK,
           \/ Start \/ PrepareNone \/ PrepareTrusted \/ OpenChannel \/ SpawnFailed
           \/ Settled \/ ResourceStatus \/ Reap \/ AwaitStdin \/ JoinReaders
           \/ Accepted
    PROVE  RunnerTypeOK'
<1> USE RunnerAssumption DEF RunnerTypeOK, TreeSame, HelperSame, OutputSame, ClockSame, Fail, Errors,
        Outcomes, Terminations, Statuses
<1>1. CASE Start
  BY <1>1 DEF Start
<1>2. CASE PrepareNone
  BY <1>2 DEF PrepareNone
<1>3. CASE PrepareTrusted
  BY <1>3 DEF PrepareTrusted
<1>4. CASE OpenChannel
  BY <1>4 DEF OpenChannel, Degraded
<1>5. CASE SpawnFailed
  BY <1>5 DEF SpawnFailed
<1>6. CASE Settled
  <2>1. PICK termination \in Terminations, status \in Statuses \union {None} :
             Settle(termination, status)
    BY <1>6 DEF Settled
  <2>2. result' \in ResultType
    BY Zenon, <2>1 DEF Settle, ResultType
  <2>3. pc' = "resource"
    BY <2>1 DEF Settle
  <2> QED
    BY SMTT(30), <2>1, <2>2, <2>3 DEF Settle, ResultType
<1>7. CASE ResourceStatus
  <2>1. PICK heard \in resource_status, oom \in unit_result :
          /\ result' = [result EXCEPT !.exceeded = oom \/ "exceeded" \in heard]
          /\ setup' = IF "unobserved" \in heard /\ setup.resources = "applied"
                      THEN [setup EXCEPT !.resources = "not_applied"] ELSE setup
    BY <1>7 DEF ResourceStatus
  <2>2. PICK exceeded \in BOOLEAN : result' = [result EXCEPT !.exceeded = exceeded]
    BY Zenon, <2>1
  <2>3. setup' \in [sandbox : Outcomes, resources : Outcomes]
    BY <2>1
  <2> QED
    BY <1>7, <2>2, <2>3 DEF ResourceStatus
<1>8. CASE Reap
  BY SMTT(30), <1>8 DEF Reap
<1>9. CASE AwaitStdin
  BY <1>9 DEF AwaitStdin
<1>10. CASE JoinReaders
  BY SMTT(30), <1>10 DEF JoinReaders
<1>11. CASE Accepted
  BY SMTT(30), <1>11 DEF Accepted, Handshake
<1> QED
  BY Zenon, <1>1, <1>2, <1>3, <1>4, <1>5, <1>6, <1>7, <1>8, <1>9, <1>10, <1>11

\* So do those that start a tree and those of the helper.
LEMMA HelperTypes ==
    ASSUME RunnerTypeOK, TreeInv,
           SpawnHelper \/ SpawnDirect \/ HelperStep \/ HelperKilled
    PROVE  RunnerTypeOK'
<1> USE RunnerAssumption DEF RunnerTypeOK, TreeInv, TreeSame, HelperSame, OutputSame, ClockSame,
        Statuses, Trees, Roles, Leader, HelperOver, HelperRest, HelperAt
<1>1. CASE SpawnHelper
  BY SMTT(30), <1>1 DEF SpawnHelper, BeforeHelper, wrap_resource_command
<1>2. CASE SpawnDirect
  <2>1. io' \in [Streams -> [written : Nat, pipe : Nat, captured : Nat, dropped : Nat]]
    BY SMTT(30), <1>2 DEF SpawnDirect, FreshPipes
  <2>2. tree + 1 \in Trees /\ unit' \in BOOLEAN
    BY <1>2 DEF SpawnDirect, wrap_resource_command
  <2>3. runs' \subseteq [tree : Trees, sandboxed : BOOLEAN, limited : BOOLEAN]
    <3>1. [tree |-> tree + 1, sandboxed |-> FALSE, limited |-> unit']
            \in [tree : Trees, sandboxed : BOOLEAN, limited : BOOLEAN]
      BY Zenon, <2>2
    <3> QED
      BY ZenonT(30), <1>2, <3>1 DEF SpawnDirect
  <2> QED
    BY SMTT(30), <1>2, <2>1, <2>2, <2>3 DEF SpawnDirect, Attached
<1>3. CASE HelperConnect
  BY <1>3 DEF HelperConnect
<1>4. CASE HelperSetUp
  <2>1. wire' \in WireType
    BY SMTT(30), <1>4 DEF HelperSetUp, WireType
  <2>2. enforced' \in [sandbox : BOOLEAN, limits : BOOLEAN]
    <3>1. PICK confined \in BOOLEAN, limited \in BOOLEAN :
            confined = (request.sandbox # "none") /\ limited = unit
      BY Zenon
    <3>2. \/ enforced' = enforced
          \/ enforced' = [sandbox |-> confined, limits |-> limited]
      BY <1>4, <3>1 DEF HelperSetUp
    <3> QED
      BY <3>2
  <2> QED
    BY <1>4, <2>1, <2>2 DEF HelperSetUp, WireType
<1>5. CASE HelperSpawn
  BY <1>5 DEF HelperSpawn
<1>6. CASE HelperReport
  BY <1>6 DEF HelperReport
<1>7. CASE HelperReap
  <2>1. PICK post \in status_code :
          wire' = IF link = "open" THEN [wire EXCEPT !.post = post] ELSE wire
    BY <1>7 DEF HelperReap
  <2>2. post \in SUBSET {"exceeded", "unobserved"}
    BY DEF status_code
  <2>3. wire' \in WireType
    BY ZenonT(30), <2>1, <2>2 DEF WireType
  <2> QED
    BY <1>7, <2>3 DEF HelperReap, WireType
<1>8. CASE HelperKilled
  BY SMTT(30), <1>8 DEF HelperKilled
<1> QED
  BY Zenon, <1>1, <1>2, <1>3, <1>4, <1>5, <1>6, <1>7, <1>8 DEF HelperStep

\* So do those of the handshake.
LEMMA HandshakeTypes ==
    ASSUME RunnerTypeOK,
           HandshakeCancelled \/ HandshakeLost \/ StatusRead \/ TargetRead \/ KillLeader
           \/ Abandoned
    PROVE  RunnerTypeOK'
<1> USE RunnerAssumption DEF RunnerTypeOK, TreeSame, HelperSame, OutputSame, ClockSame, Errors
<1>1. ASSUME NEW then \in {"direct"} \union Errors, NEW killed \in BOOLEAN, Abandon(then, killed)
      PROVE  RunnerTypeOK'
  BY <1>1 DEF Abandon
<1>2. CASE HandshakeCancelled
  BY Zenon, <1>1, <1>2 DEF HandshakeCancelled
<1>3. CASE HandshakeLost
  BY Zenon, <1>1, <1>3 DEF HandshakeLost, BeforeTarget
<1>4. CASE StatusRead
  <2>1. CASE Handshake("status") /\ pc' = "second" /\ UNCHANGED result /\ OutputSame
    BY <2>1 DEF Handshake
  <2> QED
    BY ZenonT(30), <1>1, <1>4, <2>1 DEF StatusRead, BeforeTarget
<1>5. CASE TargetRead
  <2>1. CASE Handshake("second") /\ pc' = "wait" /\ Attached /\ UNCHANGED <<io, result>>
    BY SMTT(30), <2>1 DEF Handshake, Attached
  <2> QED
    BY ZenonT(30), <1>1, <1>5, <2>1 DEF TargetRead
<1>6. CASE KillLeader
  BY <1>6 DEF KillLeader, Statuses
<1>7. CASE Abandoned
  BY <1>7 DEF Abandoned, Degraded, Outcomes, Fail
<1> QED
  BY Zenon, <1>2, <1>3, <1>4, <1>5, <1>6, <1>7

\* A chunk goes from the pipe to the totals.
LEMMA ChunkCounts ==
    ASSUME io \in [Streams -> PipeType], NEW s \in Streams, ReadChunk(s)
    PROVE  /\ io' \in [Streams -> PipeType]
           /\ \A t \in Streams : t # s => io'[t] = io[t]
           /\ io'[s].written = io[s].written
           /\ io[s].pipe > 0 /\ io'[s].pipe = io[s].pipe - 1
           /\ io'[s].captured = io[s].captured + 1
<1> DEFINE dropped == IF queue < Channel THEN io[s].dropped ELSE io[s].dropped + 1
           next == [written |-> io[s].written, pipe |-> io[s].pipe - 1,
                    captured |-> io[s].captured + 1, dropped |-> dropped]
<1>1. io[s] \in PipeType /\ io[s].pipe > 0
  BY DEF ReadChunk
<1>2. io' = [io EXCEPT ![s] = next]
  BY <1>1 DEF ReadChunk, PipeType
<1>3. next \in PipeType
  BY SMTT(30), <1>1 DEF PipeType
<1> QED
  BY <1>1, <1>2, <1>3

\* So do those of the processes, of the readers and of the clock.
LEMMA ProcessTypes ==
    ASSUME RunnerTypeOK,
           \/ \E k \in Trees : TargetForks(k) \/ TargetExits(k) \/ DescendantExits(k)
           \/ \E s \in Streams : Write(s) \/ ReadChunk(s) \/ ReadEof(s)
           \/ StdinWritten \/ Receive \/ Cancel \/ Deadline
    PROVE  RunnerTypeOK'
<1> USE RunnerAssumption DEF RunnerTypeOK, TreeSame, HelperSame, OutputSame, ClockSame, WorldRest
<1>1. ASSUME NEW k \in Trees, TargetForks(k) PROVE RunnerTypeOK'
  BY SMTT(30), <1>1 DEF TargetForks, RequestType, Roles
<1>2. ASSUME NEW k \in Trees, TargetExits(k) PROVE RunnerTypeOK'
  BY SMTT(30), <1>2 DEF TargetExits, Ends
<1>3. ASSUME NEW k \in Trees, DescendantExits(k) PROVE RunnerTypeOK'
  BY <1>3 DEF DescendantExits
<1>4. ASSUME NEW s \in Streams, Write(s) PROVE RunnerTypeOK'
  BY SMTT(30), <1>4 DEF Write
<1>5. ASSUME NEW s \in Streams, ReadChunk(s) PROVE RunnerTypeOK'
  <2>1. io' \in [Streams -> PipeType]
    BY ZenonT(30), <1>5, ChunkCounts DEF PipeType
  <2>2. queue' \in 0..Channel
    <3>1. queue' = IF queue < Channel THEN queue + 1 ELSE queue
      BY Zenon, <1>5 DEF ReadChunk
    <3> QED
      BY SMTT(30), <3>1
  <2>3. overflow' \in BOOLEAN
    <3>1. overflow' = (overflow \/ Crosses(s))
      BY Zenon, <1>5 DEF ReadChunk
    <3> QED
      BY Zenon, <3>1 DEF Crosses
  <2>4. UNCHANGED <<alive, left, leaderStatus, reader, stdin>> /\ WorldRest
    BY ZenonT(30), <1>5 DEF ReadChunk
  <2> QED
    BY SMTT(30), <2>1, <2>2, <2>3, <2>4 DEF PipeType
<1>6. ASSUME NEW s \in Streams, ReadEof(s) PROVE RunnerTypeOK'
  BY SMTT(30), <1>6 DEF ReadEof
<1>7. CASE StdinWritten
  BY SMTT(30), <1>7 DEF StdinWritten
<1>8. CASE Receive
  BY SMTT(30), <1>8 DEF Receive
<1>9. CASE Cancel
  BY SMTT(30), <1>9 DEF Cancel
<1>10. CASE Deadline
  BY <1>10 DEF Deadline
<1> QED
  BY Zenon, <1>1, <1>2, <1>3, <1>4, <1>5, <1>6, <1>7, <1>8, <1>9, <1>10

\* What a signal does: processes go, and nothing else than their status changes.
LEMMA KilledTypes ==
    ASSUME RunnerTypeOK, StopUnit \/ TermGroup \/ KillGroup
    PROVE  RunnerTypeOK'
<1> USE RunnerAssumption DEF RunnerTypeOK, KillSame, OutputSame, ClockSame
<1>1. ASSUME NEW victims, Killed(victims)
      PROVE  /\ alive' \subseteq Trees \X Roles
             /\ left' \in [Trees -> Statuses \union {None}]
             /\ leaderStatus' \in Statuses \union {None}
             /\ helper' \in {"none", "connect", "set_up", "spawn", "report", "wait", "over"}
  BY <1>1 DEF Killed, Statuses
<1>2. \E victims : Killed(victims)
  BY DEF StopUnit, TermGroup, KillGroup
<1>3. result' = result \/ result' = [result EXCEPT !.signalError = TRUE]
  BY DEF StopUnit, TermGroup, KillGroup
<1>4. pc' \in {"term", "kill", "stdin", "reap"} /\ KillSame
  BY DEF StopUnit, TermGroup, KillGroup
<1>5. result' \in ResultType
  BY ZenonT(30), <1>3 DEF ResultType
<1> QED
  BY <1>1, <1>2, <1>4, <1>5 DEF ResultType

-----------------------------------------------------------------------------
(* The steps before anything is started.                                     *)

\* They keep the invariant.
LEMMA EarlySteps ==
    ASSUME RunnerInv, RunnerTypeOK',
           Start \/ PrepareNone \/ PrepareTrusted \/ OpenChannel \/ SpawnFailed
    PROVE  RunnerInv'
<1>1. /\ TreeSame /\ HelperSame /\ OutputSame /\ ClockSame
      /\ pc \in BeforeHelper \union {"direct"} /\ pc' \in BeforeHelper \union {"direct", "done"}
      /\ pc' = "direct" => helper = "none" /\ tree = 0
      /\ pc' \in BeforeHelper => pc \in BeforeHelper
  BY DEF RunnerInv, TreeInv, Start, PrepareNone, PrepareTrusted, OpenChannel, SpawnFailed, BeforeHelper, Fail
<1>2. /\ result'.outcome # "Ok"
      /\ result'.termination = result.termination /\ result'.then = result.then
      /\ result'.status = result.status
  BY RunnerAssumption DEF RunnerInv, RunnerTypeOK, Start, PrepareNone, PrepareTrusted, OpenChannel, SpawnFailed, Fail,
    StatusInv, Returned
<1>3. SetupInv'
  <2>1. CASE Start
    BY <2>1, <1>2 DEF RunnerInv, SetupInv, Start, Fail, ClockSame, Degradable, Handshakes
  <2>2. CASE PrepareNone
    BY <2>2, <1>2 DEF RunnerInv, SetupInv, PrepareNone, Fail, ClockSame, Degradable, Handshakes, UseHelper
  <2>3. CASE PrepareTrusted
    BY <2>3, <1>2 DEF RunnerInv, SetupInv, PrepareTrusted, Fail, ClockSame, Degradable, Handshakes, UseHelper
  <2>4. CASE OpenChannel
    BY <2>4, <1>2 DEF RunnerInv, SetupInv, OpenChannel, Fail, ClockSame, Degradable, Handshakes, UseHelper,
       Degraded
  <2>5. CASE SpawnFailed
    BY <2>5, <1>2 DEF RunnerInv, SetupInv, SpawnFailed, Fail, ClockSame, Degradable, Handshakes, UseHelper
  <2> QED
    BY <2>1, <2>2, <2>3, <2>4, <2>5
<1>4. TreeInv'
  BY SMTT(30), <1>1, <1>2 DEF RunnerInv, TreeInv, BeforeHelper, Handshakes, Watched, Returned, AtEnd, TreeSame, HelperSame, Leader
<1>5. EnforcedInv'
  <2>1. UNCHANGED <<runs, request, helper, unit, enforced, wire>>
    BY <1>1 DEF TreeSame, HelperSame, ClockSame
  <2>2. ~Watched'
    BY <1>1, <1>2 DEF Watched, BeforeHelper, AtEnd, Returned
  <2>3. helper \in {"none", "over"}
    BY <1>1 DEF RunnerInv, TreeInv
  <2>4. CASE setup' = setup
    BY <2>1, <2>2, <2>4 DEF RunnerInv, EnforcedInv, RequiredEnforced, Confining
  <2>5. CASE pc \in BeforeHelper
    BY Zenon, <2>1, <2>2, <2>5, RunnerAssumption DEF RunnerInv, TreeInv, EnforcedInv, RequiredEnforced
  <2> QED
    BY <1>1, <2>4, <2>5 DEF SpawnFailed, Start, PrepareNone, PrepareTrusted, OpenChannel, BeforeHelper
<1>6. StatusInv'
  BY Zenon, <1>1, <1>2 DEF RunnerInv, StatusInv, BeforeHelper, Handshakes, AtEnd, Exited, TreeSame, HelperSame, Returned,
     Target, Leader, Helped
<1>7. GroupInv'
  BY ZenonT(30), <1>1, <1>2 DEF GroupInv, BeforeHelper, Returned
<1>8. OutputInv'
  BY <1>1, <1>2 DEF RunnerInv, OutputInv, BeforeHelper, Handshakes, Returned, TreeSame, OutputSame, Holders
<1> QED
  BY <1>3, <1>4, <1>5, <1>6, <1>7, <1>8 DEF RunnerInv

-----------------------------------------------------------------------------
(* The start of a tree.                                                      *)

\* The helper is started with all that was prepared.
LEMMA SpawnHelperStep ==
    ASSUME RunnerInv, RunnerTypeOK', SpawnHelper
    PROVE  RunnerInv'
<1>1. /\ pc = "helper" /\ pc' = "accept" /\ tree = 0 /\ helper = "none" /\ wire.target = None
      /\ tree' = 1 /\ helper' = "connect" /\ alive' = alive \union {Leader(1)}
      /\ unit' = (setup.resources = "applied")
      /\ UNCHANGED <<request, setup, enforced, wire, runs, left, leaderStatus, result>>
      /\ OutputSame
  BY DEF RunnerInv, TreeInv, SpawnHelper, BeforeHelper, ClockSame, wrap_resource_command
<1>2. ~Returned' /\ ~Watched' /\ ~Returned
  BY Zenon, <1>1 DEF RunnerInv, StatusInv, Watched, AtEnd, Returned
<1>3. SetupInv'
  BY <1>1 DEF RunnerInv, SetupInv, Handshakes, Degradable
<1>4. TreeInv'
  BY Zenon, <1>1, <1>2 DEF TreeInv, BeforeHelper, Handshakes, Leader
<1>5. EnforcedInv'
  BY ZenonT(30), <1>1, <1>2, RunnerAssumption DEF RunnerInv, EnforcedInv, SetupInv, RequiredEnforced
<1>6. StatusInv'
  <2>1. leaderStatus # "zero"
    BY <1>1 DEF RunnerInv, StatusInv, Trees
  <2> QED
    BY SMTT(30), <1>1, <1>2, <2>1 DEF RunnerInv, StatusInv, BeforeHelper, Handshakes, AtEnd, Exited
<1>7. GroupInv'
  BY SMTT(30), <1>1, <1>2 DEF GroupInv
<1>8. OutputInv'
  BY Zenon, <1>1, <1>2 DEF RunnerInv, OutputInv, OutputSame, BeforeHelper, Handshakes
<1> QED
  BY ZenonT(30), <1>3, <1>4, <1>5, <1>6, <1>7, <1>8 DEF RunnerInv

\* A tree without the helper is started when nothing is required and nothing promised.
LEMMA SpawnDirectStep ==
    ASSUME RunnerInv, RunnerTypeOK', SpawnDirect
    PROVE  RunnerInv'
<1>1. /\ pc = "direct" /\ pc' = "wait" /\ helper \in {"none", "over"}
      /\ tree \in 0..1 /\ tree' = tree + 1 /\ alive' = alive \union {Leader(tree + 1)}
      /\ helper = "over" => tree = 1 /\ Leader(1) \notin alive
      /\ setup.sandbox # "applied" /\ setup.resources # "applied" /\ Degradable
      /\ UNCHANGED <<request, setup, helper, enforced, wire, left, result>>
      /\ leaderStatus' = None
  BY DEF RunnerInv, TreeInv, SetupInv, UseHelper, SpawnDirect, HelperSame, ClockSame
<1>2. ~Returned' /\ ~Returned /\ tree' \in Trees
  BY SMTT(30), <1>1 DEF RunnerInv, StatusInv, Returned, Trees
<1> DEFINE r == [tree |-> tree + 1, sandboxed |-> FALSE, limited |-> unit']
<1>3. runs' = runs \union {r} /\ r.tree = tree'
  BY ZenonT(30), <1>1 DEF SpawnDirect
<1>4. SetupInv'
  BY SMTT(30), <1>1 DEF RunnerInv, SetupInv, Handshakes, Degradable
<1>5. TreeInv'
  BY <1>1, <1>2 DEF RunnerInv, TreeInv, BeforeHelper, Handshakes, Leader
<1>6. EnforcedInv'
  <2>1. RequiredEnforced'
    BY ZenonT(30), <1>1, <1>3 DEF RunnerInv, EnforcedInv, RequiredEnforced, Degradable
  <2>2. \A q \in runs : Confining(q, 1)' <=> Confining(q, 1)
    BY <1>1 DEF Confining
  <2>3. \E q \in runs' : Confining(q, tree)'
    BY ZenonT(30), <1>1, <1>3 DEF Confining
  <2> HIDE DEF r
  <2> QED
    BY Zenon, <1>1, <1>3, <2>1, <2>2, <2>3 DEF RunnerInv, EnforcedInv
<1>7. StatusInv'
  BY ZenonT(30), <1>1, <1>2, RunnerAssumption DEF RunnerInv, StatusInv, BeforeHelper, Handshakes, AtEnd, Exited
<1>8. GroupInv'
  BY SMTT(30), <1>1, <1>2 DEF GroupInv
<1>9. OutputInv'
  <2>1. io' = FreshPipes /\ reader' = [s \in Streams |-> "reading"]
    BY ZenonT(30) DEF SpawnDirect, Attached
  <2>2. \A s \in Streams : io'[s].written = io'[s].pipe + io'[s].captured /\ reader'[s] = "reading"
    BY <2>1 DEF FreshPipes
  <2> QED
    BY ZenonT(30), <1>1, <1>2, <2>2 DEF OutputInv, BeforeHelper, Handshakes
<1> QED
  BY <1>4, <1>5, <1>6, <1>7, <1>8, <1>9 DEF RunnerInv

-----------------------------------------------------------------------------
(* The helper.                                                               *)

\* A helper that lives may start its target and may end; nothing that run has settled
\* changes, whatever tree run is at.
LEMMA HelperFrame ==
    ASSUME RunnerInv, HelperRest, Leader(1) \in alive, helper \notin {"none", "over"},
           helper' # "none", alive' \subseteq alive \union {<<1, "target">>},
           \/ helper' = "over" /\ Leader(1) \notin alive'
           \/ helper' # "over" /\ Leader(1) \in alive' /\ leaderStatus' = leaderStatus,
           tree # 1 => leaderStatus' = leaderStatus,
           tree = 1 /\ leaderStatus' = "zero" =>
               left[1] = "zero" /\ <<1, "target">> \notin alive' /\ Leader(1) \notin alive'
    PROVE  SetupInv' /\ TreeInv' /\ StatusInv' /\ GroupInv' /\ OutputInv'
<1>1. UNCHANGED <<request, pc, setup, tree, left, result, io, reader>> /\ UNCHANGED <<Watched, Returned>>
  BY Zenon DEF HelperRest, OutputSame, Watched, Returned
<1>2. SetupInv'
  BY Zenon, <1>1 DEF RunnerInv, SetupInv, Degradable, UseHelper
<1>3. TreeInv'
  BY ZenonT(30), <1>1 DEF RunnerInv, TreeInv, Leader
<1>4. StatusInv'
  <2>1. Helped(1) /\ Helped(1)' /\ ~Helped(2) /\ ~Helped(2)'
    BY SMTT(30) DEF Helped
  <2>2. tree \in 0..2
    BY Zenon DEF RunnerInv, RunnerTypeOK
  <2>3. leaderStatus = "zero" => tree = 2
    BY SMTT(30), <2>2 DEF RunnerInv, StatusInv, Trees
  <2>4. leaderStatus' = "zero" => /\ tree \in Trees /\ left[tree] = "zero"
                                  /\ Target(tree)' \notin alive' /\ Leader(tree) \notin alive'
    <3>1. CASE tree = 2
      BY ZenonT(30), <1>1, <2>1, <3>1 DEF RunnerInv, StatusInv, Target, Leader
    <3>2. CASE tree = 1
      BY SMTT(30), <1>1, <2>1, <3>2 DEF Trees, Target, Leader
    <3> QED
      BY SMTT(30), <2>2, <2>3, <3>1, <3>2
  <2> QED
    BY Zenon, <1>1, <2>3, <2>4 DEF RunnerInv, StatusInv, Exited, Leader
<1>5. GroupInv'
  BY <1>1 DEF RunnerInv, GroupInv, Group, Leader, Roles, Descendants
<1>6. OutputInv'
  BY <1>1 DEF RunnerInv, OutputInv, Holders, Leader, Roles, Descendants
<1> QED
  BY Zenon, <1>2, <1>3, <1>4, <1>5, <1>6

\* The helper ends without zero.
LEMMA HelperFails ==
    ASSUME RunnerInv, HelperRest, Leader(1) \in alive, helper \notin {"none", "over"},
           HelperOver("nonzero") \/ HelperOver("signal"), UNCHANGED <<enforced, runs>>,
           wire'.target = wire.target \/ wire'.target = "failed"
    PROVE  SetupInv' /\ TreeInv' /\ EnforcedInv' /\ StatusInv' /\ GroupInv' /\ OutputInv'
<1>1. SetupInv' /\ TreeInv' /\ StatusInv' /\ GroupInv' /\ OutputInv'
  BY Zenon, HelperFrame DEF HelperOver
<1>2. UNCHANGED <<request, setup, runs, unit, tree, Watched>> /\ helper' = "over"
  BY ZenonT(30) DEF HelperRest, HelperOver, Watched, Returned
<1>3. EnforcedInv'
  BY ZenonT(30), <1>2 DEF RunnerInv, EnforcedInv, RequiredEnforced, Confining
<1> QED
  BY Zenon, <1>1, <1>3

\* The steps of the helper: it confines itself before it starts the target, and reports
\* a target only once it runs.
LEMMA HelperSteps ==
    ASSUME RunnerInv, RunnerTypeOK', HelperStep \/ HelperKilled
    PROVE  RunnerInv'
<1>1. /\ HelperRest /\ Leader(1) \in alive /\ helper \notin {"none", "over"}
      /\ UNCHANGED <<request, setup, unit, tree, Watched, left>>
  BY DEF HelperStep, HelperConnect, HelperSetUp, HelperSpawn, HelperReport, HelperReap, HelperKilled,
     HelperAt, HelperRest, Watched, Returned
<1>2. SUFFICES SetupInv' /\ TreeInv' /\ EnforcedInv' /\ StatusInv' /\ GroupInv' /\ OutputInv'
  BY SMTT(30) DEF RunnerInv
<1>3. CASE /\ HelperOver("nonzero") \/ HelperOver("signal")
           /\ UNCHANGED <<enforced, runs>>
           /\ wire'.target = wire.target \/ wire'.target = "failed"
  BY SMTT(30), <1>1, <1>3, HelperFails
<1>4. CASE HelperConnect
  <2>1. CASE helper = "connect" /\ helper' = "set_up" /\ UNCHANGED <<alive, leaderStatus, enforced, wire, runs>>
    <3>1. SetupInv' /\ TreeInv' /\ StatusInv' /\ GroupInv' /\ OutputInv'
      BY ZenonT(30), <1>1, <2>1, HelperFrame DEF RunnerInv, StatusInv
    <3>2. EnforcedInv'
      BY Zenon, <1>1, <2>1 DEF RunnerInv, EnforcedInv, RequiredEnforced, Confining
    <3> QED
      BY Zenon, <3>1, <3>2
  <2> QED
    BY Zenon, <1>3, <1>4, <2>1 DEF HelperConnect, HelperAt
<1>5. CASE HelperSetUp
  <2>1. CASE /\ helper = "set_up" /\ helper' = "spawn" /\ UNCHANGED <<alive, leaderStatus, runs>>
             /\ enforced' = [sandbox |-> request.sandbox # "none", limits |-> unit]
             /\ wire'.target = wire.target
    <3>1. SetupInv' /\ TreeInv' /\ StatusInv' /\ GroupInv' /\ OutputInv'
      BY Zenon, <1>1, <2>1, HelperFrame DEF RunnerInv, StatusInv
    <3>2. EnforcedInv'
      BY Zenon, <1>1, <2>1 DEF RunnerInv, EnforcedInv, RequiredEnforced, Confining
    <3> QED
      BY <3>1, <3>2
  <2>2. wire'.target = wire.target
    BY <1>5 DEF HelperSetUp, RunnerInv, RunnerTypeOK
  <2> QED
    BY ZenonT(30), <1>3, <1>5, <2>1, <2>2 DEF HelperSetUp, HelperAt
<1>6. CASE HelperSpawn
  <2>1. CASE /\ helper = "spawn" /\ helper' = "report" /\ alive' = alive \union {<<1, "target">>}
             /\ UNCHANGED <<wire, leaderStatus, enforced>>
             /\ runs' = runs \union {[tree |-> 1, sandboxed |-> enforced.sandbox,
                                      limited |-> enforced.limits]}
    <3>1. tree = 1 => leaderStatus # "zero"
      BY SMTT(30), <1>1 DEF RunnerInv, StatusInv
    <3>2. SetupInv' /\ TreeInv' /\ StatusInv' /\ GroupInv' /\ OutputInv'
      BY ZenonT(30), <1>1, <2>1, <3>1, HelperFrame
    <3> DEFINE r == [tree |-> 1, sandboxed |-> enforced.sandbox, limited |-> enforced.limits]
    <3>3. r.tree = 1 /\ r.sandboxed = enforced.sandbox /\ r.limited = enforced.limits
      BY SMTT(30)
    <3> HIDE DEF r
    <3>4. runs' = runs \union {r}
      BY SMTT(30), <2>1 DEF r
    <3>5. RequiredEnforced'
      BY Zenon, <1>1, <2>1, <3>3, <3>4 DEF RunnerInv, EnforcedInv, RequiredEnforced
    <3>6. \E q \in runs' : Confining(q, 1)'
      BY Zenon, <1>1, <2>1, <3>3, <3>4 DEF RunnerInv, EnforcedInv, SetupInv, Confining
    <3>7. Watched' => \E q \in runs' : Confining(q, tree)'
      BY ZenonT(30), <1>1, <3>4 DEF RunnerInv, EnforcedInv, Confining
    <3>8. EnforcedInv'
      BY Zenon, <2>1, <3>4, <3>5, <3>6, <3>7 DEF EnforcedInv
    <3> QED
      BY <3>2, <3>8
  <2>2. CASE HelperOver("nonzero") /\ UNCHANGED <<runs, enforced>>
    <3>1. wire'.target = wire.target \/ wire'.target = "failed"
      BY <1>6 DEF HelperSpawn, RunnerInv, RunnerTypeOK
    <3> QED
      BY SMTT(30), <1>3, <2>2, <3>1
  <2> QED
    BY <1>6, <2>1, <2>2 DEF HelperSpawn, HelperAt
<1>7. CASE HelperReport
  <2>1. CASE helper = "report" /\ helper' = "wait" /\ UNCHANGED <<alive, leaderStatus, enforced, runs>>
    <3>1. SetupInv' /\ TreeInv' /\ StatusInv' /\ GroupInv' /\ OutputInv'
      BY ZenonT(30), <1>1, <2>1, HelperFrame DEF RunnerInv, StatusInv
    <3>2. EnforcedInv'
      BY Zenon, <1>1, <2>1 DEF RunnerInv, EnforcedInv, RequiredEnforced, Confining
    <3> QED
      BY <3>1, <3>2
  <2> QED
    BY Zenon, <1>3, <1>7, <2>1 DEF HelperReport, HelperAt
<1>8. CASE HelperReap
  <2>1. /\ helper = "wait" /\ helper' = "over" /\ alive' = alive \ {Leader(1)}
        /\ <<1, "target">> \notin alive /\ UNCHANGED <<enforced, runs>>
        /\ leaderStatus' = IF tree = 1 THEN (IF left[1] = "zero" THEN "zero" ELSE "nonzero")
                           ELSE leaderStatus
        /\ wire'.target = wire.target
    BY <1>8 DEF HelperReap, HelperAt, HelperOver, RunnerInv, RunnerTypeOK
  <2>2. SetupInv' /\ TreeInv' /\ StatusInv' /\ GroupInv' /\ OutputInv'
    BY ZenonT(30), <1>1, <2>1, HelperFrame
  <2>3. EnforcedInv'
    BY Zenon, <1>1, <2>1 DEF RunnerInv, EnforcedInv, RequiredEnforced, Confining
  <2> QED
    BY <2>2, <2>3
<1>9. CASE HelperKilled
  BY Zenon, <1>3, <1>9 DEF HelperKilled
<1> QED
  BY Zenon, <1>4, <1>5, <1>6, <1>7, <1>8, <1>9 DEF HelperStep

-----------------------------------------------------------------------------
(* The handshake.                                                            *)

\* run goes on with the handshake or gives the helper up.
LEMMA HandshakeFrame ==
    ASSUME RunnerInv, pc \in Handshakes, pc' \in Handshakes,
           result'.termination = result.termination, result'.status = result.status,
           result'.outcome = result.outcome, result'.then = "direct" => Degradable,
           UNCHANGED <<request, setup, helper, enforced, wire, reader, io>>, TreeSame
    PROVE  SetupInv' /\ TreeInv' /\ EnforcedInv' /\ StatusInv' /\ GroupInv' /\ OutputInv'
<1>1. ~Returned /\ ~Returned' /\ ~Watched' /\ UNCHANGED <<tree, alive, runs, left, leaderStatus, unit>>
  BY Zenon DEF RunnerInv, StatusInv, Returned, Watched, Handshakes, AtEnd, TreeSame
<1>2. SetupInv'
  BY Zenon DEF RunnerInv, SetupInv, Handshakes, Degradable
<1>3. TreeInv'
  BY Zenon, <1>1 DEF RunnerInv, TreeInv, Handshakes, BeforeHelper, Leader
<1>4. EnforcedInv'
  BY Zenon, <1>1 DEF RunnerInv, EnforcedInv, RequiredEnforced, Confining
<1>5. StatusInv'
  BY Zenon, <1>1 DEF RunnerInv, StatusInv, Handshakes, BeforeHelper, AtEnd, Exited, Target, Leader, Helped
<1>6. GroupInv'
  BY Zenon, <1>1 DEF GroupInv, Handshakes
<1>7. OutputInv'
  BY ZenonT(30), <1>1 DEF RunnerInv, OutputInv, Handshakes, BeforeHelper, Holders
<1> QED
  BY Zenon, <1>2, <1>3, <1>4, <1>5, <1>6, <1>7

\* The steps of the handshake.  It ends with the target of a confined helper, or without
\* a helper.
LEMMA HandshakeSteps ==
    ASSUME RunnerInv, RunnerTypeOK',
           HandshakeCancelled \/ HandshakeLost \/ Accepted \/ StatusRead \/ TargetRead
           \/ KillLeader \/ Abandoned
    PROVE  RunnerInv'
<1>1. pc \in Handshakes /\ ~Returned /\ tree = 1 /\ helper # "none"
  BY Zenon DEF RunnerInv, StatusInv, TreeInv, Returned, HandshakeCancelled, HandshakeLost, Accepted,
     StatusRead, TargetRead, KillLeader, Abandoned, Handshake, Handshakes
<1>2. SUFFICES SetupInv' /\ TreeInv' /\ EnforcedInv' /\ StatusInv' /\ GroupInv' /\ OutputInv'
  BY SMTT(30) DEF RunnerInv
<1>3. ASSUME NEW then, NEW killed, Abandon(then, killed), then = "direct" => Degradable
      PROVE  SetupInv' /\ TreeInv' /\ EnforcedInv' /\ StatusInv' /\ GroupInv' /\ OutputInv'
  <2>1. /\ result'.termination = result.termination /\ result'.status = result.status
        /\ result'.outcome = result.outcome /\ result'.then = then
    BY <1>3 DEF Abandon, RunnerInv, RunnerTypeOK
  <2>2. pc' \in Handshakes /\ TreeSame
        /\ UNCHANGED <<request, setup, helper, enforced, wire, reader, io>>
    BY SMTT(30), <1>3 DEF Abandon, Handshakes, OutputSame, ClockSame
  <2> QED
    BY Zenon, <1>1, <1>3, <2>1, <2>2, HandshakeFrame
<1>4. ASSUME NEW where, Handshake(where), pc' \in Handshakes, UNCHANGED result, OutputSame
      PROVE  SetupInv' /\ TreeInv' /\ EnforcedInv' /\ StatusInv' /\ GroupInv' /\ OutputInv'
  <2>1. result.then = "direct" => Degradable
    BY SMTT(30) DEF RunnerInv, SetupInv
  <2>2. TreeSame /\ UNCHANGED <<request, setup, helper, enforced, wire, reader, io>>
    BY <1>4 DEF Handshake, HelperSame, OutputSame, ClockSame, TreeSame
  <2> QED
    BY Zenon, <1>1, <1>4, <2>1, <2>2, HandshakeFrame
<1>5. CASE HandshakeCancelled
  BY Zenon, <1>3, <1>5 DEF HandshakeCancelled
<1>6. CASE HandshakeLost
  BY ZenonT(30), <1>3, <1>6 DEF HandshakeLost, BeforeTarget
<1>7. CASE Accepted
  BY <1>4, <1>7 DEF Accepted, Handshakes
<1>8. CASE StatusRead
  BY Zenon, <1>3, <1>4, <1>8 DEF StatusRead, BeforeTarget, Handshakes
<1>9. CASE TargetRead
  <2>1. CASE /\ wire.target = "ok" /\ Handshake("second")
             /\ pc' = "wait" /\ Attached /\ UNCHANGED <<io, result>>
    <3>1. /\ ~Returned' /\ Watched' /\ reader' = [s \in Streams |-> "reading"]
          /\ UNCHANGED <<request, setup, tree, alive, runs, left, leaderStatus, unit,
                         helper, enforced, wire>>
      BY ZenonT(30), <1>1, <2>1 DEF Returned, Watched, Attached, Handshake, HelperSame, ClockSame
    <3>2. SetupInv'
      BY ZenonT(30), <2>1, <3>1 DEF RunnerInv, SetupInv, Degradable, Handshakes
    <3>3. TreeInv'
      BY SMTT(30), <1>1, <2>1, <3>1 DEF RunnerInv, TreeInv, BeforeHelper, Handshakes, Leader, Trees
    <3>4. EnforcedInv'
      BY Zenon, <1>1, <2>1, <3>1 DEF RunnerInv, EnforcedInv, RequiredEnforced, Confining
    <3>5. StatusInv'
      BY Zenon, <1>1, <2>1, <3>1 DEF RunnerInv, StatusInv, Handshakes, BeforeHelper, AtEnd, Exited, Target, Leader, Helped
    <3>6. GroupInv'
      BY Zenon, <2>1, <3>1 DEF GroupInv
    <3>7. OutputInv'
      BY Zenon, <2>1, <3>1 DEF RunnerInv, OutputInv, Handshakes, BeforeHelper
    <3> QED
      BY <3>2, <3>3, <3>4, <3>5, <3>6, <3>7
  <2> QED
    BY Zenon, <1>3, <1>9, <2>1 DEF TargetRead
<1>10. CASE KillLeader
  <2>1. /\ pc' = "abandon" /\ ~Returned' /\ ~Watched' /\ alive' = alive \ {Leader(1)}
        /\ leaderStatus' = "signal" /\ helper' = "over"
        /\ UNCHANGED <<request, setup, tree, runs, left, unit, enforced, wire, result, io, reader>>
    BY Zenon, <1>1, <1>10 DEF KillLeader, Returned, Watched, AtEnd, OutputSame, ClockSame
  <2>2. SetupInv'
    BY Zenon, <1>1, <2>1 DEF RunnerInv, SetupInv, Degradable, Handshakes
  <2>3. TreeInv'
    BY Zenon, <1>1, <2>1 DEF TreeInv, BeforeHelper, Handshakes, Leader
  <2>4. EnforcedInv'
    BY Zenon, <2>1 DEF RunnerInv, EnforcedInv, RequiredEnforced, Confining
  <2>5. StatusInv'
    BY Zenon, <1>1, <2>1, RunnerAssumption DEF RunnerInv, StatusInv, Handshakes, BeforeHelper, AtEnd, Exited
  <2>6. GroupInv'
    BY ZenonT(30), <2>1 DEF GroupInv
  <2>7. OutputInv'
    BY Zenon, <1>1, <2>1 DEF RunnerInv, OutputInv, Handshakes, BeforeHelper
  <2> QED
    BY <2>2, <2>3, <2>4, <2>5, <2>6, <2>7
<1>11. CASE Abandoned
  <2>1. /\ pc = "abandon" /\ Leader(1) \notin alive /\ helper = "over"
        /\ pc' = "direct" \/ pc' = "done"
        /\ UNCHANGED <<request, tree, alive, runs, left, leaderStatus, unit,
                       helper, enforced, wire, io, reader>>
    BY SMTT(30), <1>1, <1>11 DEF RunnerInv, TreeInv, Abandoned, Fail, TreeSame, HelperSame, OutputSame, ClockSame
  <2>2. /\ result'.termination = result.termination /\ result'.status = result.status
        /\ result'.then = result.then /\ ~Returned' /\ ~Watched'
    BY SMTT(30), <1>1, <1>11, <2>1, RunnerAssumption DEF RunnerInv, RunnerTypeOK, Abandoned, Fail, Returned, Watched,
       AtEnd, Errors
  <2>3. /\ setup'.sandbox = "applied" => setup.sandbox = "applied"
        /\ setup'.resources = "applied" => setup.resources = "applied"
        /\ pc' = "direct" => /\ Degradable
                             /\ setup'.resources # "applied" /\ setup'.sandbox # "applied"
    BY SMTT(30), <1>1, <1>11, RunnerAssumption DEF RunnerInv, SetupInv, Abandoned, Degraded, Fail
  <2>4. SetupInv'
    BY Zenon, <2>1, <2>2, <2>3 DEF RunnerInv, SetupInv, Degradable, Handshakes, UseHelper
  <2>5. TreeInv'
    BY Zenon, <1>1, <2>1, <2>2 DEF RunnerInv, TreeInv, BeforeHelper, Handshakes, Leader
  <2>6. EnforcedInv'
    BY Zenon, <2>1, <2>2, <2>3 DEF RunnerInv, EnforcedInv, RequiredEnforced, Confining
  <2>7. StatusInv'
    BY Zenon, <1>1, <2>1, <2>2 DEF RunnerInv, StatusInv, Handshakes, BeforeHelper, AtEnd, Exited, Target, Leader, Helped
  <2>8. GroupInv'
    BY Zenon, <2>1, <2>2 DEF GroupInv
  <2>9. OutputInv'
    BY Zenon, <1>1, <2>1, <2>2 DEF RunnerInv, OutputInv, Handshakes, BeforeHelper, Holders
  <2> QED
    BY <2>4, <2>5, <2>6, <2>7, <2>8, <2>9
<1> QED
  BY Zenon, <1>5, <1>6, <1>7, <1>8, <1>9, <1>10, <1>11

-----------------------------------------------------------------------------
(* The processes, the readers and the clock.                                 *)

\* What goes on outside run changes nothing about what was prepared and enforced.
LEMMA WorldFrame ==
    ASSUME RunnerInv, WorldRest
    PROVE  /\ SetupInv' /\ EnforcedInv'
           /\ UNCHANGED <<request, pc, setup, tree, result, helper, Returned, Watched, wire>>
<1>1. UNCHANGED <<request, pc, setup, tree, runs, unit, result, helper, enforced, wire, Returned, Watched>>
  BY Zenon DEF WorldRest, HelperSame, Returned, Watched
<1>2. SetupInv'
  BY Zenon, <1>1 DEF RunnerInv, SetupInv, Degradable, UseHelper
<1>3. EnforcedInv'
  BY Zenon, <1>1 DEF RunnerInv, EnforcedInv, RequiredEnforced, Confining
<1> QED
  BY Zenon, <1>1, <1>2, <1>3

\* Which processes of a tree count for its group and its pipes.
LEMMA GroupMembers ==
    ASSUME NEW k \in Trees
    PROVE  /\ Target(k) \in Group(k) /\ Target(k) \in Holders(k)
           /\ Leader(k) \in Group(k) /\ Leader(k) \in Holders(k)
           /\ \A j, role : j # k => <<j, role>> \notin Group(k) /\ <<j, role>> \notin Holders(k)
BY Zenon DEF Target, Leader, Group, Holders, Roles, Descendants

\* A target forks, exits, and so do its descendants.
LEMMA TargetSteps ==
    ASSUME RunnerInv, RunnerTypeOK', NEW k \in Trees,
           TargetForks(k) \/ TargetExits(k) \/ DescendantExits(k)
    PROVE  RunnerInv'
<1>1. WorldRest /\ OutputSame
  BY Zenon DEF TargetForks, TargetExits, DescendantExits
<1>2. /\ SetupInv' /\ EnforcedInv'
      /\ UNCHANGED <<request, pc, setup, tree, result, helper, Returned, Watched, wire, io, reader>>
  BY Zenon, <1>1, WorldFrame DEF OutputSame
<1>3. SUFFICES TreeInv' /\ StatusInv' /\ GroupInv' /\ OutputInv'
  BY ZenonT(30), <1>2 DEF RunnerInv
<1>4. \A j : Target(j)' = Target(j) /\ Leader(j)' = Leader(j) /\ Helped(j)' = Helped(j)
  BY Zenon, <1>2 DEF Target, Leader, Helped
<1>5. CASE TargetForks(k)
  <2>1. PICK role \in Descendants : alive' = alive \union {<<k, role>>}
    BY ZenonT(30), <1>5, RunnerAssumption DEF TargetForks, RunnerInv, RunnerTypeOK, RequestType
  <2>2. Target(k) \in alive /\ UNCHANGED <<left, leaderStatus>>
    BY Zenon, <1>5 DEF TargetForks
  <2>3. \A j : /\ Target(j) \in alive' <=> Target(j) \in alive
               /\ Leader(j) \in alive' <=> Leader(j) \in alive
    BY <2>1 DEF Target, Leader, Descendants
  <2>4. TreeInv'
    BY Zenon, <1>2, <1>4, <2>3 DEF RunnerInv, TreeInv
  <2>5. StatusInv'
    BY Zenon, <1>2, <1>4, <2>2, <2>3 DEF RunnerInv, StatusInv, Exited
  <2>6. /\ alive \intersect Group(tree) = {} => alive' \intersect Group(tree) = {}
        /\ alive \intersect Holders(tree) = {} => alive' \intersect Holders(tree) = {}
    <3>1. CASE k = tree
      BY Zenon, <2>2, <3>1, GroupMembers
    <3>2. CASE k # tree
      BY SMTT(30), <2>1, <3>2 DEF Group, Holders
    <3> QED
      BY Zenon, <3>1, <3>2
  <2>7. GroupInv'
    BY Zenon, <1>2, <2>6 DEF RunnerInv, GroupInv, Group
  <2>8. OutputInv'
    BY Zenon, <1>2, <2>6 DEF RunnerInv, OutputInv, Holders
  <2> QED
    BY Zenon, <2>4, <2>5, <2>7, <2>8
<1>6. CASE TargetExits(k) \/ DescendantExits(k)
  <2>1. alive' \subseteq alive
    BY Zenon, <1>6 DEF TargetExits, DescendantExits
  <2>2. GroupInv'
    BY Zenon, <1>2, <2>1 DEF RunnerInv, GroupInv, Group
  <2>3. OutputInv'
    BY ZenonT(30), <1>2, <2>1 DEF RunnerInv, OutputInv, Holders
  <2>4. CASE DescendantExits(k)
    <3>1. PICK role \in Descendants : alive' = alive \ {<<k, role>>}
      BY <2>4 DEF DescendantExits
    <3>2. UNCHANGED <<left, leaderStatus>>
      BY <2>4 DEF DescendantExits
    <3>3. \A j : /\ Target(j) \in alive' <=> Target(j) \in alive
                 /\ Leader(j) \in alive' <=> Leader(j) \in alive
      BY ZenonT(30), <3>1 DEF Target, Leader, Descendants
    <3>4. TreeInv'
      BY Zenon, <1>2, <1>4, <3>3 DEF RunnerInv, TreeInv
    <3>5. StatusInv'
      BY Zenon, <1>2, <1>4, <3>2, <3>3 DEF RunnerInv, StatusInv, Exited
    <3> QED
      BY SMTT(30), <2>2, <2>3, <3>4, <3>5
  <2>5. CASE TargetExits(k)
    <3>1. PICK status \in Statuses : Ends(k, status)
      BY Zenon, <2>5 DEF TargetExits
    <3>2. Target(k) \in alive /\ alive' = alive \ {Target(k)}
      BY Zenon, <2>5 DEF TargetExits
    <3>3. helper # "none" => (Leader(1) \in alive' <=> Leader(1) \in alive)
      BY Zenon, <3>2 DEF Target, Leader, Helped
    <3>4. TreeInv'
      BY Zenon, <1>2, <1>4, <3>2, <3>3 DEF RunnerInv, TreeInv
    <3>5. left \in [Trees -> Statuses \union {None}]
      BY Zenon DEF RunnerInv, RunnerTypeOK
    <3>6. CASE k = tree
      <4>1. leaderStatus # "zero"
        BY Zenon, <3>2, <3>6 DEF RunnerInv, StatusInv
      <4>2. CASE Helped(k)
        BY Zenon, <1>2, <2>2, <2>3, <3>1, <3>4, <4>1, <4>2 DEF RunnerInv, StatusInv, Exited, Ends
      <4>3. CASE ~Helped(k)
        <5>1. leaderStatus' = status /\ left'[tree] = status
          BY Zenon, <3>1, <3>5, <3>6, <4>3 DEF Ends
        <5>2. Target(tree) = Leader(tree) /\ Target(tree) \notin alive'
          BY <3>2, <3>6, <4>3 DEF Target
        <5> QED
          BY Zenon, <1>2, <1>4, <2>2, <2>3, <3>4, <3>6, <4>1, <5>1, <5>2 DEF RunnerInv, StatusInv, Exited
      <4> QED
        BY Zenon, <4>2, <4>3
    <3>7. CASE k # tree
      <4>1. leaderStatus' = leaderStatus /\ (tree \in Trees => left'[tree] = left[tree])
        BY Zenon, <3>1, <3>5, <3>7 DEF Ends
      <4>2. StatusInv'
        BY Zenon, <1>2, <1>4, <3>2, <4>1 DEF RunnerInv, StatusInv, Exited
      <4> QED
        BY Zenon, <2>2, <2>3, <3>4, <4>2
    <3> QED
      BY Zenon, <3>6, <3>7
  <2> QED
    BY Zenon, <1>6, <2>4, <2>5
<1> QED
  BY Zenon, <1>5, <1>6

\* What changes only the pipes, the readers or the clock concerns the pipes alone.
LEMMA PipeFrame ==
    ASSUME RunnerInv,
           UNCHANGED <<request, pc, setup, tree, alive, runs, left, leaderStatus, unit, result,
                       helper, enforced, wire>>
    PROVE  SetupInv' /\ TreeInv' /\ EnforcedInv' /\ StatusInv' /\ GroupInv'
<1>1. UNCHANGED <<Returned, Watched>>
  BY Zenon DEF Returned, Watched
<1>2. SetupInv'
  BY Zenon DEF RunnerInv, SetupInv, Degradable, UseHelper
<1>3. TreeInv'
  BY Zenon, <1>1 DEF RunnerInv, TreeInv, Leader
<1>4. EnforcedInv'
  BY Zenon, <1>1 DEF RunnerInv, EnforcedInv, RequiredEnforced, Confining
<1>5. StatusInv'
  BY ZenonT(30), <1>1 DEF RunnerInv, StatusInv, Exited, Target, Leader, Helped
<1>6. GroupInv'
  BY <1>1 DEF RunnerInv, GroupInv, Group
<1> QED
  BY Zenon, <1>2, <1>3, <1>4, <1>5, <1>6

\* A process writes, a reader reads or ends, stdin is written, a chunk is received, the
\* run is cancelled or its time is up.
LEMMA PipeSteps ==
    ASSUME RunnerInv, RunnerTypeOK',
           \/ \E s \in Streams : Write(s) \/ ReadChunk(s) \/ ReadEof(s)
           \/ StdinWritten \/ Receive \/ Cancel \/ Deadline
    PROVE  RunnerInv'
<1>1. UNCHANGED <<request, pc, setup, tree, alive, runs, left, leaderStatus, unit, result,
                  helper, enforced, wire>>
  BY Zenon DEF Write, ReadChunk, ReadEof, StdinWritten, Receive, Cancel, Deadline, WorldRest,
     HelperSame, TreeSame
<1>2. SUFFICES OutputInv'
  BY Zenon, <1>1, PipeFrame DEF RunnerInv
<1>3. UNCHANGED <<Returned, alive, tree, pc>>
  BY Zenon, <1>1 DEF Returned
<1>4. io \in [Streams -> PipeType] /\ reader \in [Streams -> {"off", "reading", "eof"}]
  BY Zenon DEF RunnerInv, RunnerTypeOK, PipeType
<1>5. ASSUME NEW s \in Streams, Write(s) PROVE OutputInv'
  <2> DEFINE next == [written |-> io[s].written + 1, pipe |-> io[s].pipe + 1,
                      captured |-> io[s].captured, dropped |-> io[s].dropped]
  <2>1. io[s] \in PipeType
    BY <1>4
  <2>2. io' = [io EXCEPT ![s] = next]
    BY SMTT(30), <1>4, <1>5, <2>1 DEF Write, PipeType
  <2>3. alive \intersect Holders(tree) # {}
    BY <1>5 DEF Write, Writers
  <2>4. reader' = reader /\ \A t \in Streams : reader[t] # "eof"
    BY Zenon, <1>5, <2>3 DEF Write, RunnerInv, OutputInv
  <2>5. \A t \in Streams : io'[t].written = io'[t].pipe + io'[t].captured
    <3> TAKE t \in Streams
    <3>1. io[t].written = io[t].pipe + io[t].captured
      BY ZenonT(30) DEF RunnerInv, OutputInv
    <3>2. CASE t = s
      BY <1>4, <2>1, <2>2, <3>1, <3>2 DEF PipeType
    <3>3. CASE t # s
      BY Zenon, <1>4, <2>2, <3>1, <3>3
    <3> QED
      BY ZenonT(30), <3>2, <3>3
  <2> QED
    BY ZenonT(30), <1>3, <2>4, <2>5 DEF RunnerInv, OutputInv
<1>6. ASSUME NEW s \in Streams, ReadChunk(s) PROVE OutputInv'
  <2>1. /\ \A t \in Streams : t # s => io'[t] = io[t]
        /\ io'[s].written = io[s].written
        /\ io[s].pipe > 0 /\ io'[s].pipe = io[s].pipe - 1
        /\ io'[s].captured = io[s].captured + 1
    BY Zenon, <1>4, <1>6, ChunkCounts
  <2>2. reader' = reader /\ reader[s] = "reading"
    BY ZenonT(30), <1>6 DEF ReadChunk
  <2>3. \A t \in Streams : io'[t].written = io'[t].pipe + io'[t].captured
    <3> TAKE t \in Streams
    <3>1. io[t].written = io[t].pipe + io[t].captured /\ io[t] \in PipeType
      BY Zenon, <1>4 DEF RunnerInv, OutputInv
    <3>2. io[t].written \in Nat /\ io[t].pipe \in Nat /\ io[t].captured \in Nat
      BY ZenonT(30), <3>1 DEF PipeType
    <3>3. CASE t = s
      BY SMTT(30), <2>1, <3>1, <3>2, <3>3
    <3>4. CASE t # s
      BY Zenon, <2>1, <3>1, <3>4
    <3> QED
      BY ZenonT(30), <3>3, <3>4
  <2>4. \A t \in Streams : reader[t] = "eof" => io'[t].pipe = 0
    BY Zenon, <2>1, <2>2 DEF RunnerInv, OutputInv
  <2> QED
    BY Zenon, <1>3, <2>2, <2>3, <2>4 DEF RunnerInv, OutputInv, Holders
<1>7. ASSUME NEW s \in Streams, ReadEof(s) PROVE OutputInv'
  <2>1. /\ io[s].pipe = 0 /\ alive \intersect Holders(tree) = {} /\ io' = io
        /\ reader' = [reader EXCEPT ![s] = "eof"] /\ reader[s] = "reading"
    BY Zenon, <1>7 DEF ReadEof
  <2>2. pc \notin BeforeHelper \union Handshakes \union {"direct"}
    BY Zenon, <2>1 DEF RunnerInv, OutputInv
  <2> QED
    BY Zenon, <1>3, <1>4, <2>1, <2>2 DEF RunnerInv, OutputInv, Holders
<1>8. CASE StdinWritten \/ Receive \/ Cancel \/ Deadline
  <2>1. UNCHANGED <<io, reader>>
    BY Zenon, <1>8 DEF StdinWritten, Receive, Cancel, Deadline, OutputSame
  <2> QED
    BY Zenon, <1>3, <2>1 DEF RunnerInv, OutputInv, Holders
<1> QED
  BY Zenon, <1>5, <1>6, <1>7, <1>8

-----------------------------------------------------------------------------
(* The end of a run.                                                         *)

\* Steps of the end that kill nobody: they may take back what was reported as applied,
\* never add to it.
LEMMA EndFrame ==
    ASSUME RunnerInv, pc \in AtEnd \union {"wait"}, pc' \in AtEnd \union {"done"},
           Returned' => pc' = "done", pc' = "done" => Returned',
           setup'.sandbox = setup.sandbox,
           setup'.resources = "applied" => setup.resources = "applied",
           result'.then = result.then,
           UNCHANGED request, TreeSame, HelperSame, OutputSame
    PROVE  /\ SetupInv' /\ TreeInv' /\ EnforcedInv'
           /\ (Returned' => \A s \in Streams : reader[s] = "eof") => OutputInv'
           /\ ~Returned
<1>1. /\ ~Returned /\ Watched /\ Watched'
      /\ pc' \notin BeforeHelper \union Handshakes \union {"direct"}
      /\ UNCHANGED <<request, tree, alive, runs, left, leaderStatus, unit, helper, enforced,
                     wire, io, reader>>
  BY Zenon DEF RunnerInv, StatusInv, Watched, AtEnd, BeforeHelper, Handshakes, TreeSame, HelperSame, OutputSame
<1>2. SetupInv'
  BY Zenon, <1>1 DEF RunnerInv, SetupInv, Degradable, BeforeHelper, Handshakes
<1>3. TreeInv'
  BY Zenon, <1>1 DEF RunnerInv, TreeInv, Leader
<1>4. EnforcedInv'
  BY Zenon, <1>1 DEF RunnerInv, EnforcedInv, RequiredEnforced, Confining
<1>5. (Returned' => \A s \in Streams : reader[s] = "eof") => OutputInv'
  BY Zenon, <1>1 DEF RunnerInv, OutputInv, Holders
<1> QED
  BY Zenon, <1>1, <1>2, <1>3, <1>4, <1>5

\* The wait is settled, the counters are read, the leader reaped, stdin and the readers
\* awaited.
LEMMA EndSteps ==
    ASSUME RunnerInv, RunnerTypeOK',
           Settled \/ ResourceStatus \/ Reap \/ AwaitStdin \/ JoinReaders
    PROVE  RunnerInv'
<1> USE RunnerAssumption
<1>1. result \in ResultType /\ result' \in ResultType /\ ~Returned
      /\ pc \in AtEnd \union {"wait"}
  BY DEF RunnerInv, RunnerTypeOK, ResultType, StatusInv, Returned, Settled, Settle,
     ResourceStatus, Reap, AwaitStdin, JoinReaders, AtEnd
<1>2. TreeSame /\ HelperSame /\ OutputSame /\ UNCHANGED request
  BY DEF Settled, Settle, ResourceStatus, Reap, AwaitStdin, JoinReaders, ClockSame
<1>3. result'.then = result.then
  BY ZenonT(30), <1>1 DEF ResultType, Settled, Settle, ResourceStatus, Reap, AwaitStdin, JoinReaders, Fail
<1>4. pc' \in AtEnd \union {"done"} /\ (Returned' <=> pc' = "done")
  BY ZenonT(30), <1>1 DEF ResultType, Settled, Settle, ResourceStatus, Reap, AwaitStdin, JoinReaders, Fail,
     AtEnd, Returned
<1>5. setup'.sandbox = setup.sandbox /\ (setup'.resources = "applied" => setup.resources = "applied")
  BY DEF RunnerInv, RunnerTypeOK, Settled, Settle, ResourceStatus, Reap, AwaitStdin, JoinReaders
<1>6. Returned' => \A s \in Streams : reader[s] = "eof"
  BY ZenonT(30), <1>1 DEF Returned, AtEnd, Settled, Settle, ResourceStatus, ResultType, Reap, AwaitStdin, JoinReaders
<1>7. SetupInv' /\ TreeInv' /\ EnforcedInv' /\ OutputInv'
  BY Zenon, <1>1, <1>2, <1>3, <1>4, <1>5, <1>6, EndFrame
<1>8. UNCHANGED <<tree, alive, left, leaderStatus, helper>>
  BY SMTT(30), <1>2 DEF TreeSame, HelperSame
<1>9. StatusInv'
  <2>1. leaderStatus' = "zero" => /\ tree' \in Trees /\ left'[tree'] = "zero"
                                  /\ Target(tree)' \notin alive' /\ Leader(tree)' \notin alive'
    BY Zenon, <1>8 DEF RunnerInv, StatusInv, Target, Leader, Helped
  <2>2. pc' \notin BeforeHelper \union Handshakes \union {"direct", "wait"}
    BY <1>4 DEF BeforeHelper, Handshakes, AtEnd
  <2>3. result'.termination \in Terminations
    BY ZenonT(30), <1>1 DEF RunnerInv, StatusInv, ResultType, Terminations, Settled, Settle, ResourceStatus,
       Reap, AwaitStdin, JoinReaders, Fail, AtEnd
  <2>4. pc' # "reap" /\ (Exited' /\ result'.status = "zero" => leaderStatus' = "zero")
    <3>1. CASE Settled
      BY ZenonT(30), <1>1, <1>8, <3>1 DEF Settled, Settle, ResultType, Exited
    <3>2. CASE ResourceStatus \/ AwaitStdin \/ JoinReaders
      <4>1. result'.termination = result.termination /\ result'.status = result.status /\ pc' # "reap"
        BY SMTT(30), <1>1, <3>2 DEF ResourceStatus, AwaitStdin, JoinReaders, Fail, ResultType
      <4> QED
        BY Zenon, <1>8, <4>1 DEF RunnerInv, StatusInv, Exited
    <3>3. CASE Reap
      <4>1. ~Exited /\ result'.termination = result.termination /\ pc' # "reap"
        BY SMTT(30), <1>1, <3>3 DEF RunnerInv, StatusInv, Reap, ResultType
      <4> QED
        BY <4>1 DEF Exited
    <3> QED
      BY <3>1, <3>2, <3>3
  <2> QED
    BY Zenon, <1>4, <2>1, <2>2, <2>3, <2>4 DEF StatusInv
<1>10. GroupInv'
  <2>1. CASE Settled \/ ResourceStatus
    BY Zenon, <1>1, <1>4, <2>1 DEF GroupInv, Settled, Settle, ResourceStatus
  <2>2. CASE Reap \/ AwaitStdin \/ JoinReaders
    <3>1. result'.signalError = result.signalError /\ pc \in {"reap", "stdin", "join"}
      BY SMTT(30), <1>1, <2>2 DEF Reap, AwaitStdin, JoinReaders, Fail, ResultType
    <3> QED
      BY Zenon, <1>8, <3>1 DEF RunnerInv, GroupInv, Group
  <2> QED
    BY <2>1, <2>2
<1> QED
  BY Zenon, <1>7, <1>9, <1>10 DEF RunnerInv

\* The scope is stopped, and the group terminated and killed.
LEMMA KillSteps ==
    ASSUME RunnerInv, RunnerTypeOK', StopUnit \/ TermGroup \/ KillGroup
    PROVE  RunnerInv'
<1>1. /\ pc \in {"unit", "term", "kill"} /\ KillSame
      /\ pc' \in {"term", "kill", "reap", "stdin"}
  BY DEF StopUnit, TermGroup, KillGroup
<1>2. result \in ResultType /\ (result' = result \/ result' = [result EXCEPT !.signalError = TRUE])
  BY DEF StopUnit, TermGroup, KillGroup, RunnerInv, RunnerTypeOK, ResultType
<1>3. /\ result'.termination = result.termination /\ result'.status = result.status
      /\ result'.then = result.then /\ result'.outcome = result.outcome
  BY <1>2 DEF ResultType
<1>4. PICK victims : Killed(victims)
  BY Zenon DEF StopUnit, TermGroup, KillGroup
<1>5. /\ ~Returned /\ ~Returned' /\ Watched /\ Watched' /\ tree \in Trees
      /\ result.termination \in Terminations
      /\ UNCHANGED <<request, setup, tree, runs, unit, enforced, wire, io, reader>>
  BY Zenon, <1>1, <1>3 DEF RunnerInv, StatusInv, TreeInv, Returned, Watched, AtEnd, KillSame, OutputSame, ClockSame
<1>6. \A k : Target(k)' = Target(k) /\ Leader(k)' = Leader(k)
  BY ZenonT(30), <1>4 DEF Killed, Target, Leader, Helped
<1>7. alive' \subseteq alive
  BY <1>4 DEF Killed
<1>8. helper' # "over" => helper' = helper
  BY Zenon, <1>4 DEF Killed
<1>9. SetupInv'
  BY Zenon, <1>1, <1>3, <1>5 DEF RunnerInv, SetupInv, Degradable, Handshakes
<1>10. TreeInv'
  <2>1. helper' \notin {"none", "over"} => Leader(1) \in alive'
    BY Zenon, <1>4 DEF Killed, RunnerInv, TreeInv
  <2>2. helper' = "over" => Leader(1) \notin alive'
    BY Zenon, <1>4 DEF Killed, RunnerInv, TreeInv
  <2> QED
    BY Zenon, <1>1, <1>5, <1>6, <2>1, <2>2 DEF TreeInv, BeforeHelper, Handshakes
<1>11. EnforcedInv'
  BY Zenon, <1>5, <1>8 DEF RunnerInv, EnforcedInv, RequiredEnforced, Confining
<1>12. StatusInv'
  <2>1. leaderStatus' = "zero" => leaderStatus = "zero"
    BY ZenonT(30), <1>4 DEF Killed
  <2>2. leaderStatus = "zero" => leaderStatus' = "zero" /\ left'[tree] = "zero"
    BY Zenon, <1>4, <1>5 DEF Killed, RunnerInv, StatusInv
  <2>3. pc' = "reap" => ~Exited
    BY Zenon DEF StopUnit, TermGroup, KillGroup
  <2>4. leaderStatus' = "zero" => /\ tree' \in Trees /\ left'[tree'] = "zero"
                                  /\ Target(tree)' \notin alive' /\ Leader(tree)' \notin alive'
    BY Zenon, <1>5, <1>6, <1>7, <2>1, <2>2 DEF RunnerInv, StatusInv
  <2>5. Exited' /\ result'.status = "zero" => leaderStatus' = "zero"
    BY Zenon, <1>3, <2>2 DEF RunnerInv, StatusInv, Exited
  <2> QED
    BY Zenon, <1>1, <1>3, <1>5, <2>3, <2>4, <2>5 DEF StatusInv, Exited, BeforeHelper, Handshakes
<1>13. GroupInv'
  <2>1. CASE StopUnit
    BY ZenonT(30), <1>5, <2>1 DEF StopUnit, GroupInv
  <2>2. CASE TermGroup
    <3>1. pc' \in {"reap", "stdin", "join"} /\ ~result'.signalError => alive \intersect Group(tree) = {}
      BY ZenonT(30), <1>2, <2>2 DEF TermGroup, GroupThere, ResultType
    <3> QED
      BY <1>5, <1>7, <3>1 DEF GroupInv, Group
  <2>3. CASE KillGroup
    <3>1. ~result'.signalError => alive' \intersect Group(tree) = {}
      BY Zenon, <1>2, <2>3 DEF KillGroup, Killed, ResultType
    <3> QED
      BY <1>5, <3>1 DEF GroupInv, Group
  <2> QED
    BY <2>1, <2>2, <2>3
<1>14. OutputInv'
  BY Zenon, <1>1, <1>5, <1>7 DEF RunnerInv, OutputInv, Holders, BeforeHelper, Handshakes
<1> QED
  BY <1>9, <1>10, <1>11, <1>12, <1>13, <1>14 DEF RunnerInv

-----------------------------------------------------------------------------
(* The invariant and what it gives.                                          *)

\* A run starts with nothing prepared, nothing started and nothing found out.
LEMMA RunnerStart == Init => RunnerInv
<1> SUFFICES ASSUME Init PROVE RunnerInv
  BY Zenon
<1>1. /\ io = [s \in Streams |-> [written |-> 0, pipe |-> 0, captured |-> 0, dropped |-> 0]]
      /\ reader = [s \in Streams |-> "off"] /\ queue = 0 /\ tree = 0
      /\ pc = "start" /\ result.outcome = None
  BY Zenon DEF Init, FreshPipes
<1>2. RunnerTypeOK
  <2>1. io \in [Streams -> PipeType] /\ reader \in [Streams -> {"off", "reading", "eof"}]
    <3>1. [written |-> 0, pipe |-> 0, captured |-> 0, dropped |-> 0] \in PipeType
      BY SMTT(30) DEF PipeType
    <3> QED
      BY Zenon, <1>1, <3>1
  <2>2. queue \in 0..Channel /\ tree \in 0..2
    BY <1>1, RunnerAssumption
  <2>3. left \in [Trees -> Statuses \union {None}] /\ wire \in WireType /\ result \in ResultType
    BY Zenon DEF Init, WireType, ResultType
  <2> QED
    BY Zenon, <2>1, <2>2, <2>3 DEF Init, RunnerTypeOK, Outcomes, PipeType, WireType, ResultType
<1> USE RunnerAssumption DEF Init
<1>3. SetupInv /\ TreeInv
  BY Zenon DEF SetupInv, TreeInv, Handshakes, BeforeHelper, Watched, AtEnd, Returned
<1>4. EnforcedInv
  BY Zenon DEF EnforcedInv, RequiredEnforced, Watched, AtEnd, Returned
<1>5. StatusInv
  BY Zenon DEF StatusInv, BeforeHelper, AtEnd, Returned, Exited
<1>6. GroupInv
  BY Zenon DEF GroupInv, Returned
<1>7. OutputInv
  <2> HIDE DEF Init
  <2>1. ~Returned
    BY Zenon, <1>1, RunnerAssumption DEF Returned
  <2>2. \A s \in Streams : io[s].written = 0 /\ io[s].pipe = 0 /\ io[s].captured = 0 /\ reader[s] = "off"
    BY ZenonT(30), <1>1
  <2>3. \A s \in Streams : io[s].written = io[s].pipe + io[s].captured
    BY SMTT(30), <2>2
  <2> QED
    BY Zenon, <2>1, <2>2, <2>3 DEF OutputInv
<1> QED
  BY Zenon, <1>2, <1>3, <1>4, <1>5, <1>6, <1>7 DEF RunnerInv

\* Every step of run, of the helper, of the processes and of the clock keeps it.
LEMMA RunnerStep == RunnerInv /\ [Next]_vars => RunnerInv'
<1> SUFFICES ASSUME RunnerInv, [Next]_vars PROVE RunnerInv'
  OBVIOUS
<1>0. RunnerTypeOK /\ TreeInv
  BY DEF RunnerInv
<1>1. CASE Start \/ PrepareNone \/ PrepareTrusted \/ OpenChannel \/ SpawnFailed
  BY SMTT(30), <1>0, <1>1, RunTypes, EarlySteps
<1>2. CASE SpawnHelper
  BY <1>0, <1>2, HelperTypes, SpawnHelperStep
<1>3. CASE SpawnDirect
  BY <1>0, <1>3, HelperTypes, SpawnDirectStep
<1>4. CASE HelperStep \/ HelperKilled
  BY SMTT(30), <1>0, <1>4, HelperTypes, HelperSteps
<1>5. CASE Accepted
  BY SMTT(30), <1>0, <1>5, RunTypes, HandshakeSteps
<1>6. CASE HandshakeCancelled \/ HandshakeLost \/ StatusRead \/ TargetRead \/ KillLeader \/ Abandoned
  BY SMTT(30), <1>0, <1>6, HandshakeTypes, HandshakeSteps
<1>7. ASSUME NEW k \in Trees, TargetForks(k) \/ TargetExits(k) \/ DescendantExits(k)
      PROVE  RunnerInv'
  BY SMTT(30), <1>0, <1>7, ProcessTypes, TargetSteps
<1>8. CASE \/ \E s \in Streams : Write(s) \/ ReadChunk(s) \/ ReadEof(s)
           \/ StdinWritten \/ Receive \/ Cancel \/ Deadline
  BY SMTT(30), <1>0, <1>8, ProcessTypes, PipeSteps
<1>9. CASE Settled \/ ResourceStatus \/ Reap \/ AwaitStdin \/ JoinReaders
  BY SMTT(30), <1>0, <1>9, RunTypes, EndSteps
<1>10. CASE StopUnit \/ TermGroup \/ KillGroup
  BY <1>0, <1>10, KilledTypes, KillSteps
<1>11. CASE UNCHANGED vars
  <2>1. UNCHANGED <<request, pc, setup, tree, alive, runs, left, leaderStatus, unit, result,
                    helper, enforced, wire, io, reader>>
    BY Zenon, <1>11 DEF vars
  <2>2. UNCHANGED <<link, cancelled, elapsed, queue, overflow, stdin>>
    BY ZenonT(30), <1>11 DEF vars
  <2>3. RunnerTypeOK'
    <3>1. /\ request' \in Requests
          /\ pc' \in {"start", "prepare", "channel", "helper", "direct", "accept", "status", "second",
                      "give_up", "abandon", "wait", "resource", "unit", "term", "kill", "reap", "stdin",
                      "join", "done"}
          /\ setup' \in [sandbox : Outcomes, resources : Outcomes]
          /\ tree' \in 0..2 /\ alive' \subseteq Trees \X Roles
          /\ helper' \in {"none", "connect", "set_up", "spawn", "report", "wait", "over"}
      BY Zenon, <1>0, <2>1 DEF RunnerTypeOK
    <3>2. /\ enforced' \in [sandbox : BOOLEAN, limits : BOOLEAN]
          /\ wire' \in [setup : {None, "ok", "refuse", "reject"}, target : {None, "ok", "failed"},
                        post : {None} \union SUBSET {"exceeded", "unobserved"}]
          /\ runs' \subseteq [tree : Trees, sandboxed : BOOLEAN, limited : BOOLEAN]
          /\ left' \in [Trees -> Statuses \union {None}] /\ leaderStatus' \in Statuses \union {None}
      BY Zenon, <1>0, <2>1 DEF RunnerTypeOK
    <3>3. /\ io' \in [Streams -> [written : Nat, pipe : Nat, captured : Nat, dropped : Nat]]
          /\ reader' \in [Streams -> {"off", "reading", "eof"}]
          /\ result' \in [termination : Terminations \union {None}, status : Statuses \union {None},
                          exceeded : BOOLEAN, signalError : BOOLEAN,
                          then : {None, "direct"} \union Errors,
                          outcome : {None, "Ok"} \union Errors]
      BY Zenon, <1>0, <2>1 DEF RunnerTypeOK
    <3>4. /\ link' \in {"none", "open", "closed"} /\ queue' \in 0..Channel
          /\ stdin' \in {"off", "writing", "done"}
          /\ {unit', cancelled', elapsed', overflow'} \subseteq BOOLEAN
      BY Zenon, <1>0, <2>1, <2>2 DEF RunnerTypeOK
    <3> QED
      BY Zenon, <3>1, <3>2, <3>3, <3>4 DEF RunnerTypeOK
  <2>4. OutputInv'
    BY Zenon, <2>1 DEF RunnerInv, OutputInv, Returned, Holders
  <2> QED
    BY Zenon, <2>1, <2>3, <2>4, PipeFrame DEF RunnerInv
<1> QED
  BY SMTT(30), <1>1, <1>2, <1>3, <1>4, <1>5, <1>6, <1>7, <1>8, <1>9, <1>10, <1>11
     DEF Next, RunStep, Processes, Reading

\* The invariant of the runner holds always.
LEMMA RunnerInvariant == Spec => []RunnerInv
<1> QED
  BY RunnerStart, RunnerStep, PTL DEF Spec

\* Whatever fails and however often the request is started, no target runs outside what
\* the request requires (run, SandboxChannel::wait, the helper's restrict).
THEOREM RequiredEnforcedHolds == Spec => []RequiredEnforced
<1>1. RunnerInv => RequiredEnforced
  BY DEF RunnerInv, EnforcedInv
<1> QED
  BY <1>1, RunnerInvariant, PTL

\* A result that run returns is true of the process it is about: what is reported as
\* applied was applied to it, and a success is that of the target itself (run,
\* resource_result, execution_result).
THEOREM HonestResultHolds == Spec => []HonestResult
<1>1. RunnerInv => HonestReport
  BY Zenon DEF RunnerInv, EnforcedInv, HonestReport, Watched, Confining
<1>2. RunnerInv => SuccessIsReal
  <2> SUFFICES ASSUME RunnerInv, Returned, State = "Succeeded" PROVE left[tree] = "zero"
    BY SMTT(30) DEF SuccessIsReal
  <2>1. result.termination \in Terminations
    BY DEF RunnerInv, StatusInv
  <2>2. Exited /\ result.status = "zero"
    BY <2>1 DEF State, Exited, Terminations
  <2> QED
    BY <2>2 DEF RunnerInv, StatusInv
<1>3. RunnerInv => HonestResult
  BY <1>1, <1>2 DEF HonestResult
<1> QED
  BY <1>3, RunnerInvariant, PTL

\* When run returns its group is gone, unless a signal failed, everything that was written
\* was counted, and the channel never held more than its capacity (converge_after_leader_exit,
\* terminate_and_reap, spawn_reader, join_reader).
THEOREM ReturnIsEndHolds == Spec => []ReturnIsEnd
<1>1. RunnerInv => GroupConverged
  BY ZenonT(30) DEF RunnerInv, GroupInv, GroupConverged
<1>2. RunnerInv => OutputComplete
  <2> SUFFICES ASSUME RunnerInv, Returned, NEW s \in Streams
               PROVE  io[s].captured = io[s].written
    BY Zenon DEF OutputComplete
  <2>1. io[s] \in PipeType
    BY Zenon DEF RunnerInv, RunnerTypeOK, PipeType
  <2> QED
    BY <2>1 DEF RunnerInv, OutputInv, PipeType
<1>3. RunnerInv => ReturnIsEnd
  BY <1>1, <1>2 DEF ReturnIsEnd, RunnerInv
<1> QED
  BY <1>3, RunnerInvariant, PTL
=============================================================================

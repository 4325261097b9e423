-------------------------------- MODULE Admission --------------------------------
(***************************************************************************)
(* What becomes of an execution request from the client that encodes it to *)
(* the target that is started for it.  The same command is looked at four  *)
(* times, by rules that are written down four times: by execute            *)
(* (eggwork-server/src/lib.rs with ExecutionSpec::validate of              *)
(* eggwork-core), by RunnerRequest::validate and the set-up of the runner  *)
(* (eggwork-runner/src/lib.rs), by the channel to the sandbox helper and   *)
(* by the helper (eggwork-sandbox-helper/src/main.rs).                     *)
(*                                                                         *)
(* A text is its length and whether it has a NUL; the limits are the       *)
(* fields of Bound.  The row execute reserves is in ExecutionNode, who may *)
(* ask in Requests, when the node drains in Deployment and the processes   *)
(* of a run in Runner.                                                     *)
(***************************************************************************)
EXTENDS Integers, Sequences, TLC

CONSTANTS
    Wanted,         \* the requests clients make
    Bound,          \* the bounds on the parts of a request
    Identifiers,    \* the names of letters, digits and _ that do not start with a digit
    Assignable,     \* the names without = and NUL
    Denied,         \* the names denied_environment_key knows
    Baseline,       \* baseline_child_environment, as a sequence of entries
    Provenance,     \* the entries for the identity of the execution
    NameOrder,      \* the order of names, paths and metadata keys
    HostStates,     \* what may work on the host: subsets of HostFeatures
    Unset           \* no value

HostFeatures == {"helper", "landlock", "memory", "cpu", "pids"}
Dimensions == {"memory", "cpu", "pids"}

TextType == [bytes : Nat, nul : BOOLEAN]
RequirementType == [level : {"not_requested", "best_effort", "required"}, amount : Nat]

\* ExecutionSpec, with the size of its encoding and what its working directory is.
WantedType ==
    [bytes : Nat, schema : Nat, argv : Seq(TextType),
     environment : Seq([name : STRING, value : TextType]), stdin : Nat, timeout : Nat,
     capture : Nat, chunk : Nat, outputs : Seq(STRING \X STRING),
     memory : RequirementType, cpu : RequirementType, pids : RequirementType,
     isolation : {"None", "BestEffort", "Required"},
     network : {"Unrestricted", "Disabled", "AllowListed"},
     metadata : Seq(STRING \X STRING), workspace : STRING \union {Unset},
     cwd : {"inside", "outside", "missing"}]

ASSUME AdmissionAssumption ==
    /\ Wanted \subseteq WantedType
    /\ Identifiers \subseteq Assignable
    /\ HostStates \subseteq SUBSET HostFeatures
    /\ \A i \in DOMAIN Baseline : Baseline[i].name \in Identifiers
    /\ \A i \in DOMAIN Provenance : Provenance[i].name \in Identifiers \ Denied

VARIABLES
    wanted,     \* the request the client means
    host,       \* what works on the host
    features,   \* what the node advertises, probed when it started
    step,       \* how far the request is
    verdict,    \* why it was refused
    row,        \* the canonical version and digest of the row
    apply,      \* the SetupOutcome: what is to be enforced
    launch      \* how the target was started

admissionVars == <<wanted, host, features, step, verdict, row, apply, launch>>

----------------------------------------------------------------------------
(* The encoding of a request.                                                *)

\* Requirement::serialize.
Encoded(requirement) ==
    CASE requirement.level = "not_requested" -> [json |-> "null"]
      [] requirement.level = "best_effort" -> [json |-> "number", value |-> requirement.amount]
      [] requirement.level = "required" -> [json |-> "object", required |-> requirement.amount]

Requirement(level, amount) == [level |-> level, amount |-> amount]

\* Mutant of Decoded: an object with a limit is read like the limit.
Decoded_BestEffort(json) ==
    CASE json.json = "null" -> Requirement("not_requested", 0)
      [] json.json = "object" -> Requirement("best_effort", json.required)
      [] json.json = "number" -> Requirement("best_effort", json.value)

\* Requirement::deserialize.
Decoded(json) ==
    CASE json.json = "null" -> Requirement("not_requested", 0)
      [] json.json = "object" -> Requirement("required", json.required)
      [] json.json = "number" -> Requirement("best_effort", json.value)

\* The request as execute reads it.
Received(w) ==
    [w EXCEPT !.memory = Decoded(Encoded(@)), !.cpu = Decoded(Encoded(@)),
              !.pids = Decoded(Encoded(@))]

Before(a, b) == NameOrder[a] < NameOrder[b]

\* By the first field, then by the second.
BeforePair(a, b) == Before(a[1], b[1]) \/ (a[1] = b[1] /\ Before(a[2], b[2]))

\* Mutant of normalize_execution_spec: the metadata were added and not sorted.
normalize_execution_spec_Metadata(w) ==
    [w EXCEPT !.environment = SortSeq(@, LAMBDA a, b : Before(a.name, b.name)),
              !.outputs = SortSeq(@, BeforePair)]

normalize_execution_spec(w) ==
    [w EXCEPT !.environment = SortSeq(@, LAMBDA a, b : Before(a.name, b.name)),
              !.metadata = SortSeq(@, BeforePair),
              !.outputs = SortSeq(@, BeforePair)]

\* The version and the text that is hashed.  The size of the body is not part of it.
request_digest_with_workspace(w) ==
    [version |-> IF w.workspace = Unset THEN 2 ELSE 3,
     text |-> [normalize_execution_spec(w) EXCEPT !.bytes = 0]]

----------------------------------------------------------------------------
(* ExecutionSpec::validate, by its parts.                                    *)

Fits(text, max) == text.bytes =< max /\ ~text.nul

EnvironmentEntryNew(entry) == entry.name \in Identifiers /\ Fits(entry.value, Bound.env_value_bytes)

StdinPolicyValid(w) == w.stdin =< Bound.stdin_bytes

OutputPolicyValid(w) == w.capture =< Bound.capture_bytes /\ w.chunk \in 1..Bound.event_chunk_bytes

ResourcesValid(w) ==
    \A d \in Dimensions : w[d].level = "not_requested" \/ w[d].amount \in 1..Bound.amount

NamesDistinct(environment) ==
    \A i, j \in DOMAIN environment : environment[i].name = environment[j].name => i = j

\* Mutant of CommandValid: the entries of the environment are not looked at.
CommandValid_Names(w) ==
    /\ Len(w.argv) \in 1..Bound.arg_count
    /\ \A i \in DOMAIN w.argv : Fits(w.argv[i], Bound.arg_bytes)
    /\ Len(w.environment) =< Bound.env_count
    /\ NamesDistinct(w.environment)
    /\ Len(w.outputs) =< Bound.outputs
    /\ w.timeout \in 1..Bound.timeout
    /\ StdinPolicyValid(w) /\ OutputPolicyValid(w) /\ ResourcesValid(w)

\* CommandSpec::validate.
CommandValid(w) ==
    /\ Len(w.argv) \in 1..Bound.arg_count
    /\ \A i \in DOMAIN w.argv : Fits(w.argv[i], Bound.arg_bytes)
    /\ Len(w.environment) =< Bound.env_count
    /\ \A i \in DOMAIN w.environment : EnvironmentEntryNew(w.environment[i])
    /\ NamesDistinct(w.environment)
    /\ Len(w.outputs) =< Bound.outputs
    /\ w.timeout \in 1..Bound.timeout
    /\ StdinPolicyValid(w) /\ OutputPolicyValid(w) /\ ResourcesValid(w)

SpecValid(w) ==
    /\ CommandValid(w)
    /\ w.schema # 0
    /\ Len(w.metadata) =< Bound.metadata_count
    /\ \A i \in DOMAIN w.metadata : w.metadata[i][1] # "empty"

----------------------------------------------------------------------------
(* execute, up to the row.                                                   *)

Requested(w) == {d \in Dimensions : w[d].level # "not_requested"}
RequiredOf(w) == {d \in Dimensions : w[d].level = "required"}

check_isolation_supported(w) == w.isolation = "Required" => "landlock" \in features

check_resources_supported(w) == RequiredOf(w) \subseteq features

check_network_supported(w) == w.network = "Unrestricted"

\* The code of the answer to what the request is, or "accepted".
FormAnswer(w) ==
    IF w.bytes > Bound.request_bytes THEN "request_too_large"
    ELSE IF w.schema # 1 THEN "protocol_version"
    ELSE IF ~SpecValid(w) THEN "invalid_request"
    ELSE IF w.outputs # << >> /\ w.workspace = Unset THEN "workspace_required"
    ELSE "accepted"

\* The code of the answer of a node that does not drain, or "accepted".
Answer(w) ==
    IF FormAnswer(w) # "accepted" THEN FormAnswer(w)
    ELSE IF ~check_isolation_supported(w) \/ ~check_resources_supported(w)
            \/ ~check_network_supported(w) THEN "capability_mismatch"
    ELSE IF w.workspace = "gone" THEN "workspace_not_ready"
    ELSE "accepted"

\* While the node drains a request is refused once its form has been looked at, a retry too.
execute ==
    /\ step = "sent"
    /\ LET w == Received(wanted)
       IN  \/ /\ Answer(w) = "accepted"
              /\ step' = "accepted" /\ row' = request_digest_with_workspace(w)
              /\ UNCHANGED verdict
           \/ /\ Answer(w) # "accepted"
              /\ step' = "refused" /\ verdict' = Answer(w) /\ UNCHANGED row
           \/ /\ FormAnswer(w) = "accepted"
              /\ step' = "refused" /\ verdict' = "draining" /\ UNCHANGED row
    /\ UNCHANGED <<wanted, host, features, apply, launch>>

\* A later request with the same identity is joined to the row, when the node does not drain
\* and the workspace of the execution has not expired.
Joins(w) ==
    Answer(Received(w)) = "accepted" /\ request_digest_with_workspace(Received(w)) = row

----------------------------------------------------------------------------
(* The runner.                                                               *)

Fails(reason) == step' = "failed" /\ verdict' = reason

\* from_spec checks the command once more and keeps its parts as they are.
from_spec(w) == IF SpecValid(w) THEN {w} ELSE {}

\* What RunnerRequest::validate has to say of it.
RunnerValid(w) ==
    /\ Len(w.argv) \in 1..Bound.arg_count
    /\ \A i \in DOMAIN w.argv : w.argv[i].bytes > 0 /\ Fits(w.argv[i], Bound.arg_bytes)
    /\ Len(w.environment) =< Bound.env_count
    /\ \A i \in DOMAIN w.environment :
          w.environment[i].name \in Assignable /\ Fits(w.environment[i].value, Bound.env_value_bytes)
    /\ w.capture =< Bound.capture_bytes /\ w.chunk \in 1..Bound.event_chunk_bytes
    /\ w.timeout \in 1..Bound.timeout
    /\ w.stdin =< Bound.stdin_bytes

ValidateRequest ==
    /\ step = "accepted"
    /\ LET w == Received(wanted)
           valid == {r \in from_spec(w) : RunnerValid(r)}
       IN  CASE valid = {} -> Fails("invalid_request")
             [] \E r \in valid : r.cwd # "inside" -> Fails("invalid_working_directory")
             [] \E r \in valid : r.cwd = "inside" -> step' = "valid" /\ UNCHANGED verdict
    /\ UNCHANGED <<wanted, host, features, row, apply, launch>>

\* SystemdCgroupBackend::probe: a scope with these limits can be had.
Probe(dimensions, working) == dimensions \subseteq working

\* The helper is a file of a trusted owner in a trusted place.
verify_trusted_helper(working) == "helper" \in working

probe_landlock_ruleset(working) == "landlock" \in working

\* TrustedLandlockSetup::prepare.
prepare ==
    /\ step = "valid"
    /\ LET w == Received(wanted)
           limits == /\ Requested(w) # {} /\ Probe(Requested(w), host)
                     /\ verify_trusted_helper(host)
           sandbox == w.isolation # "None" /\ verify_trusted_helper(host)
       IN  IF (RequiredOf(w) # {} /\ ~limits) \/ (w.isolation = "Required" /\ ~sandbox)
           THEN Fails("setup") /\ UNCHANGED apply
           ELSE /\ step' = "prepared" /\ apply' = [sandbox |-> sandbox, limits |-> limits]
                /\ UNCHANGED verdict
    /\ UNCHANGED <<wanted, host, features, row, launch>>

----------------------------------------------------------------------------
(* The two ways to start the target.                                         *)

Permitted(w) == SelectSeq(w.environment, LAMBDA entry : entry.name \notin Denied)

\* The entry with that name that comes last.
LastValue(entries, name) ==
    entries[CHOOSE i \in DOMAIN entries :
                /\ entries[i].name = name
                /\ \A j \in DOMAIN entries : entries[j].name = name => j =< i].value

\* Whether a sequence has the entry.
Among(entry, entries) == \E i \in DOMAIN entries : entries[i] = entry

\* A command's environment after the entries were set one after the other.
Set(entries) ==
    [name \in {entries[i].name : i \in DOMAIN entries} |-> LastValue(entries, name)]

\* direct_command.
DirectEnvironment(w) == Set(Baseline \o Permitted(w) \o Provenance)

\* SandboxChannel::new: the entries of the launch specification.
LaunchEntries(w) == Baseline \o Permitted(w) \o Provenance

\* read_spec of the helper.
read_spec(w) ==
    LET entries == LaunchEntries(w)
    IN  /\ Len(w.argv) \in 1..Bound.arg_count
        /\ \A i \in DOMAIN w.argv : w.argv[i].bytes > 0 /\ Fits(w.argv[i], Bound.arg_bytes)
        /\ Len(entries) =< Bound.env_count
        /\ \A i \in DOMAIN entries :
              /\ entries[i].name \in Assignable /\ Fits(entries[i].value, Bound.env_value_bytes)
              /\ entries[i].name \in Denied => Among(entries[i], Baseline)
        /\ NamesDistinct(entries)

\* The ruleset is the one the capability was probed with.
restrict == probe_landlock_ruleset(host)

\* The helper finds the limits that were asked for in its own control group.
verify_resource_limits(w) == Probe(Requested(w), host)

HelperEnforces(w) ==
    /\ apply.sandbox => restrict
    /\ apply.limits => verify_resource_limits(w)

\* A request near the bound of a body may be too large once it is a launch specification.
MayOverflow(w) == w.bytes + Bound.launch_overhead > Bound.request_bytes

StartTarget(via, environment, enforced) ==
    /\ step' = "running"
    /\ launch' = [via |-> via, environment |-> environment,
                  sandboxed |-> enforced.sandbox, limited |-> enforced.limits]

NothingEnforced == [sandbox |-> FALSE, limits |-> FALSE]

\* The helper is not to be had: a request that needs it fails, another runs without.
WithoutHelper(w, reason) ==
    \/ /\ w.isolation = "Required" \/ RequiredOf(w) # {}
       /\ Fails(reason) /\ UNCHANGED launch
    \/ /\ w.isolation # "Required" /\ RequiredOf(w) = {}
       /\ StartTarget("direct", DirectEnvironment(w), NothingEnforced) /\ verdict' = reason

\* run, from the channel to the running target.
SpawnTarget ==
    /\ step = "prepared"
    /\ LET w == Received(wanted)
           useHelper == apply.sandbox \/ apply.limits
       IN  \/ /\ ~useHelper
              /\ StartTarget("direct", DirectEnvironment(w), NothingEnforced) /\ UNCHANGED verdict
           \/ useHelper /\ MayOverflow(w) /\ WithoutHelper(w, "launch_too_large")
           \/ useHelper /\ ~read_spec(w) /\ WithoutHelper(w, "launch_rejected")
           \/ useHelper /\ read_spec(w) /\ ~HelperEnforces(w) /\ WithoutHelper(w, "not_enforced")
           \/ /\ useHelper /\ read_spec(w) /\ HelperEnforces(w)
              /\ StartTarget("helper", Set(LaunchEntries(w)), apply) /\ UNCHANGED verdict
    /\ UNCHANGED <<wanted, host, features, row, apply>>

----------------------------------------------------------------------------
\* execution_capabilities, which the node caches when it starts.
Capabilities(working) ==
    {d \in Dimensions : Probe({d}, working)}
        \union IF verify_trusted_helper(working) /\ probe_landlock_ruleset(working)
               THEN {"landlock"} ELSE {}

AdmissionInit ==
    /\ wanted \in Wanted
    /\ host \in HostStates /\ features = Capabilities(host)
    /\ step = "sent" /\ verdict = Unset /\ row = Unset
    /\ apply = NothingEnforced /\ launch = Unset

\* The host changes under the node.
ChangeHost ==
    /\ step \notin {"refused", "failed", "running"}
    /\ host' \in HostStates
    /\ UNCHANGED <<wanted, features, step, verdict, row, apply, launch>>

AdmissionNext == execute \/ ValidateRequest \/ prepare \/ SpawnTarget \/ ChangeHost

AdmissionSpec == AdmissionInit /\ [][AdmissionNext]_admissionVars

----------------------------------------------------------------------------
HasEmptyArgument == \E i \in DOMAIN wanted.argv : wanted.argv[i].bytes = 0

\* The names the node sets are among those of the caller, or there is no room for both.
BaselineInTheWay ==
    \/ ~NamesDistinct(LaunchEntries(wanted))
    \/ Len(LaunchEntries(wanted)) > Bound.env_count

\* A command that execute has accepted is not found invalid later, by the runner or by the
\* helper, except for two cases the four sets of rules disagree on: an empty argument,
\* which only the runner and the helper refuse, and an environment that repeats or crowds
\* out the baseline, which only the helper refuses (CommandSpec::validate,
\* RunnerRequest::validate, read_spec).
AcceptedIsValid ==
    /\ step = "failed" /\ verdict = "invalid_request" => HasEmptyArgument
    /\ verdict = "launch_rejected" => BaselineInTheWay

\* A target runs only with what its client required, whatever the node advertised when it
\* started and the host does since: required isolation and limits are enforced and a
\* request about the network is not run at all (check_*_supported, prepare, run).
NeverWeaker ==
    step = "running" =>
        /\ wanted.network = "Unrestricted"
        /\ wanted.isolation = "Required" => launch.sandboxed
        /\ RequiredOf(wanted) # {} => launch.limited

\* Started directly or by the helper, a target sees the entries of its caller, save those
\* that are denied, over the baseline, and the identity of its own execution
\* (direct_command, SandboxChannel::new).
TargetEnvironment ==
    step = "running" =>
        /\ \A name \in DOMAIN launch.environment :
              LET value == launch.environment[name]
                  entry == [name |-> name, value |-> value]
              IN  CASE name \in {Provenance[i].name : i \in DOMAIN Provenance} ->
                          Among(entry, Provenance)
                    [] \E i \in DOMAIN Permitted(wanted) : Permitted(wanted)[i].name = name ->
                          Among(entry, wanted.environment)
                    [] OTHER -> Among(entry, Baseline)
        /\ DOMAIN launch.environment =
              {LaunchEntries(wanted)[i].name : i \in DOMAIN LaunchEntries(wanted)}

\* The rules that client, node, runner and helper each have a copy of agree: on the commands
\* that are valid and on the environment of a target (CommandSpec::validate,
\* RunnerRequest::validate, read_spec, direct_command).
CopiesAgree == AcceptedIsValid /\ TargetEnvironment

\* The same items in another order.
Reordered(s, t) ==
    /\ Len(s) = Len(t)
    /\ \E p \in Permutations(DOMAIN s) : \A i \in DOMAIN s : t[i] = s[p[i]]

\* The same request but for the order of what has no order.
SameMeaning(v, w) ==
    /\ \A f \in DOMAIN v \ {"environment", "metadata", "outputs", "bytes"} : v[f] = w[f]
    /\ \A f \in {"environment", "metadata", "outputs"} : Reordered(v[f], w[f])

\* A request that gets as far as the row of an earlier one is joined to it exactly when it
\* means the same: a client that retries gets its own execution, in whatever order its
\* fields are, and no client gets the output of another command
\* (request_digest_with_workspace).  A retry does not get that far while the node drains,
\* nor once its workspace has expired (execute).
JoinsItsOwn ==
    step = "accepted" =>
        \A w \in Wanted :
            Joins(w) <=> SameMeaning(w, wanted) /\ w.bytes =< Bound.request_bytes
=================================================================================

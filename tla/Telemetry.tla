-------------------------------- MODULE Telemetry -------------------------------
(***************************************************************************)
(* The host telemetry of a node (eggwork-server/src/telemetry.rs): the one *)
(* task that asks the local provider, the cache it writes, what            *)
(* node_telemetry serves from the cache and what a client accepts of it    *)
(* (NodeTelemetry::validate, eggwork-core/src/lib.rs).                     *)
(*                                                                         *)
(* Time is kept as distances, so that it never ends: how long ago a sample *)
(* was received, how far the next attempt is.  `drift` is the distance of  *)
(* the wall clock, which somebody may set, from the time that passes.      *)
(***************************************************************************)
EXTENDS Integers

CONSTANTS
    Refresh,        \* refresh_interval
    Freshness,      \* freshness
    MaxBackoff,     \* MAX_BACKOFF
    MaxSkew,        \* MAX_CLOCK_SKEW
    MaxLag,         \* bound on how old a sample is when it arrives
    MaxDrift,       \* bound on how far the wall clock is set forward
    Absent          \* no value

\* HostTelemetryConfig::new.
ASSUME TelemetryAssumption ==
    /\ Refresh \in Nat \ {0} /\ Freshness \in Nat /\ Refresh =< Freshness
    /\ MaxBackoff \in Nat \ {0}
    /\ MaxSkew \in Nat /\ MaxLag \in Nat /\ MaxDrift \in Nat
    /\ Absent \notin [lag : Int, age : Int]
    /\ Absent \notin STRING

VARIABLES
    entry,          \* the CacheEntry
    task,           \* the refresh loop
    failures,       \* its consecutive failures
    delay,          \* how long it still sleeps
    provider,       \* how the provider is
    drift,          \* the wall clock, less the time that has passed
    stopping        \* TelemetryMonitor::shutdown

telemetryVars == <<entry, task, failures, delay, provider, drift, stopping>>

----------------------------------------------------------------------------
States == {"disabled", "warming", "ready", "unavailable", "invalid"}
Failing == {"connection", "timeout", "http_status", "malformed", "schema_version", "invalid",
            "too_large", "clock_skew"}

\* lag: how old the sample was when it came; age: how long ago that was, up to the age
\* at which it is certainly stale.
Sample == [lag : 0..MaxLag, age : 0..Freshness + 1]

MaxFailures == 6    \* more failures do not change the delay

\* TelemetryMonitor::disabled or start.
TelemetryInit ==
    /\ entry = [state |-> "disabled", sample |-> Absent, stale |-> FALSE, error |-> Absent]
    /\ task \in {"none", "asking"}
    /\ failures = 0 /\ delay = 0
    /\ provider \in {"up", "down"} /\ drift = 0
    /\ stopping = "no"

----------------------------------------------------------------------------
Least(a, b) == IF a < b THEN a ELSE b

\* What the provider may answer: a status payload with a sample `lag` old and stamped by
\* a wall clock that was `then` ahead, a health envelope, or nothing usable.
Replies ==
    CASE provider = "up" -> {[kind |-> "status", lag |-> 0, then |-> drift]}
      [] provider = "odd" -> [kind : {"status"}, lag : 0..MaxLag, then : 0..MaxDrift]
                             \union [kind : {"warming"} \union (Failing \ {"clock_skew"})]
      [] provider = "down" -> [kind : {"connection", "timeout"}]

\* The age of the sample, by the wall clock of the node.
Apparent(reply) == reply.lag + drift - reply.then

\* observe and decode_status: the error of a reply, if any.
Observe(reply) ==
    IF reply.kind = "status"
    THEN IF Apparent(reply) < -MaxSkew THEN "clock_skew" ELSE "observed"
    ELSE reply.kind

IsProviderSampleStale(reply) == Apparent(reply) > Freshness

RecordObservation(reply) ==
    entry' = [state |-> "ready", sample |-> [lag |-> reply.lag, age |-> 0],
              stale |-> IsProviderSampleStale(reply), error |-> Absent]

RecordWarming == entry' = [entry EXCEPT !.state = "warming", !.error = Absent]

RecordFailure(error) ==
    entry' = [entry EXCEPT !.state = IF error = "invalid" THEN "invalid" ELSE "unavailable",
                           !.error = error]

Backoff(n) == Least(Refresh * 2^Least(n - 1, 5), MaxBackoff)

\* Mutant of Refreshed: an error ends the loop.
Refreshed_GivesUp ==
    /\ task = "asking"
    /\ \E reply \in Replies :
          LET outcome == Observe(reply)
          IN \/ /\ outcome = "observed" /\ RecordObservation(reply)
                /\ failures' = 0 /\ delay' = Refresh /\ task' = "sleeping"
             \/ /\ outcome \in Failing /\ RecordFailure(outcome)
                /\ task' = "ended" /\ UNCHANGED <<failures, delay>>
    /\ UNCHANGED <<provider, drift, stopping>>

\* One turn of refresh_loop.
Refreshed ==
    /\ task = "asking" /\ task' = "sleeping"
    /\ \E reply \in Replies :
          LET outcome == Observe(reply)
          IN \/ /\ outcome = "observed" /\ RecordObservation(reply)
                /\ failures' = 0 /\ delay' = Refresh
             \/ /\ outcome = "warming" /\ RecordWarming
                /\ failures' = 0 /\ delay' = Refresh
             \/ /\ outcome \in Failing /\ RecordFailure(outcome)
                /\ failures' = Least(failures + 1, MaxFailures)
                /\ delay' = Backoff(failures + 1)
    /\ UNCHANGED <<provider, drift, stopping>>

Wake ==
    /\ task = "sleeping"
    /\ \/ delay = 0 /\ task' = "asking"
       \/ stopping # "no" /\ task' = "ended"
    /\ UNCHANGED <<entry, failures, delay, provider, drift, stopping>>

\* TelemetryMonitor::shutdown: the token, then the abort and the end of the task.
StopMonitor ==
    /\ stopping = "no" /\ stopping' = "cancelled"
    /\ UNCHANGED <<entry, task, failures, delay, provider, drift>>

AbortMonitor ==
    /\ stopping = "cancelled" /\ stopping' = "returned"
    /\ task' = IF task = "none" THEN "none" ELSE "ended"
    /\ UNCHANGED <<entry, failures, delay, provider, drift>>

----------------------------------------------------------------------------
\* Time passes.
Pass ==
    /\ entry' = IF entry.sample = Absent THEN entry
                ELSE [entry EXCEPT !.sample.age = Least(@ + 1, Freshness + 1)]
    /\ delay' = IF delay > 0 THEN delay - 1 ELSE 0
    /\ UNCHANGED <<task, failures, provider, drift, stopping>>

\* The wall clock is set, or the provider changes.
Change ==
    /\ drift' \in 0..MaxDrift
    /\ provider' \in {"up", "odd", "down"}
    /\ UNCHANGED <<entry, task, failures, delay, stopping>>

TelemetryNext == Refreshed \/ Wake \/ StopMonitor \/ AbortMonitor \/ Pass \/ Change

\* The runtime runs the task, requests are answered or time out, and time goes on.
TelemetryFairness ==
    WF_telemetryVars(Refreshed) /\ WF_telemetryVars(Wake) /\ WF_telemetryVars(Pass)

TelemetrySpec == TelemetryInit /\ [][TelemetryNext]_telemetryVars

----------------------------------------------------------------------------
\* Mutant of Served: the time the sample has been held is not counted.
Served_Ageless ==
    [state |-> IF entry.state = "ready" /\ entry.stale THEN "stale" ELSE entry.state,
     sample |-> entry.sample]

\* node_telemetry, from TelemetryCache::snapshot.
Served ==
    [state |-> IF entry.state = "ready" /\ (entry.stale \/ entry.sample.age > Freshness)
               THEN "stale" ELSE entry.state,
     sample |-> entry.sample]

\* NodeTelemetry::validate, which a client applies to what it is served.
Accepts(served) ==
    /\ served.state \in {"ready", "stale"} => served.sample # Absent
    /\ served.state \in {"disabled", "warming"} => served.sample = Absent

\* A sample that is served as ready is no older than two freshness bounds, one before it
\* came and one since, plus what the wall clock was set by: neither the time it spends in
\* the cache nor a change of the clock makes an old sample current (snapshot,
\* is_provider_sample_stale).
ReadyIsRecent ==
    Served.state = "ready" =>
        Served.sample.lag + Served.sample.age =< 2 * Freshness + MaxDrift

\* What the node serves is what a client accepts, however samples and failures alternate,
\* except that a provider that warms up again keeps its last sample (record_warming).
ServedAccepted == Served.state # "warming" => Accepts(Served)

\* The cache is sound whenever it is read: what is ready is recent, and the client takes
\* what is served (snapshot).
ServedSound == ReadyIsRecent /\ ServedAccepted

\* Once shutdown has returned nothing is written to the cache and no request is made
\* (TelemetryMonitor::shutdown).
QuietAfterShutdown ==
    [][stopping = "returned" =>
          /\ task' = task /\ task \in {"none", "ended"}
          /\ entry'.state = entry.state /\ entry'.error = entry.error]_telemetryVars

\* A provider that stays up is served again and again, however long it was down before,
\* unless the monitor is stopped (refresh_loop, backoff).
Recovers ==
    (task # "none" /\ <>[](provider = "up" /\ stopping = "no")) => []<>(Served.state = "ready")
=================================================================================

--------------------------- MODULE ExecutionContract ---------------------------
(***************************************************************************)
(* What the node promises about execution identities, with no mention of   *)
(* leases, journals, tasks or locks: the generations of an identity are    *)
(* accepted one after the other, a generation only after the outcome of    *)
(* the one before it, and every accepted generation is concluded at most   *)
(* once (ADR-0003, decisions 3, 5 and 12).                                 *)
(***************************************************************************)
EXTENDS Integers

CONSTANTS
    ExecutionIds,   \* the execution identities callers use
    MaxGeneration   \* bound on the generations of one identity

VARIABLE outcome    \* what is known of every (identity, generation)

Generations == 1..MaxGeneration

Keys == ExecutionIds \X Generations

TerminalStates == {"Succeeded", "Failed", "Cancelled", "TimedOut", "Interrupted"}

Init == outcome = [k \in Keys |-> "None"]

\* A generation is accepted when it is the first one or its predecessor ended.
Accept(id, g) ==
    /\ outcome[<<id, g>>] = "None"
    /\ g = 1 \/ outcome[<<id, g - 1>>] \in TerminalStates
    /\ outcome' = [outcome EXCEPT ![<<id, g>>] = "Live"]

\* Some live generations end, each with one terminal state: one at a time when
\* their runner finishes, all of them together when the node restarts.
Conclude(ended) ==
    /\ \A k \in ended : outcome[k] = "Live"
    /\ \A k \in ended : outcome'[k] \in TerminalStates
    /\ outcome' = [k \in Keys |-> IF k \in ended THEN outcome'[k] ELSE outcome[k]]

Next ==
    \/ \E id \in ExecutionIds, g \in Generations : Accept(id, g)
    \/ \E ended \in SUBSET Keys : Conclude(ended)

Spec == Init /\ [][Next]_outcome

=============================================================================

--------------------------- MODULE MCExecutionStore ---------------------------
(* Model checking of ExecutionStore on two small tables that share one     *)
(* run: the journal of one generation, and the generations of two          *)
(* identities.  The restrictions treat all identities, digests and leases  *)
(* alike, so the symmetry is sound.                                        *)
EXTENDS ExecutionStore, TLC

VARIABLE part   \* the table this behaviour belongs to

mcStoreVars == <<vars, part>>

\* One row with a full journal, under time and two renewals.
OneJournal ==
    /\ Cardinality(DOMAIN rows') <= 1
    /\ DOMAIN rows' \subseteq ExecutionIds \X {1}

\* Rows of two identities; every generation has at most one state event before
\* its outcome, and time stands still.
ManyRows ==
    /\ now' = 0
    /\ \A k \in DOMAIN rows' :
         /\ rows'[k].next <= 3 /\ rows'[k].bytes <= 2 * StateEventBytes
         /\ rows'[k].next = 3 => is_terminal(rows'[k].state)
         /\ rows'[k].renewal = None
    /\ \A j, k \in DOMAIN rows' : rows'[j].lease = rows'[k].lease

MCStoreInit == Init /\ part \in {"journal", "identities"}

MCStoreNext ==
    /\ Next
    /\ part = "journal" => OneJournal
    /\ part = "identities" => ManyRows
    /\ UNCHANGED part

MCStoreSpec == MCStoreInit /\ [][MCStoreNext]_mcStoreVars

\* Identities, digests and leases are only compared for equality.
Symmetry ==
    Permutations(ExecutionIds) \cup Permutations(Digests) \cup Permutations(Leases)

\* The loop of trim_events, one deletion of the oldest event at a time.
RECURSIVE TrimLoop(_, _, _)
TrimLoop(events, next, bytes) ==
    LET oldest == CHOOSE s \in DOMAIN events : \A t \in DOMAIN events : s <= t
        count  == Cardinality(DOMAIN events)
        size   == IF count = 0 THEN 0 ELSE bytes - events[oldest].from
    IN  IF count <= MAX_RETAINED_EVENTS /\ size <= MAX_RETAINED_EVENT_BYTES
        THEN events
        ELSE TrimLoop([s \in DOMAIN events \ {oldest} |-> events[s]], next, bytes)

\* The closed form of trim_events keeps what its deletion loop keeps, for every
\* reachable journal and every size of the next event, oversized ones included.
TrimIsLoop ==
    \A k \in DOMAIN rows : \A size \in OutputSizes :
        LET row    == rows[k]
            events == Insert(row.events, row.next, [kind |-> "Output", from |-> row.bytes])
            bytes  == row.bytes + size
        IN  TrimEvents(events, row.next + 1, bytes) = TrimLoop(events, row.next + 1, bytes)
=============================================================================

---------------------------- MODULE ExecutionStore ----------------------------
(***************************************************************************)
(* The durable execution store of a node (eggwork-server/src/store.rs).    *)
(*                                                                         *)
(* One SQLite connection sits behind a mutex and every write is one        *)
(* immediate transaction, so every operation is one action.  A row of the  *)
(* table `executions', together with its rows of `execution_events', is a  *)
(* record; the table is a function on the (identity, generation) keys that *)
(* are present.  A digest stands for the pair of canonicalization version  *)
(* and request digest, which are only ever compared together; a lease      *)
(* stands for its hash.                                                    *)
(***************************************************************************)
EXTENDS Integers, FiniteSets

CONSTANTS
    ExecutionIds, Digests, Principals, Leases, RenewalIds,
    None,                       \* SQL NULL
    OutputSizes,                \* encoded sizes of the output events offered
    StateEventBytes,            \* encoded size of a state event
    LeaseTtl,
    MAX_RETAINED_EVENTS,
    MAX_RETAINED_EVENT_BYTES,
    MAX_EXECUTION_IDENTITIES,
    MaxGeneration,              \* bound on the generations of one identity
    MaxSequence,                \* bound on the events of one generation
    MaxTime                     \* bound on the clock

ASSUME StoreAssumption ==
    /\ MaxGeneration \in Nat /\ MaxSequence \in Nat /\ MaxTime \in Nat
    /\ LeaseTtl \in Nat
    /\ MAX_RETAINED_EVENTS \in Nat \ {0}
    /\ MAX_RETAINED_EVENT_BYTES \in Nat
    /\ MAX_EXECUTION_IDENTITIES \in Nat
    /\ OutputSizes \subseteq Nat \ {0}
    /\ StateEventBytes \in 1..MAX_RETAINED_EVENT_BYTES
    /\ None \notin RenewalIds

VARIABLES
    rows,   \* the table, a function on the keys present
    now     \* the wall clock read by unix_millis

vars == <<rows, now>>

Generations == 1..MaxGeneration

Keys == ExecutionIds \X Generations

TerminalStates == {"Succeeded", "Failed", "Cancelled", "TimedOut", "Interrupted"}

LiveStates == {"Accepted", "Preparing", "Running", "Cancelling"}

\* An event is a state change, named by its state, or a chunk of output.
Kinds == LiveStates \cup TerminalStates \cup {"Output"}

is_terminal(state) == state \in TerminalStates

\* INSERT of a new row into a table.
Insert(table, key, row) ==
    [k \in DOMAIN table \cup {key} |-> IF k = key THEN row ELSE table[k]]

-----------------------------------------------------------------------------
(* The event journal of one row.  An event remembers how many bytes had    *)
(* been appended to its generation before it (from), so that the retained  *)
(* bytes of the events s, s+1, ... are row.bytes - row.events[s].from.     *)

\* Mutant of Kept: the byte bound is strict.
Kept_BytesStrict(events, next, bytes) ==
    {s \in DOMAIN events : /\ next - s <= MAX_RETAINED_EVENTS
                           /\ bytes - events[s].from < MAX_RETAINED_EVENT_BYTES}

\* Mutant of Kept: one event too many is retained.
Kept_OneMore(events, next, bytes) ==
    {s \in DOMAIN events : /\ next - s <= MAX_RETAINED_EVENTS + 1
                           /\ bytes - events[s].from <= MAX_RETAINED_EVENT_BYTES}

\* trim_events deletes the oldest event until both bounds hold: what is left is
\* the longest suffix of the journal that meets them.
Kept(events, next, bytes) ==
    {s \in DOMAIN events : /\ next - s <= MAX_RETAINED_EVENTS
                           /\ bytes - events[s].from <= MAX_RETAINED_EVENT_BYTES}

TrimEvents(events, next, bytes) ==
    [s \in Kept(events, next, bytes) |-> events[s]]

\* The UPDATE, the INSERT at next_sequence and the trim of one transaction.
AppendEvent(row, state, kind, size) ==
    LET event  == [kind |-> kind, from |-> row.bytes]
        events == Insert(row.events, row.next, event)
    IN  [row EXCEPT !.state  = state,
                    !.next   = row.next + 1,
                    !.bytes  = row.bytes + size,
                    !.events = TrimEvents(events, row.next + 1, row.bytes + size)]

\* The page load_page returns for an exclusive cursor.
BaseSequence(row) ==
    IF DOMAIN row.events = {} THEN row.next
    ELSE CHOOSE s \in DOMAIN row.events : \A t \in DOMAIN row.events : s <= t

\* Mutant of LoadPage: what is left of expired history is replayed.
LoadPage_Partial(row, after) ==
    [base |-> BaseSequence(row), next |-> row.next,
     events |-> {s \in DOMAIN row.events : s > after}]

LoadPage(row, after) ==
    [base   |-> BaseSequence(row),
     next   |-> row.next,
     events |-> IF after + 1 < BaseSequence(row) THEN {}
                ELSE {s \in DOMAIN row.events : s > after}]

-----------------------------------------------------------------------------
(* Reservation of an identity.                                             *)

NewRow(digest, principal, lease, expires) ==
    [digest |-> digest, principal |-> principal, lease |-> lease,
     state |-> "Accepted", expires |-> expires, renewal |-> None,
     next |-> 1, bytes |-> 0, events |-> << >>]

\* Mutant of MayFollow: the latest generation need not be terminal.
MayFollow_Live(id, g) ==
    IF \E h \in Generations : <<id, h>> \in DOMAIN rows
    THEN /\ <<id, g - 1>> \in DOMAIN rows
         /\ \A h \in Generations : <<id, h>> \in DOMAIN rows => h < g
    ELSE g = 1

\* The generation is the first of a new identity, or the successor of the
\* latest generation and that one is terminal.
MayFollow(id, g) ==
    IF \E h \in Generations : <<id, h>> \in DOMAIN rows
    THEN /\ <<id, g - 1>> \in DOMAIN rows
         /\ \A h \in Generations : <<id, h>> \in DOMAIN rows => h < g
         /\ is_terminal(rows[<<id, g - 1>>].state)
    ELSE g = 1

ReserveResult(id, g, digest, principal, lease) ==
    IF <<id, g>> \in DOMAIN rows
    THEN LET row == rows[<<id, g>>]
         IN  IF /\ row.digest = digest
                /\ row.principal = principal
                /\ row.lease = lease
             THEN "Existing" ELSE "Conflict"
    ELSE IF ~MayFollow(id, g) THEN "StaleGeneration"
    ELSE IF Cardinality(DOMAIN rows) >= MAX_EXECUTION_IDENTITIES THEN "StorageFull"
    ELSE "Created"

Reserve(id, g, digest, principal, lease, expires) ==
    /\ ReserveResult(id, g, digest, principal, lease) = "Created"
    /\ rows' = Insert(rows, <<id, g>>, NewRow(digest, principal, lease, expires))
    /\ UNCHANGED now

-----------------------------------------------------------------------------
(* Writes to a reserved row.                                               *)

\* publish writes a state change with that state, and output with Running.
SnapshotState(kind) == IF kind = "Output" THEN "Running" ELSE kind

Sizes(kind) == IF kind = "Output" THEN OutputSizes ELSE {StateEventBytes}

\* Mutant of CommitResult: a terminal row still takes events.
CommitResult_AfterTerminal(k, size) ==
    IF k \notin DOMAIN rows THEN "None"
    ELSE IF size > MAX_RETAINED_EVENT_BYTES THEN "InvalidEvent"
    ELSE "Some"

CommitResult(k, size) ==
    IF k \notin DOMAIN rows \/ is_terminal(rows[k].state) THEN "None"
    ELSE IF size > MAX_RETAINED_EVENT_BYTES THEN "InvalidEvent"
    ELSE "Some"

CommitEvent(k, kind, size) ==
    /\ CommitResult(k, size) = "Some"
    /\ rows[k].next < MaxSequence \/ is_terminal(kind)
    /\ rows' = [rows EXCEPT ![k] = AppendEvent(@, SnapshotState(kind), kind, size)]
    /\ UNCHANGED now

\* Mutant of UpdateLeaseResult: a terminal generation can be renewed.
UpdateLeaseResult_Terminal(k, lease, renewal, requested) ==
    IF k \notin DOMAIN rows \/ rows[k].lease # lease \/ rows[k].expires <= now
    THEN None
    ELSE IF rows[k].renewal = renewal \/ requested <= rows[k].expires
         THEN rows[k].expires ELSE requested

\* The deadline update_lease answers with; None when it refuses the renewal.
UpdateLeaseResult(k, lease, renewal, requested) ==
    IF \/ k \notin DOMAIN rows
       \/ rows[k].lease # lease
       \/ is_terminal(rows[k].state)
       \/ rows[k].expires <= now
    THEN None
    ELSE IF rows[k].renewal = renewal \/ requested <= rows[k].expires
         THEN rows[k].expires ELSE requested

UpdateLease(k, lease, renewal, requested) ==
    /\ UpdateLeaseResult(k, lease, renewal, requested) # None
    /\ rows[k].renewal # renewal
    /\ rows' = [rows EXCEPT
                  ![k].expires = UpdateLeaseResult(k, lease, renewal, requested),
                  ![k].renewal = renewal]
    /\ UNCHANGED now

\* Mutant of Recover: the list of terminal states lacks TimedOut.
Recover_TimedOut ==
    /\ rows' = [k \in DOMAIN rows |->
                  IF rows[k].state \in LiveStates \cup {"TimedOut"}
                  THEN AppendEvent(rows[k], "Interrupted", "Interrupted", StateEventBytes)
                  ELSE rows[k]]
    /\ UNCHANGED now

\* Every generation without an outcome is interrupted, in one transaction.
Recover ==
    /\ rows' = [k \in DOMAIN rows |->
                  IF rows[k].state \in LiveStates
                  THEN AppendEvent(rows[k], "Interrupted", "Interrupted", StateEventBytes)
                  ELSE rows[k]]
    /\ UNCHANGED now

Tick ==
    /\ now < MaxTime
    /\ now' = now + 1
    /\ UNCHANGED rows

-----------------------------------------------------------------------------
Init ==
    /\ rows = << >>
    /\ now = 0

\* A caller computes the deadline it asks for before it queues for the store:
\* it is one lease term after some instant that is not in the future.
Deadlines == {t + LeaseTtl : t \in 0..now}

\* The kinds the node publishes; no code path publishes Preparing.
PublishedKinds == Kinds \ {"Preparing"}

Next ==
    \/ \E id \in ExecutionIds, g \in Generations, d \in Digests, p \in Principals,
          l \in Leases, t \in Deadlines : Reserve(id, g, d, p, l, t)
    \/ \E k \in DOMAIN rows, kind \in PublishedKinds :
          \E size \in Sizes(kind) : CommitEvent(k, kind, size)
    \/ \E k \in DOMAIN rows, l \in Leases, r \in RenewalIds, t \in Deadlines :
          UpdateLease(k, l, r, t)
    \/ Recover
    \/ Tick

Spec == Init /\ [][Next]_vars

-----------------------------------------------------------------------------
(* Properties.                                                             *)

Events == [kind : Kinds, from : Nat]

\* The table's columns keep their types.
TypeOK ==
    /\ DOMAIN rows \subseteq Keys
    /\ \A k \in DOMAIN rows :
         /\ DOMAIN rows[k] = {"digest", "principal", "lease", "state", "expires",
                              "renewal", "next", "bytes", "events"}
         /\ rows[k].digest \in Digests
         /\ rows[k].principal \in Principals
         /\ rows[k].lease \in Leases
         /\ rows[k].state \in LiveStates \cup TerminalStates
         /\ rows[k].expires \in Nat
         /\ rows[k].renewal \in RenewalIds \cup {None}
         /\ rows[k].next \in Nat \ {0}
         /\ rows[k].bytes \in Nat
         /\ DOMAIN rows[k].events \subseteq Nat
         /\ \A s \in DOMAIN rows[k].events : rows[k].events[s] \in Events
    /\ now \in Nat

\* The generations of an identity are 1, 2, ..., n with no gap, and every one
\* but the last has its terminal outcome: at most one generation of an identity
\* is ever live, whatever interleaving of reservations, commits and restarts
\* led here (the checks of reserve against the latest row).
OneLiveGeneration ==
    \A id \in ExecutionIds, g \in Generations :
        <<id, g>> \in DOMAIN rows =>
            \A h \in 1..(g - 1) : /\ <<id, h>> \in DOMAIN rows
                                  /\ is_terminal(rows[<<id, h>>].state)

\* The retained events of a generation are a gap-free run that ends at
\* next_sequence - 1; the newest event is never trimmed, even when it is as large
\* as the byte bound; both retention bounds hold (commit_event, trim_events).
JournalIntact ==
    \A k \in DOMAIN rows :
        LET row == rows[k]
        IN  /\ DOMAIN row.events = BaseSequence(row)..(row.next - 1)
            /\ row.next > 1 => row.next - 1 \in DOMAIN row.events
            /\ \A s \in DOMAIN row.events :
                 /\ row.next - s <= MAX_RETAINED_EVENTS
                 /\ row.bytes - row.events[s].from <= MAX_RETAINED_EVENT_BYTES

\* A durable outcome and its journal entry never diverge: a row is terminal
\* exactly when its newest event is that terminal state, and no earlier event
\* is terminal (one transaction updates the row and inserts the event).
OutcomeJournaled ==
    \A k \in DOMAIN rows : \A s \in DOMAIN rows[k].events :
        is_terminal(rows[k].events[s].kind)
            <=> s = rows[k].next - 1 /\ is_terminal(rows[k].state)

\* Every cursor gets an honest answer: history that is gone is answered by an
\* empty page whose base is ahead of the cursor (410), a cursor ahead of the
\* journal is recognisable (416), and any other page holds exactly the events
\* after the cursor, with no partial replay (load_page, event_response).
PageContract ==
    \A k \in DOMAIN rows : \A after \in 0..(MaxSequence + 2) :
        LET row  == rows[k]
            page == LoadPage(row, after)
        IN  IF after + 1 < page.base
            THEN page.events = {} /\ after + 1 \notin DOMAIN row.events
            ELSE after < page.next => page.events = (after + 1)..(row.next - 1)

\* Terminal state is single-assignment: no commit, renewal, reservation or
\* restart changes anything of a row that has its outcome.
TerminalIsFinal ==
    [][\A k \in DOMAIN rows :
          is_terminal(rows[k].state) => k \in DOMAIN rows' /\ rows'[k] = rows[k]]_vars

\* The journal is append-only and identities are permanent: a row is never
\* deleted nor taken over by another request, sequence numbers are not reused,
\* a retained event is not rewritten and a trimmed one does not come back.
AppendOnly ==
    [][\A k \in DOMAIN rows :
          /\ k \in DOMAIN rows'
          /\ rows'[k].digest = rows[k].digest
          /\ rows'[k].principal = rows[k].principal
          /\ rows'[k].lease = rows[k].lease
          /\ rows'[k].next >= rows[k].next
          /\ \A s \in DOMAIN rows'[k].events :
               \/ s \in DOMAIN rows[k].events /\ rows'[k].events[s] = rows[k].events[s]
               \/ s >= rows[k].next]_vars

\* A lease deadline only ever moves forward, and only before it has passed: an
\* expired lease cannot be resurrected, and repeating the renewal just applied
\* changes nothing (update_lease).
LeaseExtension ==
    [][\A k \in DOMAIN rows :
          rows'[k].expires # rows[k].expires =>
              /\ now < rows[k].expires
              /\ rows'[k].expires > rows[k].expires
              /\ rows'[k].renewal # rows[k].renewal]_vars

\* The store keeps the promise of ExecutionContract: an absent row is an
\* identity nobody used, a live row an accepted generation, a terminal row a
\* concluded one.
Outcome(k) ==
    IF k \notin DOMAIN rows THEN "None"
    ELSE IF is_terminal(rows[k].state) THEN rows[k].state
    ELSE "Live"

Contract == INSTANCE ExecutionContract WITH outcome <- [k \in Keys |-> Outcome(k)]

ImplementsContract == Contract!Spec

=============================================================================

------------------------- MODULE ExecutionStoreProofs -------------------------
(***************************************************************************)
(* Proofs about ExecutionStore for every table size, journal bound, lease  *)
(* term and set of callers; and about the events a client follows, for     *)
(* every capacity of the channel and the connection, and any number of     *)
(* broken connections and restarts.                                        *)
(***************************************************************************)
EXTENDS EventStream, TLAPS

Columns == {"digest", "principal", "lease", "state", "expires",
            "renewal", "next", "bytes", "events"}

\* The type of one row.
RowOK(row) ==
    /\ DOMAIN row = Columns
    /\ row.digest \in Digests
    /\ row.principal \in Principals
    /\ row.lease \in Leases
    /\ row.state \in LiveStates \cup TerminalStates
    /\ row.expires \in Nat
    /\ row.renewal \in RenewalIds \cup {None}
    /\ row.next \in Nat \ {0}
    /\ row.bytes \in Nat
    /\ DOMAIN row.events \subseteq Nat
    /\ \A s \in DOMAIN row.events : row.events[s] \in Events

\* The type invariant is one statement per row.
LEMMA TypeOKByRow ==
    TypeOK <=> /\ DOMAIN rows \subseteq Keys
               /\ \A k \in DOMAIN rows : RowOK(rows[k])
               /\ now \in Nat
BY DEF TypeOK, RowOK, Columns

\* What AppendEvent does to the columns it does not count with.
LEMMA AppendColumns ==
    ASSUME NEW row, DOMAIN row = Columns, NEW state, NEW kind, NEW size,
           NEW new, new = AppendEvent(row, state, kind, size)
    PROVE  /\ DOMAIN new = Columns
           /\ new.digest = row.digest
           /\ new.principal = row.principal
           /\ new.lease = row.lease
           /\ new.expires = row.expires
           /\ new.renewal = row.renewal
           /\ new.state = state
BY DEF AppendEvent, Columns

\* The sequence number and the byte count after AppendEvent.
LEMMA AppendCounters ==
    ASSUME NEW row, DOMAIN row = Columns, row.next \in Nat, row.bytes \in Nat,
           NEW state, NEW kind, NEW size \in Nat,
           NEW new, new = AppendEvent(row, state, kind, size)
    PROVE  /\ new.next = row.next + 1
           /\ new.bytes = row.bytes + size
BY DEF AppendEvent, Columns

\* The journal holds old events and possibly the new one, unmodified.
LEMMA AppendKeepsEvents ==
    ASSUME NEW row, DOMAIN row = Columns, NEW state, NEW kind, NEW size,
           NEW new, new = AppendEvent(row, state, kind, size)
    PROVE  /\ DOMAIN new.events \subseteq DOMAIN row.events \cup {row.next}
           /\ row.next \in DOMAIN new.events =>
                new.events[row.next] = [kind |-> kind, from |-> row.bytes]
           /\ \A s \in DOMAIN new.events \ {row.next} : new.events[s] = row.events[s]
<1> DEFINE event == [kind |-> kind, from |-> row.bytes]
           all   == Insert(row.events, row.next, event)
<1>1. /\ DOMAIN all = {row.next} \cup DOMAIN row.events
      /\ all[row.next] = event
      /\ \A s \in DOMAIN row.events \ {row.next} : all[s] = row.events[s]
  BY DEF Insert
<1>2. new.events = TrimEvents(all, row.next + 1, row.bytes + size)
  BY DEF AppendEvent, Columns
<1> HIDE DEF event, all
<1>3. /\ DOMAIN new.events \subseteq DOMAIN all
      /\ \A s \in DOMAIN new.events : new.events[s] = all[s]
  BY <1>2 DEF TrimEvents, Kept
<1> QED
  BY <1>1, <1>3 DEF event

\* Which events the two bounds keep.
LEMMA AppendTrims ==
    ASSUME NEW row, DOMAIN row = Columns, row.next \in Nat, row.bytes \in Nat,
           DOMAIN row.events \subseteq Nat,
           \A s \in DOMAIN row.events : row.events[s].from \in Nat,
           NEW state, NEW kind, NEW size \in Nat,
           NEW new, new = AppendEvent(row, state, kind, size)
    PROVE  /\ row.next \in DOMAIN new.events <=> size <= MAX_RETAINED_EVENT_BYTES
           /\ \A s \in DOMAIN row.events \ {row.next} :
                s \in DOMAIN new.events <=>
                  /\ row.next + 1 - s <= MAX_RETAINED_EVENTS
                  /\ row.bytes + size - row.events[s].from <= MAX_RETAINED_EVENT_BYTES
<1> DEFINE event == [kind |-> kind, from |-> row.bytes]
           all   == Insert(row.events, row.next, event)
           next  == row.next + 1
           bytes == row.bytes + size
<1>1. /\ DOMAIN all = {row.next} \cup DOMAIN row.events
      /\ all[row.next] = event
      /\ \A s \in DOMAIN row.events \ {row.next} : all[s] = row.events[s]
  BY DEF Insert
<1>2. new.events = TrimEvents(all, next, bytes)
  BY DEF AppendEvent, Columns
<1>3. event.from = row.bytes
  OBVIOUS
<1>4. next \in Nat /\ bytes \in Nat /\ next = row.next + 1 /\ bytes = row.bytes + size
  OBVIOUS
<1> HIDE DEF event, all, next, bytes
<1>5. DOMAIN new.events = Kept(all, next, bytes)
  BY <1>2 DEF TrimEvents
<1>6. \A s \in DOMAIN all : s \in DOMAIN new.events <=>
                /\ next - s <= MAX_RETAINED_EVENTS
                /\ bytes - all[s].from <= MAX_RETAINED_EVENT_BYTES
  BY <1>5 DEF Kept
<1>7. row.next \in DOMAIN new.events <=> size <= MAX_RETAINED_EVENT_BYTES
  <2>1. next - row.next = 1 /\ bytes - row.bytes = size
    BY <1>4
  <2> QED
    BY <1>1, <1>3, <1>6, <2>1, StoreAssumption DEF StoreAssumption
<1>8. ASSUME NEW s \in DOMAIN row.events \ {row.next}
      PROVE  s \in DOMAIN new.events <=>
                /\ row.next + 1 - s <= MAX_RETAINED_EVENTS
                /\ row.bytes + size - row.events[s].from <= MAX_RETAINED_EVENT_BYTES
  <2>1. s \in DOMAIN all /\ all[s] = row.events[s]
    BY <1>1
  <2>2. s \in DOMAIN new.events <=>
          /\ next - s <= MAX_RETAINED_EVENTS
          /\ bytes - all[s].from <= MAX_RETAINED_EVENT_BYTES
    BY <1>6, <2>1
  <2>3. next - s = row.next + 1 - s /\ bytes - all[s].from = row.bytes + size - row.events[s].from
    BY <1>4, <2>1
  <2> QED
    BY <2>2, <2>3
<1> QED
  BY <1>7, <1>8

-----------------------------------------------------------------------------
(* What one step of the store does to one row.                             *)

RowKept(k) == k \in DOMAIN rows /\ rows'[k] = rows[k]

RowCreated(k) ==
    /\ k \in Keys \ DOMAIN rows
    /\ MayFollow(k[1], k[2])
    /\ \E d \in Digests, p \in Principals, l \in Leases, t \in Nat :
          rows'[k] = NewRow(d, p, l, t)

RowAppended(k) ==
    /\ k \in DOMAIN rows
    /\ ~is_terminal(rows[k].state)
    /\ \E kind \in PublishedKinds, size \in 1..MAX_RETAINED_EVENT_BYTES :
          rows'[k] = AppendEvent(rows[k], SnapshotState(kind), kind, size)

RowRenewed(k) ==
    /\ k \in DOMAIN rows
    /\ ~is_terminal(rows[k].state)
    /\ \E t \in Nat, r \in RenewalIds :
          /\ rows[k].renewal # r
          /\ t >= rows[k].expires
          /\ now < rows[k].expires
          /\ rows'[k] = [[rows[k] EXCEPT !.expires = t] EXCEPT !.renewal = r]

RowStep(k) == RowKept(k) \/ RowCreated(k) \/ RowAppended(k) \/ RowRenewed(k)

\* Every step keeps every row of the table, and each row of the new table is
\* unchanged, freshly reserved, appended to while live, or renewed while live.
LEMMA RowSteps ==
    ASSUME TypeOK, [Next]_vars
    PROVE  /\ DOMAIN rows \subseteq DOMAIN rows'
           /\ \A k \in DOMAIN rows' : RowStep(k)
           /\ now' \in Nat
<1> USE TypeOKByRow
<1>1. ASSUME NEW id \in ExecutionIds, NEW g \in Generations, NEW d \in Digests,
             NEW p \in Principals, NEW l \in Leases, NEW t \in Deadlines,
             Reserve(id, g, d, p, l, t)
      PROVE  /\ DOMAIN rows \subseteq DOMAIN rows'
             /\ \A k \in DOMAIN rows' : RowStep(k)
             /\ now' \in Nat
  <2> DEFINE key == <<id, g>>
             row == NewRow(d, p, l, t)
  <2>1. key \in Keys \ DOMAIN rows /\ MayFollow(id, g)
    BY <1>1 DEF Reserve, ReserveResult, Keys
  <2>2. t \in Nat
    BY StoreAssumption DEF StoreAssumption, Deadlines
  <2>3. rows' = Insert(rows, key, row) /\ now' = now
    BY <1>1 DEF Reserve
  <2>4. key[1] = id /\ key[2] = g
    OBVIOUS
  <2> HIDE DEF key, row
  <2>5. /\ DOMAIN rows' = DOMAIN rows \cup {key}
        /\ rows'[key] = row
        /\ \A k \in DOMAIN rows : rows'[k] = rows[k]
    BY <2>1, <2>3 DEF Insert
  <2>6. RowCreated(key)
    BY <2>1, <2>2, <2>4, <2>5 DEF RowCreated, row
  <2> QED
    BY <2>3, <2>5, <2>6 DEF RowStep, RowKept
<1>2. ASSUME NEW j \in DOMAIN rows, NEW kind \in PublishedKinds,
             NEW size \in Sizes(kind), CommitEvent(j, kind, size)
      PROVE  /\ DOMAIN rows \subseteq DOMAIN rows'
             /\ \A k \in DOMAIN rows' : RowStep(k)
             /\ now' \in Nat
  <2>1. size \in Nat /\ size > 0
    BY StoreAssumption DEF StoreAssumption, Sizes
  <2>2. ~is_terminal(rows[j].state) /\ size \in 1..MAX_RETAINED_EVENT_BYTES
    BY <1>2, <2>1, StoreAssumption DEF CommitEvent, CommitResult, StoreAssumption
  <2>3. /\ rows' = [rows EXCEPT ![j] = AppendEvent(rows[j], SnapshotState(kind), kind, size)]
        /\ now' = now
    BY <1>2 DEF CommitEvent
  <2>4. RowAppended(j)
    BY <2>2, <2>3 DEF RowAppended
  <2> QED
    BY <2>3, <2>4 DEF RowStep, RowKept
<1>3. ASSUME NEW j \in DOMAIN rows, NEW l \in Leases, NEW r \in RenewalIds,
             NEW t \in Deadlines, UpdateLease(j, l, r, t)
      PROVE  /\ DOMAIN rows \subseteq DOMAIN rows'
             /\ \A k \in DOMAIN rows' : RowStep(k)
             /\ now' \in Nat
  <2> DEFINE expires == UpdateLeaseResult(j, l, r, t)
  <2>1. t \in Nat /\ rows[j].expires \in Nat
    BY StoreAssumption DEF StoreAssumption, Deadlines, RowOK
  <2>2. expires # None /\ rows[j].renewal # r
    BY <1>3 DEF UpdateLease
  <2>3. /\ ~is_terminal(rows[j].state)
        /\ ~(rows[j].expires <= now)
        /\ expires \in Nat
        /\ expires >= rows[j].expires
    BY <2>1, <2>2 DEF UpdateLeaseResult
  <2>4. /\ rows' = [rows EXCEPT ![j] = [[rows[j] EXCEPT !.expires = expires] EXCEPT !.renewal = r]]
        /\ now' = now
    BY Zenon, <1>3, TypeOK DEF UpdateLease, RowOK, Columns
  <2>5. now < rows[j].expires
    BY <2>1, <2>3
  <2> HIDE DEF expires
  <2>6. RowRenewed(j)
    BY Zenon, <2>2, <2>3, <2>4, <2>5 DEF RowRenewed
  <2> QED
    BY <2>4, <2>6 DEF RowStep, RowKept
<1>4. ASSUME Recover
      PROVE  /\ DOMAIN rows \subseteq DOMAIN rows'
             /\ \A k \in DOMAIN rows' : RowStep(k)
             /\ now' \in Nat
  <2>1. DOMAIN rows' = DOMAIN rows /\ now' = now
    BY <1>4 DEF Recover
  <2>2. ASSUME NEW k \in DOMAIN rows, rows[k].state \in LiveStates
        PROVE  RowAppended(k)
    <3>1. rows'[k] = AppendEvent(rows[k], "Interrupted", "Interrupted", StateEventBytes)
      BY <1>4, <2>2 DEF Recover
    <3>2. ~is_terminal(rows[k].state)
      BY <2>2 DEF is_terminal, LiveStates, TerminalStates
    <3>3. "Interrupted" \in PublishedKinds /\ SnapshotState("Interrupted") = "Interrupted"
      BY DEF PublishedKinds, Kinds, TerminalStates, LiveStates, SnapshotState
    <3> QED
      BY <3>1, <3>2, <3>3, StoreAssumption DEF RowAppended, StoreAssumption
  <2>3. ASSUME NEW k \in DOMAIN rows, rows[k].state \notin LiveStates
        PROVE  RowKept(k)
    BY <1>4, <2>3 DEF Recover, RowKept
  <2> QED
    BY <2>1, <2>2, <2>3 DEF RowStep
<1>5. ASSUME Tick
      PROVE  /\ DOMAIN rows \subseteq DOMAIN rows'
             /\ \A k \in DOMAIN rows' : RowStep(k)
             /\ now' \in Nat
  BY <1>5 DEF Tick, RowStep, RowKept
<1>6. ASSUME UNCHANGED vars
      PROVE  /\ DOMAIN rows \subseteq DOMAIN rows'
             /\ \A k \in DOMAIN rows' : RowStep(k)
             /\ now' \in Nat
  BY <1>6 DEF vars, RowStep, RowKept
<1> QED
  BY <1>1, <1>2, <1>3, <1>4, <1>5, <1>6 DEF Next

-----------------------------------------------------------------------------
(* Types.                                                                  *)

\* Appending an event of any kind keeps the types of the columns.
LEMMA AppendRowOK ==
    ASSUME NEW row, RowOK(row), NEW state \in LiveStates \cup TerminalStates,
           NEW kind \in Kinds, NEW size \in Nat,
           NEW new, new = AppendEvent(row, state, kind, size)
    PROVE  RowOK(new)
<1>1. DOMAIN row = Columns /\ row.next \in Nat \ {0} /\ row.bytes \in Nat
  BY DEF RowOK
<1>2. /\ DOMAIN new = Columns /\ new.digest = row.digest /\ new.principal = row.principal
      /\ new.lease = row.lease /\ new.expires = row.expires /\ new.renewal = row.renewal
      /\ new.state = state /\ new.next = row.next + 1 /\ new.bytes = row.bytes + size
  BY <1>1, AppendColumns, AppendCounters
<1>3. /\ DOMAIN new.events \subseteq DOMAIN row.events \cup {row.next}
      /\ row.next \in DOMAIN new.events => new.events[row.next] = [kind |-> kind, from |-> row.bytes]
      /\ \A s \in DOMAIN new.events \ {row.next} : new.events[s] = row.events[s]
  BY <1>1, AppendKeepsEvents
<1>4. [kind |-> kind, from |-> row.bytes] \in Events
  BY <1>1 DEF Events
<1>5. /\ DOMAIN new.events \subseteq Nat
      /\ \A s \in DOMAIN new.events : new.events[s] \in Events
  BY <1>1, <1>3, <1>4 DEF RowOK
<1> QED
  BY <1>1, <1>2, <1>5 DEF RowOK

\* A fresh row has an empty journal.
LEMMA NewRowOK ==
    ASSUME NEW d \in Digests, NEW p \in Principals, NEW l \in Leases, NEW t \in Nat,
           NEW row, row = NewRow(d, p, l, t)
    PROVE  /\ RowOK(row)
           /\ row.state = "Accepted" /\ row.next = 1 /\ row.bytes = 0
           /\ DOMAIN row.events = {}
BY DEF NewRow, RowOK, Columns, LiveStates

\* Every operation of the store keeps the types of the columns.
LEMMA TypeStep == TypeOK /\ [Next]_vars => TypeOK'
<1> SUFFICES ASSUME TypeOK, [Next]_vars PROVE TypeOK'
  OBVIOUS
<1>1. /\ DOMAIN rows \subseteq DOMAIN rows'
      /\ \A k \in DOMAIN rows' : RowStep(k)
      /\ now' \in Nat
  BY RowSteps
<1>2. DOMAIN rows \subseteq Keys /\ \A k \in DOMAIN rows : RowOK(rows[k])
  BY TypeOKByRow
<1>3. ASSUME NEW k \in DOMAIN rows'
      PROVE  k \in Keys /\ RowOK(rows'[k])
  <2>1. CASE RowKept(k)
    BY <1>2, <2>1 DEF RowKept
  <2>2. CASE RowCreated(k)
    BY <2>2, NewRowOK DEF RowCreated
  <2>3. CASE RowAppended(k)
    <3>1. PICK kind \in PublishedKinds, size \in 1..MAX_RETAINED_EVENT_BYTES :
             rows'[k] = AppendEvent(rows[k], SnapshotState(kind), kind, size)
      BY <2>3 DEF RowAppended
    <3>2. size \in Nat /\ RowOK(rows[k]) /\ k \in Keys
      BY <1>2, <2>3, StoreAssumption DEF RowAppended, StoreAssumption
    <3>3. kind \in Kinds /\ SnapshotState(kind) \in LiveStates \cup TerminalStates
      BY DEF SnapshotState, PublishedKinds, Kinds, LiveStates
    <3> QED
      BY <3>1, <3>2, <3>3, AppendRowOK
  <2>4. CASE RowRenewed(k)
    <3>1. PICK t \in Nat, r \in RenewalIds :
             rows'[k] = [[rows[k] EXCEPT !.expires = t] EXCEPT !.renewal = r]
      BY Zenon, <2>4 DEF RowRenewed
    <3>2. RowOK(rows[k]) /\ k \in Keys
      BY <1>2, <2>4 DEF RowRenewed
    <3> QED
      BY Zenon, <3>1, <3>2 DEF RowOK, Columns
  <2> QED
    BY <1>1, <2>1, <2>2, <2>3, <2>4 DEF RowStep
<1> QED
  BY <1>1, <1>3 DEF TypeOK, RowOK, Columns, Keys, Events, Kinds

\* The columns of the table keep their types under every operation of the store.
THEOREM TypeCorrect == Spec => []TypeOK
<1>1. Init => TypeOK
  BY DEF Init, TypeOK
<1> QED
  BY <1>1, TypeStep, PTL DEF Spec

-----------------------------------------------------------------------------
(* Generations.                                                            *)

\* Every operation of the store keeps generations in succession.
LEMMA GenerationStep ==
    ASSUME TypeOK, OneLiveGeneration, [Next]_vars
    PROVE  OneLiveGeneration'
<1>1. /\ DOMAIN rows \subseteq DOMAIN rows'
      /\ \A k \in DOMAIN rows' : RowStep(k)
  BY Zenon, RowSteps
<1>2. ASSUME NEW k \in DOMAIN rows, is_terminal(rows[k].state)
      PROVE  rows'[k] = rows[k]
  BY Zenon, <1>1, <1>2 DEF RowStep, RowKept, RowCreated, RowAppended, RowRenewed
<1> SUFFICES ASSUME NEW id \in ExecutionIds, NEW g \in Generations,
                    <<id, g>> \in DOMAIN rows', NEW h \in 1..(g - 1)
             PROVE  /\ <<id, h>> \in DOMAIN rows'
                    /\ is_terminal(rows'[<<id, h>>].state)
  BY DEF OneLiveGeneration, is_terminal
<1>3. g \in Nat /\ h \in Nat /\ h < g /\ h \in Generations /\ 1 <= h
  BY StoreAssumption DEF Generations, StoreAssumption
<1>4. SUFFICES <<id, h>> \in DOMAIN rows /\ is_terminal(rows[<<id, h>>].state)
  BY <1>1, <1>2
<1>5. CASE <<id, g>> \in DOMAIN rows
  BY <1>5 DEF OneLiveGeneration
<1>6. CASE <<id, g>> \notin DOMAIN rows
  <2>1. RowCreated(<<id, g>>)
    BY Zenon, <1>1, <1>6 DEF RowStep, RowKept, RowAppended, RowRenewed
  <2>2. MayFollow(id, g)
    BY <2>1 DEF RowCreated
  <2>3. g # 1
    BY <1>3
  <2>4. <<id, g - 1>> \in DOMAIN rows /\ is_terminal(rows[<<id, g - 1>>].state)
    BY <2>2, <2>3 DEF MayFollow
  <2>5. CASE h = g - 1
    BY <2>4, <2>5
  <2>6. CASE h # g - 1
    <3>1. g - 1 \in Generations /\ h \in 1..((g - 1) - 1)
      BY <1>3, <2>6, StoreAssumption DEF Generations, StoreAssumption
    <3> QED
      BY <2>4, <3>1 DEF OneLiveGeneration
  <2> QED
    BY Zenon, <2>5, <2>6
<1> QED
  BY <1>5, <1>6

\* At every moment at most the last generation of an identity is live, and no
\* generation was skipped (reserve checks the latest row).
THEOREM GenerationsFenced == Spec => []OneLiveGeneration
<1>1. Init => OneLiveGeneration
  BY DEF Init, OneLiveGeneration
<1>2. TypeOK /\ OneLiveGeneration /\ [Next]_vars => OneLiveGeneration'
  BY GenerationStep
<1> QED
  BY <1>1, <1>2, TypeCorrect, PTL DEF Spec

-----------------------------------------------------------------------------
(* The journal.  JournalIntact is not inductive: that trimming leaves a    *)
(* suffix with a first event rests on the events at or past any byte       *)
(* position being one, and that the newest event survives on its size.     *)

JournalOK(row) ==
    /\ \A f \in Nat : \E b \in 1..row.next :
          {s \in DOMAIN row.events : row.events[s].from >= f} = b..(row.next - 1)
    /\ row.next > 1 => row.next - 1 \in DOMAIN row.events
    /\ \A s \in DOMAIN row.events :
         /\ row.events[s].from <= row.bytes
         /\ row.next - s <= MAX_RETAINED_EVENTS
         /\ row.bytes - row.events[s].from <= MAX_RETAINED_EVENT_BYTES

JournalInv == \A k \in DOMAIN rows : JournalOK(rows[k])

\* Appending an event no larger than the byte bound keeps the journal intact.
LEMMA AppendJournalOK ==
    ASSUME NEW row, RowOK(row), JournalOK(row), NEW state, NEW kind,
           NEW size \in 1..MAX_RETAINED_EVENT_BYTES,
           NEW new, new = AppendEvent(row, state, kind, size)
    PROVE  JournalOK(new)
<1>1. /\ DOMAIN row = Columns /\ row.next \in Nat \ {0} /\ row.bytes \in Nat
      /\ DOMAIN row.events \subseteq Nat
      /\ \A s \in DOMAIN row.events : row.events[s].from \in Nat
      /\ size \in Nat /\ size <= MAX_RETAINED_EVENT_BYTES
      /\ MAX_RETAINED_EVENTS \in Nat \ {0} /\ MAX_RETAINED_EVENT_BYTES \in Nat
  BY StoreAssumption DEF RowOK, Events, StoreAssumption
<1>2. new.next = row.next + 1 /\ new.bytes = row.bytes + size
  BY <1>1, AppendCounters
<1>3. /\ DOMAIN new.events \subseteq DOMAIN row.events \cup {row.next}
      /\ row.next \in DOMAIN new.events => new.events[row.next] = [kind |-> kind, from |-> row.bytes]
      /\ \A s \in DOMAIN new.events \ {row.next} : new.events[s] = row.events[s]
  BY <1>1, AppendKeepsEvents
<1>4. /\ row.next \in DOMAIN new.events
      /\ \A s \in DOMAIN row.events \ {row.next} :
                s \in DOMAIN new.events <=>
                  /\ row.next + 1 - s <= MAX_RETAINED_EVENTS
                  /\ row.bytes + size - row.events[s].from <= MAX_RETAINED_EVENT_BYTES
  BY Zenon, <1>1, AppendTrims
<1>5. new.events[row.next].from = row.bytes
  BY <1>3, <1>4
<1>6. ASSUME NEW s \in DOMAIN row.events PROVE s \in Nat /\ s < row.next
  <2>1. PICK b \in 1..row.next :
           {e \in DOMAIN row.events : row.events[e].from >= 0} = b..(row.next - 1)
    BY DEF JournalOK
  <2>2. s \in b..(row.next - 1)
    BY <1>1, <2>1
  <2> QED
    BY <1>1, <2>2
<1>7. \A s \in DOMAIN new.events \ {row.next} :
         /\ s \in DOMAIN row.events
         /\ new.events[s].from = row.events[s].from
         /\ new.events[s].from \in Nat
         /\ new.events[s].from <= row.bytes
         /\ row.next + 1 - s <= MAX_RETAINED_EVENTS
         /\ row.bytes + size - new.events[s].from <= MAX_RETAINED_EVENT_BYTES
  BY Zenon, <1>1, <1>3, <1>4 DEF JournalOK
<1>8. \A s \in DOMAIN new.events :
         /\ new.events[s].from <= new.bytes
         /\ new.next - s <= MAX_RETAINED_EVENTS
         /\ new.bytes - new.events[s].from <= MAX_RETAINED_EVENT_BYTES
  BY <1>1, <1>2, <1>5, <1>7
<1>9. ASSUME NEW f \in Nat
      PROVE  \E c \in 1..new.next :
                {s \in DOMAIN new.events : new.events[s].from >= f} = c..(new.next - 1)
  <2> DEFINE least == row.bytes + size - MAX_RETAINED_EVENT_BYTES
             floor == IF f >= least THEN f ELSE least
             T     == {s \in DOMAIN new.events : new.events[s].from >= f}
  <2>1. least \in Int /\ floor \in Nat /\ floor >= f /\ floor >= least
        /\ (floor = f \/ floor = least)
    BY <1>1
  <2> HIDE DEF floor
  <2>2. PICK b \in 1..row.next :
           {s \in DOMAIN row.events : row.events[s].from >= floor} = b..(row.next - 1)
    BY Zenon, <2>1 DEF JournalOK
  <2>3. CASE f > row.bytes
    <3>1. T = {}
      BY <1>1, <1>5, <1>7, <2>3
    <3>2. new.next \in 1..new.next /\ new.next..(new.next - 1) = {}
      BY <1>1, <1>2
    <3> QED
      BY <3>1, <3>2
  <2>4. CASE f <= row.bytes
    <3> DEFINE edge == row.next + 1 - MAX_RETAINED_EVENTS
               c    == IF b >= edge THEN b ELSE edge
    <3>1. c \in 1..row.next /\ c >= b /\ c >= edge /\ (c = b \/ c = edge) /\ edge \in Int
      BY <1>1
    <3> HIDE DEF c
    <3>2. ASSUME NEW s \in T PROVE s \in c..row.next
      <4>1. CASE s = row.next
        BY <1>1, <3>1, <4>1
      <4>2. CASE s # row.next
        <5>1. /\ s \in DOMAIN row.events /\ s \in Nat /\ s < row.next
              /\ row.events[s].from \in Nat /\ row.events[s].from >= f
              /\ row.next + 1 - s <= MAX_RETAINED_EVENTS
              /\ row.bytes + size - row.events[s].from <= MAX_RETAINED_EVENT_BYTES
          BY <1>1, <1>6, <1>7, <4>2
        <5>2. s \in b..(row.next - 1)
          BY <1>1, <2>1, <2>2, <5>1
        <5> QED
          BY <1>1, <3>1, <5>1, <5>2
      <4> QED
        BY <4>1, <4>2
    <3>3. ASSUME NEW s \in c..row.next PROVE s \in T
      <4>1. CASE s = row.next
        BY <1>1, <1>4, <1>5, <2>4, <4>1
      <4>2. CASE s # row.next
        <5>1. s \in b..(row.next - 1) /\ s >= edge /\ s \in Nat
          BY <1>1, <3>1, <4>2
        <5>2. s \in DOMAIN row.events /\ row.events[s].from >= floor /\ row.events[s].from \in Nat
          BY <1>1, <2>2, <5>1
        <5>3. s \in DOMAIN new.events
          BY <1>1, <1>4, <2>1, <4>2, <5>1, <5>2
        <5> QED
          BY <1>7, <2>1, <4>2, <5>2, <5>3
      <4> QED
        BY <4>1, <4>2
    <3>4. T = c..row.next
      BY Zenon, <3>2, <3>3
    <3> QED
      BY <1>1, <1>2, <3>1, <3>4
  <2> QED
    BY <1>1, <2>3, <2>4
<1>10. new.next - 1 \in DOMAIN new.events
  BY <1>1, <1>2, <1>4
<1> QED
  BY Zenon, <1>8, <1>9, <1>10 DEF JournalOK

\* Every operation of the store keeps every journal intact.
LEMMA JournalStep ==
    ASSUME TypeOK, JournalInv, [Next]_vars
    PROVE  JournalInv'
<1>1. \A k \in DOMAIN rows' : RowStep(k)
  BY RowSteps
<1>2. \A k \in DOMAIN rows : RowOK(rows[k]) /\ JournalOK(rows[k])
  BY TypeOKByRow DEF JournalInv
<1>3. ASSUME NEW k \in DOMAIN rows' PROVE JournalOK(rows'[k])
  <2>1. CASE RowKept(k)
    BY <1>2, <2>1 DEF RowKept
  <2>2. CASE RowCreated(k)
    <3>1. PICK d \in Digests, p \in Principals, l \in Leases, t \in Nat :
             rows'[k] = NewRow(d, p, l, t)
      BY <2>2 DEF RowCreated
    <3>2. rows'[k].next = 1 /\ DOMAIN rows'[k].events = {}
      BY <3>1, NewRowOK
    <3> QED
      BY <3>2 DEF JournalOK
  <2>3. CASE RowAppended(k)
    <3>1. PICK kind \in PublishedKinds, size \in 1..MAX_RETAINED_EVENT_BYTES :
             rows'[k] = AppendEvent(rows[k], SnapshotState(kind), kind, size)
      BY <2>3 DEF RowAppended
    <3>2. RowOK(rows[k]) /\ JournalOK(rows[k])
      BY Zenon, <1>2, <2>3 DEF RowAppended
    <3> QED
      BY Zenon, <3>1, <3>2, AppendJournalOK
  <2>4. CASE RowRenewed(k)
    <3>1. PICK t \in Nat, r \in RenewalIds :
             rows'[k] = [[rows[k] EXCEPT !.expires = t] EXCEPT !.renewal = r]
      BY Zenon, <2>4 DEF RowRenewed
    <3>2. DOMAIN rows[k] = Columns /\ JournalOK(rows[k])
      BY <1>2, <2>4 DEF RowRenewed, RowOK
    <3>3. /\ rows'[k].events = rows[k].events
          /\ rows'[k].next = rows[k].next
          /\ rows'[k].bytes = rows[k].bytes
      BY <3>1, <3>2 DEF Columns
    <3> QED
      BY Zenon, <3>2, <3>3 DEF JournalOK
  <2> QED
    BY <1>1, <2>1, <2>2, <2>3, <2>4 DEF RowStep
<1> QED
  BY Zenon, <1>3 DEF JournalInv, JournalOK

\* The base a page reports is the first retained event, or the next sequence
\* number of an empty journal; the journal runs from it to the newest event.
LEMMA BaseIsFirst ==
    ASSUME NEW row, RowOK(row), JournalOK(row)
    PROVE  /\ BaseSequence(row) \in 1..row.next
           /\ DOMAIN row.events = BaseSequence(row)..(row.next - 1)
<1>1. row.next \in Nat \ {0} /\ DOMAIN row.events \subseteq Nat
  BY DEF RowOK
<1>2. PICK b \in 1..row.next : DOMAIN row.events = b..(row.next - 1)
  <2>1. PICK b \in 1..row.next :
           {s \in DOMAIN row.events : row.events[s].from >= 0} = b..(row.next - 1)
    BY DEF JournalOK
  <2>2. \A s \in DOMAIN row.events : row.events[s].from >= 0
    BY DEF RowOK, Events
  <2> QED
    BY Zenon, <2>1, <2>2
<1>3. CASE DOMAIN row.events = {}
  <2>1. BaseSequence(row) = row.next
    BY <1>3 DEF BaseSequence
  <2>2. row.next..(row.next - 1) = {}
    BY <1>1
  <2> QED
    BY <1>1, <1>3, <2>1, <2>2
<1>4. CASE DOMAIN row.events # {}
  <2> DEFINE S == DOMAIN row.events
             c == CHOOSE s \in S : \A t \in S : s <= t
  <2>1. BaseSequence(row) = c
    BY <1>4 DEF BaseSequence
  <2>2. b \in S /\ \A t \in S : b <= t
    BY <1>1, <1>2, <1>4
  <2>3. c \in S /\ \A t \in S : c <= t
    BY Zenon, <2>2
  <2> HIDE DEF c
  <2>4. c = b
    BY <1>1, <1>2, <2>2, <2>3
  <2> QED
    BY <1>2, <2>1, <2>4
<1> QED
  BY <1>3, <1>4

\* The journals are intact in every reachable table.
LEMMA JournalInvariant == Spec => [](TypeOK /\ JournalInv)
<1>1. Init => JournalInv
  BY DEF Init, JournalInv
<1>2. TypeOK /\ JournalInv /\ [Next]_vars => JournalInv'
  BY JournalStep
<1> QED
  BY <1>1, <1>2, TypeCorrect, PTL DEF Spec

\* The journal of every generation is a gap-free run that ends at the newest
\* event, never empty once written, within both retention bounds (commit_event,
\* recover and trim_events).
THEOREM JournalCorrect == Spec => []JournalIntact
<1>1. TypeOK /\ JournalInv => JournalIntact
  <2> SUFFICES ASSUME TypeOK, JournalInv, NEW k \in DOMAIN rows
               PROVE  LET row == rows[k]
                      IN  /\ DOMAIN row.events = BaseSequence(row)..(row.next - 1)
                          /\ row.next > 1 => row.next - 1 \in DOMAIN row.events
                          /\ \A s \in DOMAIN row.events :
                               /\ row.next - s <= MAX_RETAINED_EVENTS
                               /\ row.bytes - row.events[s].from <= MAX_RETAINED_EVENT_BYTES
    BY DEF JournalIntact
  <2>1. RowOK(rows[k]) /\ JournalOK(rows[k])
    BY TypeOKByRow DEF JournalInv
  <2>2. DOMAIN rows[k].events = BaseSequence(rows[k])..(rows[k].next - 1)
    BY Zenon, <2>1, BaseIsFirst
  <2> QED
    BY <2>1, <2>2 DEF JournalOK
<1> QED
  BY <1>1, JournalInvariant, PTL

\* No client is told that a discontinuous stream is continuous: whatever its
\* cursor, the page it gets is the whole of the history after the cursor or is
\* recognisably not (load_page).
THEOREM PagesHonest == Spec => []PageContract
<1>1. TypeOK /\ JournalInv => PageContract
  <2> SUFFICES ASSUME TypeOK, JournalInv, NEW k \in DOMAIN rows,
                      NEW after \in 0..(MaxSequence + 2)
               PROVE  IF after + 1 < LoadPage(rows[k], after).base
                      THEN /\ LoadPage(rows[k], after).events = {}
                           /\ after + 1 \notin DOMAIN rows[k].events
                      ELSE after < LoadPage(rows[k], after).next =>
                             LoadPage(rows[k], after).events = (after + 1)..(rows[k].next - 1)
    BY DEF PageContract
  <2> DEFINE row == rows[k]
             base == BaseSequence(row)
  <2>1. RowOK(row) /\ JournalOK(row)
    BY Zenon, TypeOKByRow DEF JournalInv
  <2>2. /\ base \in 1..row.next
        /\ DOMAIN row.events = base..(row.next - 1)
        /\ row.next \in Nat /\ after \in Nat
    BY <2>1, BaseIsFirst, StoreAssumption DEF RowOK, StoreAssumption
  <2>3. /\ LoadPage(row, after).base = base
        /\ LoadPage(row, after).next = row.next
        /\ LoadPage(row, after).events =
             IF after + 1 < base THEN {} ELSE {s \in DOMAIN row.events : s > after}
    BY Zenon DEF LoadPage
  <2> HIDE DEF row, base
  <2>4. CASE after + 1 < base
    BY <2>2, <2>3, <2>4 DEF row
  <2>5. CASE ~(after + 1 < base)
    <3>1. {s \in DOMAIN row.events : s > after} = (after + 1)..(row.next - 1)
      BY <2>2, <2>5
    <3> QED
      BY <2>3, <2>5, <3>1 DEF row
  <2> QED
    BY <2>4, <2>5
<1> QED
  BY <1>1, JournalInvariant, PTL

-----------------------------------------------------------------------------
(* Outcomes.                                                               *)

OutcomeOK(row) ==
    \A s \in DOMAIN row.events :
        is_terminal(row.events[s].kind) <=> s = row.next - 1 /\ is_terminal(row.state)

\* Every operation of the store keeps outcomes and terminal events together.
LEMMA OutcomeStep ==
    ASSUME TypeOK, JournalInv, OutcomeJournaled, [Next]_vars
    PROVE  OutcomeJournaled'
<1>1. \A k \in DOMAIN rows' : RowStep(k)
  BY RowSteps
<1>2. \A k \in DOMAIN rows : RowOK(rows[k]) /\ JournalOK(rows[k]) /\ OutcomeOK(rows[k])
  BY TypeOKByRow DEF JournalInv, OutcomeJournaled, OutcomeOK
<1>3. ASSUME NEW k \in DOMAIN rows' PROVE OutcomeOK(rows'[k])
  <2>1. CASE RowKept(k)
    BY <1>2, <2>1 DEF RowKept
  <2>2. CASE RowCreated(k)
    <3>1. PICK d \in Digests, p \in Principals, l \in Leases, t \in Nat :
             rows'[k] = NewRow(d, p, l, t)
      BY <2>2 DEF RowCreated
    <3>2. DOMAIN rows'[k].events = {}
      BY <3>1, NewRowOK
    <3> QED
      BY <3>2 DEF OutcomeOK
  <2>3. CASE RowAppended(k)
    <3>1. PICK kind \in PublishedKinds, size \in 1..MAX_RETAINED_EVENT_BYTES :
             rows'[k] = AppendEvent(rows[k], SnapshotState(kind), kind, size)
      BY Zenon, <2>3 DEF RowAppended
    <3> DEFINE row == rows[k]
               new == rows'[k]
    <3>2. /\ RowOK(row) /\ JournalOK(row) /\ OutcomeOK(row) /\ ~is_terminal(row.state)
          /\ DOMAIN row = Columns /\ row.next \in Nat \ {0} /\ row.bytes \in Nat
          /\ size \in Nat
      BY <1>2, <2>3, StoreAssumption DEF RowAppended, RowOK, StoreAssumption
    <3>3. is_terminal(SnapshotState(kind)) <=> is_terminal(kind)
      BY Zenon DEF SnapshotState, is_terminal, TerminalStates
    <3>4. new.state = SnapshotState(kind) /\ new.next = row.next + 1
      BY SMTT(30), <3>1, <3>2, AppendColumns, AppendCounters
    <3>5. /\ DOMAIN new.events \subseteq DOMAIN row.events \cup {row.next}
          /\ row.next \in DOMAIN new.events => new.events[row.next] = [kind |-> kind, from |-> row.bytes]
          /\ \A s \in DOMAIN new.events \ {row.next} : new.events[s] = row.events[s]
      BY <3>1, <3>2, AppendKeepsEvents
    <3>6. \A s \in DOMAIN row.events : s \in Nat /\ s < row.next /\ ~is_terminal(row.events[s].kind)
      <4>1. /\ BaseSequence(row) \in 1..row.next
            /\ DOMAIN row.events = BaseSequence(row)..(row.next - 1)
        BY Zenon, <3>2, BaseIsFirst
      <4>2. \A s \in DOMAIN row.events : s \in Nat /\ s < row.next
        BY <3>2, <4>1
      <4> QED
        BY Zenon, <3>2, <4>2 DEF OutcomeOK
    <3> HIDE DEF row, new
    <3>7. ASSUME NEW s \in DOMAIN new.events
          PROVE  is_terminal(new.events[s].kind)
                   <=> s = new.next - 1 /\ is_terminal(new.state)
      <4>1. CASE s = row.next
        <5>1. new.events[s].kind = kind
          BY <3>5, <4>1
        <5>2. s = new.next - 1
          BY <3>2, <3>4, <4>1
        <5> QED
          BY Zenon, <3>3, <3>4, <5>1, <5>2
      <4>2. CASE s # row.next
        <5>1. s \in DOMAIN row.events /\ new.events[s] = row.events[s]
          BY <3>5, <4>2
        <5>2. s # new.next - 1
          BY <3>2, <3>4, <4>2
        <5> QED
          BY <3>6, <5>1, <5>2
      <4> QED
        BY Zenon, <4>1, <4>2
    <3> QED
      BY <3>7 DEF OutcomeOK, new
  <2>4. CASE RowRenewed(k)
    <3>1. PICK t \in Nat, r \in RenewalIds :
             rows'[k] = [[rows[k] EXCEPT !.expires = t] EXCEPT !.renewal = r]
      BY Zenon, <2>4 DEF RowRenewed
    <3>2. DOMAIN rows[k] = Columns /\ OutcomeOK(rows[k])
      BY <1>2, <2>4 DEF RowRenewed, RowOK
    <3>3. /\ rows'[k].events = rows[k].events
          /\ rows'[k].next = rows[k].next
          /\ rows'[k].state = rows[k].state
      BY <3>1, <3>2 DEF Columns
    <3> QED
      BY Zenon, <3>2, <3>3 DEF OutcomeOK
  <2> QED
    BY <1>1, <2>1, <2>2, <2>3, <2>4 DEF RowStep
<1> QED
  BY <1>3 DEF OutcomeJournaled, OutcomeOK, is_terminal

\* A durable outcome and its journal entry cannot diverge, at any crash point.
THEOREM OutcomeCorrect == Spec => []OutcomeJournaled
<1>1. Init => OutcomeJournaled
  BY DEF Init, OutcomeJournaled
<1>2. TypeOK /\ JournalInv /\ OutcomeJournaled /\ [Next]_vars => OutcomeJournaled'
  BY OutcomeStep
<1> QED
  BY <1>1, <1>2, JournalInvariant, PTL DEF Spec

\* Terminal state is single-assignment, and nothing else of a concluded row
\* changes either.
THEOREM TerminalFinal == Spec => TerminalIsFinal
<1>1. TypeOK /\ [Next]_vars =>
        [\A k \in DOMAIN rows :
            is_terminal(rows[k].state) => k \in DOMAIN rows' /\ rows'[k] = rows[k]]_vars
  <2> SUFFICES ASSUME TypeOK, [Next]_vars, NEW k \in DOMAIN rows, is_terminal(rows[k].state)
               PROVE  k \in DOMAIN rows' /\ rows'[k] = rows[k]
    OBVIOUS
  <2>1. k \in DOMAIN rows' /\ RowStep(k)
    BY RowSteps
  <2> QED
    BY <2>1 DEF RowStep, RowKept, RowCreated, RowAppended, RowRenewed
<1> QED
  BY <1>1, TypeCorrect, PTL DEF Spec, TerminalIsFinal

\* Identities are permanent, sequence numbers are not reused, and the journal is
\* only ever appended to at its end and trimmed at its front.
THEOREM JournalAppendOnly == Spec => AppendOnly
<1> DEFINE Kept1(k) ==
             /\ k \in DOMAIN rows'
             /\ rows'[k].digest = rows[k].digest
             /\ rows'[k].principal = rows[k].principal
             /\ rows'[k].lease = rows[k].lease
             /\ rows'[k].next >= rows[k].next
             /\ \A s \in DOMAIN rows'[k].events :
                  \/ s \in DOMAIN rows[k].events /\ rows'[k].events[s] = rows[k].events[s]
                  \/ s >= rows[k].next
<1>1. TypeOK /\ [Next]_vars => [\A k \in DOMAIN rows : Kept1(k)]_vars
  <2> SUFFICES ASSUME TypeOK, [Next]_vars, NEW k \in DOMAIN rows
               PROVE  Kept1(k)
    OBVIOUS
  <2>1. k \in DOMAIN rows' /\ RowStep(k)
    BY Zenon, RowSteps
  <2>2. /\ RowOK(rows[k]) /\ DOMAIN rows[k] = Columns
        /\ rows[k].next \in Nat /\ rows[k].bytes \in Nat
    BY Zenon, TypeOKByRow DEF RowOK
  <2>3. CASE RowKept(k)
    BY <2>1, <2>2, <2>3 DEF RowKept
  <2>4. CASE RowAppended(k)
    <3>1. PICK kind \in PublishedKinds, size \in 1..MAX_RETAINED_EVENT_BYTES :
             rows'[k] = AppendEvent(rows[k], SnapshotState(kind), kind, size)
      BY Zenon, <2>4 DEF RowAppended
    <3>2. /\ rows'[k].digest = rows[k].digest
          /\ rows'[k].principal = rows[k].principal
          /\ rows'[k].lease = rows[k].lease
      BY <2>2, <3>1, AppendColumns
    <3>3. rows'[k].next = rows[k].next + 1
      BY SMTT(30), <2>2, <3>1, AppendCounters, StoreAssumption DEF StoreAssumption
    <3>4. /\ DOMAIN rows'[k].events \subseteq DOMAIN rows[k].events \cup {rows[k].next}
          /\ rows[k].next \in DOMAIN rows'[k].events =>
                rows'[k].events[rows[k].next] = [kind |-> kind, from |-> rows[k].bytes]
          /\ \A s \in DOMAIN rows'[k].events \ {rows[k].next} :
                rows'[k].events[s] = rows[k].events[s]
      BY SMTT(30), <2>2, <3>1, AppendKeepsEvents
    <3> QED
      BY <2>1, <2>2, <3>2, <3>3, <3>4
  <2>5. CASE RowRenewed(k)
    <3>1. PICK t \in Nat, r \in RenewalIds :
             rows'[k] = [[rows[k] EXCEPT !.expires = t] EXCEPT !.renewal = r]
      BY Zenon, <2>5 DEF RowRenewed
    <3> QED
      BY <2>1, <2>2, <3>1 DEF Columns
  <2> QED
    BY Zenon, <2>1, <2>3, <2>4, <2>5 DEF RowStep, RowCreated
<1> QED
  BY <1>1, TypeCorrect, PTL DEF Spec, AppendOnly

\* A deadline moves only forward and only while it has not passed; an expired
\* lease is never revived (update_lease).
THEOREM LeaseMonotone == Spec => LeaseExtension
<1>1. TypeOK /\ [Next]_vars =>
        [\A k \in DOMAIN rows :
            rows'[k].expires # rows[k].expires =>
              /\ now < rows[k].expires
              /\ rows'[k].expires > rows[k].expires
              /\ rows'[k].renewal # rows[k].renewal]_vars
  <2> SUFFICES ASSUME TypeOK, [Next]_vars, NEW k \in DOMAIN rows,
                      rows'[k].expires # rows[k].expires
               PROVE  /\ now < rows[k].expires
                      /\ rows'[k].expires > rows[k].expires
                      /\ rows'[k].renewal # rows[k].renewal
    BY Zenon
  <2>1. k \in DOMAIN rows' /\ RowStep(k)
    BY RowSteps
  <2>2. DOMAIN rows[k] = Columns /\ rows[k].expires \in Nat /\ now \in Nat
    BY TypeOKByRow DEF RowOK
  <2>3. ~RowAppended(k)
    <3> SUFFICES ASSUME RowAppended(k) PROVE FALSE
      OBVIOUS
    <3>1. PICK kind \in PublishedKinds, size \in 1..MAX_RETAINED_EVENT_BYTES :
             rows'[k] = AppendEvent(rows[k], SnapshotState(kind), kind, size)
      BY DEF RowAppended
    <3> QED
      BY <2>2, <3>1, AppendColumns
  <2>4. RowRenewed(k)
    BY Zenon, <2>1, <2>3 DEF RowStep, RowKept, RowCreated
  <2>5. PICK t \in Nat, r \in RenewalIds :
           /\ rows[k].renewal # r
           /\ t >= rows[k].expires
           /\ now < rows[k].expires
           /\ rows'[k] = [[rows[k] EXCEPT !.expires = t] EXCEPT !.renewal = r]
    BY Zenon, <2>4 DEF RowRenewed
  <2>6. rows'[k].expires = t /\ rows'[k].renewal = r
    BY <2>2, <2>5 DEF Columns
  <2> QED
    BY <2>2, <2>5, <2>6
<1> QED
  BY <1>1, TypeCorrect, PTL DEF Spec, LeaseExtension

-----------------------------------------------------------------------------
(* The store implements ExecutionContract.                                 *)

\* A row that is appended to stays live or takes its one outcome; every other
\* row that was in the table keeps what the contract sees of it.
LEMMA OutcomeChange ==
    ASSUME TypeOK, [Next]_vars, NEW k \in Keys
    PROVE  \/ Outcome(k)' = Outcome(k)
           \/ /\ Outcome(k) = "Live"
              /\ Outcome(k)' \in TerminalStates
           \/ /\ Outcome(k) = "None" /\ Outcome(k)' = "Live"
              /\ MayFollow(k[1], k[2])
<1>1. DOMAIN rows \subseteq DOMAIN rows' /\ \A j \in DOMAIN rows' : RowStep(j)
  BY RowSteps
<1>2. \A j \in DOMAIN rows : RowOK(rows[j])
  BY Zenon, TypeOKByRow
<1>3. CASE k \notin DOMAIN rows'
  BY Zenon, <1>1, <1>3 DEF Outcome
<1>4. CASE k \in DOMAIN rows'
  <2>1. CASE RowKept(k)
    BY <1>4, <2>1 DEF RowKept, Outcome, is_terminal
  <2>2. CASE RowCreated(k)
    <3>1. PICK d \in Digests, p \in Principals, l \in Leases, t \in Nat :
             rows'[k] = NewRow(d, p, l, t)
      BY Zenon, <2>2 DEF RowCreated
    <3>2. rows'[k].state = "Accepted"
      BY <3>1, NewRowOK
    <3>3. Outcome(k) = "None" /\ MayFollow(k[1], k[2])
      BY <2>2 DEF RowCreated, Outcome
    <3>4. Outcome(k)' = "Live"
      BY Zenon, <1>4, <3>2 DEF Outcome, is_terminal, TerminalStates
    <3> QED
      BY <3>3, <3>4
  <2>3. CASE RowAppended(k)
    BY Zenon, <1>4, <2>3 DEF RowAppended, Outcome, is_terminal
  <2>4. CASE RowRenewed(k)
    <3>1. PICK t \in Nat, r \in RenewalIds :
             rows'[k] = [[rows[k] EXCEPT !.expires = t] EXCEPT !.renewal = r]
      BY Zenon, <2>4 DEF RowRenewed
    <3>2. k \in DOMAIN rows /\ DOMAIN rows[k] = Columns
      BY <1>2, <2>4 DEF RowRenewed, RowOK
    <3>3. rows'[k].state = rows[k].state
      BY <3>1, <3>2 DEF Columns
    <3> QED
      BY Zenon, <1>4, <3>2, <3>3 DEF Outcome, is_terminal
  <2> QED
    BY Zenon, <1>1, <1>4, <2>1, <2>2, <2>3, <2>4 DEF RowStep
<1> QED
  BY <1>3, <1>4

\* Two rows are never created by one step.
LEMMA OneCreation ==
    ASSUME TypeOK, [Next]_vars, NEW j \in Keys, NEW k \in Keys,
           j \notin DOMAIN rows, j \in DOMAIN rows', Outcome(k)' # Outcome(k)
    PROVE  j = k
<1>1. ASSUME NEW id \in ExecutionIds, NEW g \in Generations, NEW d \in Digests,
             NEW p \in Principals, NEW l \in Leases, NEW t \in Deadlines,
             Reserve(id, g, d, p, l, t)
      PROVE  j = k
  <2>1. rows' = Insert(rows, <<id, g>>, NewRow(d, p, l, t))
    BY Zenon, <1>1 DEF Reserve
  <2>2. DOMAIN rows' = DOMAIN rows \cup {<<id, g>>}
    BY <2>1 DEF Insert
  <2>3. j = <<id, g>>
    BY Zenon, <2>2
  <2>4. \A m \in DOMAIN rows : rows'[m] = rows[m]
    BY <2>1, <2>3 DEF Insert
  <2> QED
    BY Zenon, <2>2, <2>3, <2>4 DEF Outcome, is_terminal
<1>2. ASSUME DOMAIN rows' = DOMAIN rows PROVE j = k
  BY <1>2
<1>3. ASSUME NEW m \in DOMAIN rows, NEW kind \in PublishedKinds, NEW size \in Sizes(kind),
             CommitEvent(m, kind, size)
      PROVE  DOMAIN rows' = DOMAIN rows
  BY <1>3 DEF CommitEvent
<1>4. ASSUME NEW m \in DOMAIN rows, NEW l \in Leases, NEW r \in RenewalIds,
             NEW t \in Deadlines, UpdateLease(m, l, r, t)
      PROVE  DOMAIN rows' = DOMAIN rows
  BY <1>4 DEF UpdateLease
<1>5. ASSUME Recover PROVE DOMAIN rows' = DOMAIN rows
  BY <1>5 DEF Recover
<1>6. ASSUME Tick PROVE DOMAIN rows' = DOMAIN rows
  BY <1>6 DEF Tick
<1> QED
  BY Zenon, <1>1, <1>2, <1>3, <1>4, <1>5, <1>6 DEF Next, vars

\* The store keeps the promise of ExecutionContract for any number of
\* identities, generations and concurrent callers: generations are accepted in
\* order, each after the outcome of the one before, and concluded at most once.
THEOREM StoreImplementsContract == Spec => ImplementsContract
<1> DEFINE outcome == [k \in Keys |-> Outcome(k)]
<1>1. Init => Contract!Init
  BY DEF Init, Contract!Init, Outcome, Keys, Contract!Keys, Generations, Contract!Generations
<1>2. TypeOK /\ [Next]_vars => [Contract!Next]_outcome
  <2> SUFFICES ASSUME TypeOK, [Next]_vars PROVE Contract!Next \/ outcome' = outcome
    OBVIOUS
  <2>1. Contract!Keys = Keys /\ Contract!Generations = Generations
        /\ Contract!TerminalStates = TerminalStates
    BY DEF Keys, Contract!Keys, Generations, Contract!Generations,
           TerminalStates, Contract!TerminalStates
  <2>2. CASE \E j \in Keys : j \notin DOMAIN rows /\ j \in DOMAIN rows'
    <3>1. PICK j \in Keys : j \notin DOMAIN rows /\ j \in DOMAIN rows'
      BY <2>2
    <3>2. PICK id \in ExecutionIds, g \in Generations : j = <<id, g>>
      BY DEF Keys
    <3>3. Outcome(j) = "None" /\ Outcome(j)' # "None"
      BY <3>1 DEF Outcome, is_terminal, TerminalStates
    <3>4. Outcome(j)' = "Live" /\ MayFollow(id, g)
      BY <3>2, <3>3, OutcomeChange
    <3>5. \A k \in Keys : k # j => Outcome(k)' = Outcome(k)
      BY Zenon, <3>1, OneCreation
    <3>6. g = 1 \/ Outcome(<<id, g - 1>>) \in TerminalStates
      BY <3>4 DEF MayFollow, Outcome, is_terminal
    <3>7. g # 1 => <<id, g - 1>> \in Keys
      BY StoreAssumption DEF Keys, Generations, StoreAssumption
    <3>8. outcome' = [outcome EXCEPT ![<<id, g>>] = "Live"]
      BY Zenon, <3>2, <3>4, <3>5
    <3>9. Contract!Accept(id, g)
      BY <2>1, <3>2, <3>3, <3>6, <3>7, <3>8 DEF Contract!Accept
    <3> QED
      BY <2>1, <3>9 DEF Contract!Next
  <2>3. CASE \A j \in Keys : j \in DOMAIN rows' => j \in DOMAIN rows
    <3> DEFINE ended == {k \in Keys : Outcome(k)' # Outcome(k)}
    <3>1. \A k \in ended : Outcome(k) = "Live" /\ Outcome(k)' \in TerminalStates
      <4> SUFFICES ASSUME NEW k \in ended
                   PROVE  Outcome(k) = "Live" /\ Outcome(k)' \in TerminalStates
        OBVIOUS
      <4>1. ~(Outcome(k) = "None" /\ Outcome(k)' = "Live")
        BY <2>3 DEF Outcome, is_terminal, TerminalStates
      <4> QED
        BY <4>1, OutcomeChange
    <3>2. \A k \in Keys : Outcome(k)' = IF k \in ended THEN Outcome(k)' ELSE Outcome(k)
      OBVIOUS
    <3>3. ended \in SUBSET Keys
      OBVIOUS
    <3> HIDE DEF ended
    <3>4. Contract!Conclude(ended)
      BY <2>1, <3>1, <3>2, <3>3 DEF Contract!Conclude
    <3> QED
      BY <2>1, <3>3, <3>4 DEF Contract!Next
  <2> QED
    BY <2>2, <2>3
<1> QED
  BY <1>1, <1>2, TypeCorrect, PTL DEF Spec, ImplementsContract, Contract!Spec

-----------------------------------------------------------------------------
(* The events a client follows.                                              *)

StreamType == [pc : {"none", "load", "terminal", "live", "ended", "lagged"},
               pos : Nat, last : Nat, replay : SUBSET Nat]

\* The store, as far as it concerns the stream: nothing is broadcast that is not committed.
SourceInv ==
    /\ TypeOK /\ JournalInv /\ Key \in DOMAIN rows
    /\ sent \in Nat /\ sent < journal.next

\* The events between the client and the stream follow on one another.
Contiguous ==
    /\ stream \in StreamType /\ wire \in Seq(Nat) /\ client.cursor \in Nat
    /\ DOMAIN client = {"cursor", "status"}
    /\ \A i \in 1..Len(wire) : wire[i] = client.cursor + i
    /\ stream.pc \in {"none", "load"} => wire = << >>
    /\ stream.pc = "load" => stream.last = client.cursor
    /\ stream.pc \in {"terminal", "live", "ended", "lagged"} => stream.last = client.cursor + Len(wire)

\* What is left to replay begins after the last event written, and the place in the
\* channel is no later than the end of the replay.
Covered ==
    /\ stream.pc = "load" => stream.pos =< journal.next
    /\ stream.pc \in {"terminal", "live"} =>
          \E top \in Nat : /\ stream.last =< top /\ stream.pos =< top + 1
                           /\ stream.replay = (stream.last + 1)..top

FollowInv == SourceInv /\ Contiguous /\ Covered

\* What a step of the store does to the journal that is followed.
LEMMA SourceStep ==
    ASSUME SourceInv, [Next]_vars
    PROVE  /\ TypeOK' /\ JournalInv' /\ Key \in DOMAIN rows'
           /\ journal.next \in Nat /\ journal'.next \in Nat /\ journal.next =< journal'.next
<1>1. TypeOK' /\ JournalInv'
  BY Zenon, TypeStep, JournalStep DEF SourceInv
<1>2. Key \in DOMAIN rows' /\ RowStep(Key)
  BY Zenon, RowSteps DEF SourceInv
<1>3. rows'[Key].next \in Nat
  BY <1>1, <1>2 DEF TypeOK
<1>4. /\ DOMAIN rows[Key] = Columns /\ rows[Key].next \in Nat /\ rows[Key].bytes \in Nat
      /\ rows'[Key].next \in Nat
  BY <1>3, TypeOKByRow DEF RowOK, SourceInv
<1>5. rows[Key].next =< rows'[Key].next
  <2>1. CASE RowKept(Key)
    BY <1>4, <2>1 DEF RowKept
  <2>2. CASE RowAppended(Key)
    <3>1. PICK kind \in PublishedKinds, size \in 1..MAX_RETAINED_EVENT_BYTES :
             rows'[Key] = AppendEvent(rows[Key], SnapshotState(kind), kind, size)
      BY Zenon, <2>2 DEF RowAppended
    <3>2. size \in Nat
      BY StoreAssumption DEF StoreAssumption
    <3>3. rows'[Key].next = rows[Key].next + 1
      BY SMTT(30), <1>4, <3>1, <3>2, AppendCounters
    <3> QED
      BY <1>4, <3>3
  <2>3. CASE RowRenewed(Key)
    <3>1. PICK t \in Nat, r \in RenewalIds :
             rows'[Key] = [[rows[Key] EXCEPT !.expires = t] EXCEPT !.renewal = r]
      BY Zenon, <2>3 DEF RowRenewed
    <3> QED
      BY <1>4, <3>1 DEF Columns
  <2> QED
    BY Zenon, <1>2, <2>1, <2>2, <2>3 DEF RowStep, RowCreated, SourceInv
<1> QED
  BY Zenon, <1>1, <1>2, <1>4, <1>5 DEF journal

\* A page that is not refused holds every event after the cursor.
LEMMA PageCovers ==
    ASSUME SourceInv, NEW after \in Nat, NEW page, page = LoadPage(journal, after),
           ~(after + 1 < page.base), ~(after >= page.next)
    PROVE  page.events = (after + 1)..(journal.next - 1) /\ after =< journal.next - 1
<1>1. RowOK(journal) /\ JournalOK(journal)
  BY Zenon, TypeOKByRow DEF SourceInv, JournalInv, journal
<1> DEFINE base == BaseSequence(journal)
<1>2. /\ base \in 1..journal.next /\ journal.next \in Nat
      /\ DOMAIN journal.events = base..(journal.next - 1)
  BY <1>1, BaseIsFirst DEF RowOK
<1>3. /\ page.base = base /\ page.next = journal.next
      /\ page.events = IF after + 1 < base THEN {} ELSE {s \in DOMAIN journal.events : s > after}
  BY DEF LoadPage
<1> HIDE DEF base, journal
<1>4. page.events = {s \in base..(journal.next - 1) : s > after}
  BY <1>2, <1>3
<1> QED
  BY <1>2, <1>3, <1>4

\* Nothing is read where the stream is dropped or only waits.
LEMMA Dropped ==
    ASSUME FollowInv, SourceInv', stream' = NoStream, wire' = << >>,
           client' = client \/ client' = Again \/ client' = [client EXCEPT !.status = "refused"]
    PROVE  Contiguous' /\ Covered' /\ client'.cursor = client.cursor
<1>1. stream' \in StreamType /\ stream'.pc = "none"
  BY DEF NoStream, StreamType
<1>2. client'.cursor = client.cursor /\ DOMAIN client' = {"cursor", "status"}
  BY DEF FollowInv, Contiguous, Again
<1>3. wire' \in Seq(Nat) /\ Len(wire') = 0
  OBVIOUS
<1>4. Contiguous'
  <2>1. client.cursor \in Nat
    BY DEF FollowInv, Contiguous
  <2> QED
    BY <1>1, <1>2, <1>3, <2>1 DEF Contiguous
<1>5. Covered'
  BY <1>1 DEF Covered
<1> QED
  BY <1>2, <1>4, <1>5

\* The publisher commits, installs and sends.
LEMMA PublisherKeeps ==
    ASSUME FollowInv, PublisherStep
    PROVE  FollowInv' /\ client' = client /\ stream' = stream /\ journal.next =< journal'.next
<1>1. UNCHANGED <<stream, wire, client>> /\ [Next]_vars
  <2>1. ASSUME NEW kind \in FollowedKinds, NEW size \in Sizes(kind), Commit(kind, size)
        PROVE  [Next]_vars /\ UNCHANGED <<stream, wire, client>>
    <3>1. kind \in PublishedKinds
      BY DEF FollowedKinds, PublishedKinds, Kinds, LiveStates, TerminalStates
    <3>2. CommitEvent(Key, kind, size) /\ UNCHANGED <<stream, wire, client>>
      BY Zenon, <2>1 DEF Commit
    <3>3. Key \in DOMAIN rows
      BY Zenon DEF FollowInv, SourceInv
    <3> QED
      BY Zenon, <3>1, <3>2, <3>3 DEF Next
  <2>2. CASE InstallSnapshot \/ Send
    BY Zenon, <2>2 DEF InstallSnapshot, Send, vars
  <2> QED
    BY Zenon, <2>1, <2>2 DEF PublisherStep, CommitAny
<1>2. /\ TypeOK' /\ JournalInv' /\ Key \in DOMAIN rows'
      /\ journal.next \in Nat /\ journal'.next \in Nat /\ journal.next =< journal'.next
  BY Zenon, <1>1, SourceStep DEF FollowInv
<1>3. sent' = sent \/ (sent' = journal.next - 1 /\ journal' = journal)
  BY Zenon DEF PublisherStep, CommitAny, Commit, InstallSnapshot, Send, journal
<1>4. journal.next # 0
  BY DEF FollowInv, SourceInv, TypeOK, journal
<1> HIDE DEF journal
<1>5. SourceInv'
  BY <1>2, <1>3, <1>4 DEF FollowInv, SourceInv
<1>6. Contiguous'
  BY Zenon, <1>1 DEF FollowInv, Contiguous
<1>7. Covered'
  <2>1. stream.pos \in Nat
    BY DEF FollowInv, Contiguous, StreamType
  <2>2. stream'.pc = "load" => stream'.pos =< journal'.next
    BY <1>1, <1>2, <2>1 DEF FollowInv, Covered
  <2> QED
    BY Zenon, <1>1, <2>2 DEF FollowInv, Covered
<1> QED
  BY Zenon, <1>1, <1>2, <1>5, <1>6, <1>7 DEF FollowInv

\* The node takes the request, and answers with a page or refuses it.
LEMMA LoadStep == ASSUME FollowInv, Subscribe \/ Load PROVE FollowInv' /\ client'.cursor = client.cursor
<1>1. UNCHANGED <<rows, now, sent, wire>> /\ journal' = journal
  BY Zenon DEF Subscribe, Load, journal
<1>2. SourceInv'
  <2>1. TypeOK' /\ JournalInv' /\ Key \in DOMAIN rows'
    BY Zenon, <1>1 DEF FollowInv, SourceInv, TypeOK, JournalInv
  <2> QED
    BY Zenon, <1>1, <2>1 DEF FollowInv, SourceInv
<1>3. /\ stream \in StreamType /\ client.cursor \in Nat /\ sent \in Nat /\ journal.next \in Nat
      /\ sent < journal.next /\ wire \in Seq(Nat)
  BY DEF FollowInv, SourceInv, Contiguous, TypeOK, journal
<1> HIDE DEF journal
<1>4. CASE Subscribe
  <2>1. stream' = [pc |-> "load", pos |-> sent + 1, last |-> client.cursor, replay |-> {}]
    BY Zenon, <1>4 DEF Subscribe
  <2>2. stream' \in StreamType /\ stream'.pc = "load" /\ stream'.pos = sent + 1 /\ stream'.last = client.cursor
    BY <1>3, <2>1 DEF StreamType
  <2>3. client' = client /\ stream.pc = "none" /\ wire = << >>
    BY Zenon, <1>4 DEF Subscribe, FollowInv, Contiguous
  <2>4. Contiguous'
    BY SMTT(30), <1>1, <1>3, <2>2, <2>3 DEF FollowInv, Contiguous
  <2>5. Covered'
    BY <1>1, <1>3, <2>2 DEF Covered
  <2> QED
    BY Zenon, <1>2, <2>3, <2>4, <2>5 DEF FollowInv
<1>5. CASE Load
  <2> DEFINE page == LoadPage(journal, stream.last)
  <2>1. stream.pc = "load" /\ wire = << >> /\ stream.last = client.cursor /\ stream.pos =< journal.next
    BY Zenon, <1>5 DEF Load, FollowInv, Contiguous, Covered
  <2>2. CASE stream.last + 1 < page.base \/ stream.last >= page.next
    <3>1. stream' = NoStream /\ client' = [client EXCEPT !.status = "refused"]
      BY Zenon, <1>5, <2>2 DEF Load
    <3> QED
      BY Zenon, <1>1, <1>2, <2>1, <3>1, Dropped DEF FollowInv
  <2>3. CASE ~(stream.last + 1 < page.base) /\ ~(stream.last >= page.next)
    <3>1. /\ stream' = [stream EXCEPT !.pc = "terminal", !.replay = page.events]
          /\ client' = [client EXCEPT !.status = "reading"]
      BY Zenon, <1>5, <2>3 DEF Load
    <3>2. stream.last \in Nat /\ stream.pos \in Nat
      BY <1>3 DEF StreamType
    <3>3. page.events = (stream.last + 1)..(journal.next - 1) /\ stream.last =< journal.next - 1
      BY Zenon, <2>3, <3>2, PageCovers DEF FollowInv
    <3> HIDE DEF page
    <3>4. /\ stream' \in StreamType /\ stream'.pc = "terminal" /\ stream'.last = stream.last
          /\ stream'.pos = stream.pos /\ stream'.replay = page.events
      <4>1. page.events \in SUBSET Nat
        BY <1>3, <3>2, <3>3
      <4> QED
        BY Zenon, <1>3, <3>1, <4>1 DEF StreamType
    <3>5. client'.cursor = client.cursor /\ DOMAIN client' = {"cursor", "status"}
      BY <3>1 DEF FollowInv, Contiguous
    <3>6. Contiguous'
      BY <1>1, <1>3, <2>1, <3>4, <3>5 DEF Contiguous
    <3>7. Covered'
      <4>1. journal.next - 1 \in Nat /\ stream.pos =< (journal.next - 1) + 1
        BY <1>3, <2>1, <3>2, <3>3
      <4> QED
        BY Zenon, <3>3, <3>4, <4>1 DEF Covered
    <3> QED
      BY Zenon, <1>2, <3>5, <3>6, <3>7 DEF FollowInv
  <2> QED
    BY Zenon, <2>2, <2>3
<1> QED
  BY <1>4, <1>5

\* An event is written, and only if it follows on the last one.
LEMMA EmitStep ==
    ASSUME FollowInv, NEW s \in Nat, NEW next \in StreamType, Emit(s, next), stream.pc = "live",
           next.pc = "live", next.last = stream.last, s =< stream.last + 1,
           UNCHANGED client
    PROVE  /\ Contiguous' /\ stream'.pos = next.pos /\ stream'.replay = next.replay
           /\ stream'.pc \in {"live", "ended"}
           /\ stream'.last = IF s <= stream.last THEN stream.last ELSE s
<1>1. /\ stream.last \in Nat /\ wire \in Seq(Nat) /\ client.cursor \in Nat
      /\ stream.last = client.cursor + Len(wire)
  BY DEF FollowInv, Contiguous, StreamType
<1>2. CASE s <= stream.last
  <2>1. stream' = next /\ wire' = wire
    BY Zenon, <1>2 DEF Emit
  <2> QED
    BY Zenon, <1>1, <1>2, <2>1 DEF FollowInv, Contiguous
<1>3. CASE ~(s <= stream.last)
  <2>0. Len(wire) \in Nat
    BY <1>1
  <2>1. s = client.cursor + Len(wire) + 1
    <3>1. \A m, n \in Nat : ~(m <= n) /\ m =< n + 1 => m = n + 1
      OBVIOUS
    <3>2. s = stream.last + 1
      BY Zenon, <1>1, <1>3, <3>1
    <3> QED
      BY <1>1, <2>0, <3>2
  <2>2. wire' = Append(wire, s) /\ stream' = [next EXCEPT !.last = s, !.pc = IF TerminalEvent(s) THEN "ended" ELSE "live"]
    BY Zenon, <1>3 DEF Emit
  <2>3. /\ stream' \in StreamType /\ stream'.pos = next.pos /\ stream'.replay = next.replay
        /\ stream'.pc \in {"live", "ended"} /\ stream'.last = s
    BY Zenon, <2>2 DEF StreamType
  <2>4. /\ wire' \in Seq(Nat) /\ Len(wire') = Len(wire) + 1
        /\ \A i \in 1..Len(wire') : wire'[i] = client.cursor + i
    BY <1>1, <2>1, <2>2 DEF FollowInv, Contiguous
  <2>5. stream'.last = client.cursor + Len(wire')
    BY SMTT(30), <1>1, <2>0, <2>1, <2>3, <2>4
  <2>6. Contiguous'
    BY Zenon, <2>3, <2>4, <2>5 DEF FollowInv, Contiguous
  <2> QED
    BY Zenon, <1>3, <2>3, <2>6
<1> QED
  BY <1>2, <1>3

\* The response is produced.
LEMMA RespondStep ==
    ASSUME FollowInv, ReadTerminal \/ Replay \/ Receive \/ Lagged
    PROVE  FollowInv' /\ client' = client
<1>1. UNCHANGED <<rows, now, sent, client>> /\ journal' = journal
  BY Zenon DEF ReadTerminal, Replay, Receive, Lagged, journal
<1>2. SourceInv'
  <2>1. TypeOK' /\ JournalInv' /\ Key \in DOMAIN rows'
    BY Zenon, <1>1 DEF FollowInv, SourceInv, TypeOK, JournalInv
  <2> QED
    BY Zenon, <1>1, <2>1 DEF FollowInv, SourceInv
<1>3. stream.last \in Nat /\ stream.pos \in Nat /\ stream.replay \in SUBSET Nat /\ stream \in StreamType
  BY DEF FollowInv, Contiguous, StreamType
<1>4. PICK top \in Nat : stream.pc \in {"terminal", "live"} =>
           stream.last =< top /\ stream.pos =< top + 1 /\ stream.replay = (stream.last + 1)..top
  BY DEF FollowInv, Covered
<1>5. CASE ReadTerminal \/ Lagged
  <2>1. PICK pc \in {"ended", "live", "lagged"} : stream' = [stream EXCEPT !.pc = pc]
    BY Zenon, <1>5 DEF ReadTerminal, Lagged
  <2>2. /\ stream' \in StreamType /\ stream'.pc = pc /\ stream'.last = stream.last
        /\ stream'.pos = stream.pos /\ stream'.replay = stream.replay
    BY <1>3, <2>1 DEF StreamType
  <2>3. stream.pc \in {"terminal", "live"} /\ wire' = wire
    BY Zenon, <1>5 DEF ReadTerminal, Lagged
  <2>4. Contiguous'
    BY Zenon, <1>1, <2>2, <2>3 DEF FollowInv, Contiguous
  <2>5. Covered'
    BY Zenon, <2>2, <2>3 DEF FollowInv, Covered
  <2> QED
    BY Zenon, <1>1, <1>2, <2>4, <2>5 DEF FollowInv
<1>6. CASE Replay
  <2> DEFINE s == Oldest(stream.replay)
             next == [stream EXCEPT !.replay = @ \ {s}]
  <2>1. stream.pc = "live" /\ stream.replay # {} /\ Emit(s, next)
    BY Zenon, <1>6 DEF Replay
  <2>2. s = stream.last + 1 /\ s =< top
    <3>1. stream.replay = (stream.last + 1)..top /\ stream.last + 1 =< top
      BY <1>3, <1>4, <2>1
    <3>2. \E t \in stream.replay : \A u \in stream.replay : t <= u
      BY <1>3, <3>1
    <3>3. s \in stream.replay /\ \A u \in stream.replay : s <= u
      BY Zenon, <3>2 DEF Oldest
    <3> HIDE DEF s
    <3> QED
      BY <1>3, <3>1, <3>3
  <2> HIDE DEF s
  <2>3. /\ next \in StreamType /\ next.pc = "live" /\ next.last = stream.last /\ next.pos = stream.pos
        /\ next.replay = stream.replay \ {s}
    BY <1>3, <2>1 DEF StreamType
  <2> HIDE DEF next
  <2>4. s \in Nat /\ s =< stream.last + 1 /\ ~(s <= stream.last)
    BY <1>3, <2>2
  <2>5. /\ Contiguous' /\ stream'.pos = stream.pos /\ stream'.replay = stream.replay \ {s}
        /\ stream'.pc \in {"live", "ended"} /\ stream'.last = s
    BY Zenon, <1>1, <2>1, <2>3, <2>4, EmitStep
  <2>6. Covered'
    <3>1. stream.replay \ {s} = (s + 1)..top
      BY <1>3, <1>4, <2>1, <2>2
    <3>2. s =< top /\ stream.pos =< top + 1
      BY Zenon, <1>4, <2>1, <2>2
    <3> QED
      BY Zenon, <2>5, <3>1, <3>2 DEF Covered
  <2> QED
    BY Zenon, <1>1, <1>2, <2>5, <2>6 DEF FollowInv
<1>7. CASE Receive
  <2> DEFINE next == [stream EXCEPT !.pos = @ + 1]
  <2>1. stream.pc = "live" /\ stream.replay = {} /\ Emit(stream.pos, next)
    BY Zenon, <1>7 DEF Receive
  <2>2. top = stream.last /\ stream.pos =< stream.last + 1
    BY <1>3, <1>4, <2>1
  <2>3. /\ next \in StreamType /\ next.pc = "live" /\ next.last = stream.last /\ next.pos = stream.pos + 1
        /\ next.replay = {}
    BY <1>3, <2>1 DEF StreamType
  <2> HIDE DEF next
  <2>4. /\ Contiguous' /\ stream'.pos = stream.pos + 1 /\ stream'.replay = {}
        /\ stream'.pc \in {"live", "ended"}
        /\ stream'.last = IF stream.pos <= stream.last THEN stream.last ELSE stream.pos
    BY Zenon, <1>1, <1>3, <2>1, <2>2, <2>3, EmitStep
  <2>5. Covered'
    <3>1. /\ stream'.last \in Nat /\ stream'.last =< stream'.last /\ stream'.pos =< stream'.last + 1
          /\ stream'.replay = (stream'.last + 1)..stream'.last
      BY <1>3, <2>2, <2>4
    <3> QED
      BY Zenon, <2>4, <3>1 DEF Covered
  <2> QED
    BY Zenon, <1>1, <1>2, <2>4, <2>5 DEF FollowInv
<1> QED
  BY Zenon, <1>5, <1>6, <1>7

\* The client reads: the event after the last one it has.
LEMMA ReadStep == ASSUME FollowInv, Read PROVE FollowInv' /\ client'.cursor = client.cursor + 1
<1>1. UNCHANGED <<rows, now, sent, stream>> /\ journal' = journal /\ wire # << >>
  BY Zenon DEF Read, journal
<1>2. SourceInv'
  <2>1. TypeOK' /\ JournalInv' /\ Key \in DOMAIN rows'
    BY Zenon, <1>1 DEF FollowInv, SourceInv, TypeOK, JournalInv
  <2> QED
    BY Zenon, <1>1, <2>1 DEF FollowInv, SourceInv
<1>3. /\ wire \in Seq(Nat) /\ client.cursor \in Nat /\ DOMAIN client = {"cursor", "status"}
      /\ \A i \in 1..Len(wire) : wire[i] = client.cursor + i
  BY Zenon DEF FollowInv, Contiguous
<1>4. /\ Len(wire) \in Nat \ {0} /\ Head(wire) = wire[1] /\ Tail(wire) \in Seq(Nat)
      /\ Len(Tail(wire)) = Len(wire) - 1 /\ \A i \in 1..Len(Tail(wire)) : Tail(wire)[i] = wire[i + 1]
  BY <1>1, <1>3
<1>5. client'.cursor = Head(wire) /\ DOMAIN client' = {"cursor", "status"} /\ wire' = Tail(wire)
  BY <1>3 DEF Read
<1>6. client'.cursor = client.cursor + 1
  BY <1>3, <1>4, <1>5
<1>7. \A i \in 1..Len(wire') : wire'[i] = client'.cursor + i
  BY SMTT(30), <1>3, <1>4, <1>5, <1>6
<1>8. client'.cursor + Len(wire') = client.cursor + Len(wire) /\ client'.cursor \in Nat
  BY <1>3, <1>4, <1>5, <1>6
<1>9. Contiguous'
  BY Zenon, <1>1, <1>4, <1>5, <1>7, <1>8 DEF FollowInv, Contiguous
<1>10. Covered'
  BY Zenon, <1>1 DEF FollowInv, Covered
<1> QED
  BY Zenon, <1>2, <1>6, <1>9, <1>10 DEF FollowInv

\* The response or the connection ends, or the node starts again.
LEMMA BreakStep ==
    ASSUME FollowInv, Reconnect \/ Disconnect \/ NodeStarts
    PROVE  /\ FollowInv' /\ client'.cursor = client.cursor
           /\ stream' = NoStream /\ journal.next =< journal'.next
<1>1. /\ stream' = NoStream /\ wire' = << >> /\ [Next]_vars
      /\ client' = client \/ client' = Again
  BY Zenon DEF Reconnect, Disconnect, NodeStarts, Next, vars
<1>2. /\ TypeOK' /\ JournalInv' /\ Key \in DOMAIN rows'
      /\ journal.next \in Nat /\ journal'.next \in Nat /\ journal.next =< journal'.next
  BY Zenon, <1>1, SourceStep DEF FollowInv
<1>3. (sent' = sent /\ journal' = journal) \/ sent' = journal'.next - 1
  BY Zenon DEF Reconnect, Disconnect, NodeStarts, journal
<1>4. journal'.next # 0
  BY <1>2 DEF TypeOK, journal
<1> HIDE DEF journal
<1>5. SourceInv'
  BY <1>2, <1>3, <1>4 DEF FollowInv, SourceInv
<1> QED
  BY Zenon, <1>1, <1>2, <1>5, Dropped DEF FollowInv

\* Before anything is published.
LEMMA FollowStart == ASSUME StreamInit PROVE FollowInv
<1>1. PICK d \in Digests, p \in Principals, l \in Leases : rows = [k \in {Key} |-> NewRow(d, p, l, LeaseTtl)]
  BY Zenon DEF StreamInit
<1>2. rows[Key] = NewRow(d, p, l, LeaseTtl) /\ DOMAIN rows = {Key}
  BY Zenon, <1>1
<1>3. /\ RowOK(rows[Key]) /\ rows[Key].next = 1 /\ DOMAIN rows[Key].events = {}
  BY <1>2, NewRowOK, StoreAssumption DEF StoreAssumption
<1>4. TypeOK /\ JournalInv
  <2>1. JournalOK(rows[Key])
    BY <1>3 DEF JournalOK
  <2>2. now \in Nat
    BY DEF StreamInit
  <2>3. DOMAIN rows \subseteq Keys
    BY <1>2, StreamAssumption
  <2> QED
    BY Zenon, <1>2, <1>3, <2>1, <2>2, <2>3, TypeOKByRow DEF JournalInv
<1>5. SourceInv
  BY SMTT(30), <1>2, <1>3, <1>4 DEF SourceInv, StreamInit, journal
<1>6. stream \in StreamType /\ stream.pc = "none" /\ wire \in Seq(Nat) /\ Len(wire) = 0 /\ wire = << >>
  BY DEF StreamInit, NoStream, StreamType
<1>7. client.cursor \in Nat /\ DOMAIN client = {"cursor", "status"}
  BY DEF StreamInit
<1>8. Contiguous
  BY <1>6, <1>7 DEF Contiguous
<1>9. Covered
  BY <1>6 DEF Covered
<1> QED
  BY Zenon, <1>5, <1>8, <1>9 DEF FollowInv

\* Every step of the publisher, the response, the client and the node.
LEMMA FollowStep ==
    ASSUME FollowInv, [StreamNext]_streamVars
    PROVE  /\ FollowInv'
           /\ client'.cursor # client.cursor => client'.cursor = client.cursor + 1
<1>1. CASE UNCHANGED streamVars
  <2>1. UNCHANGED <<rows, now, sent, stream, wire, client>> /\ journal' = journal
    BY Zenon, <1>1 DEF streamVars, journal
  <2>2. TypeOK' /\ JournalInv'
    BY Zenon, <2>1 DEF FollowInv, SourceInv, TypeOK, JournalInv
  <2> QED
    BY Zenon, <2>1, <2>2 DEF FollowInv, SourceInv, Contiguous, Covered
<1> QED
  BY Zenon, <1>1, PublisherKeeps, LoadStep, RespondStep, ReadStep, BreakStep DEF StreamNext, Respond

\* For every bound on the channel, the connection and the journal, and any number of broken
\* connections and restarts: the client reads the events in order, none twice and none
\* skipped (event_response, event_stream_response, publish).
THEOREM NoGapNoDuplicateHolds == StreamSpec => NoGapNoDuplicate
<1> QED
  BY FollowStart, FollowStep, PTL DEF StreamSpec, NoGapNoDuplicate

\* What is read, written or left to replay is committed.
Committed ==
    /\ client.cursor < journal.next
    /\ stream.pc \in {"terminal", "live", "ended", "lagged"} => stream.last < journal.next
    /\ \A s \in stream.replay : s < journal.next

\* An event is written only when it is committed.
LEMMA EmitCommitted ==
    ASSUME FollowInv, Committed, NEW s \in Nat, s < journal.next, NEW next \in StreamType,
           next.last = stream.last, stream.pc = "live", Emit(s, next)
    PROVE  stream'.last < journal.next /\ stream'.replay = next.replay
<1>1. CASE s <= stream.last
  BY Zenon, <1>1 DEF Emit, Committed
<1>2. CASE ~(s <= stream.last)
  <2>1. stream' = [next EXCEPT !.last = s, !.pc = IF TerminalEvent(s) THEN "ended" ELSE "live"]
    BY Zenon, <1>2 DEF Emit
  <2> HIDE DEF journal
  <2> QED
    BY <2>1 DEF StreamType
<1> QED
  BY <1>1, <1>2

\* No step gives the client, the response or its replay an event that is not committed, and
\* none takes a committed one back.
LEMMA CommittedStep ==
    ASSUME FollowInv, Committed, [StreamNext]_streamVars
    PROVE  Committed'
<1>1. /\ client.cursor \in Nat /\ stream \in StreamType /\ stream.last \in Nat /\ stream.replay \in SUBSET Nat
      /\ stream.pos \in Nat /\ sent \in Nat /\ sent < journal.next
      /\ journal.next \in Nat /\ wire \in Seq(Nat)
  BY SMTT(30) DEF FollowInv, SourceInv, Contiguous, StreamType, TypeOK, journal
<1>2. journal'.next \in Nat
  BY FollowStep DEF FollowInv, SourceInv, TypeOK, journal
<1>3. CASE PublisherStep \/ Reconnect \/ Disconnect \/ NodeStarts
  <2>1. /\ client'.cursor = client.cursor /\ journal.next =< journal'.next
        /\ stream' = stream \/ stream' = NoStream
    BY Zenon, <1>3, PublisherKeeps, BreakStep
  <2> HIDE DEF journal
  <2>2. client'.cursor < journal'.next
    BY <1>1, <1>2, <2>1 DEF Committed
  <2>3. CASE stream' = stream
    BY <1>1, <1>2, <2>1, <2>2, <2>3 DEF Committed
  <2>4. CASE stream' = NoStream
    <3>1. stream'.pc = "none" /\ stream'.replay = {}
      BY <2>4 DEF NoStream
    <3> QED
      BY <2>2, <3>1 DEF Committed
  <2> QED
    BY Zenon, <2>1, <2>3, <2>4
<1>4. CASE UNCHANGED streamVars
  BY Zenon, <1>4 DEF Committed, streamVars, journal
<1>5. CASE Subscribe
  <2>1. /\ client' = client /\ journal' = journal
        /\ stream' = [pc |-> "load", pos |-> sent + 1, last |-> client.cursor, replay |-> {}]
    BY Zenon, <1>5 DEF Subscribe, journal
  <2> HIDE DEF journal
  <2>2. stream'.pc = "load" /\ stream'.replay = {}
    BY <2>1
  <2> QED
    BY <2>1, <2>2 DEF Committed
<1>6. CASE Load
  <2> DEFINE page == LoadPage(journal, stream.last)
  <2>1. client'.cursor = client.cursor /\ journal' = journal
    BY Zenon, <1>6, LoadStep DEF Load, journal
  <2>2. CASE stream.last + 1 < page.base \/ stream.last >= page.next
    <3>1. stream' = NoStream
      BY Zenon, <1>6, <2>2 DEF Load
    <3>2. stream'.pc = "none" /\ stream'.replay = {}
      BY <3>1 DEF NoStream
    <3> HIDE DEF journal
    <3> QED
      BY <2>1, <3>2 DEF Committed
  <2>3. CASE ~(stream.last + 1 < page.base) /\ ~(stream.last >= page.next)
    <3>1. stream' = [stream EXCEPT !.pc = "terminal", !.replay = page.events]
      BY Zenon, <1>6, <2>3 DEF Load
    <3>2. page.events = (stream.last + 1)..(journal.next - 1) /\ stream.last =< journal.next - 1
      BY Zenon, <1>1, <2>3, PageCovers DEF FollowInv
    <3> HIDE DEF page, journal
    <3>3. stream'.last = stream.last /\ stream'.replay = page.events
      BY <1>1, <3>1 DEF StreamType
    <3>4. stream'.last < journal'.next /\ \A s \in stream'.replay : s < journal'.next
      BY <1>1, <2>1, <3>2, <3>3
    <3> QED
      BY Zenon, <2>1, <3>4 DEF Committed
  <2> QED
    BY Zenon, <2>2, <2>3
<1>7. CASE ReadTerminal \/ Lagged
  <2>1. PICK pc \in {"ended", "live", "lagged"} : stream' = [stream EXCEPT !.pc = pc]
    BY Zenon, <1>7 DEF ReadTerminal, Lagged
  <2>2. client' = client /\ journal' = journal /\ stream.pc \in {"terminal", "live"}
    BY Zenon, <1>7 DEF ReadTerminal, Lagged, journal
  <2>3. stream'.last = stream.last /\ stream'.replay = stream.replay
    BY <1>1, <2>1 DEF StreamType
  <2> QED
    BY Zenon, <2>2, <2>3 DEF Committed
<1>8. CASE Replay
  <2> DEFINE s == Oldest(stream.replay)
             next == [stream EXCEPT !.replay = @ \ {s}]
  <2>1. stream.pc = "live" /\ stream.replay # {} /\ Emit(s, next) /\ client' = client /\ journal' = journal
    BY Zenon, <1>8 DEF Replay, journal
  <2>2. s \in stream.replay
    <3>1. PICK top \in Nat : stream.replay = (stream.last + 1)..top
      BY <2>1 DEF FollowInv, Covered
    <3>2. stream.replay # {} /\ stream.last \in Nat
      BY Zenon, <1>1, <2>1
    <3>3. stream.last + 1 \in stream.replay /\ \A u \in stream.replay : stream.last + 1 <= u
      BY <3>1, <3>2
    <3> QED
      BY Zenon, <3>3 DEF Oldest
  <2> HIDE DEF s
  <2>3. next \in StreamType /\ next.last = stream.last /\ next.replay = stream.replay \ {s}
    BY SMTT(30), <1>1 DEF StreamType
  <2> HIDE DEF next
  <2>4. stream'.last < journal.next /\ stream'.replay = stream.replay \ {s}
    BY Zenon, <1>1, <2>1, <2>2, <2>3, EmitCommitted DEF Committed
  <2> QED
    BY Zenon, <2>1, <2>4 DEF Committed
<1>9. CASE Receive
  <2> DEFINE next == [stream EXCEPT !.pos = @ + 1]
  <2>1. /\ stream.pc = "live" /\ Emit(stream.pos, next) /\ stream.pos <= sent
        /\ client' = client /\ journal' = journal
    BY Zenon, <1>9 DEF Receive, journal
  <2>2. next \in StreamType /\ next.last = stream.last /\ next.replay = stream.replay
    <3>1. stream \in StreamType /\ stream.pos + 1 \in Nat
      BY SMTT(30), <1>1
    <3> QED
      BY <3>1 DEF StreamType
  <2> HIDE DEF next
  <2>3. stream.pos < journal.next
    <3> HIDE DEF journal
    <3> QED
      BY <1>1, <2>1
  <2>4. stream'.last < journal.next /\ stream'.replay = stream.replay
    BY Zenon, <1>1, <2>1, <2>2, <2>3, EmitCommitted
  <2> QED
    BY Zenon, <2>1, <2>4 DEF Committed
<1>10. CASE Read
  <2>1. stream' = stream /\ journal' = journal /\ wire # << >> /\ client'.cursor = client.cursor + 1
    BY Zenon, <1>10, ReadStep DEF Read, journal
  <2>2. stream.pc \in {"terminal", "live", "ended", "lagged"} /\ stream.last = client.cursor + Len(wire)
    BY <1>1, <2>1 DEF FollowInv, Contiguous, StreamType
  <2>3. stream.last < journal.next
    BY Zenon, <2>2 DEF Committed
  <2> HIDE DEF journal
  <2>4. client.cursor + 1 < journal.next
    BY SMTT(30), <1>1, <2>1, <2>2, <2>3
  <2> QED
    BY Zenon, <2>1, <2>4 DEF Committed
<1> QED
  BY Zenon, <1>3, <1>4, <1>5, <1>6, <1>7, <1>8, <1>9, <1>10 DEF StreamNext, Respond

\* For every bound on the channel, the connection and the journal: a client never has an
\* event that a crash of the node could take back (publish, load_page).
THEOREM ReadIsDurableHolds == StreamSpec => []ReadIsDurable
<1>1. ASSUME StreamInit PROVE Committed
  <2>1. PICK d \in Digests, p \in Principals, l \in Leases : rows = [k \in {Key} |-> NewRow(d, p, l, LeaseTtl)]
    BY Zenon, <1>1 DEF StreamInit
  <2>2. rows[Key] = NewRow(d, p, l, LeaseTtl)
    BY ZenonT(30), <2>1
  <2>3. journal.next = 1
    BY <2>2 DEF NewRow, journal
  <2> HIDE DEF journal
  <2> QED
    BY <1>1, <2>3 DEF Committed, StreamInit, NoStream
<1>2. Committed => ReadIsDurable
  BY Zenon DEF Committed, ReadIsDurable
<1> QED
  BY <1>1, <1>2, FollowStart, FollowStep, CommittedStep, PTL DEF StreamSpec
=============================================================================

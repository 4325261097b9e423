------------------------------- MODULE EventFraming ------------------------------
(***************************************************************************)
(* How the client cuts the body of an event response into events           *)
(* (ExecutionStream::into_events, eggwork-client/src/lib.rs), whatever     *)
(* pieces the transport delivers it in.  A byte is the number of the event *)
(* it belongs to, or the newline 0.                                        *)
(***************************************************************************)
EXTENDS Integers, Sequences, SequencesExt

CONSTANTS
    MAX_EVENT_BYTES,    \* what commit_event persists at most, and the client buffers
    Bodies,             \* the lengths of the lines of a response, 0 for a blank line
    MaxChunk            \* bound on the bytes the transport delivers at once

ASSUME FramingAssumption ==
    /\ MAX_EVENT_BYTES \in Nat \ {0} /\ MaxChunk \in Nat \ {0}
    /\ \A lines \in Bodies : \A i \in DOMAIN lines : lines[i] \in 0..MAX_EVENT_BYTES

VARIABLES
    lengths,    \* the lines the node has written
    coming,     \* the bytes not yet delivered
    pending,    \* the bytes delivered and not yet consumed
    yielded,    \* the events handed to the caller
    outcome     \* how the stream of events stands

framingVars == <<lengths, coming, pending, yielded, outcome>>

----------------------------------------------------------------------------
\* The bytes of n copies of b.
Bytes(b, n) == [i \in 1..n |-> b]

\* event_stream_response: each event on a line.  The last newline may be missing.
Written(lines) == FlattenSeq([i \in DOMAIN lines |-> Append(Bytes(i, lines[i]), 0)])

FramingInit ==
    /\ lengths \in Bodies
    /\ LET body == Written(lengths)
       IN  coming \in {body, SubSeq(body, 1, Len(body) - 1)}
    /\ pending = << >> /\ yielded = << >>
    /\ outcome = "open"

HasLine == \E i \in DOMAIN pending : pending[i] = 0

\* The position of the first newline.
newline == CHOOSE i \in DOMAIN pending :
               pending[i] = 0 /\ \A j \in 1..(i - 1) : pending[j] # 0

\* from_slice and validate: the line is one whole event.
Parses(line) == line = Bytes(line[1], lengths[line[1]])

Yield(line) ==
    /\ yielded' = IF Parses(line) THEN Append(yielded, line[1]) ELSE yielded
    /\ outcome' = IF Parses(line) THEN outcome ELSE "invalid"

TakeLine ==
    /\ outcome = "open" /\ HasLine
    /\ pending' = SubSeq(pending, newline + 1, Len(pending))
    /\ IF newline = 1 THEN UNCHANGED <<yielded, outcome>>
       ELSE Yield(SubSeq(pending, 1, newline - 1))
    /\ UNCHANGED <<lengths, coming>>

\* Mutant of Deliver: the bytes of a partial line are forgotten.
Deliver_Afresh(n) ==
    /\ outcome = "open" /\ ~HasLine /\ n =< Len(coming)
    /\ coming' = SubSeq(coming, n + 1, Len(coming))
    /\ IF n > MAX_EVENT_BYTES
       THEN outcome' = "refused" /\ UNCHANGED pending
       ELSE pending' = SubSeq(coming, 1, n) /\ UNCHANGED outcome
    /\ UNCHANGED <<lengths, yielded>>

Deliver(n) ==
    /\ outcome = "open" /\ ~HasLine /\ n =< Len(coming)
    /\ coming' = SubSeq(coming, n + 1, Len(coming))
    /\ IF Len(pending) + n > MAX_EVENT_BYTES
       THEN outcome' = "refused" /\ UNCHANGED pending
       ELSE pending' = pending \o SubSeq(coming, 1, n) /\ UNCHANGED outcome
    /\ UNCHANGED <<lengths, yielded>>

\* The body has ended: what is left over is the last event.
EndBody ==
    /\ outcome = "open" /\ ~HasLine /\ coming = << >>
    /\ pending' = << >>
    /\ IF pending = << >> THEN outcome' = "ended" /\ UNCHANGED yielded ELSE Yield(pending)
    /\ UNCHANGED <<lengths, coming>>

\* The transport fails.
BreakBody ==
    /\ outcome = "open" /\ outcome' = "broken"
    /\ UNCHANGED <<lengths, coming, pending, yielded>>

FramingNext ==
    \/ TakeLine \/ EndBody \/ BreakBody
    \/ \E n \in 1..MaxChunk : Deliver(n)

FramingSpec == FramingInit /\ [][FramingNext]_framingVars

----------------------------------------------------------------------------
\* Wherever the transport cuts the body, the caller is handed the events as they were
\* written, each whole, in order and once; a stream that ends has handed over all of them
\* (into_events).
EventsWhole ==
    LET events == SelectSeq([i \in DOMAIN lengths |-> i], LAMBDA i : lengths[i] > 0)
    IN  /\ yielded = SubSeq(events, 1, Len(yielded))
        /\ outcome # "invalid"
        /\ outcome = "ended" => yielded = events

\* A response is not refused when an event and one more piece fit into the buffer
\* together.  The bound is on the buffered bytes, not on a line: without that margin an
\* event the node may send is refused (into_events).
RefusedOnlyTight ==
    outcome = "refused" =>
        \E i \in DOMAIN lengths : lengths[i] + MaxChunk > MAX_EVENT_BYTES

\* However the body is cut, the events arrive as they were written, and they do arrive
\* unless the buffer has no room for one of them and a piece (into_events).
FramingExact == EventsWhole /\ RefusedOnlyTight
=================================================================================

------------------------------ MODULE EventStream ------------------------------
(***************************************************************************)
(* How a client follows one execution (eggwork-server/src/lib.rs,          *)
(* event_response and event_stream_response): the replay of the journal    *)
(* of ExecutionStore, then the broadcast channel that publish feeds after  *)
(* each commit, over a connection that may break, to a client that         *)
(* reconnects after the last event it read.                                *)
(***************************************************************************)
EXTENDS ExecutionStore, Sequences

CONSTANTS
    Key,                \* the execution that is followed
    EVENT_CAPACITY,     \* events the broadcast channel holds for a slow receiver
    WireCapacity,       \* events under way between node and client
    MaxBreaks           \* bound on the broken connections and restarts

ASSUME StreamAssumption ==
    /\ Key \in Keys
    /\ EVENT_CAPACITY \in Nat \ {0} /\ WireCapacity \in Nat \ {0} /\ MaxBreaks \in Nat

VARIABLES
    publisher,  \* the event publish has committed and not yet sent
    terminal,   \* whether the record's snapshot is terminal
    sent,       \* the sequence of the last event broadcast
    stream,     \* the response the node is producing
    wire,       \* the events it has written and the client has not read
    client,     \* the client: the last sequence it read, and what it is doing
    breaks      \* broken connections and restarts so far

streamVars == <<rows, now, publisher, terminal, sent, stream, wire, client, breaks>>

journal == rows[Key]

-----------------------------------------------------------------------------
(* publish, with commit_lock held from the commit to the broadcast.        *)

Commit(kind, size) ==
    /\ publisher = "idle" /\ ~terminal
    /\ CommitEvent(Key, kind, size)
    /\ publisher' = "install"
    /\ UNCHANGED <<terminal, sent, stream, wire, client, breaks>>

InstallSnapshot ==
    /\ publisher = "install"
    /\ terminal' = is_terminal(journal.state)
    /\ publisher' = "send"
    /\ UNCHANGED <<rows, now, sent, stream, wire, client, breaks>>

Send ==
    /\ publisher = "send"
    /\ sent' = journal.next - 1
    /\ publisher' = "idle"
    /\ UNCHANGED <<rows, now, terminal, stream, wire, client, breaks>>

-----------------------------------------------------------------------------
(* event_response: subscribe, load the page, read the snapshot.            *)

NoStream == [pc |-> "none", pos |-> 0, last |-> 0, replay |-> {}]

Subscribe ==
    /\ client.status = "connecting" /\ stream.pc = "none"
    /\ stream' = [pc |-> "load", pos |-> sent + 1, last |-> client.cursor, replay |-> {}]
    /\ UNCHANGED <<rows, now, publisher, terminal, sent, wire, client, breaks>>

\* A cursor behind the retained history is answered 410, one ahead of it 416.
Load ==
    /\ stream.pc = "load"
    /\ LET page == LoadPage(journal, stream.last)
       IN  IF stream.last + 1 < page.base \/ stream.last >= page.next
           THEN /\ stream' = NoStream
                /\ client' = [client EXCEPT !.status = "refused"]
           ELSE /\ stream' = [stream EXCEPT !.pc = "terminal", !.replay = page.events]
                /\ client' = [client EXCEPT !.status = "reading"]
    /\ UNCHANGED <<rows, now, publisher, terminal, sent, wire, breaks>>

\* Mutant of ReadTerminal: the channel is subscribed to after the page was loaded.
ReadTerminal_Subscribes ==
    /\ stream.pc = "terminal"
    /\ stream' = [stream EXCEPT
                    !.pos = sent + 1,
                    !.pc = IF terminal /\ stream.replay = {} THEN "ended" ELSE "live"]
    /\ UNCHANGED <<rows, now, publisher, terminal, sent, wire, client, breaks>>

\* Mutant of ReadTerminal: a terminal execution is not replayed.
ReadTerminal_NoReplay ==
    /\ stream.pc = "terminal"
    /\ stream' = [stream EXCEPT !.pc = IF terminal THEN "ended" ELSE "live"]
    /\ UNCHANGED <<rows, now, publisher, terminal, sent, wire, client, breaks>>

ReadTerminal ==
    /\ stream.pc = "terminal"
    /\ stream' = [stream EXCEPT
                    !.pc = IF terminal /\ stream.replay = {} THEN "ended" ELSE "live"]
    /\ UNCHANGED <<rows, now, publisher, terminal, sent, wire, client, breaks>>

-----------------------------------------------------------------------------
(* event_stream_response: the replay first, then the channel.  A sender is *)
(* dropped with a terminal record, when the terminal event is in the       *)
(* journal and in the channel: a stream ends at that event first, and the  *)
(* arm for a closed channel has no step here.                              *)

\* The terminal event is the newest one of a terminal row.
TerminalEvent(s) == s = journal.next - 1 /\ is_terminal(journal.state)

\* An event at or before the last one written is skipped; a terminal one ends
\* the stream.
Emit(s, next) ==
    IF s <= stream.last
    THEN stream' = next /\ UNCHANGED wire
    ELSE /\ wire' = Append(wire, s)
         /\ stream' = [next EXCEPT !.last = s,
                                   !.pc = IF TerminalEvent(s) THEN "ended" ELSE "live"]

Oldest(replay) == CHOOSE s \in replay : \A t \in replay : s <= t

Replay ==
    /\ stream.pc = "live" /\ Len(wire) < WireCapacity
    /\ stream.replay # {}
    /\ LET s == Oldest(stream.replay)
       IN  Emit(s, [stream EXCEPT !.replay = @ \ {s}])
    /\ UNCHANGED <<rows, now, publisher, terminal, sent, client, breaks>>

Lags == stream.pos + EVENT_CAPACITY <= sent

Receive ==
    /\ stream.pc = "live" /\ Len(wire) < WireCapacity
    /\ stream.replay = {} /\ stream.pos <= sent /\ ~Lags
    /\ Emit(stream.pos, [stream EXCEPT !.pos = @ + 1])
    /\ UNCHANGED <<rows, now, publisher, terminal, sent, client, breaks>>

Lagged ==
    /\ stream.pc = "live" /\ stream.replay = {} /\ Lags
    /\ stream' = [stream EXCEPT !.pc = "lagged"]
    /\ UNCHANGED <<rows, now, publisher, terminal, sent, wire, client, breaks>>

-----------------------------------------------------------------------------
(* The client, the connection and a restart of the node.                   *)

Read ==
    /\ wire # << >>
    /\ client' = [client EXCEPT !.cursor = Head(wire)]
    /\ wire' = Tail(wire)
    /\ UNCHANGED <<rows, now, publisher, terminal, sent, stream, breaks>>

\* The client has read the terminal event.
Finished == client.cursor > 0 /\ TerminalEvent(client.cursor)

\* After a response it connects again unless it is finished.
Again == [client EXCEPT !.status = IF Finished THEN "done" ELSE "connecting"]

Reconnect ==
    /\ wire = << >> /\ stream.pc \in {"ended", "lagged"}
    /\ stream' = NoStream
    /\ client' = Again
    /\ UNCHANGED <<rows, now, publisher, terminal, sent, wire, breaks>>

Disconnect ==
    /\ breaks < MaxBreaks /\ client.status = "reading"
    /\ breaks' = breaks + 1
    /\ stream' = NoStream
    /\ wire' = << >>
    /\ client' = Again
    /\ UNCHANGED <<rows, now, publisher, terminal, sent>>

\* recover concludes the execution; the records of load_all are never published on.
NodeStarts ==
    /\ breaks < MaxBreaks
    /\ breaks' = breaks + 1
    /\ Recover
    /\ publisher' = "idle" /\ terminal' = TRUE
    /\ sent' = rows'[Key].next - 1
    /\ stream' = NoStream /\ wire' = << >>
    /\ client' = IF client.status = "reading" THEN Again ELSE client

-----------------------------------------------------------------------------
StreamInit ==
    /\ \E d \in Digests, p \in Principals, l \in Leases :
         rows = [k \in {Key} |-> NewRow(d, p, l, LeaseTtl)]
    /\ now = 0
    /\ publisher = "idle" /\ terminal = FALSE /\ sent = 0
    /\ stream = NoStream /\ wire = << >>
    /\ client = [cursor |-> 0, status |-> "connecting"]
    /\ breaks = 0

\* A stream only tells terminal events from the others.
FollowedKinds == {"Running", "Output", "Succeeded"}

CommitAny == \E kind \in FollowedKinds : \E size \in Sizes(kind) : Commit(kind, size)

PublisherStep == CommitAny \/ InstallSnapshot \/ Send

Respond ==
    \/ Load \/ ReadTerminal \/ Replay \/ Receive \/ Lagged

StreamNext ==
    \/ PublisherStep \/ Subscribe \/ Respond
    \/ Read \/ Reconnect \/ Disconnect \/ NodeStarts

StreamSpec == StreamInit /\ [][StreamNext]_streamVars

\* Every execution ends (AcceptedEnds of ExecutionNode); publish, the response and
\* the client keep going.  Connections need not break.
StreamFairness ==
    /\ WF_streamVars(Commit("Succeeded", StateEventBytes))
    /\ WF_streamVars(InstallSnapshot)
    /\ WF_streamVars(Send)
    /\ WF_streamVars(Subscribe)
    /\ WF_streamVars(Respond)
    /\ WF_streamVars(Read)
    /\ WF_streamVars(Reconnect)

FairStreamSpec == StreamSpec /\ StreamFairness

-----------------------------------------------------------------------------
(* Properties.                                                             *)

\* Whatever commits, broadcasts, broken connections and restarts fall
\* between the steps of a response, the client reads the events in order, none
\* twice and none skipped (subscribe before load_page, skip of overlap).
NoGapNoDuplicate ==
    [][client'.cursor # client.cursor => client'.cursor = client.cursor + 1]_streamVars

\* What the client has read is committed, and no crash takes it back (publish commits before
\* it sends, and load_page reads the table).
ReadIsDurable == client.cursor < journal.next

\* A client that reconnects after its last event reads the terminal event or is
\* told that history is gone; no order of subscribing, loading, committing and
\* closing leaves it waiting on a silent stream.
ClientInformed == <>(client.status \in {"done", "refused"})
=============================================================================

------------------------------ MODULE OutputCapture -----------------------------
(***************************************************************************)
(* What the runner keeps of one output stream (BoundedCapture,             *)
(* eggwork-runner/src/lib.rs): the first half of the limit from its start  *)
(* and the rest of the limit from its end, whatever pieces the pipe        *)
(* delivers it in.  A byte is its position in the stream.                  *)
(***************************************************************************)
EXTENDS Integers, Sequences

CONSTANTS
    limit,          \* max_capture_bytes
    MaxPiece,       \* bound on the bytes of one read
    MaxTotal        \* bound on the bytes of the stream

ASSUME CaptureAssumption == limit \in Nat /\ MaxPiece \in Nat /\ MaxTotal \in Nat

VARIABLES head, tail, total_bytes, omitted_bytes

captureVars == <<head, tail, total_bytes, omitted_bytes>>

head_limit == (limit + 1) \div 2
tail_limit == limit - head_limit

\* n bytes of the stream, after the first a.
Run(a, n) == [i \in 1..n |-> a + i]

Smaller(a, b) == IF a =< b THEN a ELSE b

CaptureInit ==
    /\ head = << >> /\ tail = << >>
    /\ total_bytes = 0 /\ omitted_bytes = 0

\* The head after the piece `bytes`, and what is left of the piece.
Room(bytes) == Smaller(head_limit - Len(head), Len(bytes))
NewHead(bytes) == head \o SubSeq(bytes, 1, Room(bytes))
Remaining(bytes) == SubSeq(bytes, Room(bytes) + 1, Len(bytes))

\* The last n bytes of a sequence.
Ending(bytes, n) == SubSeq(bytes, Len(bytes) - n + 1, Len(bytes))

\* Mutant of NewTail: the old tail keeps a byte too few.
NewTail_Short(rest) ==
    IF tail_limit = 0 THEN tail
    ELSE IF Len(rest) >= tail_limit THEN Ending(rest, tail_limit)
    ELSE IF Len(tail) + Len(rest) =< tail_limit THEN tail \o rest
    ELSE Ending(tail, tail_limit - Len(rest) - 1) \o rest

\* The tail after what is left of the piece: all of it from the piece, the old one and
\* the piece, or the end of the old one and the piece.
NewTail(rest) ==
    IF tail_limit = 0 THEN tail
    ELSE IF Len(rest) >= tail_limit THEN Ending(rest, tail_limit)
    ELSE IF Len(tail) + Len(rest) =< tail_limit THEN tail \o rest
    ELSE Ending(tail, tail_limit - Len(rest)) \o rest

push(bytes) ==
    /\ total_bytes' = total_bytes + Len(bytes)
    /\ head' = NewHead(bytes)
    /\ tail' = NewTail(Remaining(bytes))
    /\ omitted_bytes' = total_bytes' - (Len(head') + Len(tail'))

\* spawn_reader: the bytes of one read, in the order of the stream.
ReadPiece ==
    \E n \in 1..MaxPiece :
        /\ total_bytes + n =< MaxTotal
        /\ push(Run(total_bytes, n))

CaptureNext == ReadPiece

CaptureSpec == CaptureInit /\ [][CaptureNext]_captureVars

----------------------------------------------------------------------------
\* However the stream is cut into pieces, the head is its first bytes, the tail the last
\* ones of the rest, neither is longer or shorter than its share of the limit allows, and
\* omitted_bytes counts exactly the bytes between them (BoundedCapture::push).
HeadAndTail ==
    LET h == Smaller(total_bytes, head_limit)
        t == Smaller(total_bytes - h, tail_limit)
    IN  /\ head = Run(0, h)
        /\ tail = Run(total_bytes - t, t)
        /\ omitted_bytes = total_bytes - h - t
=================================================================================

----------------------------- MODULE BlobStoreProofs ----------------------------
(***************************************************************************)
(* Proofs about BlobStore, for any digests, owners, calls in flight, quota *)
(* and faults; and that the steps which the operations of DataPlane take   *)
(* in the blob store keep its invariant.                                   *)
(***************************************************************************)
EXTENDS StorageInvariant, FiniteSetTheorems, TLAPS

-----------------------------------------------------------------------------
(* What the steps of a call do to the calls and to the lock.               *)

\* Only p moves, to pc, with the digest d.
Moves(p, pc, d) ==
    /\ proc' \in [Procs -> Calls]
    /\ proc'[p].pc = pc /\ proc'[p].digest = d
    /\ \A q \in Procs \ {p} : proc'[q] = proc[q]

\* How a step of p may change the lock.
Locks(p) ==
    \/ UNCHANGED writeLock
    \/ Unlock(p)
    \/ writeLock = None /\ writeLock' = p

\* Going to another step keeps the types of the processes.
LEMMA GotoMoves ==
    ASSUME proc \in [Procs -> Calls], NEW p \in Procs, NEW pc \in Pcs, Goto(p, pc)
    PROVE  Moves(p, pc, proc[p].digest)
  BY DEF Goto, Moves, Calls

\* Ending an operation keeps the types of the processes.
LEMMA ReturnMoves ==
    ASSUME proc \in [Procs -> Calls], NEW p \in Procs, NEW res \in Results, Return(p, res)
    PROVE  Moves(p, "return", proc[p].digest)
  BY ZenonT(30) DEF Return, Moves, Calls, Pcs

\* Starting an operation keeps the types of the processes.
LEMMA StartMoves ==
    ASSUME proc \in [Procs -> Calls], NEW p \in Procs, NEW call \in Calls,
           proc' = [proc EXCEPT ![p] = call]
    PROVE  Moves(p, call.pc, call.digest)
  BY DEF Moves

\* Exclusion is kept by every step that writes only with the lock in hand.
LEMMA LockKept ==
    ASSUME LockInv, NEW p \in Procs, NEW pc, NEW d, Moves(p, pc, d), Locks(p),
           pc \in Writing => writeLock' = p
    PROVE  LockInv'
<1> SUFFICES ASSUME NEW q \in Procs, proc'[q].pc \in Writing PROVE writeLock' = q
  BY DEF LockInv
<1>1. CASE q = p
  BY <1>1 DEF Moves
<1>2. CASE q # p
  <2>1. writeLock = q
    BY <1>2 DEF Moves, LockInv
  <2> QED
    BY <1>2, <2>1, BlobAssumption DEF Locks, Unlock
<1> QED
  BY <1>1, <1>2

\* A step of p that changes neither files nor tables.
LEMMA QuietStep ==
    ASSUME BlobInv, NEW p \in Procs, NEW pc, NEW d, Moves(p, pc, d), Locks(p),
           UNCHANGED <<files, blobs, refs, pass, displaced>>,
           proc[p].pc # "unindex",
           pc \in {"idle", "look", "hash", "corrupt", "return", "failed", "writing"},
           pc \notin {"idle", "return"} => d \in Digests,
           pc \in {"failed", "writing"} => writeLock' = p,
           pc = "writing" => Cardinality(blobs) + 1 =< Quota
    PROVE  BlobInv'
<1>1. TypeInv'
  BY DEF BlobInv, TypeInv, Moves
<1>2. LockInv'
  BY LockKept DEF BlobInv, Writing
<1>3. QuotaInv'
  BY DEF BlobInv, QuotaInv, Moves
<1>4. CommitInv'
  BY DEF BlobInv, CommitInv, Moves
<1>5. RefInv'
  BY DEF BlobInv, RefInv, Moves
<1>6. IndexedReadable'
  <2> SUFFICES ASSUME NEW b \in blobs, b \notin DOMAIN files, b \notin displaced,
                      ~(pass # None /\ b \in pass.gone)
               PROVE  \E q \in Procs : proc'[q].pc = "unindex" /\ proc'[q].digest = b
    BY DEF IndexedReadable
  <2>1. PICK q \in Procs : proc[q].pc = "unindex" /\ proc[q].digest = b
    BY DEF BlobInv, IndexedReadable
  <2> QED
    BY <2>1 DEF Moves
<1> QED
  BY <1>1, <1>2, <1>3, <1>4, <1>5, <1>6 DEF BlobInv
-----------------------------------------------------------------------------
(* The steps of put_stream.                                                *)

\* The start of put_stream, which takes the write lock and checks the quota, keeps the
\* invariant.
LEMMA PutStartInv ==
    ASSUME BlobInv, NEW p \in Procs, NEW d \in Digests, PutStart(p, d)
    PROVE  BlobInv'
<1> DEFINE call(pc, res) == [op |-> "put", pc |-> pc, digest |-> d, res |-> res]
<1>1. /\ proc \in [Procs -> Calls] /\ proc[p].pc = "idle" /\ writeLock = None
      /\ UNCHANGED <<files, blobs, refs, pass, displaced>>
  BY DEF BlobInv, TypeInv, PutStart
<1>2. PICK pc \in {"look", "return", "writing"}, res \in {None, "QuotaExceeded"} :
         /\ proc' = [proc EXCEPT ![p] = call(pc, res)]
         /\ UNCHANGED writeLock \/ writeLock' = p
         /\ pc = "writing" => writeLock' = p /\ Cardinality(blobs) + 1 =< Quota
  BY DEF PutStart
<1>3. call(pc, res) \in Calls /\ call(pc, res).pc = pc /\ call(pc, res).digest = d
  BY DEF Calls, Pcs, Results
<1> HIDE DEF call
<1>4. Moves(p, pc, d)
  BY Zenon, <1>1, <1>2, <1>3, StartMoves
<1> QED
  BY <1>1, <1>2, <1>4, QuietStep DEF Locks

\* The rename of the part file keeps the invariant: the file is complete from then on.
LEMMA PutRenameInv ==
    ASSUME BlobInv, NEW p \in Procs, PutRename(p)
    PROVE  BlobInv'
<1> DEFINE d == proc[p].digest
<1>1. d \in Digests /\ writeLock = p
  BY DEF BlobInv, TypeInv, LockInv, PutRename, Writing
<1>2. Moves(p, "renamed", d)
  BY GotoMoves DEF BlobInv, TypeInv, PutRename, Pcs
<1>3. DOMAIN files' = DOMAIN files \union {d}
  BY DEF PutRename
<1>4. /\ UNCHANGED <<blobs, refs, writeLock, pass>> /\ proc[p].pc = "writing"
      /\ displaced' = displaced \ {d}
  BY DEF PutRename
<1> HIDE DEF d
<1>5. TypeInv'
  BY <1>1, <1>2, <1>3, <1>4 DEF BlobInv, TypeInv, Moves
<1>6. LockInv'
  BY <1>1, <1>2, <1>4, LockKept DEF BlobInv, Locks
<1>7. QuotaInv'
  BY <1>2, <1>4 DEF BlobInv, QuotaInv, Moves
<1>8. CommitInv'
  BY <1>2, <1>3, <1>4 DEF BlobInv, CommitInv, Moves
<1>9. RefInv'
  BY <1>2, <1>4 DEF BlobInv, RefInv, Moves
<1>10. IndexedReadable'
  <2> SUFFICES ASSUME NEW b \in blobs', b \notin DOMAIN files', b \notin displaced',
                      ~(pass # None /\ b \in pass.gone)'
               PROVE  \E q \in Procs : proc'[q].pc = "unindex" /\ proc'[q].digest = b
    BY DEF IndexedReadable
  <2>1. PICK q \in Procs : proc[q].pc = "unindex" /\ proc[q].digest = b
    BY <1>3, <1>4 DEF BlobInv, IndexedReadable
  <2> QED
    BY <1>2, <1>4, <2>1 DEF Moves
<1> QED
  BY <1>5, <1>6, <1>7, <1>8, <1>9, <1>10 DEF BlobInv

\* The row is inserted by the one call that holds the lock, so the room it found is left.
LEMMA PutInsertInv ==
    ASSUME BlobInv, NEW p \in Procs, PutInsert(p)
    PROVE  BlobInv'
<1> DEFINE d == proc[p].digest
<1>1. /\ proc[p].pc = "renamed" /\ d \in Digests /\ writeLock = p /\ pass = None
      /\ UNCHANGED <<files, refs, pass, displaced>>
  BY DEF BlobInv, TypeInv, LockInv, PutInsert, Writing, IndexFree
<1>2. CASE UNCHANGED blobs /\ UNCHANGED writeLock /\ Goto(p, "failed")
  <2>1. Moves(p, "failed", d)
    BY Zenon, <1>2, GotoMoves DEF BlobInv, TypeInv, Pcs
  <2> QED
    BY <1>1, <1>2, <2>1, QuietStep DEF Locks
<1>3. CASE d \notin blobs /\ blobs' = blobs \union {d} /\ Return(p, "Ok") /\ Unlock(p)
  <2>1. Moves(p, "return", d)
    BY <1>3, ReturnMoves DEF BlobInv, TypeInv, Results
  <2> HIDE DEF d
  <2>2. TypeInv'
    BY <1>1, <1>3, <2>1 DEF BlobInv, TypeInv, Moves
  <2>3. LockInv'
    BY <1>3, <2>1, LockKept DEF BlobInv, Locks, Writing
  <2>4. QuotaInv'
    <3>1. IsFiniteSet(blobs') /\ Cardinality(blobs') = Cardinality(blobs) + 1
      BY <1>3, FS_AddElement DEF BlobInv, QuotaInv
    <3>2. \A q \in Procs : proc'[q].pc \notin {"writing", "renamed"}
      BY <1>1, <2>1 DEF BlobInv, LockInv, Writing, Moves
    <3>3. Cardinality(blobs) + 1 =< Quota
      BY <1>1 DEF BlobInv, QuotaInv
    <3> QED
      BY <3>1, <3>2, <3>3 DEF QuotaInv
  <2>5. CommitInv'
    BY <1>1, <2>1 DEF BlobInv, CommitInv, Moves
  <2>6. RefInv'
    BY <1>1, <1>3, <2>1 DEF BlobInv, RefInv, Moves
  <2>7. IndexedReadable'
    <3> SUFFICES ASSUME NEW b \in blobs', b \notin DOMAIN files', b \notin displaced'
                 PROVE  \E q \in Procs : proc'[q].pc = "unindex" /\ proc'[q].digest = b
      BY DEF IndexedReadable
    <3>1. b # d
      BY <1>1 DEF BlobInv, CommitInv, d
    <3>2. PICK q \in Procs : proc[q].pc = "unindex" /\ proc[q].digest = b
      BY Zenon, <1>1, <1>3, <3>1 DEF BlobInv, IndexedReadable
    <3> QED
      BY <1>1, <2>1, <3>2 DEF Moves
  <2> QED
    BY <2>2, <2>3, <2>4, <2>5, <2>6, <2>7 DEF BlobInv
<1> QED
  BY <1>2, <1>3 DEF PutInsert

\* The removal of a part file after a failure keeps the invariant.
LEMMA PutCleanupInv ==
    ASSUME BlobInv, NEW p \in Procs, PutCleanup(p)
    PROVE  BlobInv'
<1> DEFINE d == proc[p].digest
<1>1. /\ proc[p].pc = "failed" /\ d \in Digests /\ writeLock = p /\ pass = None
      /\ UNCHANGED <<blobs, refs, pass, displaced>>
  BY DEF BlobInv, TypeInv, LockInv, PutCleanup, Writing, IndexFree
<1>2. Moves(p, "return", d)
  BY ReturnMoves DEF BlobInv, TypeInv, PutCleanup, Results
<1>3. \/ files' = files
      \/ d \notin blobs /\ DOMAIN files' = DOMAIN files \ {d}
  BY DEF PutCleanup, Keep, BlobInv, TypeInv
<1>4. Unlock(p)
  BY DEF PutCleanup
<1> HIDE DEF d
<1>5. TypeInv'
  BY <1>1, <1>2, <1>3 DEF BlobInv, TypeInv, Moves
<1>6. LockInv'
  BY <1>2, <1>4, LockKept DEF BlobInv, Locks, Writing
<1>7. QuotaInv'
  BY <1>1, <1>2 DEF BlobInv, QuotaInv, Moves
<1>8. CommitInv'
  <2>1. \A q \in Procs : proc'[q].pc # "renamed"
    BY <1>1, <1>2 DEF BlobInv, LockInv, Writing, Moves
  <2> QED
    BY <2>1 DEF CommitInv
<1>9. RefInv'
  BY <1>1, <1>2 DEF BlobInv, RefInv, Moves
<1>10. IndexedReadable'
  <2> SUFFICES ASSUME NEW b \in blobs', b \notin DOMAIN files', b \notin displaced'
               PROVE  \E q \in Procs : proc'[q].pc = "unindex" /\ proc'[q].digest = b
    BY DEF IndexedReadable
  <2>1. PICK q \in Procs : proc[q].pc = "unindex" /\ proc[q].digest = b
    BY <1>1, <1>3 DEF BlobInv, IndexedReadable
  <2> QED
    BY <1>1, <1>2, <2>1 DEF Moves
<1> QED
  BY <1>5, <1>6, <1>7, <1>8, <1>9, <1>10 DEF BlobInv

\* Receiving the body keeps the invariant.
LEMMA PutBodyInv ==
    ASSUME BlobInv, NEW p \in Procs, PutBody(p)
    PROVE  BlobInv'
<1>1. Moves(p, "return", proc[p].digest)
  BY ReturnMoves DEF BlobInv, TypeInv, PutBody, Results
<1> QED
  BY <1>1, QuietStep DEF PutBody, Locks

-----------------------------------------------------------------------------
(* The steps of verify_existing, and the ends of calls.                    *)

\* The start of a verification keeps the invariant.
LEMMA VerifyStartInv ==
    ASSUME BlobInv, NEW p \in Procs, NEW d \in Digests, VerifyStart(p, d)
    PROVE  BlobInv'
<1> DEFINE call == [op |-> "verify", pc |-> "look", digest |-> d, res |-> None]
<1>1. call \in Calls
  BY DEF Calls, Pcs
<1>2. Moves(p, "look", d)
  BY Zenon, <1>1, StartMoves DEF BlobInv, TypeInv, VerifyStart
<1> QED
  BY <1>2, QuietStep DEF VerifyStart, Locks

\* Looking for the row and the file (verify_existing) keeps the invariant.
LEMMA VerifyLookInv ==
    ASSUME BlobInv, NEW p \in Procs, VerifyLook(p)
    PROVE  BlobInv'
<1>1. /\ proc[p].pc = "look" /\ proc[p].digest \in Digests
      /\ UNCHANGED <<files, blobs, refs, pass, displaced>>
  BY DEF BlobInv, TypeInv, VerifyLook
<1>2. CASE Goto(p, "hash") /\ UNCHANGED writeLock
  <2>1. Moves(p, "hash", proc[p].digest)
    BY <1>2, GotoMoves DEF BlobInv, TypeInv, Pcs
  <2> QED
    BY <1>1, <1>2, <2>1, QuietStep DEF Locks
<1>3. CASE Return(p, "NotFound") /\ Unlock(p)
  <2>1. Moves(p, "return", proc[p].digest)
    BY <1>3, ReturnMoves DEF BlobInv, TypeInv, Results
  <2> QED
    BY <1>1, <1>3, <2>1, QuietStep DEF Locks
<1> QED
  BY <1>2, <1>3 DEF VerifyLook

\* Hashing the file (verify_existing) keeps the invariant.
LEMMA VerifyHashInv ==
    ASSUME BlobInv, NEW p \in Procs, VerifyHash(p)
    PROVE  BlobInv'
<1>1. /\ proc[p].pc = "hash" /\ proc[p].digest \in Digests
      /\ UNCHANGED <<files, blobs, refs, pass, displaced>>
  BY DEF BlobInv, TypeInv, VerifyHash
<1>2. CASE Goto(p, "corrupt") /\ UNCHANGED writeLock
  <2>1. Moves(p, "corrupt", proc[p].digest)
    BY Zenon, <1>2, GotoMoves DEF BlobInv, TypeInv, Pcs
  <2> QED
    BY <1>1, <1>2, <2>1, QuietStep DEF Locks
<1>3. CASE (Return(p, "Io") \/ Return(p, "Ok")) /\ Unlock(p)
  <2>1. Moves(p, "return", proc[p].digest)
    BY <1>3, ReturnMoves DEF BlobInv, TypeInv, Results
  <2> QED
    BY <1>1, <1>3, <2>1, QuietStep DEF Locks
<1> QED
  BY <1>2, <1>3 DEF VerifyHash

\* Answering a request, and a client that goes away, keep the invariant.
LEMMA EndInv ==
    ASSUME BlobInv, NEW p \in Procs, Finish(p) \/ Drop(p)
    PROVE  BlobInv'
<1>1. Idle \in Calls /\ Idle.pc = "idle" /\ Idle.digest = None
  BY DEF Idle, Calls, Pcs
<1>2. Moves(p, "idle", None)
  BY <1>1, StartMoves DEF BlobInv, TypeInv, Finish, Drop
<1>3. proc[p].pc # "unindex" /\ Locks(p)
  BY DEF Finish, Drop, Locks
<1> QED
  BY <1>2, <1>3, QuietStep DEF Finish, Drop

\* What moves to quarantine is being unindexed, or is a file that an upload commits.
LEMMA VerifyQuarantineInv ==
    ASSUME BlobInv, NEW p \in Procs, VerifyQuarantine(p)
    PROVE  BlobInv'
<1> DEFINE d == proc[p].digest
<1>1. /\ proc[p].pc = "corrupt" /\ d \in Digests
      /\ UNCHANGED <<blobs, refs, pass>>
  BY DEF BlobInv, TypeInv, VerifyQuarantine
<1>2. CASE Return(p, "Io") /\ Unlock(p) /\ UNCHANGED <<files, displaced>>
  <2>1. Moves(p, "return", d)
    BY Zenon, <1>2, ReturnMoves DEF BlobInv, TypeInv, Results
  <2> QED
    BY Zenon, <1>1, <1>2, <2>1, QuietStep DEF Locks
<1>3. CASE /\ files' = Keep(files, Digests \ {d})
           /\ displaced' = IF Committing(d)
                           THEN displaced \union {d} ELSE displaced
           /\ Goto(p, "unindex") /\ UNCHANGED writeLock
  <2>1. Moves(p, "unindex", d)
    BY <1>3, GotoMoves DEF BlobInv, TypeInv, Pcs
  <2>2. DOMAIN files' = DOMAIN files \ {d} /\ displaced \subseteq displaced'
    BY <1>3 DEF Keep, BlobInv, TypeInv
  <2>3. \A q \in Procs : proc[q].pc = "renamed" /\ proc[q].digest = d => d \in displaced'
    BY <1>3 DEF Committing
  <2> HIDE DEF d
  <2>4. TypeInv'
    BY Zenon, <1>1, <2>1, <2>2 DEF BlobInv, TypeInv, Moves
  <2>5. LockInv'
    BY <1>3, <2>1, LockKept DEF BlobInv, Locks, Writing
  <2>6. QuotaInv'
    BY Zenon, <1>1, <2>1 DEF BlobInv, QuotaInv, Moves
  <2>7. CommitInv'
    BY Zenon, <2>1, <2>2, <2>3 DEF BlobInv, CommitInv, Moves
  <2>8. RefInv'
    BY <1>1, <2>1 DEF BlobInv, RefInv, Moves
  <2>9. IndexedReadable'
    <3> SUFFICES ASSUME NEW b \in blobs', b \notin DOMAIN files', b \notin displaced',
                        ~(pass # None /\ b \in pass.gone)'
                 PROVE  \E q \in Procs : proc'[q].pc = "unindex" /\ proc'[q].digest = b
      BY DEF IndexedReadable
    <3>1. CASE b = d
      BY <2>1, <3>1 DEF Moves
    <3>2. CASE b # d
      <4>1. PICK q \in Procs : proc[q].pc = "unindex" /\ proc[q].digest = b
        BY Zenon, <1>1, <2>2, <3>2 DEF BlobInv, IndexedReadable
      <4> QED
        BY Zenon, <1>1, <2>1, <4>1 DEF Moves, d
    <3> QED
      BY <3>1, <3>2
  <2> QED
    BY <2>4, <2>5, <2>6, <2>7, <2>8, <2>9 DEF BlobInv
<1> QED
  BY Zenon, <1>2, <1>3 DEF VerifyQuarantine

\* Fewer rows leave as much room and, with their references, nothing dangling.
LEMMA VerifyUnindexInv ==
    ASSUME BlobInv, NEW p \in Procs, VerifyUnindex(p)
    PROVE  BlobInv'
<1> DEFINE d == proc[p].digest
<1>1. /\ proc[p].pc = "unindex" /\ pass = None
      /\ UNCHANGED <<files, pass, displaced>>
      /\ blobs' = blobs \ {d}
      /\ DOMAIN refs' = DOMAIN refs \intersect {r \in References : r[2] # d}
  BY DEF VerifyUnindex, Unindex, Keep, Without, IndexFree
<1>2. Moves(p, "return", d)
  BY ReturnMoves DEF BlobInv, TypeInv, VerifyUnindex, Results
<1>3. Unlock(p)
  BY Zenon DEF VerifyUnindex
<1> HIDE DEF d
<1>4. TypeInv'
  BY Zenon, <1>1, <1>2 DEF BlobInv, TypeInv, Moves
<1>5. LockInv'
  BY <1>2, <1>3, LockKept DEF BlobInv, Locks, Writing
<1>6. QuotaInv'
  <2>1. IsFiniteSet(blobs') /\ Cardinality(blobs') =< Cardinality(blobs)
    BY <1>1, FS_Subset DEF BlobInv, QuotaInv
  <2>2. Cardinality(blobs') \in Nat /\ Cardinality(blobs) \in Nat /\ Quota \in Nat
    BY Zenon, <2>1, FS_CardinalityType, BlobAssumption DEF BlobInv, QuotaInv
  <2> QED
    BY <1>2, <2>1, <2>2 DEF BlobInv, QuotaInv, Moves
<1>7. CommitInv'
  BY <1>1, <1>2 DEF BlobInv, CommitInv, Moves
<1>8. RefInv'
  BY <1>1, <1>2 DEF BlobInv, RefInv, Moves
<1>9. IndexedReadable'
  <2> SUFFICES ASSUME NEW b \in blobs', b \notin DOMAIN files', b \notin displaced'
               PROVE  \E q \in Procs : proc'[q].pc = "unindex" /\ proc'[q].digest = b
    BY DEF IndexedReadable
  <2>1. PICK q \in Procs : proc[q].pc = "unindex" /\ proc[q].digest = b
    BY <1>1 DEF BlobInv, IndexedReadable
  <2>2. q # p
    BY <1>1, <2>1 DEF d
  <2> QED
    BY <1>2, <2>1, <2>2 DEF Moves
<1> QED
  BY <1>4, <1>5, <1>6, <1>7, <1>8, <1>9 DEF BlobInv

-----------------------------------------------------------------------------
(* The two steps of garbage_collect.                                       *)

\* The unlinking of the candidates by garbage_collect keeps the invariant.
LEMMA GcUnlinkInv ==
    ASSUME BlobInv, NEW p \in Procs, NEW t, GcUnlink(p, t)
    PROVE  BlobInv'
<1> DEFINE call == [op |-> "gc", pc |-> "collect", digest |-> None, res |-> None]
<1>1. PICK expired \in AtMost(Expired(t), Limit) :
      \E candidates \in AtMost(Unreferenced(expired), Limit) : \E gone \in SUBSET candidates :
         /\ pass' = [by |-> p, expired |-> expired, gone |-> gone, ok |-> gone = candidates]
         /\ files' = Keep(files, Digests \ gone)
  BY ZenonT(30) DEF GcUnlink
<1>2. PICK candidates \in AtMost(Unreferenced(expired), Limit) : \E gone \in SUBSET candidates :
         /\ pass' = [by |-> p, expired |-> expired, gone |-> gone, ok |-> gone = candidates]
         /\ files' = Keep(files, Digests \ gone)
  BY Zenon, <1>1
<1>3. PICK gone \in SUBSET candidates :
         /\ pass' = [by |-> p, expired |-> expired, gone |-> gone, ok |-> gone = candidates]
         /\ files' = Keep(files, Digests \ gone)
  BY Zenon, <1>2
<1>4. expired \subseteq DOMAIN refs
  BY DEF AtMost, Expired
<1>5. gone \subseteq Unreferenced(expired)
  BY DEF AtMost
<1>6. \A r \in DOMAIN refs \ expired : r[2] \notin gone
  BY Zenon, <1>5 DEF Unreferenced
<1>7. /\ proc[p].pc = "idle" /\ writeLock = None /\ pass = None /\ writeLock' = p
      /\ UNCHANGED <<blobs, refs, displaced>> /\ proc' = [proc EXCEPT ![p] = call]
  BY Zenon DEF GcUnlink, IndexFree
<1>8. Moves(p, "collect", None)
  <2>1. call \in Calls
    BY DEF Calls, Pcs
  <2> QED
    BY Zenon, <1>7, <2>1, StartMoves DEF BlobInv, TypeInv
<1>9. pass' \in PassType /\ pass' # None /\ pass'.gone = gone /\ pass'.expired = expired
  <2>1. gone \subseteq Digests
    BY <1>5 DEF Unreferenced, BlobInv, TypeInv
  <2>2. expired \subseteq Owners \X Digests
    BY Zenon, <1>4 DEF BlobInv, RefInv, References
  <2>3. pass' \in PassType
    BY Zenon, <1>3, <2>1, <2>2 DEF PassType
  <2> QED
    BY Zenon, <1>3, <2>3, BlobAssumption DEF PassType
<1>10. DOMAIN files' = DOMAIN files \ gone
  BY Zenon, <1>3 DEF Keep, BlobInv, TypeInv
<1>11. \A q \in Procs : proc[q].pc \notin Writing
  BY Zenon, <1>7, BlobAssumption DEF BlobInv, LockInv
<1>12. TypeInv'
  BY Zenon, <1>7, <1>8, <1>9, <1>10 DEF BlobInv, TypeInv, Moves
<1>13. LockInv'
  BY Zenon, <1>7, <1>8, LockKept DEF BlobInv, Locks
<1>14. QuotaInv'
  BY Zenon, <1>7, <1>8 DEF BlobInv, QuotaInv, Moves
<1>15. CommitInv'
  BY Zenon, <1>8, <1>11 DEF CommitInv, Moves, Writing
<1>16. RefInv'
  BY Zenon, <1>6, <1>7, <1>8, <1>9 DEF BlobInv, RefInv, Moves
<1>17. IndexedReadable'
  <2> SUFFICES ASSUME NEW b \in blobs', b \notin DOMAIN files', b \notin displaced',
                      ~(pass # None /\ b \in pass.gone)'
               PROVE  \E q \in Procs : proc'[q].pc = "unindex" /\ proc'[q].digest = b
    BY Zenon DEF IndexedReadable
  <2>1. PICK q \in Procs : proc[q].pc = "unindex" /\ proc[q].digest = b
    BY Zenon, <1>7, <1>9, <1>10 DEF BlobInv, IndexedReadable
  <2> QED
    BY Zenon, <1>7, <1>8, <2>1 DEF Moves
<1> QED
  BY Zenon, <1>12, <1>13, <1>14, <1>15, <1>16, <1>17 DEF BlobInv

\* The deletion of the rows of the unlinked files keeps the invariant.
LEMMA GcCommitInv ==
    ASSUME BlobInv, NEW p \in Procs, GcCommit(p)
    PROVE  BlobInv'
<1>1. /\ proc[p].pc = "collect" /\ pass # None /\ pass' = None
      /\ UNCHANGED <<files, displaced>>
      /\ blobs' = blobs \ pass.gone
      /\ DOMAIN refs' = DOMAIN refs \ pass.expired
  BY Zenon DEF GcCommit, Keep, BlobInv, RefInv
<1>2. Moves(p, "return", proc[p].digest) /\ Unlock(p)
  BY Zenon, ReturnMoves DEF BlobInv, TypeInv, GcCommit, Results
<1>3. TypeInv'
  BY <1>1, <1>2 DEF BlobInv, TypeInv, Moves
<1>4. LockInv'
  BY Zenon, <1>2, LockKept DEF BlobInv, Locks, Writing
<1>5. QuotaInv'
  <2>1. IsFiniteSet(blobs') /\ Cardinality(blobs') =< Cardinality(blobs)
    BY Zenon, <1>1, FS_Subset DEF BlobInv, QuotaInv
  <2>2. Cardinality(blobs') \in Nat /\ Cardinality(blobs) \in Nat /\ Quota \in Nat
    BY <2>1, FS_CardinalityType, BlobAssumption DEF BlobInv, QuotaInv
  <2> QED
    BY <1>2, <2>1, <2>2 DEF BlobInv, QuotaInv, Moves
<1>6. CommitInv'
  BY Zenon, <1>1, <1>2 DEF BlobInv, CommitInv, Moves
<1>7. RefInv'
  <2>1. \A q \in Procs : proc'[q].pc # "collect"
    BY Zenon, <1>1, <1>2 DEF BlobInv, LockInv, Writing, Moves
  <2> QED
    BY Zenon, <1>1, <2>1 DEF BlobInv, RefInv
<1>8. IndexedReadable'
  <2> SUFFICES ASSUME NEW b \in blobs', b \notin DOMAIN files', b \notin displaced'
               PROVE  \E q \in Procs : proc'[q].pc = "unindex" /\ proc'[q].digest = b
    BY DEF IndexedReadable
  <2>1. PICK q \in Procs : proc[q].pc = "unindex" /\ proc[q].digest = b
    BY Zenon, <1>1 DEF BlobInv, IndexedReadable
  <2> QED
    BY <1>1, <1>2, <2>1 DEF Moves
<1> QED
  BY <1>3, <1>4, <1>5, <1>6, <1>7, <1>8 DEF BlobInv

-----------------------------------------------------------------------------
(* References, faults and a restart.                                       *)

\* retain, set_reference_expiry and release_references keep the invariant.
LEMMA ReferenceInv ==
    ASSUME BlobInv, NEW o \in Owners, UNCHANGED BlobRest,
           \/ \E d \in Digests : Retain(o, {d}, now + 1)
           \/ SetReferenceExpiry(o, None)
           \/ ReleaseReferences(o)
    PROVE  BlobInv'
<1>1. pass = None /\ UNCHANGED <<files, blobs, displaced, writeLock, pass, proc>>
  BY Zenon DEF Retain, SetReferenceExpiry, ReleaseReferences, IndexFree, BlobRest
<1>2. DOMAIN refs' \subseteq References /\ \A r \in DOMAIN refs' : r[2] \in blobs
  <2>1. CASE \E d \in Digests : Retain(o, {d}, now + 1)
    <3>1. PICK d \in Digests : Retain(o, {d}, now + 1)
      BY Zenon, <2>1
    <3>2. d \in blobs /\ DOMAIN refs' = DOMAIN refs \union ({o} \X {d})
      BY <3>1 DEF Retain, Retained
    <3> QED
      BY <3>2 DEF BlobInv, RefInv, References
  <2>2. CASE SetReferenceExpiry(o, None)
    BY Zenon, <2>2 DEF SetReferenceExpiry, BlobInv, RefInv
  <2>3. CASE ReleaseReferences(o)
    BY Zenon, <2>3 DEF ReleaseReferences, Keep, BlobInv, RefInv
  <2> QED
    BY <2>1, <2>2, <2>3
<1>3. RefInv'
  BY Zenon, <1>1, <1>2 DEF BlobInv, RefInv
<1> QED
  BY Zenon, <1>1, <1>3
     DEF BlobInv, TypeInv, LockInv, QuotaInv, CommitInv, IndexedReadable

\* Neither the clock nor a file that changes in place moves anything.
LEMMA EnvironmentInv ==
    ASSUME BlobInv, Tick \/ (\E d \in Digests : Corrupt(d))
    PROVE  BlobInv'
<1>1. DOMAIN files' = DOMAIN files
  BY DEF Tick, Corrupt
<1>2. UNCHANGED <<blobs, refs, displaced, writeLock, pass, proc>>
  BY DEF Tick, Corrupt
<1> QED
  BY <1>1, <1>2
     DEF BlobInv, TypeInv, LockInv, QuotaInv, CommitInv, RefInv, IndexedReadable

\* A restart makes index and files agree.
LEMMA ReopenInv ==
    ASSUME BlobInv, Reopen
    PROVE  BlobInv'
<1>1. /\ blobs' = blobs \intersect DOMAIN files
      /\ DOMAIN files' = DOMAIN files \intersect blobs
      /\ DOMAIN refs' = DOMAIN refs \intersect (Owners \X (blobs \intersect DOMAIN files))
      /\ proc' = [p \in Procs |-> Idle] /\ pass' = None
  BY Zenon DEF Reopen, Reconciled, Keep
<1>2. \A p \in Procs : proc'[p].pc = "idle"
  BY Zenon, <1>1 DEF Idle
<1>3. TypeInv'
  <2>1. Idle \in Calls
    BY DEF Idle, Calls, Pcs
  <2> QED
    BY <1>1, <1>2, <2>1 DEF BlobInv, TypeInv
<1>4. LockInv' /\ CommitInv'
  BY Zenon, <1>2 DEF LockInv, CommitInv, Writing
<1>5. QuotaInv'
  <2>1. IsFiniteSet(blobs') /\ Cardinality(blobs') =< Cardinality(blobs)
    BY <1>1, FS_Subset DEF BlobInv, QuotaInv
  <2>2. Cardinality(blobs') \in Nat /\ Cardinality(blobs) \in Nat /\ Quota \in Nat
    BY Zenon, <2>1, FS_CardinalityType, BlobAssumption DEF BlobInv, QuotaInv
  <2> QED
    BY <1>2, <2>1, <2>2 DEF BlobInv, QuotaInv
<1>6. RefInv'
  BY <1>1, <1>2 DEF BlobInv, RefInv, References
<1>7. IndexedReadable'
  BY <1>1 DEF IndexedReadable
<1> QED
  BY Zenon, <1>3, <1>4, <1>5, <1>6, <1>7 DEF BlobInv

\* A new store satisfies the invariant.
LEMMA InitInv == BlobInit => BlobInv
<1> SUFFICES ASSUME BlobInit PROVE BlobInv
  OBVIOUS
<1>1. Idle \in Calls
  BY DEF Idle, Calls, Pcs
<1>2. \A p \in Procs : proc[p].pc = "idle"
  BY DEF BlobInit, Idle
<1>3. TypeInv
  BY Zenon, <1>1, <1>2 DEF BlobInit, TypeInv
<1>4. LockInv /\ CommitInv
  BY <1>2 DEF LockInv, CommitInv, Writing
<1>5. QuotaInv
  BY <1>2, FS_EmptySet, BlobAssumption DEF BlobInit, QuotaInv
<1>6. RefInv /\ IndexedReadable
  BY Zenon, <1>2 DEF BlobInit, RefInv, IndexedReadable
<1> QED
  BY <1>3, <1>4, <1>5, <1>6 DEF BlobInv

\* Every step of the store keeps the invariant.
LEMMA StepInv == BlobInv /\ [BlobNext]_blobVars => BlobInv'
<1> SUFFICES ASSUME BlobInv, [BlobNext]_blobVars PROVE BlobInv'
  OBVIOUS
<1>1. CASE \E p \in Procs :
             \/ BlobStep(p) \/ Drop(p) \/ GcUnlink(p, now) \/ Finish(p)
             \/ \E d \in Digests : PutStart(p, d) \/ VerifyStart(p, d)
  BY <1>1, PutStartInv, PutBodyInv, PutRenameInv, PutInsertInv, PutCleanupInv, VerifyStartInv,
     VerifyLookInv, VerifyHashInv, VerifyQuarantineInv, VerifyUnindexInv, GcUnlinkInv,
     GcCommitInv, EndInv DEF BlobStep
<1>2. CASE \E o \in Owners :
             /\ \/ \E d \in Digests : Retain(o, {d}, now + 1)
                \/ SetReferenceExpiry(o, None)
                \/ ReleaseReferences(o)
             /\ UNCHANGED BlobRest
  BY Zenon, <1>2, ReferenceInv
<1>3. CASE UNCHANGED blobVars
  BY <1>3 DEF blobVars, BlobInv, TypeInv, LockInv, QuotaInv, CommitInv, RefInv, IndexedReadable
<1> QED
  BY Zenon, <1>1, <1>2, <1>3, EnvironmentInv, ReopenInv DEF BlobNext

\* The invariant holds in every reachable state.
LEMMA Invariant == BlobSpec => []BlobInv
  BY InitInv, StepInv, PTL DEF BlobSpec

\* The clock and the expiries are numbers.
TimeInv == now \in Nat /\ \A r \in DOMAIN refs : refs[r] \in Nat \union {None}

\* A step keeps them numbers.
LEMMA TimeStep == TimeInv /\ [BlobNext]_blobVars => TimeInv'
<1> SUFFICES ASSUME TimeInv, [BlobNext]_blobVars PROVE TimeInv'
  OBVIOUS
<1>1. ASSUME NEW S, refs' = Keep(refs, S), UNCHANGED now PROVE TimeInv'
  BY SMTT(20), <1>1 DEF TimeInv, Keep
<1>2. ASSUME NEW p \in Procs, VerifyUnindex(p) PROVE TimeInv'
  BY <1>1, <1>2 DEF VerifyUnindex, Unindex
<1>3. ASSUME NEW p \in Procs, GcCommit(p) PROVE TimeInv'
  BY <1>1, <1>3 DEF GcCommit
<1>4. ASSUME Reopen PROVE TimeInv'
  BY <1>1, <1>4 DEF Reopen, Reconciled
<1>5. ASSUME NEW o \in Owners, UNCHANGED BlobRest,
             \/ \E d \in Digests : Retain(o, {d}, now + 1)
             \/ SetReferenceExpiry(o, None)
             \/ ReleaseReferences(o)
      PROVE  TimeInv'
  <2>1. CASE ReleaseReferences(o)
    BY Zenon, <1>1, <1>5, <2>1 DEF ReleaseReferences, BlobRest
  <2>2. CASE SetReferenceExpiry(o, None)
    BY Zenon, <1>5, <2>2 DEF SetReferenceExpiry, BlobRest, TimeInv
  <2>3. CASE \E d \in Digests : Retain(o, {d}, now + 1)
    BY <1>5, <2>3 DEF Retain, Retained, BlobRest, TimeInv
  <2> QED
    BY <1>5, <2>1, <2>2, <2>3
<1>6. ASSUME UNCHANGED refs, UNCHANGED now \/ Tick PROVE TimeInv'
  BY SMTT(30), <1>6 DEF Tick, TimeInv
<1>7. ASSUME NEW p \in Procs,
             \/ PutBody(p) \/ PutRename(p) \/ PutInsert(p) \/ PutCleanup(p)
             \/ VerifyLook(p) \/ VerifyHash(p) \/ VerifyQuarantine(p)
             \/ Drop(p) \/ GcUnlink(p, now) \/ Finish(p)
             \/ \E d \in Digests : PutStart(p, d) \/ VerifyStart(p, d)
      PROVE  UNCHANGED <<refs, now>>
  BY Zenon, <1>7 DEF PutBody, PutRename, PutInsert, PutCleanup, VerifyLook, VerifyHash,
              VerifyQuarantine, Drop, GcUnlink, Finish, PutStart, VerifyStart
<1>8. ASSUME Tick \/ (\E d \in Digests : Corrupt(d)) PROVE TimeInv'
  BY <1>6, <1>8 DEF Tick, Corrupt
<1>9. ASSUME UNCHANGED blobVars PROVE TimeInv'
  BY <1>6, <1>9 DEF blobVars
<1> QED
  BY Zenon, <1>2, <1>3, <1>4, <1>5, <1>6, <1>7, <1>8, <1>9 DEF BlobNext, BlobStep

\* They are numbers in every behaviour.
LEMMA Times == BlobSpec => []TimeInv
<1>1. BlobInit => TimeInv
  BY DEF BlobInit, TimeInv
<1> QED
  BY <1>1, TimeStep, PTL DEF BlobSpec

-----------------------------------------------------------------------------
\* The quota holds for any number of concurrent uploads.
THEOREM QuotaIsHeld == BlobSpec => []QuotaHeld
<1>1. BlobInv => QuotaHeld
  BY DEF BlobInv, QuotaInv, QuotaHeld
<1> QED
  BY <1>1, Invariant, PTL

\* What the index offers is there to read, but for the windows IndexedReadable names.
THEOREM IndexedIsReadable == BlobSpec => []IndexedReadable
<1>1. BlobInv => IndexedReadable
  BY DEF BlobInv
<1> QED
  BY <1>1, Invariant, PTL

\* No upload, collection or restart removes a file that a live reference pins.
THEOREM PinnedIsKept == BlobSpec => PinnedKept
<1> DEFINE Kept ==
      \A d \in DOMAIN files \ DOMAIN files' :
          Pinned(d) => \E p \in Procs : proc[p].pc = "corrupt" /\ proc[p].digest = d
<1>1. BlobInv /\ TimeInv /\ [BlobNext]_blobVars => [Kept]_blobVars
  <2> SUFFICES ASSUME BlobInv, TimeInv, BlobNext,
                      NEW d \in DOMAIN files \ DOMAIN files', Pinned(d)
               PROVE  \E p \in Procs : proc[p].pc = "corrupt" /\ proc[p].digest = d
    BY Zenon
  <2>1. d \in blobs /\ d \in Digests
    BY Zenon DEF Pinned, BlobInv, RefInv, TypeInv
  <2>2. ASSUME NEW p \in Procs, GcUnlink(p, now) PROVE FALSE
    <3>1. PICK expired \in AtMost(Expired(now), Limit) :
          \E candidates \in AtMost(Unreferenced(expired), Limit) :
          \E gone \in SUBSET candidates : files' = Keep(files, Digests \ gone)
      BY Zenon, <2>2 DEF GcUnlink
    <3>2. d \in Unreferenced(expired)
      BY <2>1, <3>1 DEF AtMost, Keep
    <3>3. PICK r \in DOMAIN refs : r[2] = d /\ Live(refs[r])
      BY DEF Pinned
    <3>4. r \in Expired(now)
      BY <3>2, <3>3 DEF Unreferenced, AtMost
    <3>5. refs[r] # None /\ refs[r] =< now /\ refs[r] > now
      BY <3>3, <3>4 DEF Expired, Live
    <3> QED
      BY SMTT(30), <3>5 DEF TimeInv
  <2>3. ASSUME NEW p \in Procs, PutCleanup(p) PROVE FALSE
    BY Zenon, <2>1, <2>3 DEF PutCleanup, Keep
  <2>4. ASSUME NEW p \in Procs, VerifyQuarantine(p)
        PROVE  proc[p].pc = "corrupt" /\ proc[p].digest = d
    BY Zenon, <2>1, <2>4 DEF VerifyQuarantine, Keep
  <2>5. ASSUME NEW p \in Procs, PutRename(p) PROVE FALSE
    BY Zenon, <2>5 DEF PutRename
  <2>6. ASSUME Reopen PROVE FALSE
    BY <2>1, <2>6 DEF Reopen, Reconciled, Keep
  <2>7. ASSUME NEW b \in Digests, Corrupt(b) PROVE FALSE
    BY <2>7 DEF Corrupt
  <2>8. files' # files
    BY Zenon
  <2>9. ASSUME NEW p \in Procs,
               \/ PutBody(p) \/ PutInsert(p) \/ VerifyLook(p) \/ VerifyHash(p)
               \/ VerifyUnindex(p) \/ GcCommit(p) \/ Drop(p) \/ Finish(p)
               \/ \E b \in Digests : PutStart(p, b) \/ VerifyStart(p, b)
        PROVE  FALSE
    BY Zenon, <2>8, <2>9 DEF PutBody, PutInsert, VerifyLook, VerifyHash, VerifyUnindex, GcCommit, Drop,
                      Finish, PutStart, VerifyStart
  <2>10. ~Tick /\ ~UNCHANGED BlobRest
    BY <2>8 DEF Tick, BlobRest
  <2> QED
    BY Zenon, <2>2, <2>3, <2>4, <2>5, <2>6, <2>7, <2>9, <2>10 DEF BlobNext, BlobStep
<1>2. PinnedKept <=> [][Kept]_blobVars
  BY DEF PinnedKept
<1> QED
  BY <1>1, <1>2, Invariant, Times, PTL DEF BlobSpec

-----------------------------------------------------------------------------
(* The steps of the data plane in the blob store.                            *)

\* A step of a call keeps StoreInv if it leaves what was stored as it is.
LEMMA StoreQuiet ==
    ASSUME StoreInv, NEW p \in Procs, \A q \in Procs \ {p} : proc'[q] = proc[q],
           proc'[p].pc \notin {"corrupt", "unindex"}, proc'[p].op = "idle" <=> proc'[p].pc = "idle",
           files' \in [DOMAIN files' -> {"good"}], stale' \in BOOLEAN,
           writeLock' \in {writeLock, p, None}, displaced' \subseteq displaced,
           UNCHANGED <<refs, pass, now>>
    PROVE  StoreInv'
BY DEF StoreInv

\* A call whose pc and op are as after every step but a start and an end.
LEMMA Advances ==
    ASSUME BlobInv, NEW p \in Procs, NEW pc \in Pcs,
           Goto(p, pc) \/ (pc = "return" /\ \E res : Return(p, res))
    PROVE  /\ proc'[p].pc = pc /\ proc'[p].op = proc[p].op
           /\ \A q \in Procs \ {p} : proc'[q] = proc[q]
BY DEF BlobInv, TypeInv, Calls, Goto, Return

\* The steps of a call keep what is said of the store.
LEMMA CallStepInv ==
    ASSUME BlobInv, StoreInv, NEW p \in Procs, CallStep(p)
    PROVE  BlobInv' /\ StoreInv'
<1>1. proc \in [Procs -> Calls] /\ pass \in PassType \union {None}
  BY DEF BlobInv, TypeInv
<1>2. CASE PutBody(p) \/ PutRename(p) \/ PutInsert(p) \/ PutCleanup(p)
  <2>1. BlobInv'
    BY Zenon, <1>2, PutBodyInv, PutRenameInv, PutInsertInv, PutCleanupInv
  <2>2. PICK pc \in {"return", "renamed", "failed"} : Goto(p, pc) \/ (pc = "return" /\ \E res : Return(p, res))
    BY <1>2 DEF PutBody, PutRename, PutInsert, PutCleanup
  <2>3. /\ proc'[p].pc = pc /\ proc'[p].op = proc[p].op
        /\ \A q \in Procs \ {p} : proc'[q] = proc[q]
    BY <2>2, Advances DEF Pcs
  <2>4. proc[p].pc # "idle"
    BY <1>2 DEF PutBody, PutRename, PutInsert, PutCleanup
  <2>5. files' \in [DOMAIN files' -> {"good"}]
    BY <1>2 DEF PutBody, PutRename, PutInsert, PutCleanup, Keep, StoreInv
  <2>6. /\ writeLock' \in {writeLock, p, None} /\ UNCHANGED <<stale, refs, pass, now>>
        /\ displaced' \subseteq displaced
    BY <1>2 DEF PutBody, PutRename, PutInsert, PutCleanup, Unlock
  <2>7. proc'[p].op = "idle" <=> proc'[p].pc = "idle"
    BY <2>3, <2>4 DEF StoreInv
  <2>8. stale \in BOOLEAN
    BY DEF StoreInv
  <2> QED
    BY Zenon, <2>1, <2>3, <2>5, <2>6, <2>7, <2>8, StoreQuiet
<1>3. CASE VerifyLook(p) \/ VerifyHash(p)
  <2>1. BlobInv'
    BY <1>3, VerifyLookInv, VerifyHashInv
  <2>2. ~ \E d \in DOMAIN files : files[d] = "bad"
    BY DEF StoreInv
  <2>3. PICK pc \in {"return", "hash"} : Goto(p, pc) \/ (pc = "return" /\ \E res : Return(p, res))
    BY <1>3, <2>2 DEF VerifyLook, VerifyHash
  <2>4. /\ proc'[p].pc = pc /\ proc'[p].op = proc[p].op
        /\ \A q \in Procs \ {p} : proc'[q] = proc[q]
    BY SMTT(20), <2>3, Advances DEF Pcs
  <2>5. proc[p].pc # "idle" /\ writeLock' \in {writeLock, p, None}
        /\ UNCHANGED <<files, stale, displaced, refs, pass, now>>
    BY <1>3 DEF VerifyLook, VerifyHash, Unlock
  <2>6. proc'[p].op = "idle" <=> proc'[p].pc = "idle"
    BY <2>4, <2>5 DEF StoreInv
  <2>7. files \in [DOMAIN files -> {"good"}] /\ stale \in BOOLEAN
    BY DEF StoreInv
  <2> QED
    BY Zenon, <2>1, <2>4, <2>5, <2>6, <2>7, StoreQuiet
<1>4. ~VerifyQuarantine(p) /\ ~VerifyUnindex(p)
  BY DEF StoreInv, VerifyQuarantine, VerifyUnindex
<1>5. CASE GcCommit(p)
  <2>1. BlobInv'
    BY <1>5, GcCommitInv
  <2>2. /\ proc'[p].pc = "return" /\ proc'[p].op = proc[p].op /\ proc[p].pc # "idle"
        /\ \A q \in Procs \ {p} : proc'[q] = proc[q]
    BY <1>5, Advances DEF Pcs, GcCommit
  <2>3. /\ writeLock' \in {writeLock, None} /\ UNCHANGED <<files, stale, displaced, now>> /\ pass' = None
        /\ refs' = Keep(refs, DOMAIN refs \ pass.expired)
    BY <1>5 DEF GcCommit, Unlock
  <2>4. refs' \in [DOMAIN refs' -> Nat \union {None}]
    BY <2>3 DEF Keep, StoreInv
  <2> QED
    BY ZenonT(30), <2>1, <2>2, <2>3, <2>4 DEF StoreInv
<1>6. CASE Drop(p) \/ Finish(p) \/ Aborts(p)
  <2>1. proc' = [proc EXCEPT ![p] = Idle] /\ Idle.pc = "idle" /\ Idle.op = "idle"
    BY <1>6 DEF Drop, Finish, Aborts, Idle
  <2>2. /\ writeLock' \in {writeLock, None} /\ UNCHANGED <<files, displaced, refs, pass, now, blobs>>
        /\ stale' \in BOOLEAN
    BY Zenon, <1>6 DEF Drop, Finish, Aborts, Unlock, StoreInv
  <2>3. files \in [DOMAIN files -> {"good"}]
    BY DEF StoreInv
  <2>4. BlobInv'
    <3>1. CASE Aborts(p)
      <4>1. Idle \in Calls /\ Idle.digest = None
        BY DEF Idle, Calls, Pcs
      <4>2. Moves(p, "idle", None)
        BY Zenon, <1>1, <2>1, <4>1, StartMoves
      <4>3. proc[p].pc # "unindex" /\ Locks(p)
        BY <3>1 DEF Aborts, Locks
      <4> QED
        BY <2>2, <4>2, <4>3, QuietStep
    <3> QED
      BY <1>6, <3>1, EndInv
  <2>5. /\ proc'[p].pc = "idle" /\ proc'[p].op = "idle"
        /\ \A q \in Procs \ {p} : proc'[q] = proc[q]
    BY <1>1, <2>1
  <2> QED
    BY SMTT(20), <2>2, <2>3, <2>4, <2>5, StoreQuiet
<1>7. ASSUME NEW d \in Digests, PutStart(p, d) \/ VerifyStart(p, d) PROVE BlobInv' /\ StoreInv'
  <2>1. BlobInv'
    BY <1>7, PutStartInv, VerifyStartInv
  <2>2. PICK op \in {"put", "verify"}, pc \in {"look", "return", "writing"}, res \in {None, "QuotaExceeded"} :
           proc' = [proc EXCEPT ![p] = [op |-> op, pc |-> pc, digest |-> d, res |-> res]]
    BY <1>7 DEF PutStart, VerifyStart
  <2>3. writeLock' \in {writeLock, p} /\ UNCHANGED <<files, stale, displaced, refs, pass, now>>
    BY <1>7 DEF PutStart, VerifyStart
  <2>4. /\ proc'[p].pc = pc /\ proc'[p].op = op
        /\ \A q \in Procs \ {p} : proc'[q] = proc[q]
    BY <1>1, <2>2
  <2>5. files \in [DOMAIN files -> {"good"}] /\ stale \in BOOLEAN
    BY DEF StoreInv
  <2> QED
    BY <2>1, <2>3, <2>4, <2>5, StoreQuiet
<1>8. ASSUME NEW t \in Nat, t =< now, GcUnlink(p, t) PROVE BlobInv' /\ StoreInv'
  <2>1. BlobInv'
    BY Zenon, <1>8, GcUnlinkInv
  <2>2. PICK expired \in AtMost(Expired(t), Limit), gone \in SUBSET Digests, ok \in BOOLEAN :
           /\ pass' = [by |-> p, expired |-> expired, gone |-> gone, ok |-> ok]
           /\ files' = Keep(files, Digests \ gone)
    <3>1. PICK expired \in AtMost(Expired(t), Limit) :
          \E candidates \in AtMost(Unreferenced(expired), Limit) : \E gone \in SUBSET candidates :
             /\ pass' = [by |-> p, expired |-> expired, gone |-> gone, ok |-> gone = candidates]
             /\ files' = Keep(files, Digests \ gone)
      BY ZenonT(30), <1>8 DEF GcUnlink
    <3>2. PICK candidates \in AtMost(Unreferenced(expired), Limit) : \E gone \in SUBSET candidates :
             /\ pass' = [by |-> p, expired |-> expired, gone |-> gone, ok |-> gone = candidates]
             /\ files' = Keep(files, Digests \ gone)
      BY Zenon, <3>1
    <3>4. PICK gone \in SUBSET candidates :
             /\ pass' = [by |-> p, expired |-> expired, gone |-> gone, ok |-> gone = candidates]
             /\ files' = Keep(files, Digests \ gone)
      BY Zenon, <3>2
    <3>3. gone \subseteq Digests
      BY <3>4 DEF AtMost, Unreferenced, BlobInv, TypeInv
    <3> QED
      BY Zenon, <3>4, <3>3
  <2>3. expired \subseteq Expired(t) /\ pass'.expired = expired
    BY <2>2 DEF AtMost
  <2>4. \A r \in pass'.expired : r \in DOMAIN refs /\ refs[r] # None /\ refs[r] =< now
    BY <1>8, <2>3 DEF Expired, StoreInv
  <2>5. files' \in [DOMAIN files' -> {"good"}]
    BY Zenon, <2>2 DEF Keep, StoreInv
  <2>6. /\ proc' = [proc EXCEPT ![p] = [op |-> "gc", pc |-> "collect", digest |-> None, res |-> None]]
        /\ writeLock' = p /\ UNCHANGED <<blobs, refs, stale, displaced, now>>
    BY Zenon, <1>8 DEF GcUnlink
  <2>7. /\ proc'[p].pc = "collect" /\ proc'[p].op = "gc"
        /\ \A q \in Procs \ {p} : proc'[q] = proc[q]
    BY Zenon, <1>1, <2>6
  <2> QED
    BY ZenonT(30), <2>1, <2>4, <2>5, <2>6, <2>7 DEF StoreInv
<1> QED
  BY Zenon, <1>2, <1>3, <1>4, <1>5, <1>6, <1>7, <1>8 DEF CallStep, BlobStep

\* So do those of the references, of the clock and of a restart.
LEMMA StoreStepInv ==
    ASSUME BlobInv, StoreInv, StoreStep
    PROVE  BlobInv' /\ StoreInv'
<1>1. CASE RefsStep
  <2>1. /\ pass = None /\ UNCHANGED <<files, blobs, stale, displaced, writeLock, pass, proc, now>>
        /\ DOMAIN refs' \subseteq References /\ refs' \in [DOMAIN refs' -> Nat \union {None}]
        /\ \A r \in DOMAIN refs' : r[2] \in blobs
    BY Zenon, <1>1 DEF RefsStep, BlobRest, IndexFree
  <2>2. RefInv'
    BY Zenon, <2>1 DEF BlobInv, RefInv
  <2>3. BlobInv'
    BY Zenon, <2>1, <2>2 DEF BlobInv, TypeInv, LockInv, QuotaInv, CommitInv, IndexedReadable
  <2>4. StoreInv'
    BY <2>1 DEF StoreInv
  <2> QED
    BY Zenon, <2>3, <2>4
<1>2. CASE Tick
  <2>1. BlobInv'
    BY <1>2, EnvironmentInv
  <2>2. UNCHANGED <<files, blobs, refs, stale, displaced, writeLock, pass, proc>>
        /\ now < MaxTime /\ now' = now + 1
    BY <1>2 DEF Tick
  <2>3. now \in 0..MaxTime /\ now' \in 0..MaxTime /\ MaxTime \in Nat
    BY <2>2, BlobAssumption DEF StoreInv
  <2>4. \A e \in Nat : e =< now => e =< now'
    BY <2>2, <2>3
  <2>5. pass # None => \A r \in pass.expired : /\ r \in DOMAIN refs
                                               /\ refs[r] # None /\ refs[r] =< now'
    BY <2>4 DEF StoreInv
  <2> QED
    BY Zenon, <2>1, <2>2, <2>3, <2>5 DEF StoreInv
<1>3. CASE Reopen
  <2>1. BlobInv'
    BY <1>3, ReopenInv
  <2>2. /\ files' = Keep(files, blobs) /\ refs' = Keep(refs, Owners \X (blobs \intersect DOMAIN files))
        /\ proc' = [p \in Procs |-> Idle] /\ writeLock' = None /\ pass' = None /\ displaced' = {}
        /\ stale' = FALSE /\ now' = now
    BY <1>3 DEF Reopen, Reconciled
  <2>3. files' \in [DOMAIN files' -> {"good"}] /\ refs' \in [DOMAIN refs' -> Nat \union {None}]
    BY <2>2 DEF Keep, StoreInv
  <2>4. \A p \in Procs : proc'[p].op = "idle" /\ proc'[p].pc = "idle"
    BY <2>2 DEF Idle
  <2> QED
    BY Zenon, <2>1, <2>2, <2>3, <2>4 DEF StoreInv
<1>4. CASE UNCHANGED blobVars
  BY <1>4 DEF blobVars, BlobInv, TypeInv, LockInv, QuotaInv, CommitInv, RefInv, IndexedReadable, StoreInv
<1> QED
  BY Zenon, <1>1, <1>2, <1>3, <1>4, CallStepInv DEF StoreStep

================================================================================

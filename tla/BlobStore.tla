------------------------------- MODULE BlobStore -------------------------------
(***************************************************************************)
(* The content-addressed blob store (eggwork-server/src/blob.rs): a file   *)
(* per digest, an index of the files (the table blobs) and the references  *)
(* that keep a blob from being collected (the table blob_references).      *)
(*                                                                         *)
(* The index is guarded by a mutex that each statement takes for itself;   *)
(* the files are guarded by nothing but write_lock, which put_stream and   *)
(* garbage_collect take and verify_existing does not.  A call is therefore *)
(* a sequence of actions, one per access of the index or of the file.      *)
(*                                                                         *)
(* A digest stands for its one immutable byte string: a file holds that    *)
(* string ("good") or anything else ("bad").  Every blob has one unit of   *)
(* size.  The time of the last use orders the candidates of a collection;  *)
(* the model takes any of them.                                            *)
(***************************************************************************)
EXTENDS Integers, FiniteSets

CONSTANTS
    Digests,        \* the blobs clients know of
    Owners,         \* owner kinds and ids of references
    Procs,          \* calls in flight at the same time
    None,           \* SQL NULL, a free lock
    Quota,          \* quota_bytes, in blobs
    Limit,          \* the bound of one collection pass
    MaxTime,        \* bound on the clock
    Faults          \* what may go wrong: "corrupt", a stored file changes; "io", the
                    \* commit of an upload or an unlink of a collection fails;
                    \* "drop", the future of an upload is dropped; "crash"

ASSUME BlobAssumption ==
    /\ Quota \in Nat /\ Limit \in Nat \ {0} /\ MaxTime \in Nat
    /\ None \notin Procs /\ None \notin Nat
    /\ None \notin [by : Procs, expired : SUBSET (Owners \X Digests), gone : SUBSET Digests,
                   ok : BOOLEAN]
    /\ Faults \subseteq {"corrupt", "io", "drop", "crash"}

VARIABLES
    files,          \* files[d], for the digests with a file in place
    blobs,          \* the digests with a row in the index
    refs,           \* refs[<<owner, d>>]: the expiry of that reference, None if it has none
    stale,          \* there is a part file that no call writes
    displaced,      \* history: the digests whose upload lost its file, before its row was in,
                    \* to a verification of an earlier file, and that were not uploaded since
    writeLock,      \* the call that holds write_lock
    pass,           \* the collection that holds the index, with what it will commit
    proc,           \* proc[p]: the call p executes
    now             \* the wall clock

blobVars == <<files, blobs, refs, stale, displaced, writeLock, pass, proc, now>>

----------------------------------------------------------------------------
Content == {"good", "bad"}
Results == {"Ok", "NotFound", "CorruptExisting", "QuotaExceeded", "Io", "Body"}
References == Owners \X Digests

Idle == [op |-> "idle", pc |-> "idle", digest |-> None, res |-> None]

\* The files, the index, the locks and the calls keep their types.
TypeOK ==
    /\ DOMAIN files \subseteq Digests /\ files \in [DOMAIN files -> Content]
    /\ blobs \subseteq Digests
    /\ DOMAIN refs \subseteq References /\ refs \in [DOMAIN refs -> Nat \union {None}]
    /\ stale \in BOOLEAN
    /\ displaced \subseteq Digests
    /\ writeLock \in Procs \union {None}
    /\ \/ pass = None
       \/ /\ pass.by \in Procs /\ pass.gone \subseteq Digests
          /\ pass.expired \subseteq References /\ pass.ok \in BOOLEAN
    /\ \A p \in Procs :
          /\ proc[p].op \in {"idle", "put", "verify", "gc"}
          /\ proc[p].pc \in {"idle", "writing", "renamed", "failed", "look", "hash",
                             "corrupt", "unindex", "collect", "return"}
          /\ proc[p].digest \in Digests \union {None}
          /\ proc[p].res \in Results \union {None}
    /\ now \in 0..MaxTime

BlobInit ==
    /\ files = [d \in {} |-> "good"]
    /\ blobs = {}
    /\ refs = [r \in {} |-> None]
    /\ stale = FALSE
    /\ displaced = {}
    /\ writeLock = None
    /\ pass = None
    /\ proc = [p \in Procs |-> Idle]
    /\ now = 0

----------------------------------------------------------------------------
(* The index.  A pass of garbage_collect holds the mutex from its select to its
   commit; every other statement needs it free.                              *)
IndexFree == pass = None

Keep(f, S) == [x \in DOMAIN f \intersect S |-> f[x]]

Without(d) == {r \in References : r[2] # d}

\* DELETE FROM blobs: references of the digest go with it (ON DELETE CASCADE).
Unindex(d) ==
    /\ blobs' = blobs \ {d}
    /\ refs' = Keep(refs, Without(d))

Live(expiry) == expiry # None => expiry > now

Pinned(d) == \E r \in DOMAIN refs : r[2] = d /\ Live(refs[r])

\* find_missing and stored_size read the index alone.
Missing(D) == D \ blobs

\* The references of a table of references after retain_one for each of D: the
\* upsert sets the expiry of one that exists.
Retained(owner, D, expiry) ==
    [r \in DOMAIN refs \union ({owner} \X D) |->
        IF r[1] = owner /\ r[2] \in D THEN expiry ELSE refs[r]]

\* retain: one transaction, refused as a whole when a digest has no row.
Retain(owner, D, expiry) ==
    /\ IndexFree
    /\ D \subseteq blobs
    /\ refs' = Retained(owner, D, expiry)

\* set_reference_expiry; with None, clear_reference_expiry.
SetReferenceExpiry(owner, expiry) ==
    /\ IndexFree
    /\ refs' = [r \in DOMAIN refs |-> IF r[1] = owner THEN expiry ELSE refs[r]]

ReleaseReferences(owner) ==
    /\ IndexFree
    /\ refs' = Keep(refs, {r \in References : r[1] # owner})

----------------------------------------------------------------------------
Goto(p, pc) == proc' = [proc EXCEPT ![p].pc = pc]

Return(p, res) == proc' = [proc EXCEPT ![p].pc = "return", ![p].res = res]

\* What a call leaves as it returns: write_lock, if it holds it.
Unlock(p) == writeLock' = IF writeLock = p THEN None ELSE writeLock

\* Mutant of PutStart: write_lock is not kept while the body arrives.
PutStart_Unlocked(p, d) ==
    /\ proc[p].pc = "idle" /\ writeLock = None /\ IndexFree
    /\ d \notin DOMAIN files /\ Cardinality(blobs) + 1 =< Quota
    /\ proc' = [proc EXCEPT ![p] =
                   [op |-> "put", pc |-> "writing", digest |-> d, res |-> None]]
    /\ UNCHANGED <<files, blobs, refs, stale, writeLock, pass, displaced, now>>

\* put_stream, once it has write_lock: an existing target is verified, a full store
\* refuses, else the part file is created.
PutStart(p, d) ==
    /\ proc[p].pc = "idle" /\ writeLock = None /\ IndexFree
    /\ LET call(pc, res) == [op |-> "put", pc |-> pc, digest |-> d, res |-> res]
       IN \/ /\ d \in DOMAIN files
             /\ proc' = [proc EXCEPT ![p] = call("look", None)]
             /\ writeLock' = p
          \/ /\ d \notin DOMAIN files /\ Cardinality(blobs) + 1 > Quota
             /\ proc' = [proc EXCEPT ![p] = call("return", "QuotaExceeded")]
             /\ UNCHANGED writeLock
          \/ /\ d \notin DOMAIN files /\ Cardinality(blobs) + 1 =< Quota
             /\ proc' = [proc EXCEPT ![p] = call("writing", None)]
             /\ writeLock' = p
    /\ UNCHANGED <<files, blobs, refs, stale, pass, displaced, now>>

\* The body fails, is too long or too short, or hashes to another digest: the part
\* file is removed and there is no target to remove.
PutBody(p) ==
    /\ proc[p].pc = "writing"
    /\ Return(p, "Body") /\ Unlock(p)
    /\ UNCHANGED <<files, blobs, refs, stale, pass, displaced, now>>

\* The part file holds the bytes of the digest and is renamed into place.
PutRename(p) ==
    /\ proc[p].pc = "writing"
    /\ files' = [d \in DOMAIN files \union {proc[p].digest} |->
                    IF d = proc[p].digest THEN "good" ELSE files[d]]
    /\ displaced' = displaced \ {proc[p].digest}
    /\ Goto(p, "renamed")
    /\ UNCHANGED <<blobs, refs, stale, writeLock, pass, now>>

\* INSERT INTO blobs fails when the digest has a row; it, and the sync of the
\* directory before it, may fail of themselves.
PutInsert(p) ==
    /\ proc[p].pc = "renamed" /\ IndexFree
    /\ \/ /\ proc[p].digest \notin blobs
          /\ blobs' = blobs \union {proc[p].digest}
          /\ Return(p, "Ok") /\ Unlock(p)
       \/ /\ proc[p].digest \in blobs \/ "io" \in Faults
          /\ Goto(p, "failed")
          /\ UNCHANGED <<blobs, writeLock>>
    /\ UNCHANGED <<files, refs, stale, pass, displaced, now>>

\* The error path: a target whose digest has no row is removed.
PutCleanup(p) ==
    /\ proc[p].pc = "failed" /\ IndexFree
    /\ files' = IF proc[p].digest \in blobs THEN files
                ELSE Keep(files, Digests \ {proc[p].digest})
    /\ Return(p, "Io") /\ Unlock(p)
    /\ UNCHANGED <<blobs, refs, stale, pass, displaced, now>>

----------------------------------------------------------------------------
\* verify_existing, called by itself (prepare_upload when there is a file,
\* open_verified always) or by put_stream under write_lock.
VerifyStart(p, d) ==
    /\ proc[p].pc = "idle"
    /\ proc' = [proc EXCEPT ![p] =
                   [op |-> "verify", pc |-> "look", digest |-> d, res |-> None]]
    /\ UNCHANGED <<files, blobs, refs, stale, writeLock, pass, displaced, now>>

VerifyLook(p) ==
    /\ proc[p].pc = "look" /\ IndexFree
    /\ \/ /\ proc[p].digest \in blobs
          /\ Goto(p, "hash") /\ UNCHANGED writeLock
       \/ /\ proc[p].digest \notin blobs
          /\ Return(p, "NotFound") /\ Unlock(p)
    /\ UNCHANGED <<files, blobs, refs, stale, pass, displaced, now>>

\* The file is read to its end and hashed; a good one is touched in the index.
VerifyHash(p) ==
    /\ proc[p].pc = "hash"
    /\ LET d == proc[p].digest
       IN \/ /\ d \notin DOMAIN files
             /\ Return(p, "Io") /\ Unlock(p)
          \/ /\ d \in DOMAIN files /\ files[d] = "good"
             /\ Return(p, "Ok") /\ Unlock(p)
          \/ /\ d \in DOMAIN files /\ files[d] = "bad"
             /\ Goto(p, "corrupt") /\ UNCHANGED writeLock
    /\ UNCHANGED <<files, blobs, refs, stale, pass, displaced, now>>

\* An upload has put the file of d in place and not yet inserted its row.
Committing(d) == \E p \in Procs : proc[p].pc = "renamed" /\ proc[p].digest = d

\* Whatever is now at the path of the digest moves to quarantine: no lock is held since
\* the file was read, which may have gone and been uploaded again.
VerifyQuarantine(p) ==
    /\ proc[p].pc = "corrupt"
    /\ \/ /\ proc[p].digest \in DOMAIN files
          /\ files' = Keep(files, Digests \ {proc[p].digest})
          /\ displaced' = IF Committing(proc[p].digest)
                          THEN displaced \union {proc[p].digest} ELSE displaced
          /\ Goto(p, "unindex") /\ UNCHANGED writeLock
       \/ /\ proc[p].digest \notin DOMAIN files
          /\ Return(p, "Io") /\ Unlock(p) /\ UNCHANGED <<files, displaced>>
    /\ UNCHANGED <<blobs, refs, stale, pass, now>>

VerifyUnindex(p) ==
    /\ proc[p].pc = "unindex" /\ IndexFree
    /\ Unindex(proc[p].digest)
    /\ Return(p, "CorruptExisting") /\ Unlock(p)
    /\ UNCHANGED <<files, stale, pass, displaced, now>>

----------------------------------------------------------------------------
Expired(t) == {r \in DOMAIN refs : refs[r] # None /\ refs[r] =< t}

AtMost(S, n) == {T \in SUBSET S : Cardinality(T) = n \/ (T = S /\ Cardinality(S) < n)}

\* unreferenced_candidates, once the references in gone are deleted.
Unreferenced(gone) == {d \in blobs : ~ \E r \in DOMAIN refs \ gone : r[2] = d}

\* Mutant of GcUnlink: references are deleted before they expire.
GcUnlink_Early(p, t) ==
    /\ proc[p].pc = "idle" /\ writeLock = None /\ IndexFree
    /\ \E expired \in AtMost(DOMAIN refs, Limit) :
       \E candidates \in AtMost(Unreferenced(expired), Limit) :
          /\ pass' = [by |-> p, expired |-> expired, gone |-> candidates, ok |-> TRUE]
          /\ files' = Keep(files, Digests \ candidates)
    /\ proc' = [proc EXCEPT ![p] = [op |-> "gc", pc |-> "collect", digest |-> None, res |-> None]]
    /\ writeLock' = p
    /\ UNCHANGED <<blobs, refs, stale, displaced, now>>

\* garbage_collect(t) up to its commit: it deletes expired references, selects
\* blobs without any and unlinks their files.  An unlink that fails ends the loop;
\* the pass is committed all the same and reports the failure.
GcUnlink(p, t) ==
    /\ proc[p].pc = "idle" /\ writeLock = None /\ IndexFree
    /\ \E expired \in AtMost(Expired(t), Limit) :
       \E candidates \in AtMost(Unreferenced(expired), Limit) :
       \E gone \in SUBSET candidates :
          /\ gone = candidates \/ "io" \in Faults
          /\ pass' = [by |-> p, expired |-> expired, gone |-> gone, ok |-> gone = candidates]
          /\ files' = Keep(files, Digests \ gone)
    /\ proc' = [proc EXCEPT ![p] = [op |-> "gc", pc |-> "collect", digest |-> None, res |-> None]]
    /\ writeLock' = p
    /\ UNCHANGED <<blobs, refs, stale, displaced, now>>

GcCommit(p) ==
    /\ proc[p].pc = "collect"
    /\ blobs' = blobs \ pass.gone
    /\ refs' = Keep(refs, DOMAIN refs \ pass.expired)
    /\ pass' = None
    /\ Return(p, IF pass.ok THEN "Ok" ELSE "Io") /\ Unlock(p)
    /\ UNCHANGED <<files, stale, displaced, now>>

----------------------------------------------------------------------------
\* The caller takes the result.
Finish(p) ==
    /\ proc[p].pc = "return"
    /\ proc' = [proc EXCEPT ![p] = Idle]
    /\ UNCHANGED <<files, blobs, refs, stale, writeLock, pass, displaced, now>>

\* The connection of an upload closes and its future is dropped at an await: while
\* the body arrives, when the part file stays, or while an existing file is hashed.
Drop(p) ==
    /\ "drop" \in Faults /\ proc[p].op = "put" /\ proc[p].pc \in {"writing", "hash"}
    /\ stale' = (stale \/ proc[p].pc = "writing")
    /\ proc' = [proc EXCEPT ![p] = Idle] /\ Unlock(p)
    /\ UNCHANGED <<files, blobs, refs, pass, displaced, now>>

\* A stored file no longer holds the bytes it was written with.
Corrupt(d) ==
    /\ "corrupt" \in Faults /\ d \in DOMAIN files /\ files[d] = "good"
    /\ files' = [files EXCEPT ![d] = "bad"]
    /\ UNCHANGED <<blobs, refs, stale, writeLock, pass, proc, displaced, now>>

Tick ==
    /\ now < MaxTime /\ now' = now + 1
    /\ UNCHANGED <<files, blobs, refs, stale, displaced, writeLock, pass, proc>>

\* Mutant of Reconciled: files without a row go, rows without a file stay.
Reconciled_FilesOnly ==
    /\ stale' = FALSE
    /\ files' = Keep(files, blobs)
    /\ UNCHANGED <<blobs, refs>>

\* remove_stale_parts: part files go, then rows without a file, then files
\* without a row.
Reconciled ==
    /\ stale' = FALSE
    /\ blobs' = blobs \intersect DOMAIN files
    /\ refs' = Keep(refs, Owners \X (blobs \intersect DOMAIN files))
    /\ files' = Keep(files, blobs)

\* The process dies: the calls in flight are gone and a pass is rolled back.
\* The next process opens the store before it serves.
Reopen ==
    /\ "crash" \in Faults
    /\ Reconciled
    /\ proc' = [p \in Procs |-> Idle]
    /\ writeLock' = None /\ pass' = None /\ displaced' = {}
    /\ UNCHANGED now

BlobStep(p) ==
    \/ PutBody(p) \/ PutRename(p) \/ PutInsert(p) \/ PutCleanup(p)
    \/ VerifyLook(p) \/ VerifyHash(p) \/ VerifyQuarantine(p) \/ VerifyUnindex(p)
    \/ GcCommit(p)

BlobRest == <<files, blobs, stale, displaced, writeLock, pass, proc, now>>

BlobNext ==
    \/ \E p \in Procs :
          \/ BlobStep(p) \/ Drop(p) \/ GcUnlink(p, now) \/ Finish(p)
          \/ \E d \in Digests : PutStart(p, d) \/ VerifyStart(p, d)
    \/ \E o \in Owners :
          /\ \/ \E d \in Digests : Retain(o, {d}, now + 1)
             \/ SetReferenceExpiry(o, None)
             \/ ReleaseReferences(o)
          /\ UNCHANGED BlobRest
    \/ \E d \in Digests : Corrupt(d)
    \/ Tick \/ Reopen

BlobSpec == BlobInit /\ [][BlobNext]_blobVars

----------------------------------------------------------------------------
\* The quota bounds what is indexed, however many uploads, verifications and
\* collections overlap: the sum is read before the body arrives and the row is
\* inserted after it (put_stream).
QuotaHeld == Cardinality(blobs) =< Quota

\* A digest that find_missing reports as present has its file, on which a client that
\* skips an upload relies, except while the verification that found it corrupt is about
\* to delete the row, while the pass that unlinked it is about to commit, and when a
\* verification of an earlier file of the digest took away the one of an upload before
\* the upload inserted its row.  The last lasts until the digest is uploaded again or
\* the store is opened: verify_existing holds no lock between reading and renaming.
IndexedReadable ==
    \A d \in blobs :
        \/ d \in DOMAIN files
        \/ \E p \in Procs : proc[p].pc = "unindex" /\ proc[p].digest = d
        \/ pass # None /\ d \in pass.gone
        \/ d \in displaced

\* A file that a live reference pins is never removed, except by a verification
\* that found the digest corrupt, in this file or in one that was there before it
\* (garbage_collect, put_stream's error path and remove_stale_parts all delete files).
PinnedKept ==
    [][\A d \in DOMAIN files \ DOMAIN files' :
           Pinned(d) => \E p \in Procs : proc[p].pc = "corrupt" /\ proc[p].digest = d]_blobVars
================================================================================

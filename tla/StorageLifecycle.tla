-------------------------- MODULE StorageLifecycle --------------------------
(***************************************************************************)
(* Private originals: capacity reservations, writes to the object store,   *)
(* revocation, and retryable erasure (storage/lifecycle.py, with the       *)
(* server-side upload of api/documents.py and the publication copies of    *)
(* knowledge/publication_copies.py).                                       *)
(*                                                                         *)
(* A file and its object key are one identity.  Time is relative: every    *)
(* timer counts down on Tick.  A write to the object store may take effect *)
(* after its client gave up or died, but not after FlightTicks.            *)
(***************************************************************************)
EXTENDS Integers, FiniteSets, FiniteSetsExt

CONSTANTS
    Files,         \* identities of stored_files rows and of their objects
    Size,          \* byte_size of each file
    MaxBytes,      \* storage_max_bytes
    Writers,       \* requests that upload or copy
    Revokers,      \* requests that delete documents or accounts
    Cleaners,      \* cleanup sweeps, one per API process
    None,
    ReserveTicks,  \* life of a reservation
    GraceTicks,    \* WRITE_SETTLE_GRACE
    FlightTicks,   \* bound: how long a write to the store can stay in flight
    LeaseTicks,    \* cleanup lease
    RetryTicks,    \* bound: longest retry delay
    MaxPlan        \* bound: documents copied by one publication

ASSUME StorageAssumption ==
    /\ Size \in [Files -> Nat]
    /\ MaxBytes \in Nat
    /\ {ReserveTicks, GraceTicks, FlightTicks, LeaseTicks} \subseteq Nat \ {0}
    /\ {RetryTicks, MaxPlan} \subseteq Nat
    /\ FlightTicks < GraceTicks
    /\ None \notin Files \cup Cleaners

VARIABLES
    file,     \* stored_files: status and ticks until reserved_until
    used,     \* storage_quota.used_bytes
    cleanup,  \* storage_cleanup row of each object key
    objects,  \* keys that hold bytes in the bucket
    orphan,   \* ticks for which an abandoned write may still land, -1 if none
    writer, revoker, cleaner

storage == <<file, used, cleanup, objects, orphan>>
svars == <<file, used, cleanup, objects, orphan, writer, revoker, cleaner>>

Counted == {"reserved", "ready", "delete_pending"}

NoFile == [status |-> "absent", left |-> 0]

NoCleanup == [queued |-> FALSE, linked |-> FALSE, wait |-> 0, token |-> None, lease |-> 0]

\* plan: <<file, source>> pairs still to write (source None for an upload);
\* made: the reservations of a publication, discarded together if it fails.
IdleWriter == [pc |-> "idle", plan |-> {}, made |-> {}, file |-> None, source |-> None, left |-> -1]

IdleRevoker == [pc |-> "idle", file |-> None, wait |-> 0]

IdleCleaner == [pc |-> "idle", key |-> None]

Init ==
    /\ file = [f \in Files |-> NoFile]
    /\ used = 0
    /\ cleanup = [f \in Files |-> NoCleanup]
    /\ objects = {}
    /\ orphan = [f \in Files |-> -1]
    /\ writer = [p \in Writers |-> IdleWriter]
    /\ revoker = [v \in Revokers |-> IdleRevoker]
    /\ cleaner = [c \in Cleaners |-> IdleCleaner]

Bytes(S) == MapThenSumSet(LAMBDA f : Size[f], S)

Later(a, b) == IF a > b THEN a ELSE b

-----------------------------------------------------------------------------
(* Reservations. *)

Reserved == [status |-> "reserved", left |-> ReserveTicks]

\* reserve_file: the conditional update of the quota row admits them all or, rolled
\* back with the caller's transaction, none.
Fits(S) == used + Bytes(S) <= MaxBytes

Revoked == [status |-> "delete_pending", left |-> 0]

\* lock_reserved_file holds the row until the writer's transaction ends.
Locked(f) == \E p \in Writers : writer[p].pc = "writing" /\ writer[p].file = f

-----------------------------------------------------------------------------
(* The cleanup outbox. *)

\* enqueue_object_cleanup: one row per key; a repeated request never shortens the wait.
Enqueued(job, wait, linked) ==
    IF job.queued THEN [job EXCEPT !.wait = Later(@, wait)]
    ELSE [NoCleanup EXCEPT !.queued = TRUE, !.linked = linked, !.wait = wait]

\* schedule_file_cleanup: a reservation may have a write in flight.
SettleTicks(status) == IF status = "reserved" THEN GraceTicks ELSE 0

-----------------------------------------------------------------------------
(* Writers: create_uploaded_document and the publication copies. *)

\* Reserve capacity and commit, before any external write.  A publication copies
\* ready originals and reserves all its targets in one transaction.
ReserveFiles(p, plan) ==
    LET made == {t[1] : t \in plan}
    IN  /\ writer[p].pc = "idle"
        /\ Cardinality(made) = Cardinality(plan)
        /\ \A t \in plan :
             /\ file[t[1]].status = "absent"
             /\ t[2] # None => file[t[2]].status = "ready" /\ Size[t[2]] = Size[t[1]]
        /\ Fits(made)
        /\ file' = [f \in Files |-> IF f \in made THEN Reserved ELSE file[f]]
        /\ used' = used + Bytes(made)
        /\ writer' = [writer EXCEPT ![p] =
                        [IdleWriter EXCEPT !.pc = "reserved", !.plan = plan,
                             !.made = IF \E t \in plan : t[2] # None THEN made ELSE {}]]
        /\ UNCHANGED <<cleanup, objects, orphan, revoker, cleaner>>

\* A request that failed after reserving: a publication rolls back and then
\* discards its reservations; an upload leaves its own to expire.
Failed(wr) ==
    IF wr.made = {} THEN IdleWriter
    ELSE [IdleWriter EXCEPT !.pc = "discard", !.made = wr.made]

\* The write may start: lock_reserved_file finds a live reservation (a revoker that
\* already waits for the row gets it first), and a copy's source is still ready.
Writable(f, s) ==
    /\ file[f].status = "reserved"
    /\ file[f].left > 0
    /\ s # None => file[s].status = "ready"

BeginWrite(p, f, s) ==
    /\ writer[p].pc = "reserved"
    /\ <<f, s>> \in writer[p].plan
    /\ ~Locked(f)
    /\ \A v \in Revokers : revoker[v].file # f
    /\ Writable(f, s)
    /\ writer' = [writer EXCEPT ![p].pc = "writing", ![p].file = f, ![p].source = s,
                                ![p].left = FlightTicks]
    /\ UNCHANGED <<storage, revoker, cleaner>>

RefuseWrite(p, f, s) ==
    /\ writer[p].pc = "reserved"
    /\ <<f, s>> \in writer[p].plan
    /\ ~Locked(f)
    /\ ~Writable(f, s)
    /\ writer' = [writer EXCEPT ![p] = Failed(@)]
    /\ UNCHANGED <<storage, revoker, cleaner>>

\* Fault: the file is published when its write is issued.
PublishFirst(p) ==
    LET wr == writer[p]
    IN  /\ wr.pc = "writing"
        /\ file' = [file EXCEPT ![wr.file] = [status |-> "ready", left |-> 0]]
        /\ orphan' = [orphan EXCEPT ![wr.file] = Later(@, wr.left)]
        /\ writer' = [writer EXCEPT ![p] = IdleWriter]
        /\ UNCHANGED <<used, cleanup, objects, revoker, cleaner>>

\* The store answered: mark_file_ready and the document that links the file commit
\* in the transaction that holds the row.
FinishWrite(p) ==
    LET wr   == writer[p]
        rest == wr.plan \ {<<wr.file, wr.source>>}
    IN  /\ wr.pc = "writing"
        /\ wr.source # None => wr.source \in objects
        /\ file[wr.file].status = "reserved"
        /\ objects' = objects \cup {wr.file}
        /\ file' = [file EXCEPT ![wr.file] = [status |-> "ready", left |-> 0]]
        /\ writer' = [writer EXCEPT ![p] =
                        IF rest = {} THEN IdleWriter
                        ELSE [IdleWriter EXCEPT !.pc = "reserved", !.plan = rest, !.made = wr.made]]
        /\ UNCHANGED <<used, cleanup, orphan, revoker, cleaner>>

\* A write whose client stops waiting has landed, or may still land until its time
\* is over.
Abandon(wr, landed) ==
    /\ orphan' = [orphan EXCEPT ![wr.file] = Later(@, wr.left)]
    /\ objects' = IF landed THEN objects \cup {wr.file} ELSE objects

\* The store or the commit fails: rollback releases the row, the reservation stays.
FailWrite(p, landed) ==
    /\ writer[p].pc = "writing"
    /\ Abandon(writer[p], landed)
    /\ writer' = [writer EXCEPT ![p] = Failed(@)]
    /\ UNCHANGED <<file, used, cleanup, revoker, cleaner>>

\* The process dies; its transaction is rolled back and nothing is discarded.
CrashWriter(p, landed) ==
    /\ writer[p].pc # "idle"
    /\ IF writer[p].pc = "writing" THEN Abandon(writer[p], landed) ELSE UNCHANGED <<orphan, objects>>
    /\ writer' = [writer EXCEPT ![p] = IdleWriter]
    /\ UNCHANGED <<file, used, cleanup, revoker, cleaner>>

LandOrphan(f) ==
    /\ orphan[f] >= 0
    /\ objects' = objects \cup {f}
    /\ UNCHANGED <<file, used, cleanup, orphan, writer, revoker, cleaner>>

\* delete_knowledge_base_copy and discard_file_copies, in one transaction.
DiscardCopies(p) ==
    LET made == {f \in writer[p].made : file[f].status \in Counted}
    IN  /\ writer[p].pc = "discard"
        /\ file' = [f \in Files |-> IF f \in made THEN Revoked ELSE file[f]]
        /\ cleanup' = [f \in Files |-> IF f \in made
                                       THEN Enqueued(cleanup[f], SettleTicks(file[f].status), TRUE)
                                       ELSE cleanup[f]]
        /\ writer' = [writer EXCEPT ![p] = IdleWriter]
        /\ UNCHANGED <<used, objects, orphan, revoker, cleaner>>

-----------------------------------------------------------------------------
(* Revocation: schedule_file_cleanup, for a deleted document or account. *)

\* The refresh that decides whether the write needs time to settle.
ReadFile(v, f) ==
    /\ revoker[v].pc = "idle"
    /\ file[f].status \in Counted
    /\ revoker' = [revoker EXCEPT ![v] = [pc |-> "revoke", file |-> f,
                                          wait |-> SettleTicks(file[f].status)]]
    /\ UNCHANGED <<storage, writer, cleaner>>

\* The conditional update waits for the row, then the cleanup row joins it.
Revoke(v) ==
    LET f == revoker[v].file
    IN  /\ revoker[v].pc = "revoke"
        /\ ~Locked(f)
        /\ \/ /\ file[f].status \in {"reserved", "ready"}
              /\ file' = [file EXCEPT ![f] = Revoked]
              /\ cleanup' = [cleanup EXCEPT ![f] = Enqueued(@, revoker[v].wait, TRUE)]
              /\ revoker' = [revoker EXCEPT ![v] = IdleRevoker]
           \/ /\ file[f].status = "delete_pending"
              /\ revoker' = [revoker EXCEPT ![v].pc = "enqueue"]
              /\ UNCHANGED <<file, cleanup>>
           \/ /\ file[f].status = "deleted"
              /\ revoker' = [revoker EXCEPT ![v] = IdleRevoker]
              /\ UNCHANGED <<file, cleanup>>
        /\ UNCHANGED <<used, objects, orphan, writer, cleaner>>

\* Already revoked by somebody else, whose cleanup may be over by now.
EnqueueAgain(v) ==
    /\ revoker[v].pc = "enqueue"
    /\ cleanup' = [cleanup EXCEPT ![revoker[v].file] = Enqueued(@, revoker[v].wait, TRUE)]
    /\ revoker' = [revoker EXCEPT ![v] = IdleRevoker]
    /\ UNCHANGED <<file, used, objects, orphan, writer, cleaner>>

-----------------------------------------------------------------------------
(* Cleanup sweeps. *)

\* Faults: nothing expires; or the grace after the deadline is forgotten.
NeverExpired(f) == FALSE
ExpiredAtOnce(f) == file[f].status = "reserved" /\ file[f].left <= 0

Expired(f) == file[f].status = "reserved" /\ file[f].left <= -GraceTicks

\* _expire_reservations.
ExpireReservation(f) ==
    /\ Expired(f)
    /\ ~Locked(f)
    /\ file' = [file EXCEPT ![f] = Revoked]
    /\ cleanup' = [cleanup EXCEPT ![f] = Enqueued(@, 0, TRUE)]
    /\ UNCHANGED <<used, objects, orphan, writer, revoker, cleaner>>

\* Claim a due row.  The lease counts from the start of the sweep, so some of it,
\* or all, may be gone.
ClaimCleanup(c, f, lease) ==
    /\ cleaner[c].pc = "idle"
    /\ cleanup[f].queued
    /\ cleanup[f].wait = 0
    /\ cleanup[f].lease = 0
    /\ cleanup' = [cleanup EXCEPT ![f].token = c, ![f].lease = lease]
    /\ cleaner' = [cleaner EXCEPT ![c] = [pc |-> "erase", key |-> f]]
    /\ UNCHANGED <<file, used, objects, orphan, writer, revoker>>

\* The provider delete, outside any transaction.
EraseObject(c) ==
    /\ cleaner[c].pc = "erase"
    /\ objects' = objects \ {cleaner[c].key}
    /\ cleaner' = [cleaner EXCEPT ![c].pc = "erased"]
    /\ UNCHANGED <<file, used, cleanup, orphan, writer, revoker>>

\* The row still carries the token of this sweep.
OwnsCleanup(c) == cleanup[cleaner[c].key].queued /\ cleanup[cleaner[c].key].token = c

\* Fault: the row is dropped when the delete fails.
DroppedRow(job, wait) == NoCleanup

\* Back to the queue after a failed delete, with a later not_before.
Retried(job, wait) == [job EXCEPT !.wait = wait, !.token = None, !.lease = 0]

\* The delete is reported failed; it may have taken effect all the same.
EraseFails(c, wait, kept) ==
    LET f == cleaner[c].key
    IN  /\ cleaner[c].pc = "erase"
        /\ objects' = IF kept THEN objects ELSE objects \ {f}
        /\ cleanup' = IF OwnsCleanup(c) THEN [cleanup EXCEPT ![f] = Retried(@, wait)] ELSE cleanup
        /\ cleaner' = [cleaner EXCEPT ![c] = IdleCleaner]
        /\ UNCHANGED <<file, used, orphan, writer, revoker>>

\* Faults: capacity is released for every erased row, with or without a check that
\* there is some to release.
ReleasesLinked(f) == cleanup[f].linked
ReleasesAlways(f) == cleanup[f].linked /\ used >= Size[f]

\* The status moves and the capacity is released once.
Releases(f) == cleanup[f].linked /\ file[f].status = "delete_pending"

\* The delete succeeded: settle the row under the token, or leave it to its new owner.
FinishErase(c) ==
    LET f == cleaner[c].key
    IN  /\ cleaner[c].pc = "erased"
        /\ IF OwnsCleanup(c)
           THEN /\ file' = IF Releases(f) THEN [file EXCEPT ![f].status = "deleted"] ELSE file
                /\ used' = IF Releases(f) THEN used - Size[f] ELSE used
                /\ cleanup' = [cleanup EXCEPT ![f] = NoCleanup]
           ELSE UNCHANGED <<file, used, cleanup>>
        /\ cleaner' = [cleaner EXCEPT ![c] = IdleCleaner]
        /\ UNCHANGED <<objects, orphan, writer, revoker>>

CrashCleaner(c) ==
    /\ cleaner[c].pc # "idle"
    /\ cleaner' = [cleaner EXCEPT ![c] = IdleCleaner]
    /\ UNCHANGED <<storage, writer, revoker>>

-----------------------------------------------------------------------------
(* Time. *)

Down(n, floor) == IF n > floor THEN n - 1 ELSE n

\* A revoker that nothing blocks does not stall for a tick between its statements.
Prompt ==
    \A v \in Revokers :
        /\ revoker[v].pc # "enqueue"
        /\ revoker[v].pc = "revoke" => Locked(revoker[v].file)

Tick ==
    /\ Prompt
    /\ file' = [f \in Files |-> IF file[f].status = "reserved"
                                THEN [file[f] EXCEPT !.left = Down(@, -GraceTicks)] ELSE file[f]]
    /\ cleanup' = [f \in Files |-> [cleanup[f] EXCEPT !.wait = Down(@, 0), !.lease = Down(@, 0)]]
    /\ orphan' = [f \in Files |-> Down(orphan[f], -1)]
    /\ writer' = [p \in Writers |-> [writer[p] EXCEPT !.left = Down(@, -1)]]
    /\ revoker' = [v \in Revokers |-> [revoker[v] EXCEPT !.wait = Down(@, 0)]]
    /\ UNCHANGED <<used, objects, cleaner>>

-----------------------------------------------------------------------------
\* An upload writes one new file; a publication copies ready ones.  Two copies may
\* share their source here; the documents of a real publication have a file each.
Plans == {{<<f, None>>} : f \in Files}
           \cup {{copies[i] : i \in 1..MaxPlan} : copies \in [1..MaxPlan -> Files \X Files]}

WriterStep(p) ==
    \/ \E plan \in Plans : ReserveFiles(p, plan)
    \/ \E f \in Files, s \in Files \cup {None} : BeginWrite(p, f, s) \/ RefuseWrite(p, f, s)
    \/ FinishWrite(p)
    \/ \E landed \in BOOLEAN : FailWrite(p, landed) \/ CrashWriter(p, landed)
    \/ DiscardCopies(p)

RevokerStep(v) ==
    \/ \E f \in Files : ReadFile(v, f)
    \/ Revoke(v)
    \/ EnqueueAgain(v)

CleanerStep(c) ==
    \/ \E f \in Files, lease \in 0..LeaseTicks : ClaimCleanup(c, f, lease)
    \/ EraseObject(c)
    \/ \E wait \in 0..RetryTicks, kept \in BOOLEAN : EraseFails(c, wait, kept)
    \/ FinishErase(c)
    \/ CrashCleaner(c)

Next ==
    \/ \E p \in Writers : WriterStep(p)
    \/ \E v \in Revokers : RevokerStep(v)
    \/ \E c \in Cleaners : CleanerStep(c)
    \/ \E f \in Files : ExpireReservation(f)
    \/ \E f \in Files : LandOrphan(f)
    \/ Tick

Spec == Init /\ [][Next]_svars

-----------------------------------------------------------------------------
(* Properties. *)

StorageTypeOK ==
    /\ file \in [Files -> [status : Counted \cup {"absent", "deleted"},
                           left : -GraceTicks..ReserveTicks]]
    /\ used \in 0..MaxBytes
    /\ cleanup \in [Files -> [queued : BOOLEAN, linked : BOOLEAN, wait : Nat,
                              token : Cleaners \cup {None}, lease : 0..LeaseTicks]]
    /\ objects \subseteq Files
    /\ orphan \in [Files -> Int]
    /\ writer \in [Writers ->
         [pc : {"idle", "reading", "reserved", "writing", "discard"},
          plan : SUBSET (Files \X (Files \cup {None})), made : SUBSET Files,
          file : Files \cup {None}, source : Files \cup {None}, left : -1..FlightTicks]]
    /\ revoker \in [Revokers -> [pc : {"idle", "revoke", "enqueue"}, file : Files \cup {None},
                                 wait : Nat]]
    /\ cleaner \in [Cleaners -> [pc : {"idle", "erase", "erased"}, key : Files \cup {None}]]

\* The quota row counts every file that is not confirmed erased, exactly once, over
\* retries, lease takeovers and crashes of the sweep.
QuotaExact == used = Bytes({f \in Files : file[f].status \in Counted})

\* A published original can be read: no sweep ever erases it.
ReadyHasBytes == \A f \in Files : file[f].status = "ready" => f \in objects

\* "releasing capacity only after confirmed erasure": bytes in the bucket, and writes
\* that may still put some there, belong to a file the quota counts.
BytesCounted ==
    \A f \in Files : f \in objects \/ orphan[f] >= 0 => file[f].status \in Counted

\* A revoked file always has its linked row in the outbox, so a later sweep finishes.
ErasureQueued ==
    \A f \in Files : file[f].status = "delete_pending" => cleanup[f].queued /\ cleanup[f].linked

=============================================================================

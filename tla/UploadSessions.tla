--------------------------- MODULE UploadSessions ---------------------------
(***************************************************************************)
(* Direct uploads (api/document_files.py), composed with StorageLifecycle: *)
(* an admission reserves the original and a staging object, the client     *)
(* uploads to signed URLs, and completion seals the verified bytes under   *)
(* the original's key.  A finalizing request is a writer of                *)
(* StorageLifecycle that also holds a session.                             *)
(***************************************************************************)
EXTENDS StorageLifecycle

CONSTANTS
    Uploads,       \* identities of document_upload_sessions rows
    UrlTicks,      \* longest life of a signed URL
    StagingTicks,  \* staging objects outlive the admission by this much
    UploadTicks    \* bound: how long a started client upload can stay in flight

ASSUME UploadAssumption ==
    /\ {UrlTicks, StagingTicks, UploadTicks} \subseteq Nat \ {0}
    /\ UploadTicks <= StagingTicks
    /\ None \notin Uploads

VARIABLES
    sess,  \* sessions; left, url: ticks until expires_at and signed_until
    hand   \* the session each finalizing request works on

uvars == <<file, used, cleanup, objects, orphan, writer, revoker, cleaner, sess, hand>>

NoSession == [status |-> "absent", original |-> None, staging |-> None, left |-> 0, url |-> 0]

UploadInit ==
    /\ Init
    /\ sess = [u \in Uploads |-> NoSession]
    /\ hand = [p \in Writers |-> None]

Sooner(a, b) == IF a < b THEN a ELSE b

\* Fault: staging objects are erased when the admission ends.
StagingWaitShort(left) == left

\* Staging is erased after every URL has expired.
StagingWait(left) == left + StagingTicks

-----------------------------------------------------------------------------
\* initiate_upload: two reservations, the staging one revoked at once, and the
\* first signed URL.
InitiateUpload(u, f, g) ==
    /\ sess[u].status = "absent"
    /\ f # g
    /\ file[f].status = "absent" /\ file[g].status = "absent"
    /\ Size[f] = Size[g]
    /\ Fits({f, g})
    /\ file' = [file EXCEPT ![f] = Reserved, ![g] = Revoked]
    /\ used' = used + Bytes({f, g})
    /\ cleanup' = [cleanup EXCEPT ![g] =
                     Enqueued(@, Later(StagingWait(ReserveTicks), GraceTicks), TRUE)]
    /\ sess' = [sess EXCEPT ![u] =
                  [status |-> "pending", original |-> f, staging |-> g, left |-> ReserveTicks,
                   url |-> Sooner(UrlTicks, ReserveTicks)]]
    /\ UNCHANGED <<objects, orphan, writer, revoker, cleaner, hand>>

\* refresh_upload: another signed URL, within the admission's deadline.
RefreshUpload(u) ==
    LET g == sess[u].staging
    IN  /\ sess[u].status = "pending"
        /\ sess[u].left > 0
        /\ file[sess[u].original].status = "reserved"
        /\ cleanup' = [cleanup EXCEPT ![g] = Enqueued(@, StagingWait(sess[u].left), TRUE)]
        /\ sess' = [sess EXCEPT ![u].url = Sooner(UrlTicks, sess[u].left)]
        /\ UNCHANGED <<file, used, objects, orphan, writer, revoker, cleaner, hand>>

\* The client starts an upload with a URL that has not expired, whatever the
\* session's status; the object appears some time later (LandOrphan).
ClientPut(u) ==
    /\ sess[u].url > 0
    /\ orphan' = [orphan EXCEPT ![sess[u].staging] = Later(@, UploadTicks)]
    /\ UNCHANGED <<file, used, cleanup, objects, writer, revoker, cleaner, sess, hand>>

-----------------------------------------------------------------------------
(* complete_upload. *)

\* Compare-and-set pending -> verifying, committed on its own.
ClaimUpload(p, u) ==
    /\ writer[p].pc = "idle"
    /\ sess[u].status = "pending"
    /\ sess[u].left > 0
    /\ sess' = [sess EXCEPT ![u].status = "verifying"]
    /\ hand' = [hand EXCEPT ![p] = u]
    /\ writer' = [writer EXCEPT ![p].pc = "reading"]
    /\ UNCHANGED <<storage, revoker, cleaner>>

\* Read and check the staging bytes; nothing is locked while they are parsed.
VerifyStaging(p) ==
    LET u == hand[p]
    IN  /\ writer[p].pc = "reading"
        /\ sess[u].staging \in objects
        /\ writer' = [writer EXCEPT ![p].pc = "reserved",
                                    ![p].plan = {<<sess[u].original, None>>}]
        /\ UNCHANGED <<storage, revoker, cleaner, sess, hand>>

\* A failed completion may be tried again.
Reopened(u) == [sess EXCEPT ![u].status = IF @ = "verifying" THEN "pending" ELSE @]

\* Missing object, failed integrity check, parse error, lost permission.
RejectStaging(p) ==
    /\ writer[p].pc = "reading"
    /\ writer' = [writer EXCEPT ![p] = IdleWriter]
    /\ sess' = Reopened(hand[p])
    /\ hand' = [hand EXCEPT ![p] = None]
    /\ UNCHANGED <<storage, revoker, cleaner>>

\* Fault: the session completes when its sealing write is issued.
SealedEarly(p) ==
    /\ BeginWrite(p, sess[hand[p]].original, None)
    /\ sess' = [sess EXCEPT ![hand[p]].status = "completed"]
    /\ UNCHANGED hand

\* lock_reserved_file, and the sealing write is issued.
SealOriginal(p) ==
    /\ BeginWrite(p, sess[hand[p]].original, None)
    /\ UNCHANGED <<sess, hand>>

\* Document, readiness and the completed session commit together.
CompleteUpload(p) ==
    /\ FinishWrite(p)
    /\ sess' = [sess EXCEPT ![hand[p]].status = "completed"]
    /\ hand' = [hand EXCEPT ![p] = None]

FailSeal(p, landed) ==
    /\ \/ RefuseWrite(p, sess[hand[p]].original, None)
       \/ FailWrite(p, landed)
    /\ sess' = Reopened(hand[p])
    /\ hand' = [hand EXCEPT ![p] = None]

\* The process dies: the session stays verifying.
CrashFinalizer(p, landed) ==
    /\ CrashWriter(p, landed)
    /\ hand' = [hand EXCEPT ![p] = None]
    /\ UNCHANGED sess

\* abort_upload: compare-and-set pending -> aborted, revoke the original, and make
\* sure the staging key is in the outbox.
AbortUpload(u) ==
    LET f == sess[u].original
        g == sess[u].staging
        c == IF file[f].status \in Counted
             THEN [cleanup EXCEPT ![f] = Enqueued(@, SettleTicks(file[f].status), TRUE)]
             ELSE cleanup
    IN  /\ sess[u].status = "pending"
        /\ ~Locked(f)
        /\ sess' = [sess EXCEPT ![u].status = "aborted"]
        /\ file' = IF file[f].status \in Counted THEN [file EXCEPT ![f] = Revoked] ELSE file
        /\ cleanup' = [c EXCEPT ![g] = Enqueued(@, StagingWait(sess[u].left), FALSE)]
        /\ UNCHANGED <<used, objects, orphan, writer, revoker, cleaner, hand>>

UploadTick ==
    /\ Tick
    /\ sess' = [u \in Uploads |-> [sess[u] EXCEPT !.left = Down(@, 0), !.url = Down(@, 0)]]
    /\ UNCHANGED hand

-----------------------------------------------------------------------------
FinalizerStep(p) ==
    \/ \E u \in Uploads : ClaimUpload(p, u)
    \/ VerifyStaging(p)
    \/ RejectStaging(p)
    \/ SealOriginal(p)
    \/ CompleteUpload(p)
    \/ \E landed \in BOOLEAN : FailSeal(p, landed) \/ CrashFinalizer(p, landed)

UploadNext ==
    \/ \E u \in Uploads, f, g \in Files : InitiateUpload(u, f, g)
    \/ \E u \in Uploads : RefreshUpload(u) \/ ClientPut(u) \/ AbortUpload(u)
    \/ \E p \in Writers : FinalizerStep(p)
    \/ /\ \/ \E v \in Revokers : RevokerStep(v)
          \/ \E c \in Cleaners : CleanerStep(c)
          \/ \E f \in Files : ExpireReservation(f) \/ LandOrphan(f)
       /\ UNCHANGED <<sess, hand>>
    \/ UploadTick

UploadSpec == UploadInit /\ [][UploadNext]_uvars

\* The sweep runs every minute in every API process, so reservations are expired and
\* rows are claimed again after crashes; the provider does not fail for ever, and
\* requests take less than for ever (time passes, whatever clients repeat).
UploadFairness ==
    LET Storage(A) == A /\ UNCHANGED <<sess, hand>>
    IN  /\ SF_uvars(UploadTick)
        /\ \A f \in Files : WF_uvars(Storage(ExpireReservation(f)))
        /\ \A p \in Writers : WF_uvars(CompleteUpload(p) \/ FailSeal(p, FALSE))
        /\ \A v \in Revokers : WF_uvars(Storage(Revoke(v) \/ EnqueueAgain(v)))
        /\ \A c \in Cleaners :
             /\ \A f \in Files :
                  SF_uvars(Storage(\E lease \in 0..LeaseTicks : ClaimCleanup(c, f, lease)))
             /\ SF_uvars(Storage(EraseObject(c)))
             /\ SF_uvars(Storage(FinishErase(c)))

FairUploadSpec == UploadSpec /\ UploadFairness

-----------------------------------------------------------------------------
(* Properties. *)

UploadTypeOK ==
    /\ StorageTypeOK
    /\ sess \in [Uploads ->
         [status : {"absent", "pending", "verifying", "completed", "aborted"},
          original : Files \cup {None}, staging : Files \cup {None},
          left : 0..ReserveTicks, url : 0..UrlTicks]]
    /\ hand \in [Writers -> Uploads \cup {None}]

\* "late uploads cannot resurrect it": no URL and no client upload in flight can put
\* bytes back under a staging key whose capacity was released.
StagingCounted ==
    \A u \in Uploads :
        LET g == sess[u].staging
        IN  sess[u].status # "absent" /\ (sess[u].url > 0 \/ orphan[g] >= 0 \/ g \in objects)
                => file[g].status \in Counted

\* A session completes with a published original and never loses it again to its
\* own retries: only a revocation takes it away.  An aborted one never publishes.
SessionOutcome ==
    \A u \in Uploads :
        LET status == file[sess[u].original].status
        IN  /\ sess[u].status = "completed" => status \in {"ready", "delete_pending", "deleted"}
            /\ sess[u].status = "aborted" => status \in {"delete_pending", "deleted"}
            /\ sess[u].status \in {"pending", "verifying"} => status # "ready"

\* The capacity that is counted is the capacity that is used, published files have their
\* bytes, what is revoked is queued for erasure, and sessions end as they should.
UploadsSound ==
    /\ UploadTypeOK /\ QuotaExact /\ ReadyHasBytes /\ ErasureQueued
    /\ StagingCounted /\ SessionOutcome

\* Nothing holds capacity for ever but a published file: reservations, of sessions
\* left behind by their client or by a finalizer that died too, are published or
\* revoked, and revoked files are erased and released.
CapacityReturns ==
    \A f \in Files : file[f].status \in {"reserved", "delete_pending"}
                        ~> file[f].status \in {"ready", "deleted"}

=============================================================================

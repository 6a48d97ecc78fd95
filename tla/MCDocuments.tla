---------------------------- MODULE MCDocuments ----------------------------
(***************************************************************************)
(* Instances of UploadSessions, with StorageLifecycle, and of Ingestion    *)
(* for TLC: how files are stored and how their documents are indexed.  A   *)
(* behaviour exercises one part: the copies of a publication, made by one  *)
(* request; a direct upload, with every request and sweep there is; or     *)
(* ingestion.                                                              *)
(***************************************************************************)
EXTENDS UploadSessions, Ingestion, TLC

CONSTANTS Parts,         \* the parts of the run
          Solo, Sweep    \* the request and the sweep that act while files are copied

VARIABLE part
mcvars == <<part, uvars, ivars>>

\* Every file one byte.
UnitSize == [f \in Files |-> 1]

MCInit ==
    /\ part \in Parts
    /\ UploadInit /\ IngestInit
    /\ part # "ingest" => mode = "external_worker"

Copying(A) == part = "copies" /\ A /\ UNCHANGED <<part, sess, hand, ivars>>
Uploading(A) == part = "uploads" /\ A /\ UNCHANGED <<part, ivars>>
Ingesting(A) == part = "ingest" /\ A /\ UNCHANGED <<part, uvars>>

\* While files are copied what is revoked has been stored; the reservations are revoked
\* in the uploads.
Stored(v) == \A f \in Files : revoker'[v].file = f => file[f].status # "reserved"

MCNext ==
    \/ Copying(WriterStep(Solo))
    \/ \E v \in Revokers : Copying(RevokerStep(v) /\ Stored(v))
    \/ Copying(CleanerStep(Sweep))
    \/ \E f \in Files : Copying(ExpireReservation(f) \/ LandOrphan(f))
    \/ Copying(Tick)
    \/ Uploading(UploadNext)
    \/ Ingesting(IngestNext)

MCSpec == MCInit /\ [][MCNext]_mcvars

\* UploadFairness and IngestFairness, each where its component acts.
MCFairness ==
    LET Storing(A) == Uploading(A /\ UNCHANGED <<sess, hand>>)
    IN  /\ SF_mcvars(Uploading(UploadTick))
        /\ \A f \in Files : WF_mcvars(Storing(ExpireReservation(f)))
        /\ \A p \in Writers : WF_mcvars(Uploading(CompleteUpload(p) \/ FailSeal(p, FALSE)))
        /\ \A v \in Revokers : WF_mcvars(Storing(Revoke(v) \/ EnqueueAgain(v)))
        /\ \A c \in Cleaners :
             /\ \A f \in Files :
                  SF_mcvars(Storing(\E lease \in 0..LeaseTicks : ClaimCleanup(c, f, lease)))
             /\ SF_mcvars(Storing(EraseObject(c)))
             /\ SF_mcvars(Storing(FinishErase(c)))
        /\ \A p \in Procs : WF_mcvars(Ingesting(Execute(p) \/ MissingRun(p) \/ Publish(p) \/ Fail(p)))
        /\ WF_mcvars(Ingesting(\E w \in Polling, r \in Runs : Claim(w, r)))

MCFairSpec == MCSpec /\ MCFairness

Interchange == Permutations(Files)

\* BytesCounted, where a file is written by one request.
MCBytesCounted == part = "copies" => BytesCounted

=============================================================================

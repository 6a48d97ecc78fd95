----------------------------- MODULE Ingestion -----------------------------
(***************************************************************************)
(* Document ingestion: the extraction runs that turn the text of a         *)
(* document into its search index, and the edits, re-indexing requests and *)
(* deletions that race with them.  Translated from                         *)
(* my_agents/knowledge/extraction.py, my_agents/knowledge/                 *)
(* ingestion_worker.py, my_agents/api/documents.py and the reprocess       *)
(* endpoint of my_agents/api/document_files.py.                            *)
(*                                                                         *)
(* Every request and every worker has a database session of its own.  The  *)
(* sessions are made with expire_on_commit=False (persistence/database.py),*)
(* so a row that a request has loaded stays in its session as it was: the  *)
(* row locks taken later order the writers, but they do not reload the     *)
(* attributes that were read before.  A request is therefore two steps,    *)
(* Open (authorize and load) and the locked transaction, and the second    *)
(* uses what the first has "seen".                                         *)
(*                                                                         *)
(* Chunks, vectors, entities and the metadata profile of a document are    *)
(* written and cleared together: "index" is the text they were made from.  *)
(***************************************************************************)
EXTENDS Naturals, FiniteSets

CONSTANTS
    Documents,   \* document ids
    Texts,       \* what a user writes or a parser extracts
    Requests,    \* API requests, each with its thread and its session
    Workers,     \* ingestion worker processes
    MaxRuns,     \* bound: extraction runs created
    Nil

ASSUME IngestionAssumption ==
    /\ MaxRuns \in Nat
    /\ Requests \cap Workers = {}

VARIABLES
    mode,        \* settings.ingestion_execution_mode
    doc,         \* DocumentModel rows, with the index built for each
    run,         \* ExtractionRunModel rows, in order of creation
    proc,        \* the local state of requests, their threads, and workers
    lost         \* history: runs whose process died while it held them

ivars == <<mode, doc, run, proc, lost>>

Procs == Requests \cup Workers
Runs == 1 .. MaxRuns

Modes == {"in_process_thread", "external_worker"}
ActiveStatus == {"pending", "running"}
RunStatus == {"none", "deleted", "completed", "failed"} \cup ActiveStatus

\* A text, and whether it is the layout that processing gave it.
Version == [text : Texts, tidy : BOOLEAN]
Written(t) == [text |-> t, tidy |-> FALSE]

\* process_document_text: the words are kept, the layout may be cleaned up
\* ("ai_assisted") or not ("standard").
ProcessDocumentText(v) == {v, [v EXCEPT !.tidy = TRUE]}

NoDocument ==
    [state |-> "none", content |-> Nil, processed |-> FALSE, original |-> Nil,
     index |-> Nil]

NoRun == [status |-> "none", document |-> Nil, candidate |-> Nil, source |-> Nil]

Idle == [at |-> "idle"]
Opened(op, d) ==
    [at |-> "opened", op |-> op, document |-> d, content |-> doc[d].content,
     processed |-> doc[d].processed]
Dispatched(r) == [at |-> "dispatched", run |-> r]
\* The session's document.content and the run's candidate_content.
Working(r, d, original, candidate) ==
    [at |-> "working", run |-> r, document |-> d, original |-> original,
     candidate |-> candidate]

Holds(p, r) == proc[p].at \in {"dispatched", "working"} /\ proc[p].run = r

-----------------------------------------------------------------------------
(* Admission. *)

Live(d) == doc[d].state = "live"

\* Fault: a queued run is not seen as active.
ActiveRunsRunning(d) == {r \in Runs : run[r].document = d /\ run[r].status = "running"}

\* The check under the row lock of _lock_document_for_admission, of
\* reprocess_document and of _apply_document_update.
ActiveRuns(d) == {r \in Runs : run[r].document = d /\ run[r].status \in ActiveStatus}

\* The next row: runs are numbered in the order of created_at.
NextRun(r) == run[r].status = "none" /\ \A s \in Runs : s < r => run[s].status # "none"

NewRun(r, d, status, candidate, source) ==
    run' = [run EXCEPT ![r] = [status |-> status, document |-> d, candidate |-> candidate,
                               source |-> source]]

\* Fault: a thread is started in both execution modes.
DispatchAlways(q, r) == proc' = [proc EXCEPT ![q] = Dispatched(r)]

\* _dispatch_extraction_run: the request's own thread executes the run, or the
\* run stays queued for an external worker.
Dispatch(q, r) ==
    proc' = [proc EXCEPT ![q] = IF mode = "in_process_thread" THEN Dispatched(r) ELSE Idle]

\* candidate_content: text that was never processed is processed first; an
\* active representation is only indexed again.
CandidateOf(content, processed) == IF processed THEN Nil ELSE content

\* create_document, and an upload that waits for review (team_upload_staging):
\* no run is created.
CreateDocument(d, t, original) ==
    /\ doc[d].state = "none"
    /\ doc' = [doc EXCEPT ![d] = [NoDocument EXCEPT !.state = "live", !.content = Written(t),
                                                    !.original = original]]
    /\ UNCHANGED <<mode, run, proc, lost>>

\* complete_upload: the document, its original and its first run are committed
\* together.
UploadDocument(q, d, t, r) ==
    /\ proc[q] = Idle
    /\ doc[d].state = "none"
    /\ NextRun(r)
    /\ doc' = [doc EXCEPT ![d] = [NoDocument EXCEPT !.state = "live", !.content = Written(t),
                                                    !.original = Written(t)]]
    /\ NewRun(r, d, "pending", Written(t), "original")
    /\ Dispatch(q, r)
    /\ UNCHANGED <<mode, lost>>

\* The first part of a request: authorize it and load the document.
Open(q, op, d) ==
    /\ proc[q] = Idle
    /\ Live(d)
    /\ proc' = [proc EXCEPT ![q] = Opened(op, d)]
    /\ UNCHANGED <<mode, doc, run, lost>>

\* The locked part may go ahead: the row is still there (a run or an update of a
\* deleted document violates a key or matches no row) and no run is active.
Admissible(d) == Live(d) /\ ActiveRuns(d) = {}

\* 409 while a run is active, 404 or 500 when the document is gone.
Refuse(q) ==
    /\ proc[q].at = "opened"
    /\ ~Admissible(proc[q].document)
    /\ proc' = [proc EXCEPT ![q] = Idle]
    /\ UNCHANGED <<mode, doc, run, lost>>

\* POST /documents/{id}/ingest: the request executes the run itself, with the
\* document it has seen; the run is first visible as running.
AdmitSync(q, r) ==
    LET seen == proc[q]
        candidate == CandidateOf(seen.content, seen.processed)
    IN  /\ seen.at = "opened" /\ seen.op = "ingest"
        /\ Admissible(seen.document)
        /\ NextRun(r)
        /\ NewRun(r, seen.document, "running", candidate, "text")
        /\ proc' = [proc EXCEPT ![q] = Working(r, seen.document, seen.content, candidate)]
        /\ UNCHANGED <<mode, doc, lost>>

\* POST /documents/{id}/ingest/async: create_extraction_run finds the document
\* in the identity map of the session, so the candidate is what the request saw.
AdmitAsync(q, r) ==
    LET seen == proc[q]
    IN  /\ seen.at = "opened" /\ seen.op = "ingest_async"
        /\ Admissible(seen.document)
        /\ NextRun(r)
        /\ NewRun(r, seen.document, "pending", CandidateOf(seen.content, seen.processed), "text")
        /\ Dispatch(q, r)
        /\ UNCHANGED <<mode, doc, lost>>

\* POST /documents/{id}/reprocess: the original is read and parsed again, and
\* the document is refreshed under the lock.
Reprocess(q, d, r) ==
    /\ proc[q] = Idle
    /\ doc[d].original # Nil
    /\ Admissible(d)
    /\ NextRun(r)
    /\ NewRun(r, d, "pending", doc[d].original, "original")
    /\ Dispatch(q, r)
    /\ UNCHANGED <<mode, doc, lost>>

-----------------------------------------------------------------------------
(* Edits and deletion. *)

\* The UPDATE of an edit has the attributes that differ from what the session
\* loaded, and no others.
Edited(row, seen, t) ==
    [row EXCEPT
        !.content = IF Written(t) = seen.content THEN row.content ELSE Written(t),
        !.processed = IF seen.processed THEN FALSE ELSE row.processed]

\* PATCH /documents/{id} with new content.
Edit(q, t) ==
    LET seen == proc[q]
    IN  /\ seen.at = "opened" /\ seen.op = "edit"
        /\ Admissible(seen.document)
        /\ doc' = [doc EXCEPT ![seen.document] = Edited(doc[seen.document], seen, t)]
        /\ proc' = [proc EXCEPT ![q] = Idle]
        /\ UNCHANGED <<mode, run, lost>>

\* _delete_document_dependencies: the rows of the document's runs.
WithoutRuns(d) ==
    [r \in Runs |-> IF run[r].document = d THEN [NoRun EXCEPT !.status = "deleted"] ELSE run[r]]

\* delete_document_record: the document, its index and its runs go in one
\* transaction, whatever the runs are doing.  (Where it meets the final commit
\* of a run, the foreign keys let one of the two transactions fail.)
DeleteDocument(d) ==
    /\ Live(d)
    /\ doc' = [doc EXCEPT ![d] = [NoDocument EXCEPT !.state = "deleted"]]
    /\ run' = WithoutRuns(d)
    /\ UNCHANGED <<mode, proc, lost>>

-----------------------------------------------------------------------------
(* Execution. *)

\* The worker processes that the deployment runs.  A worker does not look at the mode: one
\* that runs beside an API of the other mode claims runs that a thread executes already.
Polling == IF mode = "external_worker" THEN Workers ELSE {}

\* claim_next_pending_extraction_run: the oldest pending run, under a row lock
\* that other workers skip.
Claim(w, r) ==
    /\ proc[w] = Idle
    /\ run[r].status = "pending"
    /\ \A s \in Runs : run[s].status = "pending" => r <= s
    /\ run' = [run EXCEPT ![r].status = "running"]
    /\ proc' = [proc EXCEPT ![w] = Dispatched(r)]
    /\ UNCHANGED <<mode, doc, lost>>

\* execute_claimed_extraction_run loads the run and its document in a session of
\* its own, and ingest_document marks the run as running.
Execute(p) ==
    LET r == proc[p].run
        d == run[r].document
    IN  /\ proc[p].at = "dispatched"
        /\ run[r].status # "deleted"
        /\ run' = [run EXCEPT ![r].status = "running"]
        /\ proc' = [proc EXCEPT ![p] = Working(r, d, doc[d].content, run[r].candidate)]
        /\ UNCHANGED <<mode, doc, lost>>

\* "missing": the run was deleted with its document.
MissingRun(p) ==
    /\ proc[p].at = "dispatched"
    /\ run[proc[p].run].status = "deleted"
    /\ proc' = [proc EXCEPT ![p] = Idle]
    /\ UNCHANGED <<mode, doc, run, lost>>

\* Fault: the document is not compared with what was read.
UnchangedAssumed(d, original) == Live(d)

\* The conditional UPDATE before the index is touched.
Unchanged(d, original) == doc[d].content = original

\* What the final commit makes of the document: a candidate becomes the active
\* text, and the index is made from the active text.
Indexed(row, candidate, v) ==
    IF candidate = Nil
    THEN [row EXCEPT !.index = v]
    ELSE [row EXCEPT !.index = v, !.content = v, !.processed = TRUE]

\* The final commit of ingest_document: chunks, text and the end of the run.
Publish(p) ==
    LET e == proc[p]
    IN  /\ e.at = "working"
        /\ run[e.run].status # "deleted"
        /\ Unchanged(e.document, e.original)
        /\ \E v \in IF e.candidate = Nil THEN {e.original} ELSE ProcessDocumentText(e.candidate) :
              doc' = [doc EXCEPT ![e.document] = Indexed(doc[e.document], e.candidate, v)]
        /\ run' = [run EXCEPT ![e.run].status = "completed", ![e.run].candidate = Nil]
        /\ proc' = [proc EXCEPT ![p] = Idle]
        /\ UNCHANGED <<mode, lost>>

\* Fault: the code of the error is stored as the status.
FailedRowByCode(row) ==
    IF row.status = "deleted" THEN row
    ELSE [row EXCEPT !.status = "document_processing_error", !.candidate = Nil]

\* Fault: the rollback takes the status with it.
FailedRowRolledBack(row) ==
    IF row.status = "deleted" THEN row ELSE [row EXCEPT !.candidate = Nil]

\* The row of a failed run, if it still exists.
FailedRow(row) ==
    IF row.status = "deleted" THEN row ELSE [row EXCEPT !.status = "failed", !.candidate = Nil]

\* Processing or embedding raises, the document has changed, or the run is gone:
\* everything since the last progress commit is rolled back.
Fail(p) ==
    /\ proc[p].at = "working"
    /\ run' = [run EXCEPT ![proc[p].run] = FailedRow(@)]
    /\ proc' = [proc EXCEPT ![p] = Idle]
    /\ UNCHANGED <<mode, doc, lost>>

\* The process dies.  Nothing in the repository takes its run over.
Crash(p) ==
    /\ proc[p].at \in {"dispatched", "working"}
    /\ lost' = lost \cup {proc[p].run}
    /\ proc' = [proc EXCEPT ![p] = Idle]
    /\ UNCHANGED <<mode, doc, run>>

-----------------------------------------------------------------------------

IngestInit ==
    /\ mode \in Modes
    /\ doc = [d \in Documents |-> NoDocument]
    /\ run = [r \in Runs |-> NoRun]
    /\ proc = [p \in Procs |-> Idle]
    /\ lost = {}

IngestNext ==
    \/ \E d \in Documents, t \in Texts : \E original \in {Nil, Written(t)} :
         CreateDocument(d, t, original)
    \/ \E q \in Requests, d \in Documents, t \in Texts, r \in Runs : UploadDocument(q, d, t, r)
    \/ \E q \in Requests, op \in {"ingest", "ingest_async", "edit"}, d \in Documents :
         Open(q, op, d)
    \/ \E q \in Requests : Refuse(q)
    \/ \E q \in Requests, r \in Runs : AdmitSync(q, r) \/ AdmitAsync(q, r)
    \/ \E q \in Requests, d \in Documents, r \in Runs : Reprocess(q, d, r)
    \/ \E q \in Requests, t \in Texts : Edit(q, t)
    \/ \E d \in Documents : DeleteDocument(d)
    \/ \E w \in Polling, r \in Runs : Claim(w, r)
    \/ \E p \in Procs : Execute(p) \/ MissingRun(p) \/ Publish(p) \/ Fail(p) \/ Crash(p)

IngestSpec == IngestInit /\ [][IngestNext]_ivars

\* Threads and workers run on, every provider call ends, and a worker polls as
\* long as its process lives.
IngestFairness ==
    /\ \A p \in Procs : WF_ivars(Execute(p) \/ MissingRun(p) \/ Publish(p) \/ Fail(p))
    /\ WF_ivars(\E w \in Polling, r \in Runs : Claim(w, r))

FairIngestSpec == IngestSpec /\ IngestFairness

-----------------------------------------------------------------------------
(* Properties. *)

DocumentType ==
    [state : {"none", "live", "deleted"}, content : Version \cup {Nil}, processed : BOOLEAN,
     original : Version \cup {Nil}, index : Version \cup {Nil}]

RunType ==
    [status : RunStatus, document : Documents \cup {Nil}, candidate : Version \cup {Nil},
     source : {"text", "original", Nil}]

OpenedType ==
    [at : {"opened"}, op : {"ingest", "ingest_async", "edit"}, document : Documents,
     content : Version \cup {Nil}, processed : BOOLEAN]

WorkingType ==
    [at : {"working"}, run : Runs, document : Documents, original : Version \cup {Nil},
     candidate : Version \cup {Nil}]

ProcType == [at : {"idle"}] \cup OpenedType \cup [at : {"dispatched"}, run : Runs] \cup WorkingType

\* Rows, sessions and the runs that processes hold have their types.
IngestTypeOK ==
    /\ mode \in Modes
    /\ doc \in [Documents -> DocumentType]
    /\ run \in [Runs -> RunType]
    /\ proc \in [Procs -> ProcType]
    /\ lost \subseteq Runs

\* "Serialize admissions before checking jobs": whichever entry points race, a
\* document has at most one pending or running extraction run.
OneActiveRun ==
    \A r, s \in Runs :
        /\ run[r].status \in ActiveStatus /\ run[s].status \in ActiveStatus
        /\ run[r].document = run[s].document
        => r = s

\* A document is indexed by one process at a time: two processes that hold runs
\* which still exist hold runs of different documents.
OneIndexer ==
    \A p1, p2 \in Procs, r, s \in Runs :
        /\ Holds(p1, r) /\ Holds(p2, s) /\ p1 # p2
        /\ run[r].status # "deleted" /\ run[s].status # "deleted"
        => run[r].document # run[s].document

\* "Replace the active text and index in one final database transaction": the
\* index of a document changes only in the commit that completes one of its runs,
\* and is then the index of the text that is active; or it goes with the document.
\* No failure, crash or edit takes the previous index away.
IndexSwap ==
    [][\A d \in Documents : doc'[d].index # doc[d].index =>
         \/ doc'[d].state = "deleted"
         \/ /\ doc'[d].index = doc'[d].content
            /\ \E r \in ActiveRuns(d) : run'[r].status = "completed"]_ivars

\* Every run ends, unless its process died: queued runs are claimed, and every
\* way out of the execution writes an end that lets the document be edited and
\* indexed again.
RunEnds ==
    \A r \in Runs :
        run[r].status \in ActiveStatus ~> (run[r].status \notin ActiveStatus \/ r \in lost)

=============================================================================

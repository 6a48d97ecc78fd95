-------------------------- MODULE DocumentsProofs --------------------------
(***************************************************************************)
(* Proofs about the files of the documents and what is indexed of them:    *)
(* Ingestion, for every number of documents, texts, requests, workers and  *)
(* runs and both execution modes; StorageLifecycle and UploadSessions, for *)
(* every set of files and sessions, every size and quota, and any number   *)
(* of requests, revocations and sweeps.                                    *)
(***************************************************************************)
EXTENDS Ingestion, UploadSessions, FiniteSetTheorems, WellFoundedInduction, TLAPS

\* An id that is not in use yet has no text and no index.
NotCreated == \A d \in Documents : doc[d].state = "none" => doc[d] = NoDocument

\* A run has a document until it is deleted with it.
RunHasDocument ==
    \A r \in Runs : run[r].status \notin {"none", "deleted"} => run[r].document \in Documents

\* The document of a run exists as long as the run does.
RunOfLive ==
    \A r \in Runs : run[r].status \notin {"none", "deleted"} => doc[run[r].document].state = "live"

\* A process that holds a run holds one that is active or deleted, and what it
\* has loaded is the run's document.
HeldActive ==
    \A p \in Procs, r \in Runs : Holds(p, r) =>
        /\ run[r].status \in {"pending", "running", "deleted"}
        /\ proc[p].at = "working" => run[r].status # "pending"
        /\ proc[p].at = "working" /\ run[r].status # "deleted" =>
              run[r].document = proc[p].document

\* No two processes hold the same run.
SoleHolder ==
    \A p1, p2 \in Procs, r \in Runs : Holds(p1, r) /\ Holds(p2, r) => p1 = p2

\* What an external worker may claim is held by nobody.
QueuedFree ==
    mode = "external_worker" =>
        \A p \in Procs, r \in Runs : run[r].status = "pending" => ~Holds(p, r)

Holding == HeldActive /\ SoleHolder /\ QueuedFree

IngestInv ==
    IngestTypeOK /\ NotCreated /\ RunHasDocument /\ RunOfLive /\ Holding /\ OneActiveRun

-----------------------------------------------------------------------------
(* Local states and rows. *)

\* What a process in each of its states has.
LEMMA ProcFields ==
    ASSUME NEW x \in ProcType
    PROVE  /\ x.at \in {"idle", "opened", "dispatched", "working"}
           /\ x.at = "opened" => x \in OpenedType
           /\ x.at = "dispatched" => x.run \in Runs
           /\ x.at = "working" => x \in WorkingType
  BY DEF ProcType, OpenedType, WorkingType

\* The local states the actions build.
LEMMA ProcStates ==
    /\ Idle \in ProcType
    /\ \A r \in Runs : Dispatched(r) \in ProcType
    /\ \A r \in Runs, d \in Documents, o \in Version \cup {Nil}, c \in Version \cup {Nil} :
         Working(r, d, o, c) \in ProcType
  BY DEF Idle, Dispatched, Working, ProcType, OpenedType, WorkingType

\* Texts that users write and processing returns.
LEMMA VersionFacts ==
    /\ \A t \in Texts : Written(t) \in Version
    /\ \A v \in Version : ProcessDocumentText(v) \subseteq Version
    /\ \A c \in Version \cup {Nil}, b \in BOOLEAN : CandidateOf(c, b) \in Version \cup {Nil}
  BY DEF Written, Version, ProcessDocumentText, CandidateOf

LEMMA NoRows == NoDocument \in DocumentType /\ NoRun \in RunType
  BY DEF NoDocument, DocumentType, NoRun, RunType, RunStatus

\* Steps that delete no document: a run is what it was, or its document is live.
LEMMA LiveStep ==
    ASSUME IngestInv,
           \A d \in Documents : doc[d].state = "live" => doc'[d].state = "live",
           \A r \in Runs : run'[r].status \notin {"none", "deleted"} =>
               \/ doc'[run'[r].document].state = "live"
               \/ run[r].status \notin {"none", "deleted"} /\ run'[r].document = run[r].document
    PROVE  RunOfLive'
  BY DEF IngestInv, RunHasDocument, RunOfLive

-----------------------------------------------------------------------------
(* Steps that change no run: the process moves between states that hold none. *)

LEMMA FreeStep ==
    ASSUME IngestInv, NEW q \in Procs, NEW x \in ProcType, x.at \in {"idle", "opened"},
           proc' = [proc EXCEPT ![q] = x], run' = run, mode' = mode
    PROVE  proc' \in [Procs -> ProcType] /\ Holding' /\ OneActiveRun' /\ RunHasDocument'
  <1>1. proc \in [Procs -> ProcType]
    BY DEF IngestInv, IngestTypeOK
  <1>2. proc' \in [Procs -> ProcType]
    BY <1>1
  <1>3. \A p \in Procs, r \in Runs : Holds(p, r)' => p # q /\ proc'[p] = proc[p] /\ Holds(p, r)
    BY <1>1 DEF Holds
  <1>4. HeldActive'
    BY <1>3 DEF IngestInv, Holding, HeldActive
  <1>5. SoleHolder'
    BY <1>3 DEF IngestInv, Holding, SoleHolder
  <1>6. QueuedFree'
    BY <1>3 DEF IngestInv, Holding, QueuedFree
  <1> QED
    BY <1>2, <1>4, <1>5, <1>6 DEF IngestInv, Holding, OneActiveRun, RunHasDocument

\* A process that ends its work on a run.  The run keeps its row or gets an end.
LEMMA ReleaseStep ==
    ASSUME IngestInv, NEW p \in Procs, proc[p].at \in {"dispatched", "working"},
           NEW row \in RunType, row.document = run[proc[p].run].document,
           \/ row.status = run[proc[p].run].status
           \/ row.status \in {"completed", "failed"} /\ run[proc[p].run].status # "deleted",
           run' = [run EXCEPT ![proc[p].run] = row],
           proc' = [proc EXCEPT ![p] = Idle], mode' = mode
    PROVE  /\ proc' \in [Procs -> ProcType] /\ run' \in [Runs -> RunType]
           /\ Holding' /\ OneActiveRun' /\ RunHasDocument'
  <1> DEFINE s == proc[p].run
  <1>1. proc \in [Procs -> ProcType] /\ run \in [Runs -> RunType]
    BY DEF IngestInv, IngestTypeOK
  <1>2. s \in Runs /\ Holds(p, s)
    BY <1>1, ProcFields DEF WorkingType, Holds
  <1>3. run[s].status \in {"pending", "running", "deleted"}
    BY <1>2 DEF IngestInv, Holding, HeldActive
  <1>4. /\ proc' \in [Procs -> ProcType] /\ run' \in [Runs -> RunType]
        /\ run'[s] = row /\ \A r \in Runs : r # s => run'[r] = run[r]
    BY <1>1, <1>2, ProcStates
  <1>5. \A u \in Procs, r \in Runs : Holds(u, r)' =>
            u # p /\ proc'[u] = proc[u] /\ Holds(u, r) /\ r # s /\ run'[r] = run[r]
    <2>1. \A u \in Procs, r \in Runs : Holds(u, r)' => u # p /\ proc'[u] = proc[u] /\ Holds(u, r)
      BY <1>1 DEF Holds, Idle
    <2>2. \A u \in Procs : Holds(u, s) => u = p
      BY <1>2 DEF IngestInv, Holding, SoleHolder
    <2> QED
      BY <2>1, <2>2, <1>4
  <1>6. HeldActive'
    BY <1>5 DEF IngestInv, Holding, HeldActive
  <1>7. SoleHolder'
    BY <1>5 DEF IngestInv, Holding, SoleHolder
  <1>8. QueuedFree'
    BY <1>5 DEF IngestInv, Holding, QueuedFree
  <1>9. \A r \in Runs : /\ run'[r].document = run[r].document
                        /\ run'[r].status \in ActiveStatus => run[r].status \in ActiveStatus
    BY <1>2, <1>4 DEF ActiveStatus
  <1>10. OneActiveRun'
    BY <1>9 DEF IngestInv, OneActiveRun
  <1>11. RunHasDocument'
    BY <1>2, <1>3, <1>4 DEF IngestInv, RunHasDocument
  <1> QED
    BY <1>4, <1>6, <1>7, <1>8, <1>10, <1>11 DEF Holding

\* A new run of a document that has no active one.  Whoever is to hold it held
\* nothing before.
LEMMA AdmitStep ==
    ASSUME IngestInv, NEW q \in Procs, proc[q].at \in {"idle", "opened"},
           NEW r \in Runs, run[r].status = "none",
           NEW d \in Documents, ActiveRuns(d) = {},
           NEW row \in RunType, row.document = d, row.status \in {"pending", "running"},
           NEW x \in ProcType,
           \/ x = Idle
           \/ x = Dispatched(r) /\ (row.status = "pending" => mode # "external_worker")
           \/ x \in WorkingType /\ x.run = r /\ x.document = d /\ row.status = "running",
           run' = [run EXCEPT ![r] = row],
           proc' = [proc EXCEPT ![q] = x], mode' = mode
    PROVE  /\ proc' \in [Procs -> ProcType] /\ run' \in [Runs -> RunType]
           /\ Holding' /\ OneActiveRun' /\ RunHasDocument'
  <1>1. proc \in [Procs -> ProcType] /\ run \in [Runs -> RunType]
    BY DEF IngestInv, IngestTypeOK
  <1>2. /\ proc' \in [Procs -> ProcType] /\ run' \in [Runs -> RunType]
        /\ run'[r] = row /\ \A s \in Runs : s # r => run'[s] = run[s]
        /\ proc'[q] = x /\ \A p \in Procs : p # q => proc'[p] = proc[p]
    BY <1>1
  <1>3. \A p \in Procs : ~Holds(p, r)
    BY DEF IngestInv, Holding, HeldActive
  <1>4. \A p \in Procs, s \in Runs : Holds(p, s)' =>
          \/ p = q /\ s = r /\ x # Idle
          \/ p # q /\ s # r /\ Holds(p, s)
    <2>1. \A s \in Runs : Holds(q, s)' => s = r /\ x # Idle
      BY <1>2 DEF Holds, Idle, Dispatched, WorkingType
    <2>2. \A p \in Procs, s \in Runs : p # q /\ Holds(p, s)' => s # r /\ Holds(p, s)
      BY <1>2, <1>3 DEF Holds
    <2> QED
      BY <2>1, <2>2
  <1>5. HeldActive'
    <2> SUFFICES ASSUME NEW p \in Procs, NEW s \in Runs, Holds(p, s)'
                 PROVE  /\ run'[s].status \in {"pending", "running", "deleted"}
                        /\ proc'[p].at = "working" => run'[s].status # "pending"
                        /\ proc'[p].at = "working" /\ run'[s].status # "deleted" =>
                              run'[s].document = proc'[p].document
      BY DEF HeldActive
    <2>1. CASE p = q /\ s = r /\ x # Idle
      BY <2>1, <1>2 DEF Dispatched, WorkingType
    <2>2. CASE p # q /\ s # r /\ Holds(p, s)
      BY <2>2, <1>2 DEF IngestInv, Holding, HeldActive
    <2> QED
      BY <1>4, <2>1, <2>2
  <1>6. SoleHolder'
    BY <1>4 DEF IngestInv, Holding, SoleHolder
  <1>7. QueuedFree'
    <2> SUFFICES ASSUME mode = "external_worker", NEW p \in Procs, NEW s \in Runs,
                        run'[s].status = "pending", Holds(p, s)'
                 PROVE  FALSE
      BY DEF QueuedFree
    <2>1. CASE p = q /\ s = r /\ x # Idle
      BY <2>1, <1>2 DEF Dispatched, WorkingType
    <2>2. CASE p # q /\ s # r /\ Holds(p, s)
      BY <2>2, <1>2 DEF IngestInv, Holding, QueuedFree
    <2> QED
      BY <1>4, <2>1, <2>2
  <1>8. OneActiveRun'
    <2>1. \A s \in Runs : s # r /\ run'[s].status \in ActiveStatus => run'[s].document # d
      BY <1>2 DEF ActiveRuns
    <2> QED
      BY <2>1, <1>2 DEF IngestInv, OneActiveRun
  <1>9. RunHasDocument'
    BY <1>2 DEF IngestInv, RunHasDocument
  <1> QED
    BY <1>2, <1>5, <1>6, <1>7, <1>8, <1>9 DEF Holding

-----------------------------------------------------------------------------
(* One lemma per action. *)

LEMMA CreateDocumentInv ==
    ASSUME IngestInv, NEW d \in Documents, NEW t \in Texts, NEW o \in {Nil, Written(t)},
           CreateDocument(d, t, o)
    PROVE  IngestInv'
  <1>1. doc' \in [Documents -> DocumentType] /\ NotCreated'
    BY VersionFacts, NoRows
    DEF CreateDocument, IngestInv, IngestTypeOK, DocumentType, NoDocument, NotCreated
  <1>2. RunOfLive'
    BY LiveStep DEF CreateDocument, IngestInv, IngestTypeOK
  <1> QED
    BY <1>1, <1>2
    DEF CreateDocument, IngestInv, IngestTypeOK, RunHasDocument, Holding, HeldActive, SoleHolder,
        QueuedFree, OneActiveRun, Holds

LEMMA OpenInv ==
    ASSUME IngestInv, NEW q \in Requests, NEW op \in {"ingest", "ingest_async", "edit"},
           NEW d \in Documents, Open(q, op, d)
    PROVE  IngestInv'
  <1>1. q \in Procs /\ Opened(op, d) \in ProcType /\ Opened(op, d).at = "opened"
    BY DEF Procs, Opened, ProcType, OpenedType, IngestInv, IngestTypeOK, DocumentType
  <1>2. proc' \in [Procs -> ProcType] /\ Holding' /\ OneActiveRun' /\ RunHasDocument'
    BY <1>1, FreeStep DEF Open
  <1> QED
    BY <1>2 DEF Open, IngestInv, IngestTypeOK, NotCreated, RunOfLive

LEMMA RefuseInv ==
    ASSUME IngestInv, NEW q \in Requests, Refuse(q)
    PROVE  IngestInv'
  <1>1. q \in Procs /\ Idle.at = "idle"
    BY DEF Procs, Idle
  <1>2. proc' \in [Procs -> ProcType] /\ Holding' /\ OneActiveRun' /\ RunHasDocument'
    BY <1>1, FreeStep, ProcStates DEF Refuse
  <1> QED
    BY <1>2 DEF Refuse, IngestInv, IngestTypeOK, NotCreated, RunOfLive

LEMMA EditInv ==
    ASSUME IngestInv, NEW q \in Requests, NEW t \in Texts, Edit(q, t)
    PROVE  IngestInv'
  <1> DEFINE d == proc[q].document
             new == Edited(doc[d], proc[q], t)
  <1>1. q \in Procs /\ Idle.at = "idle"
    BY DEF Procs, Idle
  <1>2. proc[q] \in OpenedType
    BY <1>1, ProcFields DEF Edit, IngestInv, IngestTypeOK
  <1>3. d \in Documents /\ doc[d] \in DocumentType /\ doc[d].state = "live"
    BY <1>2 DEF OpenedType, Edit, Admissible, Live, IngestInv, IngestTypeOK
  <1>4. new \in DocumentType /\ new.state = "live"
    BY <1>3, VersionFacts DEF Edited, DocumentType
  <1>5. doc' \in [Documents -> DocumentType] /\ NotCreated'
    <2>1. doc' = [doc EXCEPT ![d] = new]
      BY DEF Edit
    <2> HIDE DEF d, new
    <2> QED
      BY <2>1, <1>3, <1>4 DEF IngestInv, IngestTypeOK, NotCreated
  <1>6. proc' \in [Procs -> ProcType] /\ Holding' /\ OneActiveRun' /\ RunHasDocument'
    BY <1>1, FreeStep, ProcStates DEF Edit
  <1>7. RunOfLive'
    <2>1. doc' = [doc EXCEPT ![d] = new] /\ run' = run
      BY DEF Edit
    <2> HIDE DEF d, new
    <2> QED
      BY <2>1, <1>3, <1>4, LiveStep DEF IngestInv, IngestTypeOK
  <1> QED
    BY <1>5, <1>6, <1>7 DEF Edit, IngestInv, IngestTypeOK

\* Where a request dispatches the run it created.
LEMMA DispatchState ==
    ASSUME NEW q \in Procs, NEW r \in Runs, Dispatch(q, r)
    PROVE  \E x \in ProcType : /\ proc' = [proc EXCEPT ![q] = x]
                               /\ x = Idle \/ (x = Dispatched(r) /\ mode # "external_worker")
  BY ProcStates DEF Dispatch

LEMMA QueueInv ==
    ASSUME IngestInv, NEW q \in Requests, proc[q].at \in {"idle", "opened"},
           NEW r \in Runs, NextRun(r), NEW d \in Documents, ActiveRuns(d) = {},
           NEW c \in Version \cup {Nil}, NEW source \in {"text", "original"},
           NewRun(r, d, "pending", c, source), Dispatch(q, r), mode' = mode
    PROVE  /\ proc' \in [Procs -> ProcType] /\ run' \in [Runs -> RunType]
           /\ Holding' /\ OneActiveRun' /\ RunHasDocument'
  <1> DEFINE row == [status |-> "pending", document |-> d, candidate |-> c, source |-> source]
  <1>1. q \in Procs
    BY DEF Procs
  <1>2. row \in RunType /\ row.document = d /\ row.status = "pending"
    BY DEF RunType, RunStatus, ActiveStatus
  <1>3. run' = [run EXCEPT ![r] = row] /\ run[r].status = "none"
    BY DEF NewRun, NextRun
  <1>4. PICK x \in ProcType : /\ proc' = [proc EXCEPT ![q] = x]
                              /\ x = Idle \/ (x = Dispatched(r) /\ mode # "external_worker")
    BY <1>1, DispatchState
  <1> HIDE DEF row
  <1> QED
    BY <1>1, <1>2, <1>3, <1>4, AdmitStep

LEMMA UploadDocumentInv ==
    ASSUME IngestInv, NEW q \in Requests, NEW d \in Documents, NEW t \in Texts, NEW r \in Runs,
           UploadDocument(q, d, t, r)
    PROVE  IngestInv'
  <1>1. doc' \in [Documents -> DocumentType] /\ NotCreated'
    BY VersionFacts, NoRows
    DEF UploadDocument, IngestInv, IngestTypeOK, DocumentType, NoDocument, NotCreated
  <1>2. /\ proc' \in [Procs -> ProcType] /\ run' \in [Runs -> RunType]
        /\ Holding' /\ OneActiveRun' /\ RunHasDocument'
    <2>1. proc[q].at = "idle"
      BY DEF UploadDocument, Idle
    <2>2. ActiveRuns(d) = {}
      BY DEF ActiveRuns, ActiveStatus, UploadDocument, IngestInv, RunOfLive
    <2> QED
      BY <2>1, <2>2, VersionFacts, QueueInv DEF UploadDocument
  <1>3. RunOfLive'
    BY LiveStep DEF UploadDocument, NewRun, NoDocument, IngestInv, IngestTypeOK
  <1> QED
    BY <1>1, <1>2, <1>3 DEF UploadDocument, IngestInv, IngestTypeOK

\* What a request that was opened has seen.
LEMMA OpenedFields ==
    ASSUME IngestInv, NEW q \in Requests, proc[q].at = "opened"
    PROVE  /\ q \in Procs /\ proc[q].document \in Documents
           /\ proc[q].content \in Version \cup {Nil} /\ proc[q].processed \in BOOLEAN
           /\ CandidateOf(proc[q].content, proc[q].processed) \in Version \cup {Nil}
  <1>1. q \in Procs
    BY DEF Procs
  <1>2. proc[q] \in OpenedType
    BY <1>1, ProcFields DEF IngestInv, IngestTypeOK
  <1> QED
    BY <1>1, <1>2, VersionFacts DEF OpenedType

LEMMA AdmitAsyncInv ==
    ASSUME IngestInv, NEW q \in Requests, NEW r \in Runs, AdmitAsync(q, r)
    PROVE  IngestInv'
  <1> DEFINE d == proc[q].document
             c == CandidateOf(proc[q].content, proc[q].processed)
  <1>1. /\ proc[q].at = "opened" /\ Admissible(d) /\ NextRun(r) /\ Dispatch(q, r)
        /\ NewRun(r, d, "pending", c, "text") /\ UNCHANGED <<mode, doc, lost>>
    BY DEF AdmitAsync
  <1>2. d \in Documents /\ c \in Version \cup {Nil}
    BY <1>1, OpenedFields
  <1> HIDE DEF d, c
  <1>3. /\ proc' \in [Procs -> ProcType] /\ run' \in [Runs -> RunType]
        /\ Holding' /\ OneActiveRun' /\ RunHasDocument'
    BY <1>1, <1>2, QueueInv DEF Admissible
  <1>4. RunOfLive'
    BY <1>1, <1>2, LiveStep DEF NewRun, Admissible, Live, IngestInv, IngestTypeOK
  <1> QED
    BY <1>1, <1>3, <1>4 DEF IngestInv, IngestTypeOK, NotCreated

LEMMA ReprocessInv ==
    ASSUME IngestInv, NEW q \in Requests, NEW d \in Documents, NEW r \in Runs, Reprocess(q, d, r)
    PROVE  IngestInv'
  <1>1. proc[q].at = "idle" /\ doc[d].original \in Version \cup {Nil}
    BY DEF Reprocess, Idle, IngestInv, IngestTypeOK, DocumentType
  <1>2. /\ proc' \in [Procs -> ProcType] /\ run' \in [Runs -> RunType]
        /\ Holding' /\ OneActiveRun' /\ RunHasDocument'
    BY <1>1, QueueInv DEF Reprocess, Admissible
  <1>3. RunOfLive'
    BY LiveStep DEF Reprocess, NewRun, Admissible, Live, IngestInv, IngestTypeOK
  <1> QED
    BY <1>2, <1>3 DEF Reprocess, IngestInv, IngestTypeOK, NotCreated

LEMMA AdmitSyncInv ==
    ASSUME IngestInv, NEW q \in Requests, NEW r \in Runs, AdmitSync(q, r)
    PROVE  IngestInv'
  <1> DEFINE d == proc[q].document
             c == CandidateOf(proc[q].content, proc[q].processed)
             row == [status |-> "running", document |-> d, candidate |-> c, source |-> "text"]
             x == Working(r, d, proc[q].content, c)
  <1>1. /\ proc[q].at = "opened" /\ Admissible(d) /\ NextRun(r)
        /\ run' = [run EXCEPT ![r] = row] /\ proc' = [proc EXCEPT ![q] = x]
        /\ UNCHANGED <<mode, doc, lost>>
    BY DEF AdmitSync, NewRun
  <1>2. q \in Procs /\ d \in Documents /\ c \in Version \cup {Nil}
            /\ proc[q].content \in Version \cup {Nil}
    BY <1>1, OpenedFields
  <1>3. x \in ProcType /\ x \in WorkingType /\ x.run = r /\ x.document = d
    BY <1>2, ProcStates DEF Working, WorkingType
  <1>4. row \in RunType /\ row.document = d /\ row.status = "running"
    BY <1>2 DEF RunType, RunStatus, ActiveStatus
  <1> HIDE DEF d, c, row, x
  <1>5. /\ proc' \in [Procs -> ProcType] /\ run' \in [Runs -> RunType]
        /\ Holding' /\ OneActiveRun' /\ RunHasDocument'
    BY <1>1, <1>2, <1>3, <1>4, AdmitStep DEF Admissible, NextRun
  <1>6. RunOfLive'
    BY <1>1, <1>2, <1>4, LiveStep DEF Admissible, Live, IngestInv, IngestTypeOK
  <1> QED
    BY <1>1, <1>5, <1>6 DEF IngestInv, IngestTypeOK, NotCreated

\* Deletion takes the runs of the document with it, whoever holds them.
LEMMA DeleteDocumentInv ==
    ASSUME IngestInv, NEW d \in Documents, DeleteDocument(d)
    PROVE  IngestInv'
  <1> DEFINE gone == [NoRun EXCEPT !.status = "deleted"]
  <1>1. gone \in RunType /\ gone.status = "deleted"
    BY DEF NoRun, RunType, RunStatus
  <1>2. \A r \in Runs : \/ run'[r] = gone /\ run[r].document = d
                        \/ run'[r] = run[r] /\ run[r].document # d
    BY DEF DeleteDocument, WithoutRuns
  <1>3. run' \in [Runs -> RunType]
    BY <1>1, <1>2 DEF DeleteDocument, WithoutRuns, IngestInv, IngestTypeOK
  <1>4. doc' \in [Documents -> DocumentType] /\ NotCreated'
    BY NoRows DEF DeleteDocument, NoDocument, DocumentType, IngestInv, IngestTypeOK, NotCreated
  <1> HIDE DEF gone
  <1>5. Holding'
    <2>1. HeldActive'
      BY <1>1, <1>2 DEF DeleteDocument, IngestInv, Holding, HeldActive, Holds
    <2>2. SoleHolder'
      BY DEF DeleteDocument, IngestInv, Holding, SoleHolder, Holds
    <2>3. QueuedFree'
      BY <1>1, <1>2 DEF DeleteDocument, IngestInv, Holding, QueuedFree, Holds
    <2> QED
      BY <2>1, <2>2, <2>3 DEF Holding
  <1>6. RunHasDocument' /\ OneActiveRun'
    BY <1>1, <1>2 DEF IngestInv, RunHasDocument, OneActiveRun, ActiveStatus
  <1>7. RunOfLive'
    BY <1>1, <1>2 DEF DeleteDocument, IngestInv, IngestTypeOK, RunHasDocument, RunOfLive
  <1> QED
    BY <1>3, <1>4, <1>5, <1>6, <1>7 DEF DeleteDocument, IngestInv, IngestTypeOK

\* A worker claims a run that nobody holds.
LEMMA ClaimInv ==
    ASSUME IngestInv, NEW w \in Polling, NEW r \in Runs, Claim(w, r)
    PROVE  IngestInv'
  <1>0. w \in Workers /\ mode = "external_worker"
    BY DEF Polling
  <1>1. w \in Procs /\ proc \in [Procs -> ProcType] /\ run \in [Runs -> RunType]
    BY <1>0 DEF Procs, IngestInv, IngestTypeOK
  <1>2. /\ proc' \in [Procs -> ProcType]
        /\ proc'[w] = Dispatched(r) /\ \A p \in Procs : p # w => proc'[p] = proc[p]
    BY <1>0, <1>1, ProcStates DEF Claim
  <1>3. /\ run' \in [Runs -> RunType] /\ run[r].status = "pending" /\ run'[r].status = "running"
        /\ \A s \in Runs : run'[s].document = run[s].document
        /\ \A s \in Runs : s # r => run'[s] = run[s]
    BY <1>1 DEF Claim, RunType, RunStatus, ActiveStatus
  <1>4. \A p \in Procs : ~Holds(p, r)
    BY <1>0, <1>3 DEF Claim, IngestInv, Holding, QueuedFree
  <1>5. \A p \in Procs, s \in Runs : Holds(p, s)' =>
          (p = w /\ s = r) \/ (p # w /\ s # r /\ Holds(p, s))
    BY <1>2, <1>4 DEF Holds, Dispatched
  <1>6. Holding'
    <2>1. HeldActive'
      BY <1>2, <1>3, <1>5 DEF IngestInv, Holding, HeldActive, Dispatched
    <2>2. SoleHolder'
      BY <1>5 DEF IngestInv, Holding, SoleHolder
    <2>3. QueuedFree'
      BY <1>0, <1>3, <1>5 DEF Claim, IngestInv, Holding, QueuedFree
    <2> QED
      BY <2>1, <2>2, <2>3 DEF Holding
  <1>7. OneActiveRun' /\ RunHasDocument' /\ RunOfLive'
    BY <1>3 DEF Claim, IngestInv, OneActiveRun, RunHasDocument, RunOfLive, ActiveStatus
  <1> QED
    BY <1>2, <1>3, <1>6, <1>7 DEF Claim, IngestInv, IngestTypeOK, NotCreated

\* A process loads the run it holds, and its document.
LEMMA ExecuteInv ==
    ASSUME IngestInv, NEW p \in Procs, Execute(p)
    PROVE  IngestInv'
  <1> DEFINE r == proc[p].run
             d == run[r].document
             x == Working(r, d, doc[d].content, run[r].candidate)
  <1>1. proc \in [Procs -> ProcType] /\ run \in [Runs -> RunType]
    BY DEF IngestInv, IngestTypeOK
  <1>2. r \in Runs /\ Holds(p, r)
    BY <1>1, ProcFields DEF Execute, Holds
  <1>3. run[r].status \in {"pending", "running"}
    BY <1>2 DEF Execute, IngestInv, Holding, HeldActive
  <1>4. d \in Documents /\ doc[d].content \in Version \cup {Nil}
            /\ run[r].candidate \in Version \cup {Nil}
    BY <1>1, <1>2, <1>3 DEF IngestInv, IngestTypeOK, RunHasDocument, DocumentType, RunType
  <1>5. x \in ProcType /\ x.at = "working" /\ x.run = r /\ x.document = d
    BY <1>2, <1>4, ProcStates DEF Working
  <1>6. run' = [run EXCEPT ![r].status = "running"] /\ proc' = [proc EXCEPT ![p] = x]
            /\ UNCHANGED <<mode, doc, lost>>
    BY DEF Execute
  <1>7. d = run[r].document
    OBVIOUS
  <1> HIDE DEF r, d, x
  <1>8. /\ proc' \in [Procs -> ProcType]
        /\ proc'[p] = x /\ \A u \in Procs : u # p => proc'[u] = proc[u]
    BY <1>1, <1>5, <1>6
  <1>9. /\ run' \in [Runs -> RunType] /\ run'[r].status = "running"
        /\ \A s \in Runs : run'[s].document = run[s].document
        /\ \A s \in Runs : s # r => run'[s] = run[s]
    BY <1>1, <1>2, <1>6 DEF RunType, RunStatus, ActiveStatus
  <1>10. \A u \in Procs, s \in Runs : Holds(u, s)' =>
           (u = p /\ s = r) \/ (u # p /\ s # r /\ Holds(u, s))
    <2>1. \A u \in Procs : u # p => ~Holds(u, r)
      BY <1>2 DEF IngestInv, Holding, SoleHolder
    <2> QED
      BY <2>1, <1>5, <1>8 DEF Holds
  <1>11. Holding'
    <2>1. HeldActive'
      BY <1>5, <1>7, <1>8, <1>9, <1>10 DEF IngestInv, Holding, HeldActive
    <2>2. SoleHolder'
      BY <1>10 DEF IngestInv, Holding, SoleHolder
    <2>3. QueuedFree'
      BY <1>6, <1>9, <1>10 DEF IngestInv, Holding, QueuedFree
    <2> QED
      BY <2>1, <2>2, <2>3 DEF Holding
  <1>12. OneActiveRun' /\ RunHasDocument' /\ RunOfLive'
    BY <1>3, <1>6, <1>9 DEF IngestInv, OneActiveRun, RunHasDocument, RunOfLive, ActiveStatus
  <1> QED
    BY <1>6, <1>8, <1>9, <1>11, <1>12 DEF IngestInv, IngestTypeOK, NotCreated

\* The run a process holds, as the following steps use it.
LEMMA HeldRun ==
    ASSUME IngestInv, NEW p \in Procs, proc[p].at \in {"dispatched", "working"}
    PROVE  /\ proc[p].run \in Runs /\ Holds(p, proc[p].run) /\ run[proc[p].run] \in RunType
           /\ run = [run EXCEPT ![proc[p].run] = run[proc[p].run]]
  <1>1. proc[p] \in ProcType /\ run \in [Runs -> RunType]
    BY DEF IngestInv, IngestTypeOK
  <1>2. proc[p].run \in Runs
    BY <1>1, ProcFields DEF WorkingType
  <1> QED
    BY <1>1, <1>2 DEF Holds

LEMMA LeaveInv ==
    ASSUME IngestInv, NEW p \in Procs, MissingRun(p) \/ Crash(p)
    PROVE  IngestInv'
  <1>1. proc[p].at \in {"dispatched", "working"} /\ proc' = [proc EXCEPT ![p] = Idle]
            /\ run' = run /\ doc' = doc /\ mode' = mode
    BY DEF MissingRun, Crash
  <1>2. /\ proc' \in [Procs -> ProcType] /\ run' \in [Runs -> RunType]
        /\ Holding' /\ OneActiveRun' /\ RunHasDocument'
    BY <1>1, HeldRun, ReleaseStep
  <1>3. lost' \subseteq Runs
    BY <1>1, HeldRun DEF MissingRun, Crash, IngestInv, IngestTypeOK
  <1> QED
    BY <1>1, <1>2, <1>3 DEF IngestInv, IngestTypeOK, NotCreated, RunOfLive

LEMMA FailInv ==
    ASSUME IngestInv, NEW p \in Procs, Fail(p)
    PROVE  IngestInv'
  <1> DEFINE r == proc[p].run
             row == FailedRow(run[r])
  <1>1. proc[p].at = "working" /\ proc' = [proc EXCEPT ![p] = Idle]
            /\ run' = [run EXCEPT ![r] = row] /\ UNCHANGED <<mode, doc, lost>>
    BY DEF Fail
  <1>2. r \in Runs /\ Holds(p, r) /\ run[r] \in RunType
    BY <1>1, HeldRun
  <1>3. /\ row \in RunType /\ row.document = run[r].document
        /\ \/ row.status = run[r].status
           \/ row.status = "failed" /\ run[r].status # "deleted"
    BY <1>2 DEF FailedRow, RunType, RunStatus
  <1>4. run[r].status \in {"pending", "running", "deleted"}
    BY <1>2 DEF IngestInv, Holding, HeldActive
  <1> HIDE DEF row
  <1>5. /\ proc' \in [Procs -> ProcType] /\ run' \in [Runs -> RunType]
        /\ Holding' /\ OneActiveRun' /\ RunHasDocument'
    BY <1>1, <1>3, ReleaseStep
  <1>6. RunOfLive'
    BY <1>1, <1>2, <1>3, <1>4, LiveStep DEF IngestInv, IngestTypeOK
  <1> QED
    BY <1>1, <1>5, <1>6 DEF IngestInv, IngestTypeOK, NotCreated

\* What the final commit finds: the run is running, and the document is the one
\* that was loaded, with the text that was loaded.
LEMMA PublishFacts ==
    ASSUME IngestInv, NEW p \in Procs, Publish(p)
    PROVE  LET e == proc[p] IN
           /\ e \in WorkingType /\ Holds(p, e.run)
           /\ run[e.run].status = "running" /\ run[e.run].document = e.document
           /\ doc[e.document] \in DocumentType /\ doc[e.document].state = "live"
           /\ doc[e.document].content = e.original
  <1>1. proc[p] \in WorkingType
    BY ProcFields DEF Publish, IngestInv, IngestTypeOK
  <1>2. proc[p].run \in Runs /\ proc[p].document \in Documents /\ Holds(p, proc[p].run)
    BY <1>1 DEF WorkingType, Holds, Publish
  <1>3. run[proc[p].run].status = "running" /\ run[proc[p].run].document = proc[p].document
    BY <1>2 DEF Publish, IngestInv, Holding, HeldActive
  <1>4. doc[proc[p].document] \in DocumentType /\ doc[proc[p].document].state = "live"
    BY <1>2, <1>3 DEF IngestInv, IngestTypeOK, RunOfLive
  <1> QED
    BY <1>1, <1>2, <1>3, <1>4 DEF Publish, Unchanged

LEMMA PublishInv ==
    ASSUME IngestInv, NEW p \in Procs, Publish(p)
    PROVE  IngestInv'
  <1> DEFINE e == proc[p]
             d == e.document
             r == e.run
             row == [run[r] EXCEPT !.status = "completed", !.candidate = Nil]
  <1>1. /\ e \in WorkingType /\ Holds(p, r)
        /\ run[r].status = "running" /\ run[r].document = d
        /\ doc[d] \in DocumentType /\ doc[d].state = "live"
    BY PublishFacts
  <1>2. e.at = "working" /\ r \in Runs /\ d \in Documents /\ run[r] \in RunType
            /\ e.original \in Version \cup {Nil} /\ e.candidate \in Version \cup {Nil}
    BY <1>1, HeldRun DEF WorkingType
  <1>3. row \in RunType /\ row.document = run[r].document /\ row.status = "completed"
    BY <1>2 DEF RunType, RunStatus
  <1>4. run' = [run EXCEPT ![r] = row] /\ proc' = [proc EXCEPT ![p] = Idle]
            /\ UNCHANGED <<mode, lost>>
    BY <1>2 DEF Publish, IngestInv, IngestTypeOK
  <1>5. PICK v \in Version \cup {Nil} : doc' = [doc EXCEPT ![d] = Indexed(doc[d], e.candidate, v)]
    <2>1. CASE e.candidate = Nil
      BY <2>1, <1>2 DEF Publish
    <2>2. CASE e.candidate # Nil
      BY <2>2, <1>2, VersionFacts DEF Publish
    <2> QED
      BY <2>1, <2>2
  <1> DEFINE new == Indexed(doc[d], e.candidate, v)
  <1>6. new \in DocumentType /\ new.state = "live"
    BY <1>1 DEF Indexed, DocumentType
  <1> HIDE DEF row, new
  <1>7. doc' = [doc EXCEPT ![d] = new]
    BY <1>5 DEF new
  <1>8. doc' \in [Documents -> DocumentType] /\ NotCreated'
    BY <1>2, <1>6, <1>7 DEF IngestInv, IngestTypeOK, NotCreated
  <1>9. /\ proc' \in [Procs -> ProcType] /\ run' \in [Runs -> RunType]
        /\ Holding' /\ OneActiveRun' /\ RunHasDocument'
    BY <1>1, <1>2, <1>3, <1>4, ReleaseStep
  <1>10. RunOfLive'
    BY <1>1, <1>2, <1>3, <1>4, <1>6, <1>7, LiveStep DEF IngestInv, IngestTypeOK
  <1> QED
    BY <1>4, <1>8, <1>9, <1>10 DEF IngestInv, IngestTypeOK

-----------------------------------------------------------------------------
(* The theorems. *)

LEMMA IngestInitInv == IngestInit => IngestInv
  <1> SUFFICES ASSUME IngestInit
               PROVE  IngestInv
    OBVIOUS
  <1>1. IngestTypeOK
    BY ProcStates, NoRows DEF IngestInit, IngestTypeOK
  <1>2. \A p \in Procs, r \in Runs : ~Holds(p, r)
    BY DEF IngestInit, Holds, Idle
  <1> QED
    BY <1>1, <1>2
    DEF IngestInit, IngestInv, NotCreated, RunHasDocument, RunOfLive, Holding, HeldActive,
        SoleHolder, QueuedFree, OneActiveRun, NoRun, ActiveStatus

LEMMA IngestNextInv == IngestInv /\ [IngestNext]_ivars => IngestInv'
  <1> SUFFICES ASSUME IngestInv, [IngestNext]_ivars
               PROVE  IngestInv'
    OBVIOUS
  <1>1. CASE UNCHANGED ivars
    BY <1>1
    DEF ivars, IngestInv, IngestTypeOK, NotCreated, RunHasDocument, RunOfLive, Holding, HeldActive,
        SoleHolder, QueuedFree, OneActiveRun, Holds
  <1>2. CASE \E d \in Documents, t \in Texts : \E original \in {Nil, Written(t)} :
               CreateDocument(d, t, original)
    BY <1>2, CreateDocumentInv
  <1>3. CASE \E q \in Requests, d \in Documents, t \in Texts, r \in Runs :
               UploadDocument(q, d, t, r)
    BY <1>3, UploadDocumentInv
  <1>4. CASE \E q \in Requests, op \in {"ingest", "ingest_async", "edit"}, d \in Documents :
               Open(q, op, d)
    BY <1>4, OpenInv
  <1>5. CASE \E q \in Requests : Refuse(q)
    BY <1>5, RefuseInv
  <1>6. CASE \E q \in Requests, r \in Runs : AdmitSync(q, r) \/ AdmitAsync(q, r)
    BY <1>6, AdmitSyncInv, AdmitAsyncInv
  <1>7. CASE \E q \in Requests, d \in Documents, r \in Runs : Reprocess(q, d, r)
    BY <1>7, ReprocessInv
  <1>8. CASE \E q \in Requests, t \in Texts : Edit(q, t)
    BY <1>8, EditInv
  <1>9. CASE \E d \in Documents : DeleteDocument(d)
    BY <1>9, DeleteDocumentInv
  <1>10. CASE \E w \in Polling, r \in Runs : Claim(w, r)
    BY <1>10, ClaimInv
  <1>11. CASE \E p \in Procs : Execute(p) \/ MissingRun(p) \/ Publish(p) \/ Fail(p) \/ Crash(p)
    BY <1>11, ExecuteInv, LeaveInv, PublishInv, FailInv
  <1> QED
    BY <1>1, <1>2, <1>3, <1>4, <1>5, <1>6, <1>7, <1>8, <1>9, <1>10, <1>11 DEF IngestNext

\* The inductive invariant of ingestion: rows, sessions and holders of
\* extraction runs agree in every reachable state.
THEOREM IngestInvariance == IngestSpec => []IngestInv
  BY IngestInitInv, IngestNextInv, PTL DEF IngestSpec

\* Every reachable state of ingestion has its types.
THEOREM IngestTypeCorrect == IngestSpec => []IngestTypeOK
  <1>1. IngestInv => IngestTypeOK
    BY DEF IngestInv
  <1> QED
    BY <1>1, IngestInvariance, PTL

\* _lock_document_for_admission serializes admissions: a document never has two
\* pending or running extraction runs.
THEOREM AdmissionsSerialized == IngestSpec => []OneActiveRun
  <1>1. IngestInv => OneActiveRun
    BY DEF IngestInv
  <1> QED
    BY <1>1, IngestInvariance, PTL

\* Threads, requests and workers never index one document at the same time.
THEOREM IndexedByOne == IngestSpec => []OneIndexer
  <1>1. IngestInv => OneIndexer
    <2> SUFFICES ASSUME IngestInv, NEW p1 \in Procs, NEW p2 \in Procs, NEW r \in Runs,
                        NEW s \in Runs, Holds(p1, r), Holds(p2, s), p1 # p2,
                        run[r].status # "deleted", run[s].status # "deleted"
                 PROVE  run[r].document # run[s].document
      BY DEF OneIndexer
    <2>1. r # s
      BY DEF IngestInv, Holding, SoleHolder
    <2>2. run[r].status \in ActiveStatus /\ run[s].status \in ActiveStatus
      BY DEF IngestInv, Holding, HeldActive, ActiveStatus
    <2> QED
      BY <2>1, <2>2 DEF IngestInv, OneActiveRun
  <1> QED
    BY <1>1, IngestInvariance, PTL

\* The condition of IndexSwap on one step.
SwapStep ==
    \A d \in Documents : doc'[d].index # doc[d].index =>
        \/ doc'[d].state = "deleted"
        \/ /\ doc'[d].index = doc'[d].content
           /\ \E r \in ActiveRuns(d) : run'[r].status = "completed"

\* The final commit replaces text and index together.
LEMMA PublishSwap ==
    ASSUME IngestInv, NEW p \in Procs, Publish(p)
    PROVE  SwapStep
  <1> DEFINE e == proc[p]
             d == e.document
             r == e.run
  <1>1. /\ e \in WorkingType /\ Holds(p, r) /\ run[r].status = "running" /\ run[r].document = d
        /\ doc[d] \in DocumentType /\ doc[d].content = e.original
    BY PublishFacts
  <1>2. r \in Runs /\ d \in Documents /\ doc \in [Documents -> DocumentType]
            /\ run \in [Runs -> RunType]
    BY <1>1 DEF WorkingType, IngestInv, IngestTypeOK
  <1>3. r \in ActiveRuns(d)
    BY <1>1, <1>2 DEF ActiveRuns, ActiveStatus
  <1>4. run'[r].status = "completed"
    BY <1>2 DEF Publish, RunType
  <1>5. \A c \in Documents : c # d => doc'[c] = doc[c]
    BY <1>2 DEF Publish
  <1>6. doc'[d].index = doc'[d].content
    <2>1. CASE e.candidate = Nil
      <3>1. doc'[d] = [doc[d] EXCEPT !.index = e.original]
        BY <2>1, <1>2 DEF Publish, Indexed
      <3> QED
        BY <3>1, <1>1 DEF DocumentType
    <2>2. CASE e.candidate # Nil
      <3>1. PICK v : doc'[d] = [doc[d] EXCEPT !.index = v, !.content = v, !.processed = TRUE]
        BY <2>2, <1>2 DEF Publish, Indexed
      <3> QED
        BY <3>1, <1>1 DEF DocumentType
    <2> QED
      BY <2>1, <2>2
  <1> QED
    BY <1>3, <1>4, <1>5, <1>6 DEF SwapStep

\* No other step changes an index, except with its document.
LEMMA NextSwap == IngestInv /\ [IngestNext]_ivars => SwapStep
  <1> SUFFICES ASSUME IngestInv, [IngestNext]_ivars
               PROVE  SwapStep
    OBVIOUS
  <1>1. doc \in [Documents -> DocumentType]
    BY DEF IngestInv, IngestTypeOK
  <1>2. CASE doc' = doc
    BY <1>2 DEF SwapStep
  <1>3. CASE \E d \in Documents, t \in Texts : \E original \in {Nil, Written(t)} :
               CreateDocument(d, t, original)
    BY <1>1, <1>3 DEF CreateDocument, NoDocument, IngestInv, NotCreated, SwapStep
  <1>4. CASE \E q \in Requests, d \in Documents, t \in Texts, r \in Runs :
               UploadDocument(q, d, t, r)
    BY <1>1, <1>4 DEF UploadDocument, NoDocument, IngestInv, NotCreated, SwapStep
  <1>5. CASE \E q \in Requests, t \in Texts : Edit(q, t)
    <2>1. PICK q \in Requests, t \in Texts : Edit(q, t)
      BY <1>5
    <2>2. proc[q].document \in Documents
      BY <2>1, OpenedFields DEF Edit
    <2>3. Edited(doc[proc[q].document], proc[q], t).index = doc[proc[q].document].index
      BY <1>1, <2>2 DEF Edited, DocumentType
    <2>4. \A d \in Documents : doc'[d].index = doc[d].index
      BY <1>1, <2>1, <2>2, <2>3 DEF Edit
    <2> QED
      BY <2>4 DEF SwapStep
  <1>6. CASE \E d \in Documents : DeleteDocument(d)
    BY <1>1, <1>6 DEF DeleteDocument, NoDocument, SwapStep
  <1>7. CASE \E p \in Procs : Publish(p)
    BY <1>7, PublishSwap
  <1>8. [IngestNext]_ivars =>
          \/ doc' = doc
          \/ \E d \in Documents, t \in Texts : \E original \in {Nil, Written(t)} :
               CreateDocument(d, t, original)
          \/ \E q \in Requests, d \in Documents, t \in Texts, r \in Runs :
               UploadDocument(q, d, t, r)
          \/ \E q \in Requests, t \in Texts : Edit(q, t)
          \/ \E d \in Documents : DeleteDocument(d)
          \/ \E p \in Procs : Publish(p)
    BY DEF IngestNext, ivars, Open, Refuse, AdmitSync, AdmitAsync, Reprocess, Claim, Execute,
           MissingRun, Fail, Crash
  <1> QED
    BY <1>2, <1>3, <1>4, <1>5, <1>6, <1>7, <1>8

\* Text and index are swapped in one commit, and nothing but that commit and the
\* deletion of the document touches the index.
THEOREM SwapIsAtomic == IngestSpec => IndexSwap
  <1>1. IngestInv /\ [IngestNext]_ivars => [SwapStep]_ivars
    BY NextSwap
  <1> QED
    BY <1>1, IngestInvariance, PTL DEF IngestSpec, IndexSwap, SwapStep

-----------------------------------------------------------------------------

-----------------------------------------------------------------------------
(* Sums of sizes. *)

\* The first file of a set, as the sum takes them, and the equation the sum solves.
Head1(s) == CHOOSE x \in s : TRUE
SumOf(g, s) == IF s = {} THEN 0 ELSE Size[Head1(s)] + g[s \ {Head1(s)}]
Sums(g, S) == g = [s \in SUBSET S |-> SumOf(g, s)]

LEMMA BytesDefined == ASSUME NEW S PROVE Bytes(S) = (CHOOSE g : Sums(g, S))[S]
BY Zenon DEF Bytes, MapThenSumSet, MapThenFoldSet, Sums, SumOf, Head1

LEMMA Least == ASSUME NEW T, T \subseteq Nat, T # {} PROVE \E n \in T : \A m \in T : n <= m
<1>1. PICK x \in T : \A y \in T : ~(<<y, x>> \in OpToRel(<, Nat))
  BY WFMin, NatLessThanWellFounded
<1>2. \A y \in Nat : y < x => <<y, x>> \in OpToRel(<, Nat)
  BY Zenon DEF OpToRel
<1>3. \A y \in T : ~(y < x)
  BY <1>1, <1>2, Zenon
<1> QED  BY <1>3

\* A smallest set, of those that are wrong.
LEMMA SmallestSet ==
    ASSUME NEW W, W # {}, \A s \in W : IsFiniteSet(s)
    PROVE  \E s \in W : \A t \in W : Cardinality(s) <= Cardinality(t)
<1> DEFINE T == {Cardinality(s) : s \in W}
<1>1. T \subseteq Nat
  BY FS_CardinalityType
<1>2. T # {}
  OBVIOUS
<1>3. PICK n \in T : \A m \in T : n <= m
  BY <1>1, <1>2, Least
<1> QED  BY <1>3

LEMMA HeadIn ==
    ASSUME NEW s, s # {}, IsFiniteSet(s)
    PROVE  Head1(s) \in s /\ IsFiniteSet(s \ {Head1(s)}) /\ Cardinality(s \ {Head1(s)}) = Cardinality(s) - 1
           /\ Cardinality(s) \in Nat \ {0}
BY FS_RemoveElement, FS_CardinalityType, FS_EmptySet DEF Head1

\* Two solutions agree where both are defined.
LEMMA SumsAgree ==
    ASSUME NEW S, NEW T, NEW g, NEW h, Sums(g, S), Sums(h, T), NEW s, s \subseteq S, s \subseteq T, IsFiniteSet(s)
    PROVE  g[s] = h[s]
<1> DEFINE W == {t \in SUBSET s : g[t] # h[t]}
<1> SUFFICES ASSUME W # {} PROVE FALSE
  OBVIOUS
<1>1. \A t \in W : IsFiniteSet(t)
  BY FS_Subset
<1>2. PICK t \in W : \A u \in W : Cardinality(t) <= Cardinality(u)
  BY <1>1, SmallestSet
<1>3. g[t] = SumOf(g, t) /\ h[t] = SumOf(h, t)
  BY DEF Sums
<1>4. t # {}
  BY <1>3 DEF SumOf
<1>5. t \ {Head1(t)} \notin W
  <2>1. Cardinality(t \ {Head1(t)}) < Cardinality(t)
    BY <1>1, <1>4, HeadIn
  <2>2. Cardinality(t \ {Head1(t)}) \in Nat /\ Cardinality(t) \in Nat
    BY <1>1, <1>4, HeadIn, FS_CardinalityType
  <2> QED  BY <1>2, <2>1, <2>2
<1>6. g[t \ {Head1(t)}] = h[t \ {Head1(t)}]
  BY <1>5
<1> QED  BY <1>3, <1>6 DEF SumOf

\* A solution exists: it is built up, one more element at a time.
LEMMA SumsExist == ASSUME NEW S, IsFiniteSet(S) PROVE \E g : Sums(g, S)
<1> DEFINE Upto(g, n) == \A s \in SUBSET S : Cardinality(s) <= n => g[s] = SumOf(g, s)
           W == {n \in Nat : ~\E g : Upto(g, n)}
           More(g) == [s \in SUBSET S |-> SumOf(g, s)]
<1>1. \A s \in SUBSET S : IsFiniteSet(s) /\ Cardinality(s) \in Nat /\ Cardinality(s) <= Cardinality(S)
  BY FS_Subset, FS_CardinalityType
<1>2. ASSUME NEW g, NEW n \in Nat \ {0}, Upto(g, n - 1) PROVE Upto(More(g), n)
  <2> SUFFICES ASSUME NEW s \in SUBSET S, Cardinality(s) <= n PROVE More(g)[s] = SumOf(More(g), s)
    OBVIOUS
  <2>1. CASE s = {}
    BY <2>1 DEF SumOf
  <2>2. CASE s # {}
    <3> DEFINE t == s \ {Head1(s)}
    <3>1. t \in SUBSET S /\ Cardinality(t) <= n - 1
      BY <1>1, <2>2, HeadIn
    <3>2. g[t] = SumOf(g, t) /\ More(g)[t] = SumOf(g, t)
      BY <1>2, <3>1
    <3> QED  BY <2>2, <3>2 DEF SumOf
  <2> QED  BY <2>1, <2>2
<1>3. W = {}
  <2> SUFFICES ASSUME W # {} PROVE FALSE
    OBVIOUS
  <2>1. PICK n \in W : \A m \in W : n <= m
    BY Least
  <2>2. CASE n = 0
    <3>1. Upto([s \in SUBSET S |-> 0], 0)
      BY <1>1, FS_EmptySet DEF SumOf
    <3> QED  BY <2>1, <2>2, <3>1
  <2>3. CASE n # 0
    <3>1. n - 1 \in Nat /\ n - 1 \notin W
      BY <2>1, <2>3
    <3>2. PICK g : Upto(g, n - 1)
      BY <3>1
    <3>3. Upto(More(g), n)
      BY <1>2, <2>3, <3>2
    <3> QED  BY <2>1, <3>1, <3>3
  <2> QED  BY <2>2, <2>3
<1>4. PICK g : Upto(g, Cardinality(S))
  BY <1>3, FS_CardinalityType
<1>5. \A s \in SUBSET S : g[s] = SumOf(g, s)
  BY <1>1, <1>4
<1>6. \A s \in SUBSET S : More(g)[s] = SumOf(More(g), s)
  <2> SUFFICES ASSUME NEW s \in SUBSET S PROVE SumOf(g, s) = SumOf(More(g), s)
    OBVIOUS
  <2>1. s # {} => s \ {Head1(s)} \in SUBSET S
    OBVIOUS
  <2> QED  BY <1>5, <2>1 DEF SumOf
<1>7. Sums(More(g), S)
  BY <1>6 DEF Sums
<1> QED  BY <1>7

LEMMA BytesOf ==
    ASSUME NEW S, IsFiniteSet(S)
    PROVE  Bytes(S) = IF S = {} THEN 0 ELSE Size[Head1(S)] + Bytes(S \ {Head1(S)})
<1> DEFINE g == CHOOSE x : Sums(x, S)
           R == S \ {Head1(S)}
           h == CHOOSE x : Sums(x, R)
<1>1. Sums(g, S) /\ Bytes(S) = g[S]
  BY SumsExist, BytesDefined
<1>2. IsFiniteSet(R) /\ R \subseteq S
  BY FS_RemoveElement
<1>3. Sums(h, R) /\ Bytes(R) = h[R]
  BY <1>2, SumsExist, BytesDefined
<1> HIDE DEF g, h
<1>4. g[R] = h[R]
  BY <1>1, <1>2, <1>3, SumsAgree
<1>5. g[S] = SumOf(g, S)
  BY <1>1 DEF Sums
<1> QED  BY <1>1, <1>3, <1>4, <1>5 DEF SumOf

LEMMA BytesNat == ASSUME NEW S \in SUBSET Files, IsFiniteSet(S) PROVE Bytes(S) \in Nat
<1> DEFINE W == {s \in SUBSET S : Bytes(s) \notin Nat}
<1> SUFFICES ASSUME W # {} PROVE FALSE
  OBVIOUS
<1>1. \A s \in W : IsFiniteSet(s)
  BY FS_Subset
<1>2. PICK s \in W : \A t \in W : Cardinality(s) <= Cardinality(t)
  BY <1>1, SmallestSet
<1>3. s # {}
  <2>1. Bytes({}) = 0
    BY BytesOf, FS_EmptySet
  <2> QED  BY <1>2, <2>1
<1>4. Bytes(s) = Size[Head1(s)] + Bytes(s \ {Head1(s)}) /\ Head1(s) \in Files
      /\ Cardinality(s \ {Head1(s)}) = Cardinality(s) - 1 /\ Cardinality(s) \in Nat
  BY <1>1, <1>3, BytesOf, HeadIn
<1>5. s \ {Head1(s)} \notin W
  BY <1>2, <1>4
<1> QED  BY <1>4, <1>5, StorageAssumption

\* Whichever file is taken away.
LEMMA BytesRemove ==
    ASSUME NEW S \in SUBSET Files, IsFiniteSet(S), NEW x \in S
    PROVE  Bytes(S) = Size[x] + Bytes(S \ {x}) /\ Bytes(S \ {x}) \in Nat /\ Size[x] \in Nat
<1> DEFINE Wrong(s) == \E y \in s : Bytes(s) # Size[y] + Bytes(s \ {y})
           W == {s \in SUBSET S : Wrong(s)}
<1>0. Bytes(S \ {x}) \in Nat /\ Size[x] \in Nat
  BY FS_RemoveElement, BytesNat, StorageAssumption
<1> SUFFICES ASSUME W # {} PROVE FALSE
  BY <1>0
<1>1. \A s \in W : IsFiniteSet(s)
  BY FS_Subset
<1>2. PICK s \in W : \A t \in W : Cardinality(s) <= Cardinality(t)
  BY <1>1, SmallestSet
<1>3. PICK y \in s : Bytes(s) # Size[y] + Bytes(s \ {y})
  BY <1>2
<1> DEFINE c == Head1(s)
<1>4. /\ c \in s /\ IsFiniteSet(s) /\ Bytes(s) = Size[c] + Bytes(s \ {c})
      /\ Cardinality(s \ {c}) = Cardinality(s) - 1 /\ Cardinality(s) \in Nat
      /\ Cardinality(s \ {y}) = Cardinality(s) - 1
  BY <1>1, <1>3, BytesOf, HeadIn, FS_RemoveElement
<1> HIDE DEF c
<1>5. c # y
  BY <1>3, <1>4
<1>6. ~Wrong(s \ {c}) /\ ~Wrong(s \ {y})
  <2> HIDE DEF Wrong
  <2>1. \A t \in SUBSET S : Cardinality(t) = Cardinality(s) - 1 => t \notin W
    BY <1>2, <1>4
  <2>2. s \ {c} \in SUBSET S /\ s \ {y} \in SUBSET S
    OBVIOUS
  <2> QED  BY <1>4, <2>1, <2>2
<1>7. /\ Bytes(s \ {c}) = Size[y] + Bytes((s \ {c}) \ {y})
      /\ Bytes(s \ {y}) = Size[c] + Bytes((s \ {y}) \ {c})
  BY <1>4, <1>5, <1>6
<1>8. (s \ {c}) \ {y} = (s \ {y}) \ {c} /\ IsFiniteSet((s \ {y}) \ {c})
  BY <1>4, FS_RemoveElement
<1>9. Bytes((s \ {y}) \ {c}) \in Nat /\ Size[c] \in Nat /\ Size[y] \in Nat
  BY <1>4, <1>8, BytesNat, StorageAssumption
<1> DEFINE b == Bytes((s \ {y}) \ {c})
<1>10. Bytes(s) = Size[c] + (Size[y] + b) /\ Bytes(s \ {y}) = Size[c] + b
  BY <1>4, <1>7, <1>8
<1>11. b \in Nat
  BY <1>9
<1> HIDE DEF b
<1>12. Size[c] + (Size[y] + b) = Size[y] + (Size[c] + b)
  BY <1>9, <1>11
<1> QED  BY <1>3, <1>10, <1>12

LEMMA BytesAdd ==
    ASSUME NEW S \in SUBSET Files, IsFiniteSet(S), NEW x \in Files \ S
    PROVE  Bytes(S \cup {x}) = Bytes(S) + Size[x] /\ IsFiniteSet(S \cup {x})
           /\ Bytes(S) \in Nat /\ Size[x] \in Nat
<1>1. IsFiniteSet(S \cup {x}) /\ (S \cup {x}) \ {x} = S
  BY FS_AddElement
<1> QED  BY <1>1, BytesRemove, BytesNat

LEMMA BytesUnion ==
    ASSUME NEW S \in SUBSET Files, IsFiniteSet(S), NEW T \in SUBSET Files, IsFiniteSet(T), S \cap T = {}
    PROVE  Bytes(S \cup T) = Bytes(S) + Bytes(T) /\ IsFiniteSet(S \cup T)
<1> DEFINE W == {t \in SUBSET T : Bytes(S \cup t) # Bytes(S) + Bytes(t)}
<1>0. IsFiniteSet(S \cup T) /\ Bytes(S) \in Nat
  BY FS_Union, BytesNat
<1> SUFFICES ASSUME W # {} PROVE FALSE
  BY <1>0
<1>1. \A t \in W : IsFiniteSet(t) /\ IsFiniteSet(S \cup t)
  BY <1>0, FS_Subset
<1>2. PICK t \in W : \A u \in W : Cardinality(t) <= Cardinality(u)
  BY <1>1, SmallestSet
<1>3. t # {}
  <2>1. S \cup {} = S /\ Bytes({}) = 0
    BY BytesOf, FS_EmptySet
  <2> QED  BY <1>0, <1>2, <2>1
<1>4. PICK x \in t : TRUE
  BY <1>3
<1>5. Cardinality(t \ {x}) = Cardinality(t) - 1 /\ Cardinality(t) \in Nat
  BY <1>1, FS_RemoveElement, FS_CardinalityType
<1>6. t \ {x} \notin W
  BY <1>2, <1>5
<1>7. Bytes(S \cup (t \ {x})) = Bytes(S) + Bytes(t \ {x})
  BY <1>6
<1>8. (S \cup t) \ {x} = S \cup (t \ {x})
  OBVIOUS
<1>9. Bytes(S \cup t) = Size[x] + Bytes((S \cup t) \ {x})
  BY <1>1, BytesRemove
<1>10. Bytes(t) = Size[x] + Bytes(t \ {x}) /\ Bytes(t \ {x}) \in Nat /\ Size[x] \in Nat
  BY <1>1, BytesRemove
<1> DEFINE b == Bytes(t \ {x})
<1>11. Bytes(S \cup t) = Size[x] + (Bytes(S) + b) /\ Bytes(t) = Size[x] + b /\ b \in Nat /\ Size[x] \in Nat
  BY <1>7, <1>8, <1>9, <1>10
<1> HIDE DEF b
<1>12. Size[x] + (Bytes(S) + b) = Bytes(S) + (Size[x] + b)
  BY <1>0, <1>11
<1> QED  BY <1>2, <1>11, <1>12

-----------------------------------------------------------------------------
(* Storage. *)

\* Files whose erasure was requested, and files the quota counts.
Gone == {"delete_pending", "deleted"}
CountedFiles == {f \in Files : file[f].status \in Counted}

FileRow == [status : Counted \cup {"absent", "deleted"}, left : -GraceTicks..ReserveTicks]
JobRow == [queued : BOOLEAN, linked : BOOLEAN, wait : Nat, token : Cleaners \cup {None}, lease : 0..LeaseTicks]
WriterRow == [pc : {"idle", "reading", "reserved", "writing", "discard"},
              plan : SUBSET (Files \X (Files \cup {None})), made : SUBSET Files,
              file : Files \cup {None}, source : Files \cup {None}, left : -1..FlightTicks]
RevokerRow == [pc : {"idle", "revoke", "enqueue"}, file : Files \cup {None}, wait : Nat]
CleanerRow == [pc : {"idle", "erase", "erased"}, key : Files \cup {None}]

StorageRows ==
    /\ file \in [Files -> FileRow] /\ cleanup \in [Files -> JobRow]
    /\ objects \subseteq Files /\ orphan \in [Files -> Int]
    /\ writer \in [Writers -> WriterRow] /\ revoker \in [Revokers -> RevokerRow]
    /\ cleaner \in [Cleaners -> CleanerRow]

\* The quota row, and that no more than the limit was admitted.
QuotaInv == IsFiniteSet(CountedFiles) /\ used = Bytes(CountedFiles) /\ used <= MaxBytes

\* Only files whose erasure was requested are in the outbox, and each that waits for it is.
SoundFile(f) ==
    /\ file[f].status = "ready" => f \in objects
    /\ cleanup[f].queued => file[f].status \in Gone
    /\ file[f].status = "delete_pending" => cleanup[f].queued /\ cleanup[f].linked

\* What requests and sweeps have in hand: a file that is being written stays reserved, one
\* that was seen revoked, or claimed from the outbox, stays revoked.
SoundWriter(p) ==
    /\ writer[p].pc = "writing" => writer[p].file \in Files /\ file[writer[p].file].status = "reserved"
    /\ \A t \in writer[p].plan : file[t[1]].status # "absent"
    /\ \A f \in writer[p].made : file[f].status # "absent"
SoleWrite ==
    \A p, q \in Writers : p # q /\ writer[p].pc = "writing" /\ writer[q].pc = "writing" =>
                           writer[p].file # writer[q].file
SoundRevoker(v) ==
    IF revoker[v].pc = "idle" THEN revoker[v].file = None
    ELSE /\ revoker[v].file \in Files /\ file[revoker[v].file].status # "absent"
         /\ revoker[v].pc = "enqueue" => file[revoker[v].file].status \in Gone
SoundCleaner(c) ==
    cleaner[c].pc # "idle" => cleaner[c].key \in Files /\ file[cleaner[c].key].status \in Gone

StorageInv ==
    /\ StorageRows /\ QuotaInv /\ SoleWrite
    /\ \A f \in Files : SoundFile(f)
    /\ \A p \in Writers : SoundWriter(p)
    /\ \A v \in Revokers : SoundRevoker(v)
    /\ \A c \in Cleaners : SoundCleaner(c)

\* A write that was given up lands before its file is claimed from the outbox: after that
\* there is nothing left of it once the claim has erased it.
Timed(f) ==
    /\ file[f].status = "absent" => orphan[f] < 0 /\ f \notin objects
    /\ file[f].status = "delete_pending" => orphan[f] < cleanup[f].wait \/ orphan[f] < 0
    /\ cleanup[f].queued /\ cleanup[f].token # None => orphan[f] < 0
    /\ \A c \in Cleaners : cleaner[c].pc = "erased" /\ cleaner[c].key = f /\ OwnsCleanup(c) => f \notin objects
    /\ file[f].status = "deleted" => orphan[f] < 0 /\ f \notin objects

\* A staging file is not claimed from the outbox while its session has time left.
Staged(g, left) ==
    /\ Timed(g) /\ file[g].status \in Gone
    /\ left > 0 => /\ file[g].status = "delete_pending" /\ cleanup[g].token = None
                   /\ cleanup[g].wait >= left + StagingTicks
Outcome(session, original) ==
    /\ original # "absent"
    /\ session = "completed" => original \in {"ready"} \cup Gone
    /\ session = "aborted" => original \in Gone
    /\ session \in {"pending", "verifying"} => original # "ready"
SoundSession(u) ==
    IF sess[u].status = "absent" THEN sess[u] = NoSession
    ELSE /\ sess[u].original \in Files /\ sess[u].staging \in Files /\ sess[u].original # sess[u].staging
         /\ Staged(sess[u].staging, sess[u].left) /\ sess[u].url <= sess[u].left
         /\ Outcome(sess[u].status, file[sess[u].original].status)
SoleOriginal ==
    \A u, w \in Uploads : u # w /\ sess[u].status # "absent" /\ sess[w].status # "absent" =>
                          sess[u].original # sess[w].original

\* A request that finalizes a session works for the only one, on nothing but its original.
SoundFinalizer(p) ==
    IF hand[p] = None THEN writer[p] = IdleWriter
    ELSE /\ sess[hand[p]].status = "verifying" /\ writer[p].made = {}
         /\ writer[p].pc \in {"reading", "reserved", "writing"}
         /\ writer[p].pc # "reading" => writer[p].plan = {<<sess[hand[p]].original, None>>}
         /\ writer[p].pc = "writing" => writer[p].file = sess[hand[p]].original /\ writer[p].source = None
SoleHand == \A p, q \in Writers : p # q /\ hand[p] # None => hand[p] # hand[q]
SessionRow == [status : {"absent", "pending", "verifying", "completed", "aborted"},
               original : Files \cup {None}, staging : Files \cup {None},
               left : 0..ReserveTicks, url : 0..UrlTicks]
UploadsInv ==
    /\ sess \in [Uploads -> SessionRow] /\ hand \in [Writers -> Uploads \cup {None}]
    /\ SoleOriginal /\ SoleHand
    /\ \A f \in Files : file[f].status = "absent" => orphan[f] < 0
    /\ \A u \in Uploads : SoundSession(u)
    /\ \A p \in Writers : SoundFinalizer(p)

\* Copies: each file is written by one request, and but once.
SoundCopy(f) ==
    /\ Timed(f) /\ orphan[f] <= FlightTicks
    /\ file[f].status = "ready" => orphan[f] < 0
    /\ file[f].status = "reserved" => orphan[f] < file[f].left + GraceTicks
Targets(p) == {t[1] : t \in writer[p].plan} \cup writer[p].made
SoundTargets(p) ==
    /\ \A t \in writer[p].plan : orphan[t[1]] < 0
    /\ writer[p].pc = "writing" => /\ <<writer[p].file, writer[p].source>> \in writer[p].plan
                                   /\ writer[p].left < file[writer[p].file].left + GraceTicks
SoleTargets == \A p, q \in Writers : p # q => Targets(p) \cap Targets(q) = {}
\* A revocation that read a reservation waits longer than its write can last.
SoundWait(v) ==
    revoker[v].pc = "revoke" /\ file[revoker[v].file].status = "reserved" =>
        /\ orphan[revoker[v].file] < revoker[v].wait
        /\ \A p \in Writers : writer[p].pc = "writing" /\ writer[p].file = revoker[v].file =>
                                writer[p].left < revoker[v].wait
CopiesInv ==
    /\ SoleTargets
    /\ \A f \in Files : SoundCopy(f)
    /\ \A p \in Writers : SoundTargets(p)
    /\ \A v \in Revokers : SoundWait(v)

-----------------------------------------------------------------------------

\* A status only moves on.
Onward(f) ==
    /\ file[f].status # "absent" => file'[f].status # "absent"
    /\ file[f].status \in Gone => file'[f].status \in Gone

\* Requests and sweeps that did not move are as sound as they were.
LEMMA ActorsKeep ==
    ASSUME StorageInv, \A f \in Files : Onward(f),
           \A p \in Writers :
               \/ SoundWriter(p)'
               \/ /\ writer'[p] = writer[p]
                  /\ writer[p].pc = "writing" => file'[writer[p].file].status = "reserved",
           \A v \in Revokers : SoundRevoker(v)' \/ revoker'[v] = revoker[v],
           \A c \in Cleaners : SoundCleaner(c)' \/ cleaner'[c] = cleaner[c]
    PROVE  /\ \A p \in Writers : SoundWriter(p)'
           /\ \A v \in Revokers : SoundRevoker(v)'
           /\ \A c \in Cleaners : SoundCleaner(c)'
<1>1. ASSUME NEW p \in Writers, writer'[p] = writer[p],
             writer[p].pc = "writing" => file'[writer[p].file].status = "reserved"
      PROVE  SoundWriter(p)'
  <2>1. SoundWriter(p) /\ writer[p] \in WriterRow
    BY DEF StorageInv, StorageRows
  <2>2. \A t \in writer[p].plan : t[1] \in Files /\ Onward(t[1])
    BY <2>1 DEF WriterRow
  <2>3. \A f \in writer[p].made : f \in Files /\ Onward(f)
    BY <2>1 DEF WriterRow
  <2> QED  BY <1>1, <2>1, <2>2, <2>3 DEF SoundWriter, Onward
<1>2. ASSUME NEW v \in Revokers, revoker'[v] = revoker[v] PROVE SoundRevoker(v)'
  <2>1. SoundRevoker(v)
    BY DEF StorageInv
  <2> QED  BY <1>2, <2>1 DEF SoundRevoker, Onward
<1>3. ASSUME NEW c \in Cleaners, cleaner'[c] = cleaner[c] PROVE SoundCleaner(c)'
  <2>1. SoundCleaner(c)
    BY DEF StorageInv
  <2> QED  BY <1>3, <2>1 DEF SoundCleaner, Onward
<1> QED  BY <1>1, <1>2, <1>3

\* What is counted stays, or one file more or less is.
LEMMA QuotaKeeps ==
    ASSUME QuotaInv, used' = used, \A f \in Files : file'[f].status \in Counted <=> file[f].status \in Counted
    PROVE  QuotaInv'
<1>1. CountedFiles' = CountedFiles
  BY DEF CountedFiles
<1> QED  BY <1>1 DEF QuotaInv

LEMMA SoleKeeps ==
    ASSUME StorageInv,
           \A p \in Writers : writer'[p].pc = "writing" =>
                              writer[p].pc = "writing" /\ writer'[p].file = writer[p].file
    PROVE  SoleWrite'
BY DEF StorageInv, SoleWrite

LEMMA IdleRows ==
    /\ IdleWriter \in WriterRow /\ IdleRevoker \in RevokerRow /\ IdleCleaner \in CleanerRow
    /\ NoCleanup \in JobRow /\ Reserved \in FileRow /\ Revoked \in FileRow /\ NoFile \in FileRow
BY StorageAssumption DEF IdleWriter, WriterRow, IdleRevoker, RevokerRow, IdleCleaner, CleanerRow,
   NoCleanup, JobRow, Reserved, Revoked, NoFile, FileRow, Counted

LEMMA EnqueuedRow ==
    ASSUME NEW job \in JobRow, NEW wait \in Nat, NEW linked \in BOOLEAN
    PROVE  /\ Enqueued(job, wait, linked) \in JobRow /\ Enqueued(job, wait, linked).queued
           /\ Enqueued(job, wait, linked).linked = IF job.queued THEN job.linked ELSE linked
           /\ Enqueued(job, wait, linked).wait >= wait
           /\ job.queued => Enqueued(job, wait, linked).wait >= job.wait
           /\ Enqueued(job, wait, linked).token = IF job.queued THEN job.token ELSE None
<1>1. CASE job.queued
  <2> DEFINE w == Later(job.wait, wait)
  <2>1. w \in Nat /\ w >= wait /\ w >= job.wait
    BY DEF JobRow, Later
  <2>2. Enqueued(job, wait, linked) = [job EXCEPT !.wait = w]
    BY <1>1 DEF Enqueued
  <2> HIDE DEF w
  <2> QED  BY <1>1, <2>1, <2>2 DEF JobRow
<1>2. CASE ~job.queued
  <2>1. Enqueued(job, wait, linked) = [NoCleanup EXCEPT !.queued = TRUE, !.linked = linked, !.wait = wait]
    BY <1>2 DEF Enqueued
  <2>2. 0 \in 0..LeaseTicks /\ None \in Cleaners \cup {None}
    BY StorageAssumption
  <2>3. /\ Enqueued(job, wait, linked).queued = TRUE /\ Enqueued(job, wait, linked).linked = linked
        /\ Enqueued(job, wait, linked).wait = wait /\ Enqueued(job, wait, linked).token = None
    BY <2>1 DEF NoCleanup
  <2>4. Enqueued(job, wait, linked) \in JobRow
    BY <2>1, <2>2 DEF NoCleanup, JobRow
  <2> QED  BY <1>2, <2>3, <2>4
<1> QED  BY <1>1, <1>2

LEMMA SettleNat == \A s : SettleTicks(s) \in Nat
BY StorageAssumption DEF SettleTicks

\* Steps that leave files, the outbox and the quota alone.
LEMMA LocalKeeps ==
    ASSUME StorageInv, StorageRows', SoleWrite', UNCHANGED <<file, used, cleanup>>, objects \subseteq objects',
           \A p \in Writers : SoundWriter(p)' \/ writer'[p] = writer[p],
           \A v \in Revokers : SoundRevoker(v)' \/ revoker'[v] = revoker[v],
           \A c \in Cleaners : SoundCleaner(c)' \/ cleaner'[c] = cleaner[c]
    PROVE  StorageInv'
<1>1. QuotaInv'
  BY QuotaKeeps DEF StorageInv
<1>2. \A f \in Files : SoundFile(f)'
  BY DEF StorageInv, SoundFile
<1>3. \A f \in Files : Onward(f)
  BY DEF Onward
<1>4. \A p \in Writers : writer[p].pc = "writing" => file'[writer[p].file].status = "reserved"
  BY DEF StorageInv, SoundWriter
<1>5. /\ \A p \in Writers : SoundWriter(p)'
      /\ \A v \in Revokers : SoundRevoker(v)'
      /\ \A c \in Cleaners : SoundCleaner(c)'
  BY <1>3, <1>4, ActorsKeep
<1> QED  BY <1>1, <1>2, <1>5 DEF StorageInv

LEMMA BeginWriteKeeps ==
    ASSUME StorageInv, NEW p \in Writers, NEW f, NEW s, BeginWrite(p, f, s)
    PROVE  StorageInv'
<1> DEFINE w == [writer[p] EXCEPT !.pc = "writing", !.file = f, !.source = s, !.left = FlightTicks]
<1>1. /\ writer' = [writer EXCEPT ![p] = w] /\ <<f, s>> \in writer[p].plan
      /\ UNCHANGED <<file, used, cleanup, objects, orphan, revoker, cleaner>>
      /\ file[f].status = "reserved"
  BY DEF BeginWrite, storage, Writable
<1>2. writer[p] \in WriterRow /\ writer \in [Writers -> WriterRow] /\ SoundWriter(p)
  BY DEF StorageInv, StorageRows
<1>3. f \in Files /\ s \in Files \cup {None} /\ FlightTicks \in -1..FlightTicks
  BY <1>1, <1>2, StorageAssumption DEF WriterRow
<1>4. w \in WriterRow /\ w.pc = "writing" /\ w.file = f /\ w.plan = writer[p].plan /\ w.made = writer[p].made
  BY <1>2, <1>3 DEF WriterRow
<1> HIDE DEF w
<1>5. StorageRows'
  BY <1>1, <1>4 DEF StorageInv, StorageRows
<1>6. SoundWriter(p)'
  BY <1>1, <1>2, <1>3, <1>4 DEF SoundWriter
<1>7. \A q \in Writers : q # p => writer'[q] = writer[q]
  BY <1>1, <1>2
<1>8. \A q \in Writers : writer[q].pc = "writing" => writer[q].file # f
  BY DEF BeginWrite, Locked
<1>9. SoleWrite'
  <2>1. writer'[p].file = f
    BY <1>1, <1>2, <1>4
  <2> QED  BY <1>7, <1>8, <2>1 DEF SoleWrite, StorageInv
<1> QED  BY <1>1, <1>5, <1>6, <1>7, <1>9, LocalKeeps

\* A writer that rests, or has only its reservations to discard.
LEMMA FailedSound ==
    ASSUME StorageInv, NEW p \in Writers, NEW w \in {Failed(writer[p]), IdleWriter},
           writer' = [writer EXCEPT ![p] = w], \A f \in Files : Onward(f)
    PROVE  writer' \in [Writers -> WriterRow] /\ SoundWriter(p)' /\ SoleWrite' /\ writer'[p].pc # "writing"
           /\ \A q \in Writers : q # p => writer'[q] = writer[q]
<1>1. writer[p] \in WriterRow /\ SoundWriter(p) /\ writer \in [Writers -> WriterRow]
  BY DEF StorageInv, StorageRows
<1>2. w \in WriterRow /\ w.plan = {} /\ w.pc # "writing" /\ w.made \subseteq writer[p].made
  <2>1. CASE w = IdleWriter
    BY <2>1, IdleRows DEF IdleWriter
  <2>2. CASE w = [IdleWriter EXCEPT !.pc = "discard", !.made = writer[p].made]
    BY <1>1, <2>2, IdleRows DEF IdleWriter, WriterRow
  <2> QED  BY <2>1, <2>2 DEF Failed
<1>3. writer'[p] = w
  BY <1>1
<1>4. \A f \in w.made : file'[f].status # "absent"
  BY <1>1, <1>2 DEF SoundWriter, WriterRow, Onward
<1>5. SoundWriter(p)'
  BY <1>2, <1>3, <1>4 DEF SoundWriter
<1>6. \A q \in Writers : q # p => writer'[q] = writer[q]
  BY <1>1
<1>7. SoleWrite'
  BY <1>2, <1>3, <1>6, SoleKeeps
<1> QED  BY <1>1, <1>2, <1>3, <1>5, <1>6, <1>7

LEMMA RefuseWriteKeeps ==
    ASSUME StorageInv, NEW p \in Writers, NEW f, NEW s, RefuseWrite(p, f, s)
    PROVE  StorageInv'
<1>1. writer' = [writer EXCEPT ![p] = Failed(writer[p])]
      /\ UNCHANGED <<file, used, cleanup, objects, orphan, revoker, cleaner>>
  BY DEF RefuseWrite, storage, StorageInv, StorageRows
<1>2. \A g \in Files : Onward(g)
  BY <1>1 DEF Onward
<1>3. writer' \in [Writers -> WriterRow] /\ SoundWriter(p)' /\ SoleWrite' /\ \A q \in Writers : q # p => writer'[q] = writer[q]
  BY <1>1, <1>2, FailedSound
<1>4. StorageRows'
  BY <1>1, <1>3 DEF StorageInv, StorageRows
<1> QED  BY <1>1, <1>3, <1>4, LocalKeeps

\* A write that fails, or whose process dies.
LEMMA GiveUpKeeps ==
    ASSUME StorageInv, NEW p \in Writers, NEW landed \in BOOLEAN, FailWrite(p, landed) \/ CrashWriter(p, landed)
    PROVE  StorageInv'
<1>1. PICK w \in {Failed(writer[p]), IdleWriter} : writer' = [writer EXCEPT ![p] = w]
  BY DEF FailWrite, CrashWriter, StorageInv, StorageRows
<1>2. UNCHANGED <<file, used, cleanup, revoker, cleaner>>
  BY DEF FailWrite, CrashWriter
<1>3. \A g \in Files : Onward(g)
  BY <1>2 DEF Onward
<1>4. writer' \in [Writers -> WriterRow] /\ SoundWriter(p)' /\ SoleWrite' /\ \A q \in Writers : q # p => writer'[q] = writer[q]
  BY <1>1, <1>3, FailedSound
<1>5. objects \subseteq objects' /\ objects' \subseteq Files /\ orphan' \in [Files -> Int]
  <2>0. objects \subseteq Files /\ orphan \in [Files -> Int] /\ writer[p] \in WriterRow /\ SoundWriter(p)
    BY DEF StorageInv, StorageRows
  <2>1. CASE writer[p].pc = "writing"
    <3>1. writer[p].file \in Files /\ writer[p].left \in Int
      BY <2>0, <2>1, StorageAssumption DEF SoundWriter, WriterRow
    <3>2. Abandon(writer[p], landed)
      BY <2>1 DEF FailWrite, CrashWriter
    <3>3. orphan' = [orphan EXCEPT ![writer[p].file] = Later(orphan[writer[p].file], writer[p].left)]
      BY <2>0, <3>1, <3>2 DEF Abandon
    <3>4. Later(orphan[writer[p].file], writer[p].left) \in Int
      BY <2>0, <3>1 DEF Later
    <3>5. objects' = objects \cup {writer[p].file} \/ objects' = objects
      BY <3>2 DEF Abandon
    <3> QED  BY <2>0, <3>1, <3>3, <3>4, <3>5
  <2>2. CASE writer[p].pc # "writing"
    BY <2>0, <2>2 DEF FailWrite, CrashWriter
  <2> QED  BY <2>1, <2>2
<1>6. StorageRows'
  BY <1>2, <1>4, <1>5 DEF StorageInv, StorageRows
<1> QED  BY <1>2, <1>4, <1>5, <1>6, LocalKeeps

LEMMA LandKeeps == ASSUME StorageInv, NEW f \in Files, LandOrphan(f) PROVE StorageInv'
<1>1. UNCHANGED <<file, used, cleanup, orphan, writer, revoker, cleaner>> /\ objects' = objects \cup {f}
  BY DEF LandOrphan
<1>2. StorageRows' /\ SoleWrite'
  BY <1>1 DEF StorageInv, StorageRows, SoleWrite
<1> QED  BY <1>1, <1>2, LocalKeeps

\* One file, its row in the outbox, the quota and the bucket change.
LEMMA OneFileKeeps ==
    ASSUME StorageInv, NEW f \in Files, StorageRows', QuotaInv', SoleWrite', Onward(f), SoundFile(f)',
           \A g \in Files : g # f => file'[g] = file[g] /\ cleanup'[g] = cleanup[g] /\ (g \in objects => g \in objects'),
           \A p \in Writers :
               \/ SoundWriter(p)'
               \/ /\ writer'[p] = writer[p]
                  /\ writer[p].pc = "writing" /\ writer[p].file = f => file'[f].status = "reserved",
           \A v \in Revokers : SoundRevoker(v)' \/ revoker'[v] = revoker[v],
           \A c \in Cleaners : SoundCleaner(c)' \/ cleaner'[c] = cleaner[c]
    PROVE  StorageInv'
<1>1. \A g \in Files : Onward(g)
  BY DEF Onward
<1>2. \A g \in Files : SoundFile(g)'
  BY DEF StorageInv, SoundFile
<1>3. \A p \in Writers :
          \/ SoundWriter(p)'
          \/ /\ writer'[p] = writer[p]
             /\ writer[p].pc = "writing" => file'[writer[p].file].status = "reserved"
  BY DEF StorageInv, SoundWriter
<1>4. /\ \A p \in Writers : SoundWriter(p)'
      /\ \A v \in Revokers : SoundRevoker(v)'
      /\ \A c \in Cleaners : SoundCleaner(c)'
  BY <1>1, <1>3, ActorsKeep
<1> QED  BY <1>2, <1>4 DEF StorageInv

LEMMA FinishWriteKeeps == ASSUME StorageInv, NEW p \in Writers, FinishWrite(p) PROVE StorageInv'
<1> DEFINE rest == writer[p].plan \ {<<writer[p].file, writer[p].source>>}
           r == [status |-> "ready", left |-> 0]
<1>0. PICK f : f = writer[p].file
  OBVIOUS
<1>1. PICK w \in {IdleWriter, [IdleWriter EXCEPT !.pc = "reserved", !.plan = rest, !.made = writer[p].made]} :
        writer' = [writer EXCEPT ![p] = w]
  BY DEF FinishWrite
<1>2. /\ writer[p].pc = "writing" /\ file[f].status = "reserved" /\ objects' = objects \cup {f}
      /\ file' = [file EXCEPT ![f] = r] /\ UNCHANGED <<used, cleanup, orphan, revoker, cleaner>>
  BY <1>0 DEF FinishWrite
<1>3. /\ writer[p] \in WriterRow /\ SoundWriter(p) /\ writer \in [Writers -> WriterRow]
      /\ file \in [Files -> FileRow] /\ f \in Files /\ SoundFile(f) /\ SoleWrite
  BY <1>0, <1>2 DEF StorageInv, StorageRows, SoundWriter
<1>4. w \in WriterRow /\ w.plan \subseteq writer[p].plan /\ w.made \subseteq writer[p].made /\ w.pc # "writing"
  <2>0. rest \subseteq writer[p].plan /\ writer[p].plan \in SUBSET (Files \X (Files \cup {None}))
        /\ writer[p].made \in SUBSET Files
    BY <1>3 DEF WriterRow
  <2> HIDE DEF rest
  <2>1. CASE w = IdleWriter
    BY <2>1, IdleRows DEF IdleWriter
  <2>2. CASE w = [IdleWriter EXCEPT !.pc = "reserved", !.plan = rest, !.made = writer[p].made]
    BY <2>0, <2>2, IdleRows DEF IdleWriter, WriterRow
  <2> QED  BY <1>1, <2>1, <2>2
<1>5. r \in FileRow /\ r.status = "ready"
  BY StorageAssumption DEF FileRow, Counted
<1> HIDE DEF rest, r
<1>6. file'[f] = r /\ \A g \in Files : g # f => file'[g] = file[g]
  BY <1>2, <1>3
<1>7. writer'[p] = w /\ \A q \in Writers : q # p => writer'[q] = writer[q]
  BY <1>1, <1>3
<1>8. StorageRows'
  BY <1>1, <1>2, <1>3, <1>4, <1>5 DEF StorageInv, StorageRows
<1>9. QuotaInv'
  <2>1. \A g \in Files : file'[g].status \in Counted <=> file[g].status \in Counted
    BY <1>2, <1>5, <1>6 DEF Counted
  <2> QED  BY <1>2, <2>1, QuotaKeeps DEF StorageInv
<1>10. SoleWrite'
  BY <1>4, <1>7, SoleKeeps
<1>11. SoundFile(f)' /\ Onward(f)
  BY <1>2, <1>3, <1>5, <1>6 DEF SoundFile, Onward, Gone
<1>12. SoundWriter(p)'
  <2>1. \A t \in w.plan : file'[t[1]].status # "absent"
    BY <1>3, <1>4, <1>5, <1>6 DEF SoundWriter, WriterRow
  <2>2. \A g \in w.made : file'[g].status # "absent"
    BY <1>3, <1>4, <1>5, <1>6 DEF SoundWriter, WriterRow
  <2> QED  BY <1>4, <1>7, <2>1, <2>2 DEF SoundWriter
<1>13. \A q \in Writers : q # p /\ writer[q].pc = "writing" => writer[q].file # f
  BY <1>0, <1>2, <1>3 DEF SoleWrite
<1>14. \A q \in Writers :
          \/ SoundWriter(q)'
          \/ /\ writer'[q] = writer[q]
             /\ writer[q].pc = "writing" /\ writer[q].file = f => file'[f].status = "reserved"
  <2> TAKE q \in Writers
  <2>1. ASSUME q = p PROVE SoundWriter(q)'
    BY <1>12, <2>1 DEF SoundWriter
  <2>2. CASE q # p
    BY <1>7, <1>13, <2>2
  <2> QED  BY <2>1, <2>2
<1>15. \A g \in Files : g # f => file'[g] = file[g] /\ cleanup'[g] = cleanup[g] /\ (g \in objects => g \in objects')
  BY <1>2, <1>6
<1> QED  BY <1>2, <1>3, <1>8, <1>9, <1>10, <1>11, <1>14, <1>15, OneFileKeeps

\* A counted file is revoked: its row joins the outbox, linked.
LEMMA RevokedKeeps ==
    ASSUME StorageInv, NEW f \in Files, file[f].status \in {"reserved", "ready"}, ~Locked(f), NEW wait \in Nat,
           file' = [file EXCEPT ![f] = Revoked],
           cleanup' = [cleanup EXCEPT ![f] = Enqueued(cleanup[f], wait, TRUE)],
           UNCHANGED <<used, objects, orphan, writer, cleaner>>,
           revoker' \in [Revokers -> RevokerRow],
           \A v \in Revokers : SoundRevoker(v)' \/ revoker'[v] = revoker[v]
    PROVE  StorageInv'
<1>1. /\ file \in [Files -> FileRow] /\ cleanup \in [Files -> JobRow] /\ cleanup[f] \in JobRow /\ SoundFile(f)
      /\ Revoked \in FileRow /\ Revoked.status = "delete_pending"
  BY IdleRows DEF StorageInv, StorageRows, Revoked
<1>2. cleanup[f].queued = FALSE
  BY <1>1 DEF SoundFile, JobRow, Gone
<1> DEFINE j == Enqueued(cleanup[f], wait, TRUE)
<1>3. j \in JobRow /\ j.queued /\ j.linked
  BY <1>1, <1>2, EnqueuedRow
<1> HIDE DEF j
<1>4. /\ file'[f] = Revoked /\ cleanup'[f] = j
      /\ \A g \in Files : g # f => file'[g] = file[g] /\ cleanup'[g] = cleanup[g]
  BY <1>1 DEF j
<1>5. StorageRows'
  BY <1>1, <1>3 DEF StorageInv, StorageRows, j
<1>6. QuotaInv'
  <2>1. \A g \in Files : file'[g].status \in Counted <=> file[g].status \in Counted
    BY <1>1, <1>4 DEF Counted
  <2> QED  BY <2>1, QuotaKeeps DEF StorageInv
<1>7. SoundFile(f)' /\ Onward(f) /\ SoleWrite'
  BY <1>1, <1>3, <1>4 DEF SoundFile, Onward, Gone, StorageInv, SoleWrite
<1>8. \A q \in Writers : writer[q].pc = "writing" => writer[q].file # f
  BY DEF Locked
<1> QED  BY <1>4, <1>5, <1>6, <1>7, <1>8, OneFileKeeps

\* A row of the outbox is queued, claimed or put back; it is of a revoked file.
LEMMA OutboxKeeps ==
    ASSUME StorageInv, NEW f \in Files, file[f].status \in Gone, NEW j \in JobRow,
           j.queued, cleanup[f].queued => j.linked = cleanup[f].linked,
           cleanup' = [cleanup EXCEPT ![f] = j], UNCHANGED <<file, used, orphan, writer>>,
           objects \ {f} \subseteq objects', objects' \subseteq objects,
           revoker' \in [Revokers -> RevokerRow], cleaner' \in [Cleaners -> CleanerRow],
           \A v \in Revokers : SoundRevoker(v)' \/ revoker'[v] = revoker[v],
           \A c \in Cleaners : SoundCleaner(c)' \/ cleaner'[c] = cleaner[c]
    PROVE  StorageInv'
<1>1. cleanup \in [Files -> JobRow] /\ SoundFile(f) /\ file[f] \in FileRow /\ objects \subseteq Files
  BY DEF StorageInv, StorageRows
<1>2. cleanup'[f] = j /\ \A g \in Files : g # f => cleanup'[g] = cleanup[g]
  BY <1>1
<1>3. StorageRows'
  BY <1>1 DEF StorageInv, StorageRows
<1>4. QuotaInv'
  BY QuotaKeeps DEF StorageInv
<1>5. SoundFile(f)' /\ Onward(f) /\ SoleWrite'
  BY <1>1, <1>2 DEF SoundFile, Onward, Gone, StorageInv, SoleWrite
<1>6. \A p \in Writers : writer[p].pc = "writing" /\ writer[p].file = f => file'[f].status = "reserved"
  BY DEF StorageInv, SoundWriter, Gone
<1>7. \A g \in Files : g # f => file'[g] = file[g] /\ cleanup'[g] = cleanup[g] /\ (g \in objects => g \in objects')
  BY <1>2
<1> QED  BY <1>3, <1>4, <1>5, <1>6, <1>7, OneFileKeeps

LEMMA ReadFileKeeps == ASSUME StorageInv, NEW v \in Revokers, NEW f \in Files, ReadFile(v, f) PROVE StorageInv'
<1> DEFINE r == [pc |-> "revoke", file |-> f, wait |-> SettleTicks(file[f].status)]
<1>1. /\ revoker' = [revoker EXCEPT ![v] = r] /\ file[f].status \in Counted
      /\ UNCHANGED <<file, used, cleanup, objects, orphan, writer, cleaner>>
  BY DEF ReadFile, storage
<1>2. r \in RevokerRow /\ revoker \in [Revokers -> RevokerRow]
  BY SettleNat DEF RevokerRow, StorageInv, StorageRows
<1>3. SoundRevoker(v)'
  BY <1>1, <1>2 DEF SoundRevoker, Counted
<1> HIDE DEF r
<1>4. \A w \in Revokers : SoundRevoker(w)' \/ revoker'[w] = revoker[w]
  <2> TAKE w \in Revokers
  <2>1. CASE w = v
    BY <1>3, <2>1
  <2>2. CASE w # v
    BY <1>1, <1>2, <2>2
  <2> QED  BY <2>1, <2>2
<1>5. StorageRows' /\ SoleWrite'
  BY <1>1, <1>2 DEF StorageInv, StorageRows, SoleWrite
<1> QED  BY <1>1, <1>4, <1>5, LocalKeeps

LEMMA RevokeKeeps == ASSUME StorageInv, NEW v \in Revokers, Revoke(v) PROVE StorageInv'
<1>0. PICK f : f = revoker[v].file
  OBVIOUS
<1>1. /\ SoundRevoker(v) /\ revoker \in [Revokers -> RevokerRow] /\ revoker[v] \in RevokerRow
      /\ revoker[v].pc = "revoke"
  BY DEF StorageInv, StorageRows, Revoke
<1>2. f \in Files /\ ~Locked(f) /\ revoker[v].wait \in Nat
  BY <1>0, <1>1 DEF SoundRevoker, Revoke, RevokerRow
<1>3. UNCHANGED <<used, objects, orphan, writer, cleaner>>
  BY DEF Revoke
<1>4. CASE revoker' = [revoker EXCEPT ![v] = IdleRevoker]
  <2>1. revoker'[v] = IdleRevoker /\ revoker' \in [Revokers -> RevokerRow] /\ SoundRevoker(v)'
    BY <1>1, <1>4, IdleRows DEF SoundRevoker, IdleRevoker
  <2>2. \A w \in Revokers : SoundRevoker(w)' \/ revoker'[w] = revoker[w]
    <3> TAKE w \in Revokers
    <3>1. CASE w = v
      BY <2>1, <3>1
    <3>2. CASE w # v
      BY <1>1, <1>4, <3>2
    <3> QED  BY <3>1, <3>2
  <2>3. CASE UNCHANGED <<file, cleanup>>
    <3>1. StorageRows' /\ SoleWrite'
      BY <1>3, <2>1, <2>3 DEF StorageInv, StorageRows, SoleWrite
    <3> QED  BY <1>3, <2>2, <2>3, <3>1, LocalKeeps
  <2>4. CASE /\ file[f].status \in {"reserved", "ready"} /\ file' = [file EXCEPT ![f] = Revoked]
             /\ cleanup' = [cleanup EXCEPT ![f] = Enqueued(cleanup[f], revoker[v].wait, TRUE)]
    BY <1>2, <1>3, <2>1, <2>2, <2>4, RevokedKeeps
  <2>5. cleanup \in [Files -> JobRow]
    BY DEF StorageInv, StorageRows
  <2> QED  BY <1>0, <1>2, <2>3, <2>4, <2>5, <1>4, <1>1 DEF Revoke, IdleRevoker
<1>5. CASE /\ file[f].status = "delete_pending" /\ revoker' = [revoker EXCEPT ![v].pc = "enqueue"]
           /\ UNCHANGED <<file, cleanup>>
  <2>1. /\ revoker'[v] = [revoker[v] EXCEPT !.pc = "enqueue"] /\ revoker' \in [Revokers -> RevokerRow]
        /\ \A w \in Revokers : w # v => revoker'[w] = revoker[w]
    BY <1>1, <1>5 DEF RevokerRow
  <2>2. revoker'[v].pc = "enqueue" /\ revoker'[v].file = f
    BY <1>0, <1>1, <2>1 DEF RevokerRow
  <2>3. SoundRevoker(v)'
    BY <1>2, <1>5, <2>2 DEF SoundRevoker, Gone
  <2>4. \A w \in Revokers : SoundRevoker(w)' \/ revoker'[w] = revoker[w]
    BY <2>1, <2>3
  <2>5. StorageRows' /\ SoleWrite'
    BY <1>3, <1>5, <2>1 DEF StorageInv, StorageRows, SoleWrite
  <2> QED  BY <1>3, <1>5, <2>4, <2>5, LocalKeeps
<1> QED  BY <1>0, <1>4, <1>5 DEF Revoke

LEMMA EnqueueAgainKeeps == ASSUME StorageInv, NEW v \in Revokers, EnqueueAgain(v) PROVE StorageInv'
<1>0. PICK f : f = revoker[v].file
  OBVIOUS
<1>1. /\ SoundRevoker(v) /\ revoker \in [Revokers -> RevokerRow] /\ revoker[v] \in RevokerRow
      /\ revoker[v].pc = "enqueue" /\ cleanup \in [Files -> JobRow] /\ cleaner \in [Cleaners -> CleanerRow]
  BY DEF StorageInv, StorageRows, EnqueueAgain
<1>2. f \in Files /\ file[f].status \in Gone /\ revoker[v].wait \in Nat /\ cleanup[f] \in JobRow
  BY <1>0, <1>1 DEF SoundRevoker, RevokerRow
<1>3. PICK j : j = Enqueued(cleanup[f], revoker[v].wait, TRUE)
  OBVIOUS
<1>4. j \in JobRow /\ j.queued /\ (cleanup[f].queued => j.linked = cleanup[f].linked)
  <2> DEFINE e == Enqueued(cleanup[f], revoker[v].wait, TRUE)
  <2>1. e \in JobRow /\ e.queued /\ e.linked = IF cleanup[f].queued THEN cleanup[f].linked ELSE TRUE
    BY <1>2, EnqueuedRow
  <2> HIDE DEF e
  <2>2. j = e
    BY <1>3 DEF e
  <2> QED  BY <2>1, <2>2
<1>5. /\ cleanup' = [cleanup EXCEPT ![f] = j] /\ revoker' = [revoker EXCEPT ![v] = IdleRevoker]
      /\ UNCHANGED <<file, used, objects, orphan, writer, cleaner>>
  BY <1>0, <1>1, <1>2, <1>3 DEF EnqueueAgain
<1>6. revoker'[v] = IdleRevoker /\ revoker' \in [Revokers -> RevokerRow] /\ SoundRevoker(v)'
  BY <1>1, <1>5, IdleRows DEF SoundRevoker, IdleRevoker
<1>7. \A w \in Revokers : SoundRevoker(w)' \/ revoker'[w] = revoker[w]
  <2> TAKE w \in Revokers
  <2>1. CASE w = v
    BY <1>6, <2>1
  <2>2. CASE w # v
    BY <1>1, <1>5, <2>2
  <2> QED  BY <2>1, <2>2
<1> QED  BY <1>1, <1>2, <1>4, <1>5, <1>6, <1>7, OutboxKeeps

\* A sweep that moves: it has nothing in hand, or a file that was revoked.
LEMMA SweepSound ==
    ASSUME StorageInv, NEW c \in Cleaners, NEW r \in CleanerRow, cleaner' = [cleaner EXCEPT ![c] = r],
           r.pc # "idle" => r.key \in Files /\ file'[r.key].status \in Gone
    PROVE  /\ cleaner' \in [Cleaners -> CleanerRow]
           /\ \A d \in Cleaners : SoundCleaner(d)' \/ cleaner'[d] = cleaner[d]
<1>1. cleaner \in [Cleaners -> CleanerRow]
  BY DEF StorageInv, StorageRows
<1>2. SoundCleaner(c)'
  BY <1>1 DEF SoundCleaner
<1>3. \A d \in Cleaners : SoundCleaner(d)' \/ cleaner'[d] = cleaner[d]
  <2> TAKE d \in Cleaners
  <2>1. CASE d = c
    BY <1>2, <2>1
  <2>2. CASE d # c
    BY <1>1, <2>2
  <2> QED  BY <2>1, <2>2
<1> QED  BY <1>1, <1>3

LEMMA ClaimCleanupKeeps ==
    ASSUME StorageInv, NEW c \in Cleaners, NEW f \in Files, NEW lease \in 0..LeaseTicks, ClaimCleanup(c, f, lease)
    PROVE  StorageInv'
<1>1. /\ cleanup \in [Files -> JobRow] /\ cleanup[f] \in JobRow /\ cleanup[f].queued /\ SoundFile(f)
      /\ revoker \in [Revokers -> RevokerRow]
  BY DEF StorageInv, StorageRows, ClaimCleanup
<1>2. PICK j : j = [cleanup[f] EXCEPT !.token = c, !.lease = lease]
  OBVIOUS
<1>3. j \in JobRow /\ j.queued /\ j.linked = cleanup[f].linked
  BY <1>1, <1>2 DEF JobRow
<1>4. PICK r : r = [pc |-> "erase", key |-> f]
  OBVIOUS
<1>5. file[f].status \in Gone
  BY <1>1 DEF SoundFile
<1>6. /\ cleanup' = [cleanup EXCEPT ![f] = j] /\ cleaner' = [cleaner EXCEPT ![c] = r]
      /\ UNCHANGED <<file, used, objects, orphan, writer, revoker>>
  BY <1>1, <1>2, <1>4 DEF ClaimCleanup
<1>7. r \in CleanerRow /\ r.key \in Files /\ file'[r.key].status \in Gone
  BY <1>4, <1>5, <1>6 DEF CleanerRow
<1>8. /\ cleaner' \in [Cleaners -> CleanerRow]
      /\ \A d \in Cleaners : SoundCleaner(d)' \/ cleaner'[d] = cleaner[d]
  BY <1>6, <1>7, SweepSound
<1> QED  BY <1>1, <1>3, <1>5, <1>6, <1>8, OutboxKeeps

LEMMA EraseFailsKeeps ==
    ASSUME StorageInv, NEW c \in Cleaners, NEW wait \in 0..RetryTicks, NEW kept \in BOOLEAN, EraseFails(c, wait, kept)
    PROVE  StorageInv'
<1>0. PICK f : f = cleaner[c].key
  OBVIOUS
<1>1. /\ cleanup \in [Files -> JobRow] /\ SoundCleaner(c) /\ cleaner[c].pc = "erase"
      /\ revoker \in [Revokers -> RevokerRow] /\ objects \subseteq Files
  BY DEF StorageInv, StorageRows, EraseFails
<1>2. f \in Files /\ file[f].status \in Gone /\ cleanup[f] \in JobRow
  BY <1>0, <1>1 DEF SoundCleaner
<1>3. /\ cleaner' = [cleaner EXCEPT ![c] = IdleCleaner] /\ UNCHANGED <<file, used, orphan, writer, revoker>>
      /\ objects \ {f} \subseteq objects' /\ objects' \subseteq objects
  BY <1>0 DEF EraseFails
<1>4. /\ cleaner' \in [Cleaners -> CleanerRow]
      /\ \A d \in Cleaners : SoundCleaner(d)' \/ cleaner'[d] = cleaner[d]
  BY <1>3, IdleRows, SweepSound DEF IdleCleaner
<1>5. CASE cleanup[f].queued
  <2>1. PICK j : j = Retried(cleanup[f], wait)
    OBVIOUS
  <2>2. wait \in Nat /\ 0 \in 0..LeaseTicks
    BY StorageAssumption
  <2>3. j \in JobRow /\ j.queued /\ j.linked = cleanup[f].linked
    BY <1>2, <1>5, <2>1, <2>2 DEF Retried, JobRow
  <2>4. cleanup' = [cleanup EXCEPT ![f] = j] \/ cleanup' = [cleanup EXCEPT ![f] = cleanup[f]]
    BY <1>0, <1>1, <1>2, <2>1 DEF EraseFails
  <2> QED  BY <1>1, <1>2, <1>3, <1>4, <1>5, <2>3, <2>4, OutboxKeeps
<1>6. CASE ~cleanup[f].queued
  <2>1. cleanup' = cleanup
    BY <1>0, <1>6 DEF EraseFails, OwnsCleanup
  <2>2. StorageRows' /\ QuotaInv' /\ SoleWrite'
    BY <1>1, <1>3, <1>4, <2>1, QuotaKeeps DEF StorageInv, StorageRows, SoleWrite
  <2>3. SoundFile(f)' /\ Onward(f)
    BY <1>1, <1>2, <1>3, <1>6, <2>1 DEF SoundFile, Onward, Gone, StorageInv
  <2>4. \A p \in Writers : writer[p].pc = "writing" /\ writer[p].file = f => file'[f].status = "reserved"
    BY <1>3 DEF StorageInv, SoundWriter
  <2> QED  BY <1>2, <1>3, <1>4, <2>1, <2>2, <2>3, <2>4, OneFileKeeps
<1> QED  BY <1>5, <1>6

LEMMA EraseObjectKeeps == ASSUME StorageInv, NEW c \in Cleaners, EraseObject(c) PROVE StorageInv'
<1>0. PICK f : f = cleaner[c].key
  OBVIOUS
<1>1. /\ SoundCleaner(c) /\ cleaner[c].pc = "erase" /\ cleaner \in [Cleaners -> CleanerRow] /\ cleaner[c] \in CleanerRow
      /\ objects \subseteq Files
  BY DEF StorageInv, StorageRows, EraseObject
<1>2. f \in Files /\ file[f].status \in Gone /\ SoundFile(f)
  BY <1>0, <1>1 DEF SoundCleaner, StorageInv
<1>3. PICK r : r = [cleaner[c] EXCEPT !.pc = "erased"]
  OBVIOUS
<1>4. /\ cleaner' = [cleaner EXCEPT ![c] = r] /\ UNCHANGED <<file, used, cleanup, orphan, writer, revoker>>
      /\ objects' = objects \ {f}
  BY <1>0, <1>1, <1>3 DEF EraseObject
<1>5. r \in CleanerRow /\ r.key = f
  BY <1>0, <1>1, <1>3 DEF CleanerRow
<1>6. /\ cleaner' \in [Cleaners -> CleanerRow]
      /\ \A d \in Cleaners : SoundCleaner(d)' \/ cleaner'[d] = cleaner[d]
  BY <1>2, <1>4, <1>5, SweepSound
<1>7. StorageRows' /\ QuotaInv' /\ SoleWrite'
  BY <1>1, <1>4, <1>6, QuotaKeeps DEF StorageInv, StorageRows, SoleWrite
<1>8. SoundFile(f)' /\ Onward(f)
  BY <1>2, <1>4 DEF SoundFile, Onward, Gone
<1>9. \A p \in Writers : writer[p].pc = "writing" /\ writer[p].file = f => file'[f].status = "reserved"
  BY <1>4 DEF StorageInv, SoundWriter
<1> QED  BY <1>2, <1>4, <1>6, <1>7, <1>8, <1>9, OneFileKeeps

LEMMA ExpireReservationKeeps == ASSUME StorageInv, NEW f \in Files, ExpireReservation(f) PROVE StorageInv'
<1>1. /\ file[f].status = "reserved" /\ ~Locked(f) /\ file' = [file EXCEPT ![f] = Revoked]
      /\ UNCHANGED <<used, objects, orphan, writer, revoker, cleaner>>
  BY DEF ExpireReservation, Expired
<1>2. cleanup' = [cleanup EXCEPT ![f] = Enqueued(cleanup[f], 0, TRUE)] /\ revoker' \in [Revokers -> RevokerRow]
  BY <1>1 DEF ExpireReservation, StorageInv, StorageRows
<1> QED  BY <1>1, <1>2, RevokedKeeps

LEMMA CrashCleanerKeeps == ASSUME StorageInv, NEW c \in Cleaners, CrashCleaner(c) PROVE StorageInv'
<1>1. /\ cleaner' = [cleaner EXCEPT ![c] = IdleCleaner]
      /\ UNCHANGED <<file, used, cleanup, objects, orphan, writer, revoker>>
  BY DEF CrashCleaner, storage
<1>2. /\ cleaner' \in [Cleaners -> CleanerRow]
      /\ \A d \in Cleaners : SoundCleaner(d)' \/ cleaner'[d] = cleaner[d]
  BY <1>1, IdleRows, SweepSound DEF IdleCleaner
<1>3. StorageRows' /\ SoleWrite'
  BY <1>1, <1>2 DEF StorageInv, StorageRows, SoleWrite
<1> QED  BY <1>1, <1>2, <1>3, LocalKeeps

LEMMA FinishEraseKeeps == ASSUME StorageInv, NEW c \in Cleaners, FinishErase(c) PROVE StorageInv'
<1>0. PICK f : f = cleaner[c].key
  OBVIOUS
<1>1. /\ SoundCleaner(c) /\ cleaner[c].pc = "erased" /\ file \in [Files -> FileRow] /\ cleanup \in [Files -> JobRow]
      /\ UNCHANGED <<objects, orphan, writer, revoker>> /\ cleaner' = [cleaner EXCEPT ![c] = IdleCleaner]
  BY DEF StorageInv, StorageRows, FinishErase
<1>2. f \in Files /\ file[f].status \in Gone /\ SoundFile(f) /\ file[f] \in FileRow /\ QuotaInv
  BY <1>0, <1>1 DEF SoundCleaner, StorageInv
<1>3. /\ cleaner' \in [Cleaners -> CleanerRow]
      /\ \A d \in Cleaners : SoundCleaner(d)' \/ cleaner'[d] = cleaner[d]
  BY <1>1, IdleRows, SweepSound DEF IdleCleaner
<1>4. CASE UNCHANGED <<file, used, cleanup>>
  <2>1. StorageRows' /\ SoleWrite'
    BY <1>1, <1>3, <1>4 DEF StorageInv, StorageRows, SoleWrite
  <2> QED  BY <1>1, <1>3, <1>4, <2>1, LocalKeeps
<1>5. CASE OwnsCleanup(c)
  <2>1. cleanup' = [cleanup EXCEPT ![f] = NoCleanup]
    BY <1>0, <1>5 DEF FinishErase
  <2>2. cleanup'[f] = NoCleanup /\ \A g \in Files : g # f => cleanup'[g] = cleanup[g]
    BY <1>1, <1>2, <2>1
  <2>3. /\ file' \in [Files -> FileRow] /\ \A g \in Files : g # f => file'[g] = file[g]
        /\ file'[f].status = "deleted" /\ QuotaInv'
    <3>1. CASE Releases(f)
      <4>1. PICK r : r = [file[f] EXCEPT !.status = "deleted"]
        OBVIOUS
      <4>2. file' = [file EXCEPT ![f] = r] /\ used' = used - Size[f]
        BY <1>0, <1>1, <1>2, <1>5, <3>1, <4>1 DEF FinishErase
      <4>3. r \in FileRow /\ r.status = "deleted"
        BY <1>2, <4>1 DEF FileRow
      <4>4. file'[f] = r /\ \A g \in Files : g # f => file'[g] = file[g]
        BY <1>1, <1>2, <4>2
      <4>5. f \in CountedFiles /\ CountedFiles' = CountedFiles \ {f}
        BY <1>2, <3>1, <4>3, <4>4 DEF CountedFiles, Counted, Releases
      <4>6. IsFiniteSet(CountedFiles) /\ CountedFiles \in SUBSET Files
        BY <1>2 DEF QuotaInv, CountedFiles
      <4>7. /\ Bytes(CountedFiles) = Size[f] + Bytes(CountedFiles \ {f})
            /\ Bytes(CountedFiles \ {f}) \in Nat /\ Size[f] \in Nat
        BY <4>5, <4>6, BytesRemove
      <4>8. IsFiniteSet(CountedFiles \ {f})
        BY <4>6, FS_Subset
      <4>9. used' = Bytes(CountedFiles \ {f}) /\ used' <= MaxBytes
        BY <1>2, <4>2, <4>7, StorageAssumption DEF QuotaInv
      <4>10. Bytes(CountedFiles)' = Bytes(CountedFiles \ {f})
        BY <4>5
      <4>11. QuotaInv'
        BY <4>5, <4>8, <4>9, <4>10 DEF QuotaInv
      <4> QED  BY <1>1, <1>2, <4>2, <4>3, <4>4, <4>11
    <3>2. CASE ~Releases(f)
      <4>1. UNCHANGED <<file, used>>
        BY <1>0, <1>5, <3>2 DEF FinishErase
      <4>2. file[f].status = "deleted"
        BY <1>2, <3>2 DEF Releases, SoundFile, Gone
      <4> QED  BY <1>1, <1>2, <4>1, <4>2, QuotaKeeps
    <3> QED  BY <3>1, <3>2
  <2>4. StorageRows' /\ SoleWrite'
    BY <1>1, <1>3, <2>1, <2>3, IdleRows DEF StorageInv, StorageRows, SoleWrite
  <2>5. SoundFile(f)' /\ Onward(f)
    BY <2>2, <2>3 DEF SoundFile, Onward, Gone, NoCleanup
  <2>6. \A p \in Writers : writer[p].pc = "writing" => writer[p].file # f
    BY <1>2 DEF StorageInv, SoundWriter, Gone
  <2> QED  BY <1>1, <1>2, <1>3, <2>2, <2>3, <2>4, <2>5, <2>6, OneFileKeeps
<1> QED  BY <1>4, <1>5 DEF FinishErase

\* What a tick does to each row.
LEMMA TickRows ==
    ASSUME StorageInv, Tick
    PROVE  /\ \A f \in Files :
                /\ file'[f] \in FileRow /\ file'[f].status = file[f].status
                /\ file[f].left \in Int
                /\ file'[f].left = IF file[f].status = "reserved" THEN Down(file[f].left, -GraceTicks)
                                   ELSE file[f].left
                /\ cleanup'[f] \in JobRow /\ cleanup'[f].queued = cleanup[f].queued
                /\ cleanup'[f].linked = cleanup[f].linked /\ cleanup'[f].token = cleanup[f].token
                /\ cleanup[f].wait \in Nat /\ cleanup'[f].wait = Down(cleanup[f].wait, 0)
                /\ orphan[f] \in Int /\ orphan'[f] = Down(orphan[f], -1)
           /\ \A p \in Writers :
                /\ writer'[p] \in WriterRow /\ writer'[p] = [writer[p] EXCEPT !.left = Down(writer[p].left, -1)]
                /\ writer'[p].pc = writer[p].pc /\ writer'[p].plan = writer[p].plan
                /\ writer'[p].made = writer[p].made /\ writer'[p].file = writer[p].file
                /\ writer'[p].source = writer[p].source
                /\ writer[p].left \in Int /\ writer'[p].left = Down(writer[p].left, -1)
           /\ \A v \in Revokers :
                /\ revoker'[v] \in RevokerRow /\ revoker'[v].pc = revoker[v].pc /\ revoker'[v].file = revoker[v].file
                /\ revoker[v].wait \in Nat /\ revoker'[v].wait = Down(revoker[v].wait, 0)
           /\ UNCHANGED <<used, objects, cleaner>> /\ StorageRows'
<1>0. /\ StorageRows /\ FlightTicks \in Nat /\ LeaseTicks \in Nat /\ GraceTicks \in Nat /\ ReserveTicks \in Nat
      /\ UNCHANGED <<used, objects, cleaner>>
  BY StorageAssumption DEF StorageInv, Tick
<1>1. ASSUME NEW f \in Files
      PROVE  /\ file'[f] \in FileRow /\ file'[f].status = file[f].status
             /\ file[f].left \in Int
             /\ file'[f].left = IF file[f].status = "reserved" THEN Down(file[f].left, -GraceTicks) ELSE file[f].left
  <2>1. file[f] \in FileRow /\ file'[f] = IF file[f].status = "reserved"
                                THEN [file[f] EXCEPT !.left = Down(file[f].left, -GraceTicks)] ELSE file[f]
    BY <1>0 DEF StorageRows, Tick
  <2>2. Down(file[f].left, -GraceTicks) \in -GraceTicks..ReserveTicks /\ file[f].left \in Int
    BY <1>0, <2>1 DEF FileRow, Down
  <2> QED  BY <2>1, <2>2 DEF FileRow
<1>2. ASSUME NEW f \in Files
      PROVE  /\ cleanup'[f] \in JobRow /\ cleanup'[f].queued = cleanup[f].queued
             /\ cleanup'[f].linked = cleanup[f].linked /\ cleanup'[f].token = cleanup[f].token
             /\ cleanup[f].wait \in Nat /\ cleanup'[f].wait = Down(cleanup[f].wait, 0)
             /\ orphan[f] \in Int /\ orphan'[f] = Down(orphan[f], -1) /\ orphan'[f] \in Int
  <2>1. /\ cleanup[f] \in JobRow
        /\ cleanup'[f] = [cleanup[f] EXCEPT !.wait = Down(cleanup[f].wait, 0), !.lease = Down(cleanup[f].lease, 0)]
    BY <1>0 DEF StorageRows, Tick
  <2>2. Down(cleanup[f].wait, 0) \in Nat /\ Down(cleanup[f].lease, 0) \in 0..LeaseTicks /\ cleanup[f].wait \in Nat
    BY <1>0, <2>1 DEF JobRow, Down
  <2>3. orphan[f] \in Int /\ orphan'[f] = Down(orphan[f], -1) /\ orphan'[f] \in Int
    <3>1. orphan \in [Files -> Int] /\ orphan' = [g \in Files |-> Down(orphan[g], -1)]
      BY <1>0 DEF StorageRows, Tick
    <3>2. \A n \in Int : Down(n, -1) \in Int
      BY DEF Down
    <3> QED  BY <3>1, <3>2
  <2> QED  BY <2>1, <2>2, <2>3 DEF JobRow
<1>3. ASSUME NEW p \in Writers
      PROVE  /\ writer'[p] \in WriterRow /\ writer'[p] = [writer[p] EXCEPT !.left = Down(writer[p].left, -1)]
             /\ writer'[p].pc = writer[p].pc /\ writer'[p].plan = writer[p].plan
             /\ writer'[p].made = writer[p].made /\ writer'[p].file = writer[p].file
             /\ writer'[p].source = writer[p].source
             /\ writer[p].left \in Int /\ writer'[p].left = Down(writer[p].left, -1)
  <2>1. writer[p] \in WriterRow /\ writer'[p] = [writer[p] EXCEPT !.left = Down(writer[p].left, -1)]
    BY <1>0 DEF StorageRows, Tick
  <2>2. Down(writer[p].left, -1) \in -1..FlightTicks /\ writer[p].left \in Int
    BY <1>0, <2>1 DEF WriterRow, Down
  <2> QED  BY <2>1, <2>2 DEF WriterRow
<1>4. ASSUME NEW v \in Revokers
      PROVE  /\ revoker'[v] \in RevokerRow /\ revoker'[v].pc = revoker[v].pc /\ revoker'[v].file = revoker[v].file
             /\ revoker[v].wait \in Nat /\ revoker'[v].wait = Down(revoker[v].wait, 0)
  <2>1. revoker[v] \in RevokerRow /\ revoker'[v] = [revoker[v] EXCEPT !.wait = Down(revoker[v].wait, 0)]
    BY <1>0 DEF StorageRows, Tick
  <2>2. Down(revoker[v].wait, 0) \in Nat /\ revoker[v].wait \in Nat
    BY <2>1 DEF RevokerRow, Down
  <2> QED  BY <2>1, <2>2 DEF RevokerRow
<1>5. StorageRows'
  <2>1. file' \in [Files -> FileRow] /\ cleanup' \in [Files -> JobRow] /\ orphan' \in [Files -> Int]
    BY <1>1, <1>2 DEF Tick
  <2>2. writer' \in [Writers -> WriterRow]
    BY <1>3 DEF Tick
  <2>3. revoker' \in [Revokers -> RevokerRow]
    BY <1>4 DEF Tick
  <2> QED  BY <1>0, <2>1, <2>2, <2>3 DEF StorageRows
<1> QED  BY <1>0, <1>1, <1>2, <1>3, <1>4, <1>5

LEMMA TickKeeps == ASSUME StorageInv, Tick PROVE StorageInv'
<1>1. /\ \A f \in Files : file'[f].status = file[f].status /\ cleanup'[f].queued = cleanup[f].queued
                          /\ cleanup'[f].linked = cleanup[f].linked
      /\ UNCHANGED <<used, objects, cleaner>> /\ StorageRows'
      /\ \A p \in Writers : /\ writer'[p].pc = writer[p].pc /\ writer'[p].plan = writer[p].plan
                            /\ writer'[p].made = writer[p].made /\ writer'[p].file = writer[p].file
      /\ \A v \in Revokers : revoker'[v].pc = revoker[v].pc /\ revoker'[v].file = revoker[v].file
  BY TickRows
<1>2. QuotaInv' /\ SoleWrite'
  BY <1>1, QuotaKeeps, SoleKeeps DEF StorageInv
<1>3. \A f \in Files : SoundFile(f)'
  BY <1>1 DEF StorageInv, SoundFile
<1>4. \A p \in Writers : SoundWriter(p)'
  <2> TAKE p \in Writers
  <2>1. SoundWriter(p) /\ writer[p] \in WriterRow
    BY DEF StorageInv, StorageRows
  <2>2. /\ \A t \in writer[p].plan : t[1] \in Files
        /\ \A f \in writer[p].made : f \in Files
    BY <2>1 DEF WriterRow
  <2> QED  BY <1>1, <2>1, <2>2 DEF SoundWriter
<1>5. \A v \in Revokers : SoundRevoker(v)'
  BY <1>1 DEF StorageInv, SoundRevoker
<1>6. \A c \in Cleaners : SoundCleaner(c)'
  BY <1>1 DEF StorageInv, SoundCleaner
<1> QED  BY <1>1, <1>2, <1>3, <1>4, <1>5, <1>6 DEF StorageInv

\* The steps of revocations and sweeps, and time.
LEMMA ServiceKeeps ==
    ASSUME StorageInv,
           \/ \E v \in Revokers : RevokerStep(v)
           \/ \E c \in Cleaners : CleanerStep(c)
           \/ \E f \in Files : ExpireReservation(f) \/ LandOrphan(f)
           \/ Tick
    PROVE  StorageInv'
<1>1. ASSUME NEW v \in Revokers, RevokerStep(v) PROVE StorageInv'
  BY <1>1, ReadFileKeeps, RevokeKeeps, EnqueueAgainKeeps DEF RevokerStep
<1>2. ASSUME NEW c \in Cleaners, CleanerStep(c) PROVE StorageInv'
  BY <1>2, ClaimCleanupKeeps, EraseObjectKeeps, EraseFailsKeeps, FinishEraseKeeps, CrashCleanerKeeps
     DEF CleanerStep
<1> QED  BY <1>1, <1>2, ExpireReservationKeeps, LandKeeps, TickKeeps

LEMMA StorageStarts == Init => StorageInv
<1> SUFFICES ASSUME Init PROVE StorageInv
  OBVIOUS
<1>1. StorageRows
  BY IdleRows DEF Init, StorageRows
<1>2. CountedFiles = {}
  BY DEF Init, CountedFiles, NoFile, Counted
<1>3. QuotaInv
  <2>1. IsFiniteSet({}) /\ Bytes({}) = 0
    BY BytesOf, FS_EmptySet
  <2>2. Bytes(CountedFiles) = 0
    BY <1>2, <2>1
  <2> QED  BY <1>2, <2>1, <2>2, StorageAssumption DEF Init, QuotaInv
<1>4. \A f \in Files : SoundFile(f)
  BY DEF Init, SoundFile, NoFile, NoCleanup
<1>5. \A p \in Writers : SoundWriter(p)
  BY DEF Init, SoundWriter, IdleWriter
<1>6. SoleWrite
  BY DEF Init, SoleWrite, IdleWriter
<1>7. \A v \in Revokers : SoundRevoker(v)
  BY DEF Init, SoundRevoker, IdleRevoker
<1>8. \A c \in Cleaners : SoundCleaner(c)
  BY DEF Init, SoundCleaner, IdleCleaner
<1> QED  BY <1>1, <1>3, <1>4, <1>5, <1>6, <1>7, <1>8 DEF StorageInv

-----------------------------------------------------------------------------
(* Sessions. *)

LEMMA SessionFacts ==
    ASSUME UploadsInv, NEW u \in Uploads, sess[u].status # "absent"
    PROVE  /\ sess[u].original \in Files /\ sess[u].staging \in Files /\ sess[u].original # sess[u].staging
           /\ Staged(sess[u].staging, sess[u].left) /\ sess[u].url <= sess[u].left
           /\ Outcome(sess[u].status, file[sess[u].original].status)
           /\ file[sess[u].staging].status \in Gone /\ file[sess[u].original].status # "absent"
           /\ sess[u].left \in 0..ReserveTicks /\ sess[u].url \in 0..UrlTicks /\ sess[u] \in SessionRow
BY DEF UploadsInv, SoundSession, Staged, Outcome, SessionRow

LEMMA FinalizerFacts ==
    ASSUME UploadsInv, NEW p \in Writers, writer[p].pc # "idle"
    PROVE  /\ hand[p] \in Uploads /\ sess[hand[p]].status = "verifying" /\ writer[p].made = {}
           /\ writer[p].pc # "reading" => writer[p].plan = {<<sess[hand[p]].original, None>>}
           /\ writer[p].pc = "writing" => writer[p].file = sess[hand[p]].original /\ writer[p].source = None
BY DEF UploadsInv, SoundFinalizer, IdleWriter

LEMMA NewFilesKeep ==
    ASSUME StorageInv, NEW u \in Uploads, NEW f \in Files, NEW g \in Files, InitiateUpload(u, f, g)
    PROVE  StorageInv'
<1>1. /\ StorageRows /\ QuotaInv /\ f # g /\ file[f].status = "absent" /\ file[g].status = "absent"
      /\ UNCHANGED <<objects, orphan, writer, revoker, cleaner>>
      /\ file' = [file EXCEPT ![f] = Reserved, ![g] = Revoked] /\ used' = used + Bytes({f, g})
      /\ used + Bytes({f, g}) <= MaxBytes
  BY DEF InitiateUpload, Fits, StorageInv
<1>2. PICK wait \in Nat : cleanup' = [cleanup EXCEPT ![g] = Enqueued(cleanup[g], wait, TRUE)]
  <2>1. Later(StagingWait(ReserveTicks), GraceTicks) \in Nat
    BY StorageAssumption, UploadAssumption DEF Later, StagingWait
  <2> QED  BY <1>1, <2>1 DEF InitiateUpload, StorageRows
<1> DEFINE j == Enqueued(cleanup[g], wait, TRUE)
<1>3. cleanup[g] \in JobRow /\ ~cleanup[g].queued
  BY <1>1 DEF StorageRows, StorageInv, SoundFile, Gone
<1>4. j \in JobRow /\ j.queued /\ j.linked
  BY <1>3, EnqueuedRow
<1> HIDE DEF j
<1>5. /\ file'[f] = Reserved /\ file'[g] = Revoked /\ cleanup'[g] = j
      /\ \A h \in Files : (h # f /\ h # g => file'[h] = file[h]) /\ (h # g => cleanup'[h] = cleanup[h])
  BY <1>1, <1>2 DEF StorageRows, j
<1>6. StorageRows'
  BY <1>1, <1>2, <1>4, IdleRows DEF StorageRows, j
<1>7. QuotaInv'
  <2>1. CountedFiles' = CountedFiles \cup {f, g} /\ CountedFiles \cap {f, g} = {}
    <3>1. f \notin CountedFiles /\ g \notin CountedFiles
      BY <1>1 DEF CountedFiles, Counted
    <3>2. \A h \in Files : file'[h].status \in Counted <=> file[h].status \in Counted \/ h \in {f, g}
      BY <1>5 DEF Counted, Reserved, Revoked
    <3>3. CountedFiles' = {h \in Files : file'[h].status \in Counted}
      BY DEF CountedFiles
    <3>4. CountedFiles' = CountedFiles \cup {f, g}
      BY <3>2, <3>3 DEF CountedFiles
    <3> QED  BY <3>1, <3>4
  <2>2. IsFiniteSet(CountedFiles) /\ CountedFiles \in SUBSET Files /\ IsFiniteSet({f, g})
    <3>1. IsFiniteSet({f}) /\ IsFiniteSet({f} \cup {g}) /\ {f, g} = {f} \cup {g}
      BY FS_Singleton, FS_AddElement
    <3> QED  BY <1>1, <3>1 DEF QuotaInv, CountedFiles
  <2>3. Bytes(CountedFiles \cup {f, g}) = Bytes(CountedFiles) + Bytes({f, g}) /\ IsFiniteSet(CountedFiles \cup {f, g})
    BY <2>1, <2>2, BytesUnion
  <2>4. Bytes(CountedFiles)' = Bytes(CountedFiles \cup {f, g})
    BY <2>1
  <2> QED  BY <1>1, <2>1, <2>3, <2>4 DEF QuotaInv
<1>8. \A h \in Files : SoundFile(h)'
  <2>1. SoundFile(f)'
    BY <1>1, <1>5 DEF SoundFile, Reserved, StorageInv, Gone
  <2>2. SoundFile(g)'
    BY <1>4, <1>5 DEF SoundFile, Revoked, Gone
  <2>3. \A h \in Files : h # f /\ h # g => SoundFile(h)'
    BY <1>1, <1>5 DEF SoundFile, StorageInv
  <2> QED  BY <2>1, <2>2, <2>3
<1>9. \A h \in Files : Onward(h)
  BY <1>1, <1>5 DEF Onward, Gone
<1>10. \A p \in Writers : writer'[p] = writer[p] /\ (writer[p].pc = "writing" => file'[writer[p].file].status = "reserved")
  BY <1>1, <1>5 DEF StorageInv, SoundWriter
<1>11. /\ \A p \in Writers : SoundWriter(p)'
       /\ \A v \in Revokers : SoundRevoker(v)'
       /\ \A c \in Cleaners : SoundCleaner(c)'
  BY <1>1, <1>9, <1>10, ActorsKeep
<1>12. SoleWrite'
  BY <1>1 DEF StorageInv, SoleWrite
<1> QED  BY <1>6, <1>7, <1>8, <1>11, <1>12 DEF StorageInv

LEMMA RefreshUploadKeeps == ASSUME StorageInv, UploadsInv, NEW u \in Uploads, RefreshUpload(u) PROVE StorageInv'
<1>1. PICK g : g = sess[u].staging
  OBVIOUS
<1>2. g \in Files /\ file[g].status \in Gone /\ sess[u].left \in Nat
  BY <1>1, SessionFacts DEF RefreshUpload
<1>3. PICK wait \in Nat : wait = StagingWait(sess[u].left)
  BY <1>2, UploadAssumption DEF StagingWait
<1>4. cleanup \in [Files -> JobRow] /\ cleanup[g] \in JobRow /\ revoker \in [Revokers -> RevokerRow]
      /\ cleaner \in [Cleaners -> CleanerRow]
  BY <1>2 DEF StorageInv, StorageRows
<1> DEFINE j == Enqueued(cleanup[g], wait, TRUE)
<1>5. j \in JobRow /\ j.queued /\ (cleanup[g].queued => j.linked = cleanup[g].linked)
  <2>1. j \in JobRow /\ j.queued /\ j.linked = IF cleanup[g].queued THEN cleanup[g].linked ELSE TRUE
    BY <1>4, EnqueuedRow
  <2> QED  BY <2>1
<1> HIDE DEF j
<1>6. cleanup' = [cleanup EXCEPT ![g] = j]
  BY <1>1, <1>2, <1>3, <1>4 DEF RefreshUpload, j
<1>7. UNCHANGED <<file, used, objects, orphan, writer, revoker, cleaner>>
  BY DEF RefreshUpload
<1> QED  BY <1>2, <1>4, <1>5, <1>6, <1>7, OutboxKeeps

LEMMA ClientPutKeeps == ASSUME StorageInv, UploadsInv, NEW u \in Uploads, ClientPut(u) PROVE StorageInv'
<1>1. PICK g : g = sess[u].staging
  OBVIOUS
<1>2. g \in Files
  BY <1>1, SessionFacts DEF ClientPut, UploadsInv, SoundSession, NoSession
<1>3. orphan \in [Files -> Int] /\ orphan' = [orphan EXCEPT ![g] = Later(orphan[g], UploadTicks)]
      /\ UNCHANGED <<file, used, cleanup, objects, writer, revoker, cleaner>>
  BY <1>1, <1>2 DEF ClientPut, StorageInv, StorageRows
<1>4. Later(orphan[g], UploadTicks) \in Int
  BY <1>2, <1>3, UploadAssumption DEF Later
<1>5. StorageRows' /\ SoleWrite'
  BY <1>3, <1>4 DEF StorageInv, StorageRows, SoleWrite
<1> QED  BY <1>3, <1>5, LocalKeeps

\* A request takes up or puts down a session.
LEMMA HandKeeps ==
    ASSUME StorageInv, NEW p \in Writers, NEW r \in WriterRow, r.pc # "writing", r.made = {},
           \A t \in r.plan : file[t[1]].status # "absent",
           writer' = [writer EXCEPT ![p] = r], UNCHANGED <<storage, revoker, cleaner>>
    PROVE  StorageInv'
<1>1. writer \in [Writers -> WriterRow] /\ writer'[p] = r /\ \A q \in Writers : q # p => writer'[q] = writer[q]
  BY DEF StorageInv, StorageRows
<1>2. SoundWriter(p)'
  BY <1>1 DEF SoundWriter, storage
<1>3. StorageRows'
  BY <1>1 DEF StorageInv, StorageRows, storage
<1>4. SoleWrite'
  BY <1>1, SoleKeeps
<1>5. \A q \in Writers : SoundWriter(q)' \/ writer'[q] = writer[q]
  <2> TAKE q \in Writers
  <2>1. ASSUME q = p PROVE SoundWriter(q)'
    BY <1>2, <2>1
  <2>2. CASE q # p
    BY <1>1, <2>2
  <2> QED  BY <2>1, <2>2
<1> QED  BY <1>3, <1>4, <1>5, LocalKeeps DEF storage

LEMMA ClaimUploadKeeps ==
    ASSUME StorageInv, UploadsInv, NEW p \in Writers, NEW u \in Uploads, ClaimUpload(p, u) PROVE StorageInv'
<1>1. writer[p] = IdleWriter
  BY DEF ClaimUpload, UploadsInv, SoundFinalizer
<1>2. PICK r : r = [IdleWriter EXCEPT !.pc = "reading"]
  OBVIOUS
<1>3. writer' = [writer EXCEPT ![p] = r] /\ UNCHANGED <<storage, revoker, cleaner>>
  BY <1>1, <1>2 DEF ClaimUpload, StorageInv, StorageRows
<1>4. r \in WriterRow /\ r.pc = "reading" /\ r.made = {} /\ r.plan = {}
  BY <1>2, IdleRows DEF IdleWriter, WriterRow
<1> QED  BY <1>3, <1>4, HandKeeps

LEMMA VerifyStagingKeeps == ASSUME StorageInv, UploadsInv, NEW p \in Writers, VerifyStaging(p) PROVE StorageInv'
<1>1. PICK f : f = sess[hand[p]].original
  OBVIOUS
<1>2. /\ f \in Files /\ file[f].status # "absent" /\ writer[p].made = {} /\ writer[p] \in WriterRow
      /\ writer \in [Writers -> WriterRow]
  <2>1. hand[p] \in Uploads /\ sess[hand[p]].status = "verifying" /\ writer[p].made = {}
    BY FinalizerFacts DEF VerifyStaging
  <2> QED  BY <1>1, <2>1, SessionFacts DEF StorageInv, StorageRows
<1>3. PICK r : r = [writer[p] EXCEPT !.pc = "reserved", !.plan = {<<f, None>>}]
  OBVIOUS
<1>4. writer' = [writer EXCEPT ![p] = r] /\ UNCHANGED <<storage, revoker, cleaner>>
  BY <1>1, <1>2, <1>3 DEF VerifyStaging
<1>5. r \in WriterRow /\ r.pc = "reserved" /\ r.made = {} /\ r.plan = {<<f, None>>}
  <2>1. {<<f, None>>} \in SUBSET (Files \X (Files \cup {None}))
    BY <1>2
  <2> QED  BY <1>2, <1>3, <2>1 DEF WriterRow
<1>6. \A t \in r.plan : file[t[1]].status # "absent"
  BY <1>2, <1>5
<1> QED  BY <1>4, <1>5, <1>6, HandKeeps

LEMMA RejectStagingKeeps == ASSUME StorageInv, NEW p \in Writers, RejectStaging(p) PROVE StorageInv'
<1>1. IdleWriter.pc = "idle" /\ IdleWriter.made = {} /\ IdleWriter.plan = {}
  BY DEF IdleWriter
<1> QED  BY <1>1, IdleRows, HandKeeps DEF RejectStaging

LEMMA AbortUploadKeeps == ASSUME StorageInv, UploadsInv, NEW u \in Uploads, AbortUpload(u) PROVE StorageInv'
<1> DEFINE kept == file[sess[u].original].status \notin Counted
<1>0. PICK f, g : f = sess[u].original /\ g = sess[u].staging
  OBVIOUS
<1>1. /\ f \in Files /\ g \in Files /\ f # g /\ file[g].status \in Gone /\ file[f].status # "absent"
      /\ sess[u].left \in Nat /\ ~Locked(f)
      /\ UNCHANGED <<used, objects, orphan, writer, revoker, cleaner>>
  BY <1>0, SessionFacts DEF AbortUpload
<1>2. StorageRows /\ SoleWrite /\ \A h \in Files : SoundFile(h) /\ file[h] \in FileRow /\ cleanup[h] \in JobRow
  BY DEF StorageInv, StorageRows
<1>3. PICK w1 \in Nat, w2 \in Nat : w1 = SettleTicks(file[f].status) /\ w2 = StagingWait(sess[u].left)
  BY <1>1, SettleNat, UploadAssumption DEF StagingWait
<1>4. PICK i, j, k : /\ i = Enqueued(cleanup[g], w2, FALSE) /\ j = Enqueued(cleanup[f], w1, TRUE)
                     /\ k = IF file[f].status \in Counted THEN Revoked ELSE file[f]
  OBVIOUS
<1>5. i \in JobRow /\ i.queued /\ (cleanup[g].queued => i.linked = cleanup[g].linked)
  <2> DEFINE e == Enqueued(cleanup[g], w2, FALSE)
  <2>1. e \in JobRow /\ e.queued /\ e.linked = IF cleanup[g].queued THEN cleanup[g].linked ELSE FALSE
    BY <1>1, <1>2, EnqueuedRow
  <2> HIDE DEF e
  <2>2. i = e
    BY <1>4 DEF e
  <2> QED  BY <2>1, <2>2
<1>6. j \in JobRow /\ j.queued /\ (file[f].status \in Counted => j.linked)
  <2> DEFINE e == Enqueued(cleanup[f], w1, TRUE)
  <2>1. e \in JobRow /\ e.queued /\ e.linked = IF cleanup[f].queued THEN cleanup[f].linked ELSE TRUE
    BY <1>1, <1>2, EnqueuedRow
  <2> HIDE DEF e
  <2>2. j = e
    BY <1>4 DEF e
  <2>3. file[f].status \in Counted /\ cleanup[f].queued => cleanup[f].linked
    BY <1>1, <1>2 DEF SoundFile, Gone, Counted
  <2> QED  BY <2>1, <2>2, <2>3
<1>7. k \in FileRow /\ k.status \in Gone /\ (file[f].status \in Counted => k.status = "delete_pending")
      /\ (file[f].status \notin Counted => k = file[f] /\ k.status = "deleted")
  BY <1>1, <1>2, <1>4, IdleRows DEF Revoked, Gone, Counted, FileRow
<1>8. /\ file' = [file EXCEPT ![f] = k]
      /\ cleanup' = [cleanup EXCEPT ![f] = IF file[f].status \in Counted THEN j ELSE cleanup[f], ![g] = i]
  <2>1. file' = [file EXCEPT ![f] = k]
    BY <1>0, <1>1, <1>2, <1>4 DEF AbortUpload, StorageRows
  <2>2. CASE file[f].status \in Counted
    <3>1. cleanup' = [[cleanup EXCEPT ![f] = j] EXCEPT ![g] = Enqueued([cleanup EXCEPT ![f] = j][g], w2, FALSE)]
      BY <1>0, <1>1, <1>2, <1>3, <1>4, <2>2 DEF AbortUpload, StorageRows
    <3>2. [cleanup EXCEPT ![f] = j][g] = cleanup[g]
      BY <1>1, <1>2 DEF StorageRows
    <3> QED  BY <1>1, <1>2, <1>4, <2>1, <2>2, <3>1, <3>2 DEF StorageRows
  <2>3. CASE file[f].status \notin Counted
    <3>1. cleanup' = [cleanup EXCEPT ![g] = i]
      BY <1>0, <1>1, <1>2, <1>3, <1>4, <2>3 DEF AbortUpload, StorageRows
    <3> QED  BY <1>1, <1>2, <2>1, <2>3, <3>1 DEF StorageRows
  <2> QED  BY <2>2, <2>3
<1>9. /\ file'[f] = k /\ cleanup'[g] = i /\ cleanup'[f] = IF file[f].status \in Counted THEN j ELSE cleanup[f]
      /\ \A h \in Files : (h # f => file'[h] = file[h]) /\ (h # f /\ h # g => cleanup'[h] = cleanup[h])
  BY <1>1, <1>2, <1>8 DEF StorageRows
<1>10. StorageRows'
  BY <1>1, <1>2, <1>5, <1>6, <1>7, <1>8 DEF StorageRows
<1>11. QuotaInv'
  <2>1. \A h \in Files : file'[h].status \in Counted <=> file[h].status \in Counted
    BY <1>7, <1>9 DEF Counted
  <2> QED  BY <1>1, <2>1, QuotaKeeps DEF StorageInv
<1>12. \A h \in Files : SoundFile(h)' /\ Onward(h)
  <2>1. SoundFile(f)' /\ Onward(f)
    BY <1>1, <1>2, <1>6, <1>7, <1>9 DEF SoundFile, Onward, Gone, Counted
  <2>2. SoundFile(g)' /\ Onward(g)
    BY <1>1, <1>2, <1>5, <1>9 DEF SoundFile, Onward, Gone
  <2>3. \A h \in Files : h # f /\ h # g => SoundFile(h)' /\ Onward(h)
    BY <1>1, <1>2, <1>9 DEF SoundFile, Onward
  <2> QED  BY <2>1, <2>2, <2>3
<1>13. \A p \in Writers : writer'[p] = writer[p] /\ (writer[p].pc = "writing" => file'[writer[p].file].status = "reserved")
  BY <1>1, <1>9 DEF StorageInv, SoundWriter, Locked
<1>14. /\ \A p \in Writers : SoundWriter(p)'
       /\ \A v \in Revokers : SoundRevoker(v)'
       /\ \A c \in Cleaners : SoundCleaner(c)'
  BY <1>1, <1>12, <1>13, ActorsKeep
<1>15. SoleWrite'
  BY <1>1, <1>2 DEF SoleWrite
<1> QED  BY <1>10, <1>11, <1>12, <1>14, <1>15 DEF StorageInv

LEMMA UploadStorageKeeps == ASSUME StorageInv, UploadsInv, UploadNext PROVE StorageInv'
<1>1. ASSUME NEW p \in Writers, FinalizerStep(p) PROVE StorageInv'
  BY <1>1, ClaimUploadKeeps, VerifyStagingKeeps, RejectStagingKeeps, BeginWriteKeeps, FinishWriteKeeps,
     RefuseWriteKeeps, GiveUpKeeps
     DEF FinalizerStep, SealOriginal, CompleteUpload, FailSeal, CrashFinalizer
<1> QED  BY <1>1, NewFilesKeep, RefreshUploadKeeps, ClientPutKeeps, AbortUploadKeeps, ServiceKeeps
            DEF UploadNext, UploadTick

\* A file keeps what is known of its bytes over a step that at most queues it again.
LEMMA TimedKeeps ==
    ASSUME StorageInv, NEW g \in Files, Timed(g), file'[g].status = file[g].status,
           orphan'[g] = orphan[g], g \in objects' => g \in objects \/ orphan[g] >= 0,
           \A c \in Cleaners : cleaner'[c].pc = "erased" /\ cleaner'[c].key = g =>
                               g \notin objects' \/ (cleaner[c].pc = "erased" /\ cleaner[c].key = g),
           cleanup'[g] = cleanup[g] \/ \E n \in Nat, l \in BOOLEAN : cleanup'[g] = Enqueued(cleanup[g], n, l)
    PROVE  /\ Timed(g)' /\ (file[g].status = "delete_pending" => cleanup'[g].token = cleanup[g].token)
           /\ cleanup'[g].wait \in Nat /\ cleanup[g].wait \in Nat
           /\ file[g].status = "delete_pending" => cleanup'[g].wait >= cleanup[g].wait
<1>1. /\ cleanup[g] \in JobRow /\ SoundFile(g) /\ orphan[g] \in Int /\ cleanup[g].wait \in Nat
  BY DEF StorageInv, StorageRows, JobRow
<1>2. /\ cleanup'[g].wait \in Nat /\ (cleanup[g].queued => cleanup'[g].wait >= cleanup[g].wait)
      /\ cleanup[g].queued => cleanup'[g].token = cleanup[g].token
      /\ cleanup'[g].token # cleanup[g].token => cleanup'[g].token = None
      /\ cleanup'[g].queued /\ cleanup'[g].token # None => cleanup[g].queued
  <2>1. CASE cleanup'[g] = cleanup[g]
    BY <1>1, <2>1
  <2>2. ASSUME NEW n \in Nat, NEW l \in BOOLEAN, cleanup'[g] = Enqueued(cleanup[g], n, l)
        PROVE  <1>2!1 /\ <1>2!2 /\ <1>2!3 /\ <1>2!4
    <3> DEFINE e == Enqueued(cleanup[g], n, l)
    <3>1. /\ e \in JobRow /\ e.queued /\ (cleanup[g].queued => e.wait >= cleanup[g].wait)
          /\ e.token = IF cleanup[g].queued THEN cleanup[g].token ELSE None
      BY <1>1, EnqueuedRow
    <3>2. e.wait \in Nat
      BY <3>1 DEF JobRow
    <3> HIDE DEF e
    <3>3. cleanup'[g] = e
      BY <2>2 DEF e
    <3> QED  BY <1>1, <3>1, <3>2, <3>3
  <2> QED  BY <2>1, <2>2
<1>3. file[g].status = "delete_pending" => cleanup[g].queued
  BY <1>1 DEF SoundFile
<1>4. \A c \in Cleaners : cleaner'[c].pc = "erased" /\ cleaner'[c].key = g /\ OwnsCleanup(c)' => g \notin objects'
  <2> SUFFICES ASSUME NEW c \in Cleaners, cleaner'[c].pc = "erased", cleaner'[c].key = g, OwnsCleanup(c)',
                      g \in objects'
               PROVE  FALSE
    OBVIOUS
  <2>1. cleanup'[g].queued /\ cleanup'[g].token = c /\ c # None
    BY StorageAssumption DEF OwnsCleanup
  <2>2. cleanup[g].queued /\ cleanup[g].token = c /\ cleaner[c].pc = "erased" /\ cleaner[c].key = g
    BY <1>2, <2>1
  <2>3. OwnsCleanup(c) /\ orphan[g] < 0
    BY <2>1, <2>2 DEF OwnsCleanup, Timed
  <2>4. g \notin objects
    BY <2>2, <2>3 DEF Timed
  <2> QED  BY <1>1, <2>3, <2>4
<1>5. /\ file'[g].status = "absent" => orphan'[g] < 0 /\ g \notin objects'
      /\ file'[g].status = "delete_pending" => orphan'[g] < cleanup'[g].wait \/ orphan'[g] < 0
      /\ cleanup'[g].queued /\ cleanup'[g].token # None => orphan'[g] < 0
      /\ file'[g].status = "deleted" => orphan'[g] < 0 /\ g \notin objects'
  BY <1>1, <1>2, <1>3 DEF Timed
<1> QED  BY <1>1, <1>2, <1>3, <1>4, <1>5 DEF Timed

LEMMA StagedKeeps ==
    ASSUME StorageInv, NEW g \in Files, NEW left \in Nat, Staged(g, left), file'[g].status = file[g].status,
           orphan'[g] = orphan[g], g \in objects' => g \in objects \/ orphan[g] >= 0,
           \A c \in Cleaners : cleaner'[c].pc = "erased" /\ cleaner'[c].key = g =>
                               g \notin objects' \/ (cleaner[c].pc = "erased" /\ cleaner[c].key = g),
           cleanup'[g] = cleanup[g] \/ \E n \in Nat, l \in BOOLEAN : cleanup'[g] = Enqueued(cleanup[g], n, l)
    PROVE  Staged(g, left)'
<1>1. Timed(g)
  BY DEF Staged
<1>2. /\ Timed(g)' /\ (file[g].status = "delete_pending" => cleanup'[g].token = cleanup[g].token)
      /\ cleanup'[g].wait \in Nat /\ cleanup[g].wait \in Nat
      /\ file[g].status = "delete_pending" => cleanup'[g].wait >= cleanup[g].wait
  BY <1>1, TimedKeeps
<1> QED  BY <1>2, UploadAssumption DEF Staged

\* A claim, a failed erasure and a confirmed one.
LEMMA ClaimTimed ==
    ASSUME StorageInv, NEW c \in Cleaners, NEW f \in Files, NEW lease, ClaimCleanup(c, f, lease), Timed(f)
    PROVE  Timed(f)'
<1>1. /\ cleanup[f] \in JobRow /\ cleanup \in [Files -> JobRow] /\ cleaner \in [Cleaners -> CleanerRow] /\ SoundFile(f)
      /\ cleanup[f].queued /\ cleanup[f].wait = 0 /\ UNCHANGED <<file, objects, orphan>>
      /\ orphan[f] \in Int
  BY DEF StorageInv, StorageRows, ClaimCleanup
<1>2. /\ cleanup'[f].token = c /\ cleaner'[c].pc = "erase" /\ \A d \in Cleaners : d # c => cleaner'[d] = cleaner[d]
  BY <1>1 DEF ClaimCleanup, JobRow
<1>3. orphan[f] < 0
  BY <1>1 DEF Timed, SoundFile, Gone
<1>4. \A d \in Cleaners : ~(cleaner'[d].pc = "erased" /\ cleaner'[d].key = f /\ OwnsCleanup(d)')
  BY <1>2 DEF OwnsCleanup
<1> QED  BY <1>1, <1>3, <1>4 DEF Timed

LEMMA EraseTimed == ASSUME StorageInv, NEW c \in Cleaners, EraseObject(c), NEW g \in Files, Timed(g) PROVE Timed(g)'
<1>1. /\ cleaner \in [Cleaners -> CleanerRow] /\ UNCHANGED <<file, cleanup, orphan>>
      /\ objects' = objects \ {cleaner[c].key} /\ cleaner[c] \in CleanerRow
  BY DEF StorageInv, StorageRows, EraseObject
<1>2. cleaner'[c].key = cleaner[c].key /\ \A d \in Cleaners : d # c => cleaner'[d] = cleaner[d]
  BY <1>1 DEF EraseObject, CleanerRow
<1>3. \A d \in Cleaners : cleaner'[d].pc = "erased" /\ cleaner'[d].key = g =>
                          g \notin objects' \/ (cleaner[d].pc = "erased" /\ cleaner[d].key = g)
  BY <1>1, <1>2
<1> QED  BY <1>1, <1>3, TimedKeeps

\* The claim that fails or finishes is the row's own: it gives up its token.
LEMMA ReleasedTimed ==
    ASSUME StorageInv, NEW c \in Cleaners, NEW f \in Files, Timed(f), cleanup[f].queued, cleanup[f].token = c,
           cleanup'[f].token = None, objects' \subseteq objects, orphan'[f] = orphan[f],
           \/ file'[f].status = file[f].status
           \/ file'[f].status = "deleted" /\ f \notin objects'
    PROVE  Timed(f)'
<1>1. orphan[f] < 0 /\ c # None
  BY StorageAssumption DEF Timed
<1>2. \A d \in Cleaners : cleaner'[d].key = f => ~OwnsCleanup(d)'
  BY StorageAssumption DEF OwnsCleanup
<1> QED  BY <1>1, <1>2 DEF Timed

\* Revocations and sweeps.
LEMMA RevokerTimed ==
    ASSUME StorageInv, NEW v \in Revokers, RevokerStep(v), NEW g \in Files, Timed(g)
    PROVE  /\ file'[g].status = file[g].status => Timed(g)'
           /\ file'[g].status # file[g].status => file[g].status \in {"reserved", "ready"}
                                                  /\ file'[g].status = "delete_pending"
           /\ cleanup'[g] = cleanup[g] \/ \E n \in Nat, l \in BOOLEAN : cleanup'[g] = Enqueued(cleanup[g], n, l)
           /\ UNCHANGED <<objects, orphan, writer, cleaner>>
<1>1. /\ file \in [Files -> FileRow] /\ cleanup \in [Files -> JobRow] /\ UNCHANGED <<objects, orphan, writer, cleaner>>
      /\ revoker[v] \in RevokerRow
  BY DEF StorageInv, StorageRows, RevokerStep, ReadFile, Revoke, EnqueueAgain, storage
<1>2. revoker[v].wait \in Nat
  BY <1>1 DEF RevokerRow
<1>3. cleanup'[g] = cleanup[g] \/ cleanup'[g] = Enqueued(cleanup[g], revoker[v].wait, TRUE)
  BY <1>1 DEF RevokerStep, ReadFile, Revoke, EnqueueAgain, storage
<1>4. file'[g].status # file[g].status => file[g].status \in {"reserved", "ready"} /\ file'[g].status = "delete_pending"
  <2>1. CASE file' = file
    BY <2>1
  <2>2. CASE /\ file[revoker[v].file].status \in {"reserved", "ready"}
             /\ file' = [file EXCEPT ![revoker[v].file] = Revoked]
    <3>1. CASE g = revoker[v].file
      BY <1>1, <2>2, <3>1 DEF Revoked
    <3>2. CASE g # revoker[v].file
      BY <1>1, <2>2, <3>2
    <3> QED  BY <3>1, <3>2
  <2> QED  BY <2>1, <2>2 DEF RevokerStep, ReadFile, Revoke, EnqueueAgain, storage
<1>5. cleanup'[g] = cleanup[g] \/ \E n \in Nat, l \in BOOLEAN : cleanup'[g] = Enqueued(cleanup[g], n, l)
  BY <1>2, <1>3
<1>6. ASSUME file'[g].status = file[g].status PROVE Timed(g)'
  <2>1. \A c \in Cleaners : cleaner'[c].pc = "erased" /\ cleaner'[c].key = g =>
                          g \notin objects' \/ (cleaner[c].pc = "erased" /\ cleaner[c].key = g)
    BY <1>1
  <2> QED  BY <1>1, <1>5, <1>6, <2>1, TimedKeeps
<1> QED  BY <1>1, <1>4, <1>5, <1>6

LEMMA CleanerTimed ==
    ASSUME StorageInv, NEW c \in Cleaners, CleanerStep(c), NEW g \in Files, Timed(g)
    PROVE  /\ Timed(g)'
           /\ \/ file'[g].status = file[g].status
              \/ file[g].status = "delete_pending" /\ file'[g].status = "deleted"
           /\ cleanup'[g] # cleanup[g] => cleanup[g].queued /\ (cleanup[g].wait = 0 \/ cleanup[g].token # None)
           /\ file'[g] # file[g] => cleanup[g].token # None
           /\ UNCHANGED <<orphan, writer>> /\ objects' \subseteq objects
<1>1. /\ file \in [Files -> FileRow] /\ cleanup \in [Files -> JobRow] /\ UNCHANGED <<orphan, writer>>
      /\ objects' \subseteq objects /\ SoundCleaner(c) /\ cleaner \in [Cleaners -> CleanerRow]
  <2>1. UNCHANGED <<orphan, writer>> /\ objects' \subseteq objects
    BY DEF CleanerStep, ClaimCleanup, EraseObject, EraseFails, FinishErase, CrashCleaner, storage
  <2> QED  BY <2>1 DEF StorageInv, StorageRows
<1>2. PICK f : f = cleaner[c].key
  OBVIOUS
<1>3. ASSUME NEW h \in Files, NEW lease, ClaimCleanup(c, h, lease)
      PROVE  /\ Timed(g)' /\ file'[g] = file[g]
             /\ cleanup'[g] # cleanup[g] => cleanup[g].queued /\ cleanup[g].wait = 0
  <2>1. CASE g = h
    <3>1. Timed(g)'
      BY <1>3, <2>1, ClaimTimed
    <3> QED  BY <1>3, <2>1, <3>1 DEF ClaimCleanup
  <2>2. CASE g # h
    <3>1. cleanup'[g] = cleanup[g] /\ UNCHANGED <<file, objects, orphan>>
      BY <1>1, <1>3, <2>2 DEF ClaimCleanup
    <3>2. \A d \in Cleaners : cleaner'[d].pc = "erased" => cleaner'[d] = cleaner[d]
      BY <1>1, <1>3 DEF ClaimCleanup
    <3> QED  BY <3>1, <3>2, TimedKeeps
  <2> QED  BY <2>1, <2>2
<1>4. ASSUME EraseObject(c) PROVE Timed(g)' /\ file'[g] = file[g] /\ cleanup'[g] = cleanup[g]
  BY <1>4, EraseTimed DEF EraseObject
<1>5. ASSUME \E wait \in 0..RetryTicks, kept \in BOOLEAN : EraseFails(c, wait, kept)
      PROVE  /\ Timed(g)' /\ file'[g] = file[g]
             /\ cleanup'[g] # cleanup[g] => cleanup[g].queued /\ cleanup[g].token # None
  <2>1. PICK wait, kept : EraseFails(c, wait, kept)
    BY <1>5
  <2>2. file' = file /\ \A d \in Cleaners : cleaner'[d].pc = "erased" => cleaner'[d] = cleaner[d]
    BY <1>1, <2>1 DEF EraseFails, IdleCleaner
  <2>3. CASE g = f /\ OwnsCleanup(c)
    <3>1. cleanup'[g].token = None /\ cleanup[g].queued /\ cleanup[g].token = c
      BY <1>1, <1>2, <2>1, <2>3 DEF EraseFails, OwnsCleanup, Retried, JobRow
    <3>2. Timed(g)'
      BY <1>1, <2>2, <3>1, ReleasedTimed
    <3> QED  BY <2>2, <3>1, <3>2, StorageAssumption
  <2>4. CASE ~(g = f /\ OwnsCleanup(c))
    <3>1. cleanup'[g] = cleanup[g]
      BY <1>1, <1>2, <2>1, <2>4 DEF EraseFails
    <3> QED  BY <1>1, <2>2, <3>1, TimedKeeps
  <2> QED  BY <2>3, <2>4
<1>6. ASSUME FinishErase(c)
      PROVE  /\ Timed(g)'
             /\ \/ file'[g].status = file[g].status
                \/ file[g].status = "delete_pending" /\ file'[g].status = "deleted"
             /\ cleanup'[g] # cleanup[g] => cleanup[g].queued /\ cleanup[g].token # None
             /\ file'[g] # file[g] => cleanup[g].token # None
  <2>1. \A d \in Cleaners : cleaner'[d].pc = "erased" => cleaner'[d] = cleaner[d]
    BY <1>1, <1>6 DEF FinishErase, IdleCleaner
  <2>2. CASE g = f /\ OwnsCleanup(c)
    <3>1. cleanup' = [cleanup EXCEPT ![g] = NoCleanup] /\ objects' = objects
      BY <1>2, <1>6, <2>2 DEF FinishErase
    <3>2. cleanup'[g].token = None /\ cleanup[g].queued /\ cleanup[g].token = c
      BY <1>1, <1>2, <2>2, <3>1 DEF OwnsCleanup, NoCleanup
    <3>3. g \notin objects
      BY <1>2, <1>6, <2>2 DEF FinishErase, Timed
    <3>4. \/ file' = file
          \/ file[g].status = "delete_pending" /\ file' = [file EXCEPT ![g].status = "deleted"]
      BY <1>2, <1>6, <2>2 DEF FinishErase, Releases
    <3>5. \/ file'[g].status = file[g].status
          \/ file[g].status = "delete_pending" /\ file'[g].status = "deleted"
      BY <1>1, <3>4 DEF FileRow
    <3>6. Timed(g)'
      BY <1>1, <3>1, <3>2, <3>3, <3>5, ReleasedTimed
    <3> QED  BY <3>2, <3>5, <3>6, StorageAssumption
  <2>3. CASE ~(g = f /\ OwnsCleanup(c))
    <3>1. cleanup'[g] = cleanup[g] /\ file'[g] = file[g] /\ objects' = objects
      BY <1>1, <1>2, <1>6, <2>3 DEF FinishErase
    <3> QED  BY <1>1, <2>1, <3>1, TimedKeeps
  <2> QED  BY <2>2, <2>3
<1>7. ASSUME CrashCleaner(c) PROVE Timed(g)' /\ file'[g] = file[g] /\ cleanup'[g] = cleanup[g]
  <2>1. UNCHANGED <<file, cleanup, objects>> /\ \A d \in Cleaners : cleaner'[d].pc = "erased" => cleaner'[d] = cleaner[d]
    BY <1>1, <1>7 DEF CrashCleaner, storage, IdleCleaner
  <2> QED  BY <1>1, <2>1, TimedKeeps
<1>8. CASE \E h \in Files, lease \in 0..LeaseTicks : ClaimCleanup(c, h, lease)
  BY <1>1, <1>3, <1>8
<1>9. CASE EraseObject(c)
  BY <1>1, <1>4, <1>9
<1>10. CASE \E wait \in 0..RetryTicks, kept \in BOOLEAN : EraseFails(c, wait, kept)
  BY <1>1, <1>5, <1>10
<1>11. CASE FinishErase(c)
  BY <1>1, <1>6, <1>11
<1>12. CASE CrashCleaner(c)
  BY <1>1, <1>7, <1>12
<1> QED  BY <1>8, <1>9, <1>10, <1>11, <1>12 DEF CleanerStep

LEMMA TickTimed ==
    ASSUME StorageInv, Tick, NEW g \in Files, Timed(g), NEW left \in Nat, Staged(g, left) \/ left = 0
    PROVE  Timed(g)' /\ (Staged(g, left) => Staged(g, Down(left, 0))')
<1>1. /\ file'[g].status = file[g].status /\ cleanup'[g].queued = cleanup[g].queued
      /\ cleanup'[g].token = cleanup[g].token /\ cleanup[g].wait \in Nat /\ cleanup'[g].wait = Down(cleanup[g].wait, 0)
      /\ orphan[g] \in Int /\ orphan'[g] = Down(orphan[g], -1) /\ UNCHANGED <<objects, cleaner>>
  BY TickRows
<1>2. \A c \in Cleaners : cleaner'[c].key = g /\ OwnsCleanup(c)' => OwnsCleanup(c)
  BY <1>1 DEF OwnsCleanup
<1>3. orphan[g] < 0 => orphan'[g] < 0
  BY <1>1 DEF Down
<1>4. orphan[g] < cleanup[g].wait => orphan'[g] < cleanup'[g].wait \/ orphan'[g] < 0
  BY <1>1 DEF Down
<1>5. Timed(g)'
  BY <1>1, <1>2, <1>3, <1>4 DEF Timed
<1>6. ASSUME Staged(g, left) PROVE Staged(g, Down(left, 0))'
  <2>1. Down(left, 0) > 0 => left > 0 /\ (cleanup[g].wait >= left + StagingTicks =>
                                          cleanup'[g].wait >= Down(left, 0) + StagingTicks)
    BY <1>1, UploadAssumption DEF Down
  <2> QED  BY <1>1, <1>5, <1>6, <2>1 DEF Staged
<1> QED  BY <1>5, <1>6

\* Files that become public become so through the request that wrote them.
Aging(f) == \/ file'[f].status = file[f].status
            \/ file[f].status # "absent" /\ file'[f].status \in Gone

\* A step that changes no session but its clock: none of them turns out otherwise.
LEMMA SessionKeeps ==
    ASSUME StorageInv, UploadsInv, NEW u \in Uploads,
           sess[u].status = "absent" => sess'[u] = NoSession,
           sess[u].status # "absent" =>
               /\ sess'[u].status = sess[u].status /\ sess'[u].original = sess[u].original
               /\ sess'[u].staging = sess[u].staging /\ sess'[u].url <= sess'[u].left
               /\ Aging(sess[u].original)
               /\ Staged(sess[u].staging, sess[u].left)'
    PROVE  SoundSession(u)'
<1>1. CASE sess[u].status = "absent"
  BY <1>1 DEF SoundSession, NoSession
<1>2. CASE sess[u].status # "absent"
  <2>1. /\ sess[u].original \in Files /\ sess[u].staging \in Files /\ sess[u].original # sess[u].staging
        /\ Outcome(sess[u].status, file[sess[u].original].status)
    BY <1>2, SessionFacts
  <2>2. Outcome(sess'[u].status, file'[sess'[u].original].status)
    BY <1>2, <2>1 DEF Outcome, Aging, Gone
  <2> QED  BY <1>2, <2>1, <2>2 DEF SoundSession, Outcome
<1> QED  BY <1>1, <1>2

\* Steps of the storage service: sessions stay.
LEMMA ServiceUploads ==
    ASSUME StorageInv, UploadsInv, UNCHANGED <<sess, hand, writer>>,
           \A f \in Files : Aging(f),
           \A f \in Files : orphan'[f] = orphan[f],
           \A u \in Uploads : sess[u].status # "absent" => Staged(sess[u].staging, sess[u].left)'
    PROVE  UploadsInv'
<1>1. \A u \in Uploads : SoundSession(u)'
  <2> TAKE u \in Uploads
  <2>1. sess[u].status # "absent" => Aging(sess[u].original) /\ sess[u].url <= sess[u].left
    BY SessionFacts
  <2>2. sess[u].status = "absent" => sess'[u] = NoSession
    BY DEF UploadsInv, SoundSession
  <2> QED  BY <2>1, <2>2, SessionKeeps
<1>2. \A p \in Writers : SoundFinalizer(p)'
  BY DEF UploadsInv, SoundFinalizer
<1>3. \A f \in Files : file'[f].status = "absent" => orphan'[f] < 0
  BY DEF UploadsInv, Aging, Gone
<1> QED  BY <1>1, <1>2, <1>3 DEF UploadsInv, SoleOriginal, SoleHand

LEMMA RevokerUploads ==
    ASSUME StorageInv, UploadsInv, NEW v \in Revokers, RevokerStep(v), UNCHANGED <<sess, hand>>
    PROVE  UploadsInv'
<1>1. ASSUME NEW u \in Uploads, sess[u].status # "absent"
      PROVE  Staged(sess[u].staging, sess[u].left)'
  <2>1. PICK g \in Files, left \in Nat : g = sess[u].staging /\ left = sess[u].left /\ Staged(g, left)
    BY <1>1, SessionFacts
  <2>2. Timed(g) /\ file[g].status \in Gone
    BY <2>1 DEF Staged
  <2>3. file'[g].status = file[g].status
    BY <2>2, RevokerTimed DEF Gone
  <2>4. /\ cleanup'[g] = cleanup[g] \/ \E n \in Nat, l \in BOOLEAN : cleanup'[g] = Enqueued(cleanup[g], n, l)
        /\ UNCHANGED <<objects, orphan, cleaner>>
    BY <2>2, RevokerTimed
  <2>5. Staged(g, left)'
    BY <2>1, <2>3, <2>4, StagedKeeps
  <2> QED  BY <2>1, <2>5 DEF Staged, Timed
<1>2. UNCHANGED <<orphan, writer>>
  BY DEF RevokerStep, ReadFile, Revoke, EnqueueAgain, storage
<1>3. \A f \in Files : Aging(f)
  <2>1. file \in [Files -> FileRow]
    BY DEF StorageInv, StorageRows
  <2>2. \/ file' = file
        \/ /\ file[revoker[v].file].status \in {"reserved", "ready"}
           /\ file' = [file EXCEPT ![revoker[v].file] = Revoked]
    BY DEF RevokerStep, ReadFile, Revoke, EnqueueAgain, storage
  <2> QED  BY <2>1, <2>2 DEF Aging, Revoked, Gone
<1> QED  BY <1>1, <1>2, <1>3, ServiceUploads

LEMMA CleanerUploads ==
    ASSUME StorageInv, UploadsInv, NEW c \in Cleaners, CleanerStep(c), UNCHANGED <<sess, hand>>
    PROVE  UploadsInv'
<1>1. ASSUME NEW u \in Uploads, sess[u].status # "absent"
      PROVE  Staged(sess[u].staging, sess[u].left)'
  <2>1. PICK g \in Files, left \in Nat : g = sess[u].staging /\ left = sess[u].left /\ Staged(g, left)
    BY <1>1, SessionFacts
  <2>2. Timed(g) /\ file[g].status \in Gone /\ cleanup[g].wait \in Nat
    BY <2>1 DEF Staged, StorageInv, StorageRows, JobRow
  <2>3. /\ Timed(g)'
        /\ \/ file'[g].status = file[g].status
           \/ file[g].status = "delete_pending" /\ file'[g].status = "deleted"
        /\ cleanup'[g] # cleanup[g] => cleanup[g].wait = 0 \/ cleanup[g].token # None
        /\ file'[g] # file[g] => cleanup[g].token # None
    BY <2>2, CleanerTimed
  <2>4. left > 0 => cleanup[g].wait # 0 /\ cleanup[g].token = None
    BY <2>1, <2>2, UploadAssumption DEF Staged
  <2>5. Staged(g, left)'
    BY <2>1, <2>2, <2>3, <2>4 DEF Staged, Gone
  <2> QED  BY <2>1, <2>5 DEF Staged, Timed
<1>2. UNCHANGED <<orphan, writer>>
  BY DEF CleanerStep, ClaimCleanup, EraseObject, EraseFails, FinishErase, CrashCleaner, storage
<1>3. \A f \in Files : Aging(f)
  <2>1. file \in [Files -> FileRow]
    BY DEF StorageInv, StorageRows
  <2>2. \/ file' = file
        \/ /\ file[cleaner[c].key].status = "delete_pending"
           /\ file' = [file EXCEPT ![cleaner[c].key].status = "deleted"]
    BY DEF CleanerStep, ClaimCleanup, EraseObject, EraseFails, FinishErase, CrashCleaner, storage, Releases
  <2> QED  BY <2>1, <2>2 DEF Aging, FileRow, Gone
<1> QED  BY <1>1, <1>2, <1>3, ServiceUploads

LEMMA ExpireUploads ==
    ASSUME StorageInv, UploadsInv, NEW f \in Files, ExpireReservation(f), UNCHANGED <<sess, hand>>
    PROVE  UploadsInv'
<1>1. /\ file \in [Files -> FileRow] /\ cleanup \in [Files -> JobRow] /\ file[f].status = "reserved"
      /\ file' = [file EXCEPT ![f] = Revoked] /\ UNCHANGED <<objects, orphan, writer, cleaner>>
      /\ \A g \in Files : g # f => cleanup'[g] = cleanup[g]
  BY DEF StorageInv, StorageRows, ExpireReservation, Expired
<1>2. ASSUME NEW u \in Uploads, sess[u].status # "absent"
      PROVE  Staged(sess[u].staging, sess[u].left)'
  <2>1. PICK g \in Files, left \in Nat : g = sess[u].staging /\ left = sess[u].left /\ Staged(g, left)
    BY <1>2, SessionFacts
  <2>2. g # f
    BY <1>1, <2>1 DEF Staged, Gone
  <2>3. Staged(g, left)'
    BY <1>1, <2>1, <2>2, StagedKeeps
  <2> QED  BY <2>1, <2>3 DEF Staged, Timed
<1>3. \A g \in Files : Aging(g)
  BY <1>1 DEF Aging, Revoked, Gone
<1> QED  BY <1>1, <1>2, <1>3, ServiceUploads

LEMMA LandUploads ==
    ASSUME StorageInv, UploadsInv, NEW f \in Files, LandOrphan(f), UNCHANGED <<sess, hand>>
    PROVE  UploadsInv'
<1>1. UNCHANGED <<file, used, cleanup, orphan, writer, revoker, cleaner>> /\ objects' = objects \cup {f} /\ orphan[f] >= 0
  BY DEF LandOrphan
<1>2. ASSUME NEW u \in Uploads, sess[u].status # "absent"
      PROVE  Staged(sess[u].staging, sess[u].left)'
  <2>1. PICK g \in Files, left \in Nat : g = sess[u].staging /\ left = sess[u].left /\ Staged(g, left)
    BY <1>2, SessionFacts
  <2>2. Staged(g, left)'
    BY <1>1, <2>1, StagedKeeps
  <2> QED  BY <2>1, <2>2 DEF Staged, Timed
<1> QED  BY <1>1, <1>2, ServiceUploads DEF Aging

LEMMA TickUploads == ASSUME StorageInv, UploadsInv, UploadTick PROVE UploadsInv'
<1>1. Tick /\ hand' = hand /\ sess' = [u \in Uploads |-> [sess[u] EXCEPT !.left = Down(@, 0), !.url = Down(@, 0)]]
      /\ sess \in [Uploads -> SessionRow] /\ ReserveTicks \in Nat /\ UrlTicks \in Nat
  BY StorageAssumption, UploadAssumption DEF UploadTick, UploadsInv
<1>2. /\ \A f \in Files : file'[f].status = file[f].status /\ orphan[f] \in Int /\ orphan'[f] = Down(orphan[f], -1)
      /\ \A p \in Writers :
            /\ writer'[p] = [writer[p] EXCEPT !.left = Down(writer[p].left, -1)]
            /\ writer'[p].pc = writer[p].pc /\ writer'[p].plan = writer[p].plan
            /\ writer'[p].made = writer[p].made /\ writer'[p].file = writer[p].file
            /\ writer'[p].source = writer[p].source
  BY <1>1, TickRows
<1>3. \A u \in Uploads :
        /\ sess[u] \in SessionRow /\ sess'[u] \in SessionRow /\ sess'[u].status = sess[u].status
        /\ sess'[u].original = sess[u].original /\ sess'[u].staging = sess[u].staging
        /\ sess'[u].left = Down(sess[u].left, 0) /\ sess'[u].url = Down(sess[u].url, 0)
  <2> TAKE u \in Uploads
  <2>1. sess[u] \in SessionRow /\ sess'[u] = [sess[u] EXCEPT !.left = Down(sess[u].left, 0), !.url = Down(sess[u].url, 0)]
    BY <1>1 DEF SessionRow
  <2>2. Down(sess[u].left, 0) \in 0..ReserveTicks /\ Down(sess[u].url, 0) \in 0..UrlTicks
    <3>1. \A m \in Nat : \A n \in 0..m : Down(n, 0) \in 0..m
      BY DEF Down
    <3> QED  BY <1>1, <2>1, <3>1 DEF SessionRow
  <2> QED  BY <2>1, <2>2 DEF SessionRow
<1>4. ASSUME NEW u \in Uploads PROVE SoundSession(u)'
  <2>1. ASSUME sess[u].status = "absent" PROVE sess'[u] = NoSession
    <3>1. sess[u] = NoSession /\ Down(0, 0) = 0
      BY <2>1 DEF UploadsInv, SoundSession, Down
    <3>2. sess'[u] = [sess[u] EXCEPT !.left = Down(sess[u].left, 0), !.url = Down(sess[u].url, 0)]
      BY <1>1
    <3>3. sess[u].left = 0 /\ sess[u].url = 0
      BY <3>1 DEF NoSession
    <3>4. sess'[u] = [NoSession EXCEPT !.left = 0, !.url = 0]
      BY <3>1, <3>2, <3>3
    <3> QED  BY <3>4 DEF NoSession
  <2>2. ASSUME sess[u].status # "absent"
        PROVE  /\ sess'[u].url <= sess'[u].left /\ Aging(sess[u].original)
               /\ Staged(sess[u].staging, sess[u].left)'
    <3>1. PICK g \in Files, left \in Nat : g = sess[u].staging /\ left = sess[u].left /\ Staged(g, left)
      BY <2>2, SessionFacts
    <3>2. Staged(g, Down(left, 0))'
      <4>1. Timed(g)
        BY <3>1 DEF Staged
      <4> QED  BY <1>1, <3>1, <4>1, TickTimed
    <3>3. sess[u].url <= sess[u].left /\ sess[u].url \in Nat /\ Aging(sess[u].original)
      BY <1>2, <2>2, SessionFacts DEF Aging
    <3>4. Down(sess[u].url, 0) <= Down(left, 0)
      BY <3>1, <3>3 DEF Down
    <3>5. sess'[u].staging = g /\ sess'[u].left = Down(left, 0)
      BY <1>3, <3>1
    <3>6. Staged(sess[u].staging, sess[u].left)'
      BY <3>2, <3>5 DEF Staged, Timed, OwnsCleanup
    <3> QED  BY <1>3, <3>1, <3>3, <3>4, <3>5, <3>6
  <2> QED  BY <1>3, <2>1, <2>2, SessionKeeps
<1>5. \A p \in Writers : SoundFinalizer(p)'
  <2> TAKE p \in Writers
  <2>1. SoundFinalizer(p) /\ (hand[p] = None \/ hand[p] \in Uploads)
    BY DEF UploadsInv
  <2>2. CASE hand[p] = None
    <3>1. writer[p] = IdleWriter /\ Down(-1, -1) = -1
      BY <2>1, <2>2 DEF SoundFinalizer, Down
    <3>2. writer'[p] = IdleWriter
      BY <1>2, <3>1 DEF IdleWriter
    <3> QED  BY <1>1, <2>2, <3>2 DEF SoundFinalizer
  <2>3. CASE hand[p] # None
    <3>1. PICK u \in Uploads : u = hand[p] /\ u = hand'[p]
      BY <1>1, <2>1, <2>3
    <3>2. /\ sess[u].status = "verifying" /\ writer[p].made = {}
          /\ writer[p].pc \in {"reading", "reserved", "writing"}
          /\ writer[p].pc # "reading" => writer[p].plan = {<<sess[u].original, None>>}
          /\ writer[p].pc = "writing" => writer[p].file = sess[u].original /\ writer[p].source = None
      BY <2>1, <2>3, <3>1 DEF SoundFinalizer
    <3>3. sess'[u].status = sess[u].status /\ sess'[u].original = sess[u].original
      BY <1>3
    <3>4. /\ writer'[p].pc = writer[p].pc /\ writer'[p].plan = writer[p].plan
          /\ writer'[p].made = writer[p].made /\ writer'[p].file = writer[p].file
          /\ writer'[p].source = writer[p].source
      BY <1>2
    <3> QED  BY <2>3, <3>1, <3>2, <3>3, <3>4 DEF SoundFinalizer
  <2> QED  BY <2>2, <2>3
<1>6. \A f \in Files : file'[f].status = "absent" => orphan'[f] < 0
  BY <1>2 DEF UploadsInv, Down
<1>7. sess' \in [Uploads -> SessionRow]
  BY <1>1, <1>3
<1>8. SoleOriginal' /\ SoleHand'
  <2>1. SoleOriginal /\ SoleHand
    BY DEF UploadsInv
  <2>2. \A u \in Uploads : sess'[u].status = sess[u].status /\ sess'[u].original = sess[u].original
    BY <1>3
  <2>3. SoleOriginal'
    BY <2>1, <2>2 DEF SoleOriginal
  <2> QED  BY <1>1, <2>1, <2>3 DEF SoleHand
<1> QED  BY <1>1, <1>4, <1>5, <1>6, <1>7, <1>8 DEF UploadsInv

\* One session changes its status, with the request that works on it.
LEMMA HandUploads ==
    ASSUME StorageInv, UploadsInv, NEW p \in Writers, NEW u \in Uploads, sess[u].status # "absent",
           sess[u].status = "pending" \/ hand[p] = u,
           sess' \in [Uploads -> SessionRow], \A w \in Uploads : w # u => sess'[w] = sess[w],
           sess'[u].status # "absent", sess'[u].original = sess[u].original, sess'[u].staging = sess[u].staging,
           sess'[u].left = sess[u].left, sess'[u].url = sess[u].url,
           Outcome(sess'[u].status, file'[sess[u].original].status),
           hand' \in [Writers -> Uploads \cup {None}], hand'[p] \in {None, u}, SoundFinalizer(p)',
           \A q \in Writers : q # p => hand'[q] = hand[q] /\ writer'[q] = writer[q],
           UNCHANGED <<cleanup, cleaner>>,
           \A g \in Files : file[g].status \in Gone =>
               file'[g] = file[g] /\ orphan'[g] = orphan[g] /\ (g \in objects' => g \in objects),
           \A g \in Files : g # sess[u].original => file'[g] = file[g],
           \A g \in Files : file'[g].status = "absent" => orphan'[g] < 0
    PROVE  UploadsInv'
<1>1. ASSUME NEW w \in Uploads, sess[w].status # "absent"
      PROVE  Staged(sess[w].staging, sess[w].left)'
  <2>1. PICK g \in Files, left \in Nat : g = sess[w].staging /\ left = sess[w].left /\ Staged(g, left)
    BY <1>1, SessionFacts
  <2>2. g = sess'[w].staging /\ left = sess'[w].left
    BY <2>1
  <2>3. Staged(g, left)'
    <3>1. file[g].status \in Gone
      BY <2>1 DEF Staged
    <3> QED  BY <2>1, <3>1, StagedKeeps
  <2> QED  BY <2>2, <2>3 DEF Staged, Timed, OwnsCleanup
<1>2. ASSUME NEW w \in Uploads, w # u PROVE SoundSession(w)'
  <2>1. sess'[w] = sess[w] /\ (sess[w].status = "absent" => sess'[w] = NoSession)
    BY <1>2 DEF UploadsInv, SoundSession
  <2>2. ASSUME sess[w].status # "absent" PROVE Aging(sess[w].original) /\ sess[w].url <= sess[w].left
    <3>1. sess[w].original # sess[u].original
      BY <1>2, <2>2 DEF UploadsInv, SoleOriginal
    <3> QED  BY <2>2, <3>1, SessionFacts DEF Aging
  <2> QED  BY <1>1, <2>1, <2>2, SessionKeeps
<1>3. SoundSession(u)'
  <2>1. /\ sess[u].original \in Files /\ sess[u].staging \in Files /\ sess[u].original # sess[u].staging
        /\ sess[u].url <= sess[u].left
    BY SessionFacts
  <2>2. Staged(sess[u].staging, sess[u].left)'
    BY <1>1
  <2> QED  BY <2>1, <2>2 DEF SoundSession, Outcome
<1>4. \A w \in Uploads : SoundSession(w)'
  <2> TAKE w \in Uploads
  <2>1. ASSUME w = u PROVE SoundSession(w)'
    BY <1>3, <2>1 DEF SoundSession, Staged, Timed, OwnsCleanup
  <2> QED  BY <1>2, <2>1
<1>5. ASSUME NEW q \in Writers, q # p PROVE SoundFinalizer(q)' /\ hand[q] # u
  <2>1. hand'[q] = hand[q] /\ writer'[q] = writer[q] /\ SoundFinalizer(q) /\ (hand[q] = None \/ hand[q] \in Uploads)
    BY <1>5 DEF UploadsInv
  <2>2. hand[q] # u
    <3>1. CASE sess[u].status = "pending"
      BY <2>1, <3>1, UploadAssumption DEF SoundFinalizer
    <3>2. CASE hand[p] = u
      BY <1>5, <3>2, UploadAssumption DEF UploadsInv, SoleHand
    <3> QED  BY <3>1, <3>2
  <2>3. CASE hand[q] = None
    <3>1. hand'[q] = None /\ writer'[q] = IdleWriter
      BY <2>1, <2>3 DEF SoundFinalizer
    <3> QED  BY <2>2, <3>1 DEF SoundFinalizer
  <2>4. CASE hand[q] # None
    <3>1. sess'[hand[q]] = sess[hand[q]]
      BY <2>1, <2>2, <2>4
    <3> QED  BY <2>1, <2>2, <2>4, <3>1 DEF SoundFinalizer
  <2> QED  BY <2>2, <2>3, <2>4
<1>6. \A q \in Writers : SoundFinalizer(q)'
  <2> TAKE q \in Writers
  <2>1. ASSUME q = p PROVE SoundFinalizer(q)'
    BY <2>1 DEF SoundFinalizer
  <2> QED  BY <1>5, <2>1
<1>7. SoleHand'
  <2>1. SoleHand
    BY DEF UploadsInv
  <2>2. \A q \in Writers : q # p => hand'[q] = hand[q] /\ hand[q] # u
    BY <1>5
  <2> QED  BY <2>1, <2>2 DEF SoleHand
<1>8. SoleOriginal'
  <2>1. SoleOriginal
    BY DEF UploadsInv
  <2>2. \A w \in Uploads : sess'[w].original = sess[w].original /\ (sess[w].status = "absent" <=> sess'[w].status = "absent")
    OBVIOUS
  <2> QED  BY <2>1, <2>2 DEF SoleOriginal
<1> QED  BY <1>4, <1>6, <1>7, <1>8 DEF UploadsInv

LEMMA SessionStatus ==
    ASSUME sess \in [Uploads -> SessionRow], NEW u \in Uploads,
           NEW s \in {"pending", "verifying", "completed", "aborted"},
           sess' = [sess EXCEPT ![u].status = s]
    PROVE  /\ sess' \in [Uploads -> SessionRow] /\ \A w \in Uploads : w # u => sess'[w] = sess[w]
           /\ sess'[u].status = s /\ sess'[u].original = sess[u].original /\ sess'[u].staging = sess[u].staging
           /\ sess'[u].left = sess[u].left /\ sess'[u].url = sess[u].url
<1>1. sess[u] \in SessionRow
  OBVIOUS
<1>2. [sess[u] EXCEPT !.status = s] \in SessionRow
  BY <1>1 DEF SessionRow
<1>3. sess'[u] = [sess[u] EXCEPT !.status = s]
  OBVIOUS
<1> QED  BY <1>1, <1>2, <1>3 DEF SessionRow

LEMMA ClaimUploads ==
    ASSUME StorageInv, UploadsInv, NEW p \in Writers, NEW u \in Uploads, ClaimUpload(p, u) PROVE UploadsInv'
<1>1. /\ sess[u].status = "pending" /\ sess' = [sess EXCEPT ![u].status = "verifying"] /\ hand' = [hand EXCEPT ![p] = u]
      /\ writer[p] = IdleWriter /\ UNCHANGED <<storage, cleaner>> /\ writer' = [writer EXCEPT ![p].pc = "reading"]
  BY DEF ClaimUpload, UploadsInv, SoundFinalizer
<1>2. sess \in [Uploads -> SessionRow] /\ hand \in [Writers -> Uploads \cup {None}] /\ writer \in [Writers -> WriterRow]
  BY DEF UploadsInv, StorageInv, StorageRows
<1>3. /\ sess' \in [Uploads -> SessionRow] /\ \A w \in Uploads : w # u => sess'[w] = sess[w]
      /\ sess'[u].status = "verifying" /\ sess'[u].original = sess[u].original /\ sess'[u].staging = sess[u].staging
      /\ sess'[u].left = sess[u].left /\ sess'[u].url = sess[u].url
  BY <1>1, <1>2, SessionStatus
<1>4. /\ hand'[p] = u /\ hand' \in [Writers -> Uploads \cup {None}]
      /\ \A q \in Writers : q # p => hand'[q] = hand[q] /\ writer'[q] = writer[q]
      /\ writer'[p].pc = "reading" /\ writer'[p].made = {}
  BY <1>1, <1>2 DEF IdleWriter
<1>5. SoundFinalizer(p)'
  BY <1>3, <1>4, UploadAssumption DEF SoundFinalizer
<1>6. Outcome(sess'[u].status, file'[sess[u].original].status)
  BY <1>1, <1>3, SessionFacts DEF Outcome, storage
<1>7. \A g \in Files : file'[g].status = "absent" => orphan'[g] < 0
  BY <1>1 DEF UploadsInv, storage
<1> QED  BY <1>1, <1>3, <1>4, <1>5, <1>6, <1>7, HandUploads DEF storage

\* A request that goes on with its session.
LEMMA GoesOn ==
    ASSUME StorageInv, UploadsInv, NEW p \in Writers, writer[p].pc # "idle", UNCHANGED <<storage, cleaner, sess, hand>>,
           \A q \in Writers : q # p => writer'[q] = writer[q], writer'[p].made = writer[p].made,
           writer'[p].pc \in {"reserved", "writing"}, writer'[p].plan = {<<sess[hand[p]].original, None>>},
           writer'[p].pc = "writing" => writer'[p].file = sess[hand[p]].original /\ writer'[p].source = None
    PROVE  UploadsInv'
<1>1. PICK u \in Uploads : u = hand[p] /\ u = hand'[p] /\ sess[u].status = "verifying" /\ writer[p].made = {}
  BY FinalizerFacts
<1>2. SoundFinalizer(p)'
  BY <1>1, UploadAssumption DEF SoundFinalizer
<1>3. Outcome(sess'[u].status, file'[sess[u].original].status)
  BY <1>1, SessionFacts DEF storage
<1>4. sess' \in [Uploads -> SessionRow] /\ hand' \in [Writers -> Uploads \cup {None}]
      /\ \A g \in Files : file'[g].status = "absent" => orphan'[g] < 0
  BY DEF UploadsInv, storage
<1>5. sess'[u].status # "absent" /\ hand'[p] \in {None, u} /\ hand[p] = u /\ sess[u].status # "absent"
  BY <1>1
<1> QED  BY <1>2, <1>3, <1>4, <1>5, HandUploads DEF storage

LEMMA VerifyUploads ==
    ASSUME StorageInv, UploadsInv, NEW p \in Writers, VerifyStaging(p) PROVE UploadsInv'
<1>1. PICK f : f = sess[hand[p]].original
  OBVIOUS
<1>2. writer \in [Writers -> WriterRow] /\ writer[p] \in WriterRow
  BY DEF StorageInv, StorageRows
<1>3. /\ writer'[p] = [writer[p] EXCEPT !.pc = "reserved", !.plan = {<<f, None>>}]
      /\ \A q \in Writers : q # p => writer'[q] = writer[q]
      /\ writer[p].pc # "idle" /\ UNCHANGED <<storage, cleaner, sess, hand>>
  BY <1>1, <1>2 DEF VerifyStaging
<1>4. writer'[p].pc = "reserved" /\ writer'[p].plan = {<<f, None>>} /\ writer'[p].made = writer[p].made
  BY <1>2, <1>3 DEF WriterRow
<1> QED  BY <1>1, <1>3, <1>4, GoesOn

LEMMA SealUploads ==
    ASSUME StorageInv, UploadsInv, NEW p \in Writers, SealOriginal(p) PROVE UploadsInv'
<1>1. PICK f : f = sess[hand[p]].original
  OBVIOUS
<1>2. writer \in [Writers -> WriterRow] /\ writer[p] \in WriterRow /\ writer[p].pc = "reserved"
  BY DEF StorageInv, StorageRows, SealOriginal, BeginWrite
<1>3. /\ writer'[p] = [writer[p] EXCEPT !.pc = "writing", !.file = f, !.source = None, !.left = FlightTicks]
      /\ \A q \in Writers : q # p => writer'[q] = writer[q]
      /\ UNCHANGED <<storage, cleaner, sess, hand>>
  BY <1>1, <1>2 DEF SealOriginal, BeginWrite
<1>4. writer'[p].pc = "writing" /\ writer'[p].plan = writer[p].plan /\ writer'[p].made = writer[p].made
      /\ writer'[p].file = f /\ writer'[p].source = None
  BY <1>2, <1>3 DEF WriterRow
<1>5. writer[p].plan = {<<f, None>>}
  BY <1>1, <1>2, FinalizerFacts
<1> QED  BY <1>1, <1>2, <1>3, <1>4, <1>5, GoesOn

\* A request that puts its session down.
LEMMA PutsDown ==
    ASSUME StorageInv, UploadsInv, NEW p \in Writers, writer[p].pc # "idle", UNCHANGED <<cleanup, cleaner>>,
           writer' = [writer EXCEPT ![p] = IdleWriter], hand' = [hand EXCEPT ![p] = None],
           NEW u \in Uploads, u = hand[p],
           sess' \in [Uploads -> SessionRow], \A w \in Uploads : w # u => sess'[w] = sess[w],
           sess'[u].status # "absent", sess'[u].original = sess[u].original, sess'[u].staging = sess[u].staging,
           sess'[u].left = sess[u].left, sess'[u].url = sess[u].url,
           Outcome(sess'[u].status, file'[sess[u].original].status),
           \A g \in Files : file[g].status \in Gone =>
               file'[g] = file[g] /\ orphan'[g] = orphan[g] /\ (g \in objects' => g \in objects),
           \A g \in Files : g # sess[u].original => file'[g] = file[g],
           \A g \in Files : file'[g].status = "absent" => orphan'[g] < 0
    PROVE  UploadsInv'
<1>1. hand \in [Writers -> Uploads \cup {None}] /\ writer \in [Writers -> WriterRow] /\ sess[u].status # "absent"
  BY FinalizerFacts DEF UploadsInv, StorageInv, StorageRows
<1>2. /\ hand'[p] = None /\ hand' \in [Writers -> Uploads \cup {None}] /\ writer'[p] = IdleWriter
      /\ \A q \in Writers : q # p => hand'[q] = hand[q] /\ writer'[q] = writer[q]
  BY <1>1
<1>3. SoundFinalizer(p)'
  BY <1>2 DEF SoundFinalizer
<1>4. hand'[p] \in {None, u} /\ hand[p] = u
  BY <1>2
<1> QED  BY <1>1, <1>2, <1>3, <1>4, HandUploads

LEMMA ReopenedStatus ==
    ASSUME sess \in [Uploads -> SessionRow], NEW u \in Uploads, sess[u].status = "verifying", sess' = Reopened(u)
    PROVE  sess' = [sess EXCEPT ![u].status = "pending"]
BY DEF Reopened, SessionRow

LEMMA RejectUploads ==
    ASSUME StorageInv, UploadsInv, NEW p \in Writers, RejectStaging(p) PROVE UploadsInv'
<1>1. PICK u \in Uploads : u = hand[p] /\ sess[u].status = "verifying"
  BY FinalizerFacts DEF RejectStaging
<1>2. sess \in [Uploads -> SessionRow]
  BY DEF UploadsInv
<1>3. /\ sess' \in [Uploads -> SessionRow] /\ \A w \in Uploads : w # u => sess'[w] = sess[w]
      /\ sess'[u].status = "pending" /\ sess'[u].original = sess[u].original /\ sess'[u].staging = sess[u].staging
      /\ sess'[u].left = sess[u].left /\ sess'[u].url = sess[u].url
  <2>1. sess' = [sess EXCEPT ![u].status = "pending"]
    BY <1>1, <1>2, ReopenedStatus DEF RejectStaging
  <2> QED  BY <1>2, <2>1, SessionStatus
<1>4. /\ writer[p].pc # "idle" /\ UNCHANGED <<storage, cleaner>> /\ writer' = [writer EXCEPT ![p] = IdleWriter]
      /\ hand' = [hand EXCEPT ![p] = None]
  BY DEF RejectStaging
<1>5. Outcome(sess'[u].status, file'[sess[u].original].status)
  BY <1>1, <1>3, <1>4, SessionFacts DEF Outcome, storage
<1>6. \A g \in Files : file'[g].status = "absent" => orphan'[g] < 0
  BY <1>4 DEF UploadsInv, storage
<1> QED  BY <1>1, <1>3, <1>4, <1>5, <1>6, PutsDown DEF storage

LEMMA CompleteUploads ==
    ASSUME StorageInv, UploadsInv, NEW p \in Writers, CompleteUpload(p) PROVE UploadsInv'
<1>0. writer[p].pc = "writing"
  BY DEF CompleteUpload, FinishWrite
<1>1. PICK u \in Uploads : /\ u = hand[p] /\ sess[u].status = "verifying"
                           /\ writer[p].plan = {<<sess[u].original, None>>}
                           /\ writer[p].file = sess[u].original /\ writer[p].source = None
  BY <1>0, FinalizerFacts
<1>2. sess \in [Uploads -> SessionRow] /\ sess' = [sess EXCEPT ![u].status = "completed"]
      /\ writer \in [Writers -> WriterRow] /\ file \in [Files -> FileRow]
  BY <1>1 DEF UploadsInv, CompleteUpload, StorageInv, StorageRows
<1>3. /\ sess' \in [Uploads -> SessionRow] /\ \A w \in Uploads : w # u => sess'[w] = sess[w]
      /\ sess'[u].status = "completed" /\ sess'[u].original = sess[u].original /\ sess'[u].staging = sess[u].staging
      /\ sess'[u].left = sess[u].left /\ sess'[u].url = sess[u].url
  BY <1>2, SessionStatus
<1>4. PICK f \in Files : f = sess[u].original
  BY <1>1, SessionFacts
<1>5. /\ file[f].status = "reserved" /\ file' = [file EXCEPT ![f] = [status |-> "ready", left |-> 0]]
      /\ objects' = objects \cup {f} /\ UNCHANGED <<cleanup, orphan, cleaner>> /\ hand' = [hand EXCEPT ![p] = None]
  BY <1>1, <1>4 DEF CompleteUpload, FinishWrite
<1>6. writer' = [writer EXCEPT ![p] = IdleWriter]
  <2>1. writer[p].plan \ {<<writer[p].file, writer[p].source>>} = {}
    BY <1>1
  <2> QED  BY <2>1 DEF CompleteUpload, FinishWrite
<1>7. file'[f].status = "ready" /\ \A g \in Files : g # f => file'[g] = file[g]
  BY <1>2, <1>5
<1>8. Outcome(sess'[u].status, file'[sess[u].original].status)
  BY <1>3, <1>4, <1>7 DEF Outcome
<1>9. /\ \A g \in Files : file'[g].status = "absent" => orphan'[g] < 0
      /\ \A g \in Files : file[g].status \in Gone =>
               file'[g] = file[g] /\ orphan'[g] = orphan[g] /\ (g \in objects' => g \in objects)
  BY <1>5, <1>7 DEF UploadsInv, Gone
<1>10. /\ sess'[u].status # "absent" /\ writer[p].pc # "idle"
       /\ \A g \in Files : g # sess[u].original => file'[g] = file[g]
  BY <1>0, <1>3, <1>4, <1>7
<1> QED  BY <1>1, <1>3, <1>5, <1>6, <1>8, <1>9, <1>10, PutsDown

\* A write that is given up concerns a reserved file.
LEMMA GivenUp ==
    ASSUME StorageInv, UploadsInv, NEW p \in Writers,
           \/ UNCHANGED <<objects, orphan>>
           \/ writer[p].pc = "writing" /\ \E landed \in BOOLEAN : Abandon(writer[p], landed)
    PROVE  /\ \A g \in Files : file[g].status = "absent" => orphan'[g] < 0
           /\ \A g \in Files : file[g].status \in Gone => orphan'[g] = orphan[g] /\ (g \in objects' => g \in objects)
<1>1. CASE UNCHANGED <<objects, orphan>>
  BY <1>1 DEF UploadsInv
<1>2. ASSUME writer[p].pc = "writing", NEW landed \in BOOLEAN, Abandon(writer[p], landed)
      PROVE  /\ \A g \in Files : file[g].status = "absent" => orphan'[g] < 0
             /\ \A g \in Files : file[g].status \in Gone => orphan'[g] = orphan[g] /\ (g \in objects' => g \in objects)
  <2>1. PICK f \in Files : f = writer[p].file /\ file[f].status = "reserved"
    BY <1>2 DEF StorageInv, SoundWriter
  <2>2. \A g \in Files : g # f => orphan'[g] = orphan[g] /\ (g \in objects' => g \in objects)
    BY <1>2, <2>1 DEF Abandon, StorageInv, StorageRows
  <2> QED  BY <2>1, <2>2 DEF UploadsInv, Gone
<1> QED  BY <1>1, <1>2

LEMMA FailUploads ==
    ASSUME StorageInv, UploadsInv, NEW p \in Writers, NEW landed \in BOOLEAN, FailSeal(p, landed) PROVE UploadsInv'
<1>1. PICK u \in Uploads : u = hand[p] /\ sess[u].status = "verifying" /\ writer[p].made = {}
  BY FinalizerFacts DEF FailSeal, RefuseWrite, FailWrite
<1>2. sess \in [Uploads -> SessionRow]
  BY DEF UploadsInv
<1>3. /\ sess' \in [Uploads -> SessionRow] /\ \A w \in Uploads : w # u => sess'[w] = sess[w]
      /\ sess'[u].status = "pending" /\ sess'[u].original = sess[u].original /\ sess'[u].staging = sess[u].staging
      /\ sess'[u].left = sess[u].left /\ sess'[u].url = sess[u].url
  <2>1. sess' = [sess EXCEPT ![u].status = "pending"]
    BY <1>1, <1>2, ReopenedStatus DEF FailSeal
  <2> QED  BY <1>2, <2>1, SessionStatus
<1>4. /\ writer[p].pc # "idle" /\ UNCHANGED <<file, cleanup, cleaner>> /\ writer' = [writer EXCEPT ![p] = IdleWriter]
      /\ hand' = [hand EXCEPT ![p] = None]
  <2>1. writer' = [writer EXCEPT ![p] = Failed(writer[p])]
    BY DEF FailSeal, RefuseWrite, FailWrite, StorageInv, StorageRows
  <2>2. Failed(writer[p]) = IdleWriter
    BY <1>1 DEF Failed
  <2> QED  BY <2>1, <2>2 DEF FailSeal, RefuseWrite, FailWrite, storage
<1>5. Outcome(sess'[u].status, file'[sess[u].original].status)
  BY <1>1, <1>3, <1>4, SessionFacts DEF Outcome
<1>6. /\ \A g \in Files : file[g].status = "absent" => orphan'[g] < 0
      /\ \A g \in Files : file[g].status \in Gone => orphan'[g] = orphan[g] /\ (g \in objects' => g \in objects)
  BY GivenUp DEF FailSeal, RefuseWrite, FailWrite, storage
<1> QED  BY <1>1, <1>3, <1>4, <1>5, <1>6, PutsDown

LEMMA CrashUploads ==
    ASSUME StorageInv, UploadsInv, NEW p \in Writers, NEW landed \in BOOLEAN, CrashFinalizer(p, landed) PROVE UploadsInv'
<1>1. PICK u \in Uploads : u = hand[p] /\ sess[u].status = "verifying"
  BY FinalizerFacts DEF CrashFinalizer, CrashWriter
<1>2. /\ writer[p].pc # "idle" /\ UNCHANGED <<file, cleanup, cleaner, sess>> /\ writer' = [writer EXCEPT ![p] = IdleWriter]
      /\ hand' = [hand EXCEPT ![p] = None] /\ sess' \in [Uploads -> SessionRow]
  BY DEF CrashFinalizer, CrashWriter, UploadsInv
<1>3. Outcome(sess'[u].status, file'[sess[u].original].status)
  BY <1>1, <1>2, SessionFacts
<1>4. /\ \A g \in Files : file[g].status = "absent" => orphan'[g] < 0
      /\ \A g \in Files : file[g].status \in Gone => orphan'[g] = orphan[g] /\ (g \in objects' => g \in objects)
  BY GivenUp DEF CrashFinalizer, CrashWriter
<1>5. sess'[u].status # "absent"
  BY <1>1, <1>2
<1> QED  BY <1>1, <1>2, <1>3, <1>4, <1>5, PutsDown

\* Steps of a client: files that are revoked are at most queued again.
LEMMA ClientUploads ==
    ASSUME StorageInv, UploadsInv, NEW u \in Uploads, UNCHANGED <<objects, orphan, cleaner>>,
           \A g \in Files : file[g].status \in Gone =>
               /\ file'[g].status = file[g].status
               /\ cleanup'[g] = cleanup[g] \/ \E n \in Nat, l \in BOOLEAN : cleanup'[g] = Enqueued(cleanup[g], n, l),
           \A w \in Uploads : w # u /\ sess[w].status # "absent" => Aging(sess[w].original),
           \A w \in Uploads : w # u => sess'[w] = sess[w]
    PROVE  /\ \A w \in Uploads : w # u => SoundSession(w)'
           /\ sess[u].status # "absent" => Staged(sess[u].staging, sess[u].left) /\
                (sess'[u].staging = sess[u].staging /\ sess'[u].left = sess[u].left =>
                 Staged(sess[u].staging, sess[u].left)')
<1>1. ASSUME NEW w \in Uploads, sess[w].status # "absent",
             sess'[w].staging = sess[w].staging /\ sess'[w].left = sess[w].left
      PROVE  Staged(sess[w].staging, sess[w].left)'
  <2>1. PICK g \in Files, left \in Nat : g = sess[w].staging /\ left = sess[w].left /\ Staged(g, left)
    BY <1>1, SessionFacts
  <2>2. g = sess'[w].staging /\ left = sess'[w].left
    BY <1>1, <2>1
  <2>3. Staged(g, left)'
    <3>1. file[g].status \in Gone
      BY <2>1 DEF Staged
    <3> QED  BY <2>1, <3>1, StagedKeeps
  <2> QED  BY <2>2, <2>3 DEF Staged, Timed, OwnsCleanup
<1>2. ASSUME NEW w \in Uploads, w # u PROVE SoundSession(w)'
  <2>1. sess'[w] = sess[w] /\ (sess[w].status = "absent" => sess'[w] = NoSession)
    BY <1>2 DEF UploadsInv, SoundSession
  <2>2. ASSUME sess[w].status # "absent" PROVE Aging(sess[w].original) /\ sess[w].url <= sess[w].left
    BY <1>2, <2>2, SessionFacts
  <2> QED  BY <1>1, <2>1, <2>2, SessionKeeps
<1> QED  BY <1>1, <1>2, SessionFacts

\* Requests that finalize other sessions do not notice.
LEMMA FinalizersKeep ==
    ASSUME UploadsInv, NEW u \in Uploads, sess[u].status # "verifying", UNCHANGED <<hand, writer>>,
           \A w \in Uploads : w # u => sess'[w] = sess[w]
    PROVE  (\A p \in Writers : SoundFinalizer(p)') /\ SoleHand'
<1>1. ASSUME NEW p \in Writers PROVE SoundFinalizer(p)'
  <2>1. SoundFinalizer(p) /\ (hand[p] = None \/ hand[p] \in Uploads)
    BY DEF UploadsInv
  <2>2. CASE hand[p] = None
    BY <2>1, <2>2 DEF SoundFinalizer
  <2>3. CASE hand[p] # None
    <3>1. sess'[hand[p]] = sess[hand[p]]
      BY <2>1, <2>3 DEF SoundFinalizer
    <3> QED  BY <2>1, <2>3, <3>1 DEF SoundFinalizer
  <2> QED  BY <2>2, <2>3
<1> QED  BY <1>1 DEF UploadsInv, SoleHand

LEMMA InitiateUploads ==
    ASSUME StorageInv, UploadsInv, NEW u \in Uploads, NEW f \in Files, NEW g \in Files, InitiateUpload(u, f, g)
    PROVE  UploadsInv'
<1>1. /\ file \in [Files -> FileRow] /\ cleanup \in [Files -> JobRow] /\ sess \in [Uploads -> SessionRow]
      /\ f # g /\ file[f].status = "absent" /\ file[g].status = "absent" /\ sess[u].status = "absent"
      /\ UNCHANGED <<objects, orphan, writer, cleaner, hand>>
      /\ file' = [file EXCEPT ![f] = Reserved, ![g] = Revoked] /\ ReserveTicks \in Nat /\ UrlTicks \in Nat
  BY StorageAssumption, UploadAssumption DEF InitiateUpload, StorageInv, StorageRows, UploadsInv
<1>2. PICK wait \in Nat : wait = Later(StagingWait(ReserveTicks), GraceTicks) /\ wait >= ReserveTicks + StagingTicks
  BY StorageAssumption, UploadAssumption DEF Later, StagingWait
<1> DEFINE j == Enqueued(cleanup[g], wait, TRUE)
           url == Sooner(UrlTicks, ReserveTicks)
           s == [status |-> "pending", original |-> f, staging |-> g, left |-> ReserveTicks, url |-> url]
<1>3. cleanup[g] \in JobRow /\ ~cleanup[g].queued
  BY <1>1 DEF StorageInv, SoundFile, Gone
<1>4. j \in JobRow /\ j.queued /\ j.token = None /\ j.wait >= wait
  BY <1>3, EnqueuedRow
<1>5. url \in 0..UrlTicks /\ url <= ReserveTicks /\ url \in Nat
  BY <1>1 DEF Sooner
<1>6. cleanup' = [cleanup EXCEPT ![g] = j] /\ sess' = [sess EXCEPT ![u] = s]
  BY <1>1, <1>2 DEF InitiateUpload
<1> HIDE DEF j, url
<1>7. /\ s \in SessionRow /\ s.status = "pending" /\ s.original = f /\ s.staging = g /\ s.left = ReserveTicks /\ s.url = url
  BY <1>1, <1>5 DEF SessionRow
<1> HIDE DEF s
<1>8. /\ file'[f].status = "reserved" /\ file'[g].status = "delete_pending" /\ cleanup'[g] = j
      /\ \A h \in Files : (h # f /\ h # g => file'[h] = file[h]) /\ (h # g => cleanup'[h] = cleanup[h])
      /\ sess'[u] = s /\ \A w \in Uploads : w # u => sess'[w] = sess[w]
  BY <1>1, <1>6 DEF Reserved, Revoked
<1>9. \A w \in Uploads : w # u => SoundSession(w)'
  <2>1. \A h \in Files : file[h].status \in Gone => file'[h].status = file[h].status /\ cleanup'[h] = cleanup[h]
    BY <1>1, <1>8 DEF Gone
  <2>2. \A w \in Uploads : w # u /\ sess[w].status # "absent" => Aging(sess[w].original)
    BY <1>1, <1>8, SessionFacts DEF Aging
  <2> QED  BY <1>1, <1>8, <2>1, <2>2, ClientUploads
<1>10. SoundSession(u)'
  <2>1. Timed(g)'
    <3>1. \A c \in Cleaners : cleaner'[c].key = g => ~OwnsCleanup(c)'
      BY <1>4, <1>8, StorageAssumption DEF OwnsCleanup
    <3>2. orphan'[g] < 0
      BY <1>1 DEF UploadsInv
    <3> QED  BY <1>4, <1>8, <3>1, <3>2 DEF Timed
  <2>2. j.wait \in Nat
    BY <1>4 DEF JobRow
  <2>3. Staged(g, ReserveTicks)'
    BY <1>1, <1>2, <1>4, <1>8, <2>1, <2>2, UploadAssumption DEF Staged, Gone
  <2>4. Staged(sess[u].staging, sess[u].left)'
    BY <1>7, <1>8, <2>3 DEF Staged, Timed, OwnsCleanup
  <2> QED  BY <1>1, <1>5, <1>7, <1>8, <2>4 DEF SoundSession, Outcome
<1>11. (\A p \in Writers : SoundFinalizer(p)') /\ SoleHand'
  BY <1>1, <1>8, FinalizersKeep
<1>12. SoleOriginal'
  <2>1. \A w \in Uploads : w # u /\ sess[w].status # "absent" => sess[w].original # f
    BY <1>1, SessionFacts
  <2>2. SoleOriginal
    BY DEF UploadsInv
  <2> QED  BY <1>7, <1>8, <2>1, <2>2 DEF SoleOriginal
<1>13. /\ sess' \in [Uploads -> SessionRow] /\ hand' \in [Writers -> Uploads \cup {None}]
       /\ \A h \in Files : file'[h].status = "absent" => orphan'[h] < 0
  BY <1>1, <1>6, <1>7, <1>8 DEF UploadsInv
<1>14. \A w \in Uploads : SoundSession(w)'
  <2> TAKE w \in Uploads
  <2>1. ASSUME w = u PROVE SoundSession(w)'
    BY <1>10, <2>1 DEF SoundSession, Staged, Timed, OwnsCleanup
  <2> QED  BY <1>9, <2>1
<1> QED  BY <1>11, <1>12, <1>13, <1>14 DEF UploadsInv

LEMMA RefreshUploads ==
    ASSUME StorageInv, UploadsInv, NEW u \in Uploads, RefreshUpload(u) PROVE UploadsInv'
<1>1. PICK g \in Files, left \in Nat : g = sess[u].staging /\ left = sess[u].left /\ left \in 0..ReserveTicks
  BY SessionFacts DEF RefreshUpload
<1>2. /\ cleanup \in [Files -> JobRow] /\ sess \in [Uploads -> SessionRow] /\ sess[u].status = "pending"
      /\ UNCHANGED <<file, objects, orphan, writer, cleaner, hand>> /\ UrlTicks \in Nat
  BY UploadAssumption DEF RefreshUpload, StorageInv, StorageRows, UploadsInv
<1>3. PICK wait \in Nat : wait = StagingWait(left)
  BY <1>1, UploadAssumption DEF StagingWait
<1>4. PICK url : url = Sooner(UrlTicks, left) /\ url \in 0..UrlTicks /\ url <= left
  BY <1>1, <1>2 DEF Sooner
<1>5. cleanup' = [cleanup EXCEPT ![g] = Enqueued(cleanup[g], wait, TRUE)] /\ sess' = [sess EXCEPT ![u].url = url]
  BY <1>1, <1>2, <1>3, <1>4 DEF RefreshUpload
<1>6. /\ \A w \in Uploads : w # u => sess'[w] = sess[w]
      /\ sess' \in [Uploads -> SessionRow] /\ sess'[u].status = "pending" /\ sess'[u].original = sess[u].original
      /\ sess'[u].staging = sess[u].staging /\ sess'[u].left = sess[u].left /\ sess'[u].url = url
  <2>1. sess[u] \in SessionRow /\ sess'[u] = [sess[u] EXCEPT !.url = url]
    BY <1>2, <1>5
  <2>2. sess'[u] \in SessionRow
    BY <1>4, <2>1 DEF SessionRow
  <2> QED  BY <1>2, <1>5, <2>1, <2>2 DEF SessionRow
<1>7. \A h \in Files : /\ file'[h].status = file[h].status
                       /\ cleanup'[h] = cleanup[h] \/ \E n \in Nat, l \in BOOLEAN : cleanup'[h] = Enqueued(cleanup[h], n, l)
  BY <1>2, <1>5
<1>8. /\ \A w \in Uploads : w # u => SoundSession(w)'
      /\ Staged(sess[u].staging, sess[u].left)'
  BY <1>2, <1>6, <1>7, ClientUploads DEF Aging
<1>9. SoundSession(u)'
  <2>1. /\ sess[u].original \in Files /\ sess[u].staging \in Files /\ sess[u].original # sess[u].staging
        /\ Outcome(sess[u].status, file[sess[u].original].status)
    BY <1>2, SessionFacts
  <2> QED  BY <1>1, <1>2, <1>4, <1>6, <1>8, <2>1 DEF SoundSession, Outcome
<1>10. \A w \in Uploads : SoundSession(w)'
  <2> TAKE w \in Uploads
  <2>1. ASSUME w = u PROVE SoundSession(w)'
    BY <1>9, <2>1 DEF SoundSession, Staged, Timed, OwnsCleanup
  <2> QED  BY <1>8, <2>1
<1>11. (\A p \in Writers : SoundFinalizer(p)') /\ SoleHand'
  BY <1>2, <1>6, FinalizersKeep
<1>12. SoleOriginal'
  <2>1. SoleOriginal
    BY DEF UploadsInv
  <2>2. \A w \in Uploads : sess'[w].status = sess[w].status /\ sess'[w].original = sess[w].original
    BY <1>2, <1>6
  <2> QED  BY <2>1, <2>2 DEF SoleOriginal
<1> QED  BY <1>2, <1>6, <1>10, <1>11, <1>12 DEF UploadsInv

LEMMA PutUploads ==
    ASSUME StorageInv, UploadsInv, NEW u \in Uploads, ClientPut(u) PROVE UploadsInv'
<1>1. PICK left \in Nat : left = sess[u].left /\ left > 0 /\ sess[u].status # "absent"
  <2>1. sess[u].status # "absent"
    BY DEF ClientPut, UploadsInv, SoundSession, NoSession
  <2> QED  BY <2>1, SessionFacts DEF ClientPut
<1>2. PICK g \in Files : g = sess[u].staging /\ Staged(g, left)
  BY <1>1, SessionFacts
<1>3. /\ orphan \in [Files -> Int] /\ UNCHANGED <<file, cleanup, objects, writer, cleaner, sess, hand>>
      /\ orphan' = [orphan EXCEPT ![g] = Later(orphan[g], UploadTicks)] /\ cleanup[g].wait \in Nat
  BY <1>2 DEF ClientPut, StorageInv, StorageRows, JobRow
<1>4. /\ file[g].status = "delete_pending" /\ cleanup[g].token = None /\ cleanup[g].wait > UploadTicks
  BY <1>1, <1>2, <1>3, UploadAssumption DEF Staged
<1>5. orphan'[g] < cleanup[g].wait
  BY <1>2, <1>3, <1>4, UploadAssumption DEF Later, Staged, Timed
<1>6. Timed(g)'
  <2>1. \A c \in Cleaners : cleaner[c].pc = "erased" /\ cleaner[c].key = g => ~OwnsCleanup(c)
    BY <1>4, StorageAssumption DEF OwnsCleanup
  <2>2. \A c \in Cleaners : OwnsCleanup(c)' <=> OwnsCleanup(c)
    BY <1>3 DEF OwnsCleanup
  <2> QED  BY <1>3, <1>4, <1>5, <2>1, <2>2 DEF Timed
<1>7. ASSUME NEW w \in Uploads PROVE SoundSession(w)'
  <2>1. CASE sess[w].status = "absent"
    BY <1>3, <2>1 DEF UploadsInv, SoundSession
  <2>2. CASE sess[w].status # "absent"
    <3>1. PICK h \in Files, n \in Nat : h = sess[w].staging /\ n = sess[w].left /\ Staged(h, n)
      BY <2>2, SessionFacts
    <3>2. Staged(h, n)'
      <4>1. CASE h = g
        BY <1>3, <1>6, <3>1, <4>1 DEF Staged, Timed, OwnsCleanup
      <4>2. CASE h # g
        BY <1>3, <3>1, <4>2, StagedKeeps
      <4> QED  BY <4>1, <4>2
    <3>3. Staged(sess[w].staging, sess[w].left)'
      BY <1>3, <3>1, <3>2 DEF Staged, Timed, OwnsCleanup
    <3> QED  BY <1>3, <2>2, <3>3, SessionFacts, SessionKeeps DEF Aging
  <2> QED  BY <2>1, <2>2
<1>8. \A f \in Files : file'[f].status = "absent" => orphan'[f] < 0
  BY <1>2, <1>3, <1>4 DEF UploadsInv
<1>9. \A p \in Writers : SoundFinalizer(p)'
  BY <1>3 DEF UploadsInv, SoundFinalizer
<1> QED  BY <1>3, <1>7, <1>8, <1>9 DEF UploadsInv, SoleOriginal, SoleHand

LEMMA AbortUploads ==
    ASSUME StorageInv, UploadsInv, NEW u \in Uploads, AbortUpload(u) PROVE UploadsInv'
<1>1. PICK f \in Files, g \in Files : f = sess[u].original /\ g = sess[u].staging /\ f # g /\ file[f].status # "absent"
  BY SessionFacts DEF AbortUpload
<1>2. PICK left \in Nat : left = sess[u].left
  BY SessionFacts DEF AbortUpload
<1>3. /\ file \in [Files -> FileRow] /\ cleanup \in [Files -> JobRow] /\ sess \in [Uploads -> SessionRow]
      /\ sess[u].status = "pending" /\ sess' = [sess EXCEPT ![u].status = "aborted"]
      /\ UNCHANGED <<objects, orphan, writer, cleaner, hand>>
      /\ file' = IF file[f].status \in Counted THEN [file EXCEPT ![f] = Revoked] ELSE file
  BY <1>1 DEF AbortUpload, StorageInv, StorageRows, UploadsInv
<1>4. PICK m \in Nat, n \in Nat : m = SettleTicks(file[f].status) /\ n = StagingWait(left)
  BY <1>2, SettleNat, UploadAssumption DEF StagingWait
<1>5. \A h \in Files : cleanup'[h] \in {cleanup[h], Enqueued(cleanup[h], m, TRUE), Enqueued(cleanup[h], n, FALSE)}
  <2>1. CASE file[f].status \in Counted
    <3>1. cleanup' = [[cleanup EXCEPT ![f] = Enqueued(cleanup[f], m, TRUE)] EXCEPT
                        ![g] = Enqueued([cleanup EXCEPT ![f] = Enqueued(cleanup[f], m, TRUE)][g], n, FALSE)]
      BY <1>1, <1>2, <1>3, <1>4, <2>1 DEF AbortUpload
    <3>2. [cleanup EXCEPT ![f] = Enqueued(cleanup[f], m, TRUE)][g] = cleanup[g]
      BY <1>1, <1>3
    <3> QED  BY <1>1, <1>3, <3>1, <3>2
  <2>2. CASE file[f].status \notin Counted
    <3>1. cleanup' = [cleanup EXCEPT ![g] = Enqueued(cleanup[g], n, FALSE)]
      BY <1>1, <1>2, <1>3, <1>4, <2>2 DEF AbortUpload
    <3> QED  BY <1>1, <1>3, <3>1
  <2> QED  BY <2>1, <2>2
<1>6. /\ sess' \in [Uploads -> SessionRow] /\ \A w \in Uploads : w # u => sess'[w] = sess[w]
      /\ sess'[u].status = "aborted" /\ sess'[u].original = sess[u].original /\ sess'[u].staging = sess[u].staging
      /\ sess'[u].left = sess[u].left /\ sess'[u].url = sess[u].url
  BY <1>3, SessionStatus
<1>7. /\ \A h \in Files : file[h].status \in Gone => file'[h].status = file[h].status
      /\ \A h \in Files : Aging(h)
      /\ file'[f].status \in Gone
  <2>1. file[f].status \in {"deleted"} \cup Counted /\ Revoked.status = "delete_pending"
    BY <1>1, <1>3 DEF FileRow, Revoked
  <2>2. CASE file[f].status \in Counted
    <3>1. file'[f] = Revoked /\ \A h \in Files : h # f => file'[h] = file[h]
      BY <1>3, <2>2
    <3> QED  BY <1>1, <2>1, <2>2, <3>1 DEF Aging, Gone, Counted
  <2>3. CASE file[f].status \notin Counted
    BY <1>3, <2>1, <2>3 DEF Aging, Gone
  <2> QED  BY <2>2, <2>3
<1>8. /\ \A w \in Uploads : w # u => SoundSession(w)'
      /\ Staged(sess[u].staging, sess[u].left)'
  <2>1. \A h \in Files : file[h].status \in Gone =>
               /\ file'[h].status = file[h].status
               /\ cleanup'[h] = cleanup[h] \/ \E i \in Nat, l \in BOOLEAN : cleanup'[h] = Enqueued(cleanup[h], i, l)
    BY <1>5, <1>7
  <2>2. \A w \in Uploads : w # u /\ sess[w].status # "absent" => Aging(sess[w].original)
    BY <1>7, SessionFacts
  <2> QED  BY <1>3, <1>6, <2>1, <2>2, ClientUploads
<1>9. SoundSession(u)'
  <2>1. /\ sess[u].original \in Files /\ sess[u].staging \in Files /\ sess[u].original # sess[u].staging
        /\ sess[u].url <= sess[u].left
    BY <1>3, SessionFacts
  <2>2. Outcome("aborted", file'[f].status)
    BY <1>7 DEF Outcome, Gone
  <2> QED  BY <1>1, <1>6, <1>8, <2>1, <2>2 DEF SoundSession
<1>10. \A w \in Uploads : SoundSession(w)'
  <2> TAKE w \in Uploads
  <2>1. ASSUME w = u PROVE SoundSession(w)'
    BY <1>9, <2>1 DEF SoundSession, Staged, Timed, OwnsCleanup
  <2> QED  BY <1>8, <2>1
<1>11. (\A p \in Writers : SoundFinalizer(p)') /\ SoleHand'
  BY <1>3, <1>6, FinalizersKeep
<1>12. SoleOriginal'
  <2>1. SoleOriginal
    BY DEF UploadsInv
  <2>2. \A w \in Uploads : sess'[w].original = sess[w].original /\ (sess[w].status = "absent" <=> sess'[w].status = "absent")
    BY <1>3, <1>6
  <2> QED  BY <2>1, <2>2 DEF SoleOriginal
<1>13. \A h \in Files : file'[h].status = "absent" => orphan'[h] < 0
  BY <1>3, <1>7 DEF Aging, Gone, UploadsInv
<1>14. hand' \in [Writers -> Uploads \cup {None}]
  BY <1>3 DEF UploadsInv
<1> QED  BY <1>6, <1>10, <1>11, <1>12, <1>13, <1>14 DEF UploadsInv

LEMMA UploadsStart == UploadInit => StorageInv /\ UploadsInv
<1> SUFFICES ASSUME UploadInit PROVE StorageInv /\ UploadsInv
  OBVIOUS
<1>1. StorageInv
  BY StorageStarts DEF UploadInit
<1>2. NoSession \in SessionRow
  BY StorageAssumption, UploadAssumption DEF NoSession, SessionRow
<1>3. \A u \in Uploads : sess[u] = NoSession /\ sess[u].status = "absent"
  BY DEF UploadInit, NoSession
<1>4. \A p \in Writers : hand[p] = None /\ writer[p] = IdleWriter
  BY DEF UploadInit, Init
<1>5. \A f \in Files : orphan[f] < 0
  BY DEF UploadInit, Init
<1>6. sess \in [Uploads -> SessionRow] /\ hand \in [Writers -> Uploads \cup {None}]
  BY <1>2 DEF UploadInit
<1> QED  BY <1>1, <1>3, <1>4, <1>5, <1>6 DEF UploadsInv, SoundSession, SoundFinalizer, SoleOriginal, SoleHand

LEMMA UploadsStep == StorageInv /\ UploadsInv /\ [UploadNext]_uvars => (StorageInv /\ UploadsInv)'
<1> SUFFICES ASSUME StorageInv, UploadsInv, [UploadNext]_uvars PROVE StorageInv' /\ UploadsInv'
  OBVIOUS
<1>1. CASE UploadNext
  <2>1. StorageInv'
    BY <1>1, UploadStorageKeeps
  <2>2. ASSUME NEW p \in Writers, FinalizerStep(p) PROVE UploadsInv'
    BY <2>2, ClaimUploads, VerifyUploads, RejectUploads, SealUploads, CompleteUploads, FailUploads, CrashUploads
       DEF FinalizerStep
  <2> QED  BY <1>1, <2>1, <2>2, InitiateUploads, RefreshUploads, PutUploads, AbortUploads, RevokerUploads,
              CleanerUploads, ExpireUploads, LandUploads, TickUploads DEF UploadNext
<1>2. CASE UNCHANGED uvars
  <2>1. StorageInv'
    BY <1>2, QuotaKeeps DEF uvars, StorageInv, StorageRows, SoleWrite, SoundFile, SoundWriter, SoundRevoker, SoundCleaner
  <2>2. UploadsInv'
    BY <1>2 DEF uvars, UploadsInv, SoundSession, SoundFinalizer, SoleOriginal, SoleHand, Staged, Timed, OwnsCleanup
  <2> QED  BY <2>1, <2>2
<1> QED  BY <1>1, <1>2

LEMMA StoredSound ==
    ASSUME StorageInv PROVE StorageTypeOK /\ QuotaExact /\ ReadyHasBytes /\ ErasureQueued
<1>1. IsFiniteSet(CountedFiles) /\ used = Bytes(CountedFiles) /\ used <= MaxBytes
  BY DEF StorageInv, QuotaInv
<1>2. Bytes(CountedFiles) \in Nat
  BY <1>1, BytesNat DEF CountedFiles
<1>3. used \in 0..MaxBytes
  BY <1>1, <1>2, StorageAssumption
<1>4. StorageTypeOK
  BY <1>3 DEF StorageInv, StorageRows, StorageTypeOK, FileRow, JobRow, WriterRow, RevokerRow, CleanerRow
<1>5. QuotaExact
  BY <1>1 DEF QuotaExact, CountedFiles
<1>6. ReadyHasBytes /\ ErasureQueued
  BY DEF StorageInv, SoundFile, ReadyHasBytes, ErasureQueued
<1> QED  BY <1>4, <1>5, <1>6

LEMMA SessionsSound == ASSUME StorageInv, UploadsInv PROVE UploadsSound
<1>1. StorageTypeOK /\ QuotaExact /\ ReadyHasBytes /\ ErasureQueued
  BY StoredSound
<1>2. UploadTypeOK
  BY <1>1 DEF UploadsInv, UploadTypeOK, SessionRow
<1>3. StagingCounted
  <2> SUFFICES ASSUME NEW u \in Uploads, sess[u].status # "absent",
                      sess[u].url > 0 \/ orphan[sess[u].staging] >= 0 \/ sess[u].staging \in objects
               PROVE  file[sess[u].staging].status \in Counted
    BY DEF StagingCounted
  <2>1. PICK g \in Files : g = sess[u].staging /\ Staged(g, sess[u].left) /\ orphan[g] \in Int
    BY SessionFacts DEF StorageInv, StorageRows
  <2>2. sess[u].url > 0 => sess[u].left > 0
    BY SessionFacts
  <2>3. file[g].status = "delete_pending"
    BY <2>1, <2>2 DEF Staged, Timed, Gone
  <2> QED  BY <2>1, <2>3 DEF Counted
<1>4. SessionOutcome
  <2> SUFFICES ASSUME NEW u \in Uploads
               PROVE  LET status == file[sess[u].original].status
                      IN  /\ sess[u].status = "completed" => status \in {"ready", "delete_pending", "deleted"}
                          /\ sess[u].status = "aborted" => status \in {"delete_pending", "deleted"}
                          /\ sess[u].status \in {"pending", "verifying"} => status # "ready"
    BY DEF SessionOutcome
  <2>1. sess[u].status # "absent" => Outcome(sess[u].status, file[sess[u].original].status)
    BY SessionFacts
  <2> QED  BY <2>1 DEF Outcome, Gone
<1> QED  BY <1>1, <1>2, <1>3, <1>4 DEF UploadsSound

\* The quota row counts what is not confirmed erased, once, and never more than the limit;
\* what is published has its bytes and what is revoked waits in the outbox; no signed URL,
\* and no upload in flight, reaches a staging key whose capacity was released; a session
\* ends published or revoked, and only its own request publishes it.
THEOREM UploadsAreSound == UploadSpec => []UploadsSound
<1>1. UploadInit => StorageInv /\ UploadsInv
  BY UploadsStart
<1>2. StorageInv /\ UploadsInv /\ [UploadNext]_uvars => (StorageInv /\ UploadsInv)'
  BY UploadsStep
<1>3. StorageInv /\ UploadsInv => UploadsSound
  BY SessionsSound
<1> QED  BY <1>1, <1>2, <1>3, PTL DEF UploadSpec

-----------------------------------------------------------------------------
(* Copies of published originals. *)

LEMMA PlansFinite ==
    ASSUME NEW plan \in Plans
    PROVE  /\ plan \in SUBSET (Files \X (Files \cup {None}))
           /\ {t[1] : t \in plan} \in SUBSET Files /\ IsFiniteSet({t[1] : t \in plan})
<1>1. ASSUME NEW f \in Files, plan = {<<f, None>>}
      PROVE  /\ plan \in SUBSET (Files \X (Files \cup {None}))
             /\ {t[1] : t \in plan} \in SUBSET Files /\ IsFiniteSet({t[1] : t \in plan})
  <2>1. {t[1] : t \in plan} = {f}
    BY <1>1
  <2>2. plan \in SUBSET (Files \X (Files \cup {None})) /\ {f} \in SUBSET Files
    BY <1>1
  <2>3. IsFiniteSet({f})
    BY FS_Singleton
  <2> QED  BY <2>1, <2>2, <2>3
<1>2. ASSUME NEW copies \in [1..MaxPlan -> Files \X Files], plan = {copies[i] : i \in 1..MaxPlan}
      PROVE  /\ plan \in SUBSET (Files \X (Files \cup {None}))
             /\ {t[1] : t \in plan} \in SUBSET Files /\ IsFiniteSet({t[1] : t \in plan})
  <2> DEFINE made == {t[1] : t \in plan}
             h == [i \in 1..MaxPlan |-> copies[i][1]]
  <2>1. plan \in SUBSET (Files \X (Files \cup {None})) /\ made \in SUBSET Files
    BY <1>2
  <2>2. \A x \in made : \E i \in 1..MaxPlan : h[i] = x
    BY <1>2
  <2>3. \A i \in 1..MaxPlan : h[i] \in made
    BY <1>2
  <2>4. h \in [1..MaxPlan -> made]
    BY <2>3
  <2> HIDE DEF made, h
  <2>5. h \in Surjection(1..MaxPlan, made)
    BY <2>2, <2>4 DEF Surjection
  <2>6. IsFiniteSet(1..MaxPlan)
    BY StorageAssumption, FS_Interval
  <2>7. IsFiniteSet(made)
    BY <2>5, <2>6, FS_Surjection
  <2> QED  BY <2>1, <2>7 DEF made
<1> QED  BY <1>1, <1>2 DEF Plans

\* The files that a publication reserves, and the request that writes them.
LEMMA ReservedFacts ==
    ASSUME StorageInv, NEW p \in Writers, NEW plan \in Plans, ReserveFiles(p, plan),
           NEW made, made = {t[1] : t \in plan}
    PROVE  /\ made \in SUBSET Files /\ IsFiniteSet(made) /\ used + Bytes(made) <= MaxBytes
           /\ \A f \in Files : f \in made => file[f].status = "absent" /\ file'[f] = Reserved
           /\ \A f \in Files : f \notin made => file'[f] = file[f]
           /\ file' \in [Files -> FileRow] /\ used' = used + Bytes(made)
           /\ UNCHANGED <<cleanup, objects, orphan, revoker, cleaner>>
           /\ writer' \in [Writers -> WriterRow] /\ writer[p].pc = "idle"
           /\ writer'[p].plan = plan /\ writer'[p].made \subseteq made /\ writer'[p].pc = "reserved"
           /\ \A q \in Writers : q # p => writer'[q] = writer[q]
<1>1. /\ plan \in SUBSET (Files \X (Files \cup {None})) /\ made \in SUBSET Files /\ IsFiniteSet(made)
  BY PlansFinite
<1>2. /\ \A t \in plan : file[t[1]].status = "absent"
      /\ file' = [f \in Files |-> IF f \in made THEN Reserved ELSE file[f]]
      /\ used' = used + Bytes(made) /\ used + Bytes(made) <= MaxBytes /\ writer[p].pc = "idle"
      /\ UNCHANGED <<cleanup, objects, orphan, revoker, cleaner>>
  BY DEF ReserveFiles, Fits
<1>3. \A f \in made : file[f].status = "absent"
  BY <1>2
<1>4. file' \in [Files -> FileRow]
  BY <1>2, IdleRows DEF StorageInv, StorageRows
<1>5. PICK m : m \in {{}, made} /\ writer' = [writer EXCEPT ![p] = [IdleWriter EXCEPT !.pc = "reserved", !.plan = plan, !.made = m]]
  BY DEF ReserveFiles
<1> DEFINE w == [IdleWriter EXCEPT !.pc = "reserved", !.plan = plan, !.made = m]
<1>6. w \in WriterRow /\ w.plan = plan /\ w.made = m /\ w.pc = "reserved"
  BY <1>1, <1>5, IdleRows DEF IdleWriter, WriterRow
<1>7. writer \in [Writers -> WriterRow] /\ writer' = [writer EXCEPT ![p] = w]
  BY <1>5 DEF StorageInv, StorageRows
<1> HIDE DEF w
<1>8. writer'[p] = w /\ writer' \in [Writers -> WriterRow] /\ \A q \in Writers : q # p => writer'[q] = writer[q]
  BY <1>6, <1>7
<1> QED  BY <1>1, <1>2, <1>3, <1>4, <1>5, <1>6, <1>8

LEMMA ReserveKeeps ==
    ASSUME StorageInv, NEW p \in Writers, NEW plan \in Plans, ReserveFiles(p, plan) PROVE StorageInv'
<1>0. PICK made : made = {t[1] : t \in plan}
  OBVIOUS
<1>1. /\ made \in SUBSET Files /\ IsFiniteSet(made) /\ used + Bytes(made) <= MaxBytes
      /\ \A f \in Files : f \in made => file[f].status = "absent" /\ file'[f] = Reserved
      /\ \A f \in Files : f \notin made => file'[f] = file[f]
      /\ file' \in [Files -> FileRow] /\ used' = used + Bytes(made)
      /\ UNCHANGED <<cleanup, objects, orphan, revoker, cleaner>>
      /\ writer' \in [Writers -> WriterRow]
      /\ writer'[p].plan = plan /\ writer'[p].made \subseteq made /\ writer'[p].pc = "reserved"
      /\ \A q \in Writers : q # p => writer'[q] = writer[q]
  BY <1>0, ReservedFacts
<1>2. Reserved.status = "reserved"
  BY DEF Reserved
<1>3. StorageRows'
  BY <1>1 DEF StorageInv, StorageRows
<1>4. QuotaInv'
  <2>1. QuotaInv
    BY DEF StorageInv
  <2>2. \A h \in Files : file'[h].status \in Counted <=> file[h].status \in Counted \/ h \in made
    BY <1>1, <1>2 DEF Counted
  <2>3. CountedFiles \cap made = {}
    BY <1>1 DEF CountedFiles, Counted
  <2>4. CountedFiles' = {f \in Files : file'[f].status \in Counted}
    BY DEF CountedFiles
  <2>5. CountedFiles' = CountedFiles \cup made
    BY <1>1, <2>2, <2>4 DEF CountedFiles
  <2>6. IsFiniteSet(CountedFiles) /\ CountedFiles \in SUBSET Files
    BY <2>1 DEF QuotaInv, CountedFiles
  <2>7. Bytes(CountedFiles \cup made) = Bytes(CountedFiles) + Bytes(made) /\ IsFiniteSet(CountedFiles \cup made)
    BY <1>1, <2>3, <2>6, BytesUnion
  <2>8. Bytes(CountedFiles)' = Bytes(CountedFiles \cup made)
    BY <2>5
  <2> QED  BY <1>1, <2>1, <2>5, <2>7, <2>8 DEF QuotaInv
<1>5. \A f \in Files : SoundFile(f)' /\ Onward(f)
  BY <1>1, <1>2 DEF StorageInv, SoundFile, Onward, Gone
<1>6. SoundWriter(p)'
  <2>1. \A f \in made : file'[f].status # "absent"
    BY <1>1, <1>2
  <2> QED  BY <1>0, <1>1, <2>1 DEF SoundWriter
<1>7. ASSUME NEW q \in Writers, q # p
      PROVE  writer'[q] = writer[q] /\ (writer[q].pc = "writing" => file'[writer[q].file].status = "reserved")
  BY <1>1, <1>2, <1>7 DEF StorageInv, SoundWriter
<1>8. \A q \in Writers :
          \/ SoundWriter(q)'
          \/ /\ writer'[q] = writer[q]
             /\ writer[q].pc = "writing" => file'[writer[q].file].status = "reserved"
  <2> TAKE q \in Writers
  <2>1. ASSUME q = p PROVE SoundWriter(q)'
    BY <1>6, <2>1 DEF SoundWriter
  <2> QED  BY <1>7, <2>1
<1>9. /\ \A q \in Writers : SoundWriter(q)'
      /\ \A v \in Revokers : SoundRevoker(v)'
      /\ \A c \in Cleaners : SoundCleaner(c)'
  BY <1>1, <1>5, <1>8, ActorsKeep
<1>10. SoleWrite'
  BY <1>1, <1>7, SoleKeeps
<1> QED  BY <1>3, <1>4, <1>5, <1>9, <1>10 DEF StorageInv

Discarded(p) == {f \in writer[p].made : file[f].status \in Counted}

\* What a publication discards, nobody writes.
LEMMA DiscardFacts ==
    ASSUME StorageInv, CopiesInv, NEW p \in Writers, DiscardCopies(p),
           NEW made, made = Discarded(p)
    PROVE  /\ made \in SUBSET Files
           /\ \A f \in Files : f \in made =>
                file[f].status \in Counted /\ file'[f] = Revoked /\ cleanup'[f].queued /\ cleanup'[f].linked
           /\ \A f \in Files : f \in made =>
                cleanup'[f] = Enqueued(cleanup[f], SettleTicks(file[f].status), TRUE)
           /\ \A f \in Files : f \notin made => file'[f] = file[f] /\ cleanup'[f] = cleanup[f]
           /\ \A q \in Writers : writer[q].pc = "writing" => writer[q].file \notin made
           /\ UNCHANGED <<used, objects, orphan, revoker, cleaner>>
           /\ writer' \in [Writers -> WriterRow] /\ writer'[p] = IdleWriter
           /\ \A q \in Writers : q # p => writer'[q] = writer[q]
           /\ StorageRows'
<1>0. made = {f \in writer[p].made : file[f].status \in Counted}
  BY DEF Discarded
<1>1. StorageRows /\ writer[p] \in WriterRow /\ made \in SUBSET writer[p].made /\ made \in SUBSET Files
      /\ writer[p].pc = "discard"
  BY <1>0 DEF StorageInv, StorageRows, WriterRow, DiscardCopies
<1>2. /\ file' = [f \in Files |-> IF f \in made THEN Revoked ELSE file[f]]
      /\ cleanup' = [f \in Files |-> IF f \in made
                                     THEN Enqueued(cleanup[f], SettleTicks(file[f].status), TRUE) ELSE cleanup[f]]
      /\ writer' = [writer EXCEPT ![p] = IdleWriter] /\ UNCHANGED <<used, objects, orphan, revoker, cleaner>>
  BY <1>0 DEF DiscardCopies
<1>3. ASSUME NEW f \in Files, f \in made
      PROVE  /\ file[f].status \in Counted /\ file'[f] = Revoked
             /\ cleanup'[f] = Enqueued(cleanup[f], SettleTicks(file[f].status), TRUE) /\ cleanup'[f] \in JobRow
             /\ cleanup'[f].queued /\ cleanup'[f].linked
  <2> DEFINE e == Enqueued(cleanup[f], SettleTicks(file[f].status), TRUE)
  <2>1. cleanup[f] \in JobRow /\ SettleTicks(file[f].status) \in Nat /\ SoundFile(f)
    BY <1>1, SettleNat DEF StorageRows, StorageInv
  <2>2. e \in JobRow /\ e.queued /\ e.linked = IF cleanup[f].queued THEN cleanup[f].linked ELSE TRUE
    BY <2>1, EnqueuedRow
  <2> HIDE DEF e
  <2>3. cleanup'[f] = e /\ file'[f] = Revoked
    BY <1>2, <1>3 DEF e
  <2>4. file[f].status \in Counted /\ (cleanup[f].queued => cleanup[f].linked)
    BY <1>0, <1>3, <2>1 DEF SoundFile, Gone, Counted
  <2> QED  BY <2>2, <2>3, <2>4 DEF e
<1>4. \A f \in Files : f \notin made => file'[f] = file[f] /\ cleanup'[f] = cleanup[f]
  BY <1>2
<1>5. ASSUME NEW q \in Writers, writer[q].pc = "writing" PROVE writer[q].file \notin made
  <2>1. q # p /\ <<writer[q].file, writer[q].source>> \in writer[q].plan
    BY <1>1, <1>5 DEF CopiesInv, SoundTargets
  <2>2. writer[q].file \in Targets(q) /\ made \subseteq Targets(p)
    BY <1>1, <2>1 DEF Targets
  <2> QED  BY <2>1, <2>2 DEF CopiesInv, SoleTargets
<1>6. writer' \in [Writers -> WriterRow] /\ writer'[p] = IdleWriter /\ \A q \in Writers : q # p => writer'[q] = writer[q]
  BY <1>1, <1>2, IdleRows DEF StorageRows
<1>7. file' \in [Files -> FileRow] /\ cleanup' \in [Files -> JobRow]
  <2>1. \A f \in Files : file'[f] \in FileRow /\ cleanup'[f] \in JobRow
    BY <1>1, <1>3, <1>4, IdleRows DEF StorageRows
  <2> QED  BY <1>2, <2>1
<1> QED  BY <1>1, <1>2, <1>3, <1>4, <1>5, <1>6, <1>7 DEF StorageRows

LEMMA DiscardKeeps ==
    ASSUME StorageInv, CopiesInv, NEW p \in Writers, DiscardCopies(p) PROVE StorageInv'
<1>0. PICK made : made = Discarded(p)
  OBVIOUS
<1>1. /\ \A f \in Files : f \in made =>
                /\ file[f].status \in Counted /\ file'[f] = Revoked /\ cleanup'[f].queued /\ cleanup'[f].linked
      /\ \A f \in Files : f \notin made => file'[f] = file[f] /\ cleanup'[f] = cleanup[f]
      /\ \A q \in Writers : writer[q].pc = "writing" => writer[q].file \notin made
      /\ UNCHANGED <<used, objects, orphan, revoker, cleaner>>
      /\ writer'[p] = IdleWriter /\ \A q \in Writers : q # p => writer'[q] = writer[q]
      /\ StorageRows'
  <2>1. \A f \in Files : f \in made =>
            file[f].status \in Counted /\ file'[f] = Revoked /\ cleanup'[f].queued /\ cleanup'[f].linked
    BY <1>0, DiscardFacts
  <2>2. /\ \A f \in Files : f \notin made => file'[f] = file[f] /\ cleanup'[f] = cleanup[f]
        /\ \A q \in Writers : writer[q].pc = "writing" => writer[q].file \notin made
    BY <1>0, DiscardFacts
  <2>3. /\ UNCHANGED <<used, objects, orphan, revoker, cleaner>>
        /\ writer'[p] = IdleWriter /\ \A q \in Writers : q # p => writer'[q] = writer[q]
        /\ StorageRows'
    BY <1>0, DiscardFacts
  <2> QED  BY <2>1, <2>2, <2>3
<1>2. Revoked.status = "delete_pending" /\ IdleWriter.pc = "idle" /\ IdleWriter.plan = {} /\ IdleWriter.made = {}
  BY DEF Revoked, IdleWriter
<1>3. QuotaInv'
  <2>1. \A f \in Files : file'[f].status \in Counted <=> file[f].status \in Counted
    BY <1>1, <1>2 DEF Counted
  <2> QED  BY <1>1, <2>1, QuotaKeeps DEF StorageInv
<1>4. \A f \in Files : SoundFile(f)' /\ Onward(f)
  BY <1>1, <1>2 DEF StorageInv, SoundFile, Onward, Gone, Counted
<1>5. SoundWriter(p)'
  BY <1>1, <1>2 DEF SoundWriter
<1>6. \A q \in Writers :
          \/ SoundWriter(q)'
          \/ /\ writer'[q] = writer[q]
             /\ writer[q].pc = "writing" => file'[writer[q].file].status = "reserved"
  <2> TAKE q \in Writers
  <2>1. ASSUME q = p PROVE SoundWriter(q)'
    BY <1>5, <2>1 DEF SoundWriter
  <2>2. CASE q # p
    <3>1. writer[q].pc = "writing" => writer[q].file \in Files /\ file[writer[q].file].status = "reserved"
      BY DEF StorageInv, SoundWriter
    <3> QED  BY <1>1, <2>2, <3>1
  <2> QED  BY <2>1, <2>2
<1>7. /\ \A q \in Writers : SoundWriter(q)'
      /\ \A v \in Revokers : SoundRevoker(v)'
      /\ \A c \in Cleaners : SoundCleaner(c)'
  BY <1>1, <1>4, <1>6, ActorsKeep
<1>8. SoleWrite'
  BY <1>1, <1>2, SoleKeeps
<1> QED  BY <1>1, <1>3, <1>4, <1>7, <1>8 DEF StorageInv

LEMMA StorageStep == ASSUME StorageInv, CopiesInv, Next PROVE StorageInv'
<1>1. ASSUME NEW p \in Writers, WriterStep(p) PROVE StorageInv'
  BY <1>1, ReserveKeeps, BeginWriteKeeps, RefuseWriteKeeps, FinishWriteKeeps, GiveUpKeeps, DiscardKeeps
     DEF WriterStep
<1> QED  BY <1>1, ServiceKeeps DEF Next

LEMMA CopyRows ==
    ASSUME StorageInv, CopiesInv, NEW f \in Files
    PROVE  /\ Timed(f) /\ SoundCopy(f) /\ orphan[f] \in Int /\ file[f].left \in Int /\ cleanup[f] \in JobRow
           /\ cleanup[f].wait \in Nat /\ SoundFile(f) /\ file[f] \in FileRow
BY StorageAssumption DEF StorageInv, StorageRows, CopiesInv, SoundCopy, FileRow, JobRow

LEMMA WriterRows ==
    ASSUME StorageInv, NEW p \in Writers
    PROVE  /\ writer[p] \in WriterRow /\ writer \in [Writers -> WriterRow] /\ SoundWriter(p) /\ writer[p].left \in Int
           /\ \A t \in writer[p].plan : t[1] \in Files
           /\ writer[p].made \in SUBSET Files
BY StorageAssumption DEF StorageInv, StorageRows, WriterRow

\* A file whose bytes stay as they were, or that is revoked.
LEMMA CopyKeeps ==
    ASSUME NEW f \in Files, SoundCopy(f), Timed(f)', orphan'[f] = orphan[f],
           file'[f] = file[f] \/ file'[f].status \in Gone
    PROVE  SoundCopy(f)'
BY DEF SoundCopy, Gone

LEMMA RevokedTimed ==
    ASSUME StorageInv, NEW f \in Files, file[f].status \in {"reserved", "ready"}, NEW n \in Nat,
           cleanup'[f] = Enqueued(cleanup[f], n, TRUE), file'[f].status = "delete_pending", orphan'[f] = orphan[f],
           orphan[f] < n \/ orphan[f] < 0
    PROVE  Timed(f)'
<1>1. cleanup[f] \in JobRow /\ ~cleanup[f].queued /\ orphan[f] \in Int
  BY DEF StorageInv, StorageRows, SoundFile, Gone
<1> DEFINE e == Enqueued(cleanup[f], n, TRUE)
<1>2. e \in JobRow /\ e.wait >= n /\ e.token = None /\ e.wait \in Nat
  <2>1. e \in JobRow /\ e.wait >= n /\ e.token = IF cleanup[f].queued THEN cleanup[f].token ELSE None
    BY <1>1, EnqueuedRow
  <2> QED  BY <1>1, <2>1 DEF JobRow
<1> HIDE DEF e
<1>3. cleanup'[f] = e
  BY DEF e
<1>4. \A c \in Cleaners : cleaner'[c].key = f => ~OwnsCleanup(c)'
  BY <1>2, <1>3, StorageAssumption DEF OwnsCleanup
<1>5. orphan[f] < e.wait \/ orphan[f] < 0
  BY <1>1, <1>2
<1>6. file'[f].status = "delete_pending" /\ cleanup'[f].wait = e.wait /\ cleanup'[f].token = None
  BY <1>2, <1>3
<1> QED  BY <1>4, <1>5, <1>6 DEF Timed

\* Steps in which no request writes.
LEMMA ServiceCopies ==
    ASSUME StorageInv, CopiesInv, UNCHANGED <<orphan, writer>>, \A f \in Files : Timed(f)',
           \A f \in Files : file'[f] = file[f] \/ file'[f].status \in Gone,
           \A p \in Writers : writer[p].pc = "writing" => file'[writer[p].file] = file[writer[p].file],
           \A v \in Revokers : SoundWait(v)' \/ revoker'[v] = revoker[v]
    PROVE  CopiesInv'
<1>1. \A f \in Files : SoundCopy(f)'
  BY CopyKeeps DEF CopiesInv
<1>2. \A p \in Writers : SoundTargets(p)'
  BY DEF CopiesInv, SoundTargets
<1>3. ASSUME NEW v \in Revokers, revoker'[v] = revoker[v] PROVE SoundWait(v)'
  <2>1. SoundWait(v) /\ SoundRevoker(v)
    BY DEF CopiesInv, StorageInv
  <2> QED  BY <1>3, <2>1 DEF SoundWait, SoundRevoker, Gone
<1>4. SoleTargets'
  BY DEF CopiesInv, SoleTargets, Targets
<1> QED  BY <1>1, <1>2, <1>3, <1>4 DEF CopiesInv

LEMMA CleanerCopies ==
    ASSUME StorageInv, CopiesInv, NEW c \in Cleaners, CleanerStep(c) PROVE CopiesInv'
<1>1. \A f \in Files : Timed(f)'
  BY CopyRows, CleanerTimed
<1>2. file \in [Files -> FileRow] /\ SoundCleaner(c)
  BY DEF StorageInv, StorageRows
<1>3. \/ file' = file
      \/ /\ file[cleaner[c].key].status = "delete_pending"
         /\ file' = [file EXCEPT ![cleaner[c].key].status = "deleted"]
  BY DEF CleanerStep, ClaimCleanup, EraseObject, EraseFails, FinishErase, CrashCleaner, storage, Releases
<1>4. /\ \A f \in Files : file'[f] = file[f] \/ file'[f].status \in Gone
      /\ \A f \in Files : file[f].status = "reserved" => file'[f] = file[f]
  BY <1>2, <1>3 DEF FileRow, Gone
<1>5. \A p \in Writers : writer[p].pc = "writing" => file'[writer[p].file] = file[writer[p].file]
  BY <1>4 DEF StorageInv, SoundWriter
<1>6. UNCHANGED <<orphan, writer, revoker>>
  BY DEF CleanerStep, ClaimCleanup, EraseObject, EraseFails, FinishErase, CrashCleaner, storage
<1> QED  BY <1>1, <1>4, <1>5, <1>6, ServiceCopies

LEMMA LandCopies == ASSUME StorageInv, CopiesInv, NEW f \in Files, LandOrphan(f) PROVE CopiesInv'
<1>1. UNCHANGED <<file, used, cleanup, orphan, writer, revoker, cleaner>> /\ objects' = objects \cup {f} /\ orphan[f] >= 0
  BY DEF LandOrphan
<1>2. ASSUME NEW g \in Files PROVE Timed(g)'
  BY <1>1, CopyRows, TimedKeeps
<1> QED  BY <1>1, <1>2, ServiceCopies

LEMMA ExpireCopies == ASSUME StorageInv, CopiesInv, NEW f \in Files, ExpireReservation(f) PROVE CopiesInv'
<1>1. /\ file \in [Files -> FileRow] /\ cleanup \in [Files -> JobRow] /\ file[f].status = "reserved"
      /\ file[f].left <= -GraceTicks /\ ~Locked(f)
      /\ file' = [file EXCEPT ![f] = Revoked] /\ cleanup' = [cleanup EXCEPT ![f] = Enqueued(cleanup[f], 0, TRUE)]
      /\ UNCHANGED <<objects, orphan, writer, cleaner, revoker>>
  BY DEF StorageInv, StorageRows, ExpireReservation, Expired
<1>2. file'[f].status = "delete_pending" /\ cleanup'[f] = Enqueued(cleanup[f], 0, TRUE)
      /\ \A g \in Files : g # f => file'[g] = file[g] /\ cleanup'[g] = cleanup[g]
  BY <1>1 DEF Revoked
<1>3. ASSUME NEW g \in Files PROVE Timed(g)'
  <2>1. CASE g # f
    BY <1>1, <1>2, <2>1, CopyRows, TimedKeeps
  <2>2. CASE g = f
    <3>1. orphan[f] < 0
      BY <1>1, CopyRows, StorageAssumption DEF SoundCopy
    <3> QED  BY <1>1, <1>2, <2>2, <3>1, RevokedTimed
  <2> QED  BY <2>1, <2>2
<1>4. \A p \in Writers : writer[p].pc = "writing" => writer[p].file # f /\ writer[p].file \in Files
  BY <1>1 DEF Locked, StorageInv, SoundWriter
<1> QED  BY <1>1, <1>2, <1>3, <1>4, ServiceCopies DEF Gone

LEMMA RevokerCopies ==
    ASSUME StorageInv, CopiesInv, NEW v \in Revokers, RevokerStep(v) PROVE CopiesInv'
<1>1. /\ file \in [Files -> FileRow] /\ cleanup \in [Files -> JobRow] /\ revoker \in [Revokers -> RevokerRow]
      /\ revoker[v] \in RevokerRow /\ UNCHANGED <<objects, orphan, writer, cleaner>>
      /\ SoundWait(v) /\ SoundRevoker(v)
  BY DEF StorageInv, StorageRows, CopiesInv, RevokerStep, ReadFile, Revoke, EnqueueAgain, storage
<1>2. PICK f : f = revoker[v].file
  OBVIOUS
<1>10. \/ file' = file
       \/ /\ file[f].status \in {"reserved", "ready"} /\ revoker[v].pc = "revoke" /\ ~Locked(f)
          /\ file' = [file EXCEPT ![f] = Revoked]
          /\ cleanup' = [cleanup EXCEPT ![f] = Enqueued(cleanup[f], revoker[v].wait, TRUE)]
  BY <1>1, <1>2 DEF RevokerStep, ReadFile, Revoke, EnqueueAgain, storage
<1>11. Revoked.status = "delete_pending"
  BY DEF Revoked
<1>3. ASSUME NEW g \in Files PROVE Timed(g)'
  <2>1. CASE file'[g].status = file[g].status
    BY <2>1, CopyRows, RevokerTimed
  <2>2. CASE file'[g].status # file[g].status
    <3>1. g = f
      BY <1>1, <1>10, <2>2
    <3>2. /\ file[g].status \in {"reserved", "ready"} /\ revoker[v].pc = "revoke"
          /\ file'[g].status = "delete_pending" /\ cleanup'[g] = Enqueued(cleanup[g], revoker[v].wait, TRUE)
      BY <1>1, <1>10, <1>11, <2>2, <3>1
    <3>3. orphan[g] < revoker[v].wait \/ orphan[g] < 0
      BY <1>1, <1>2, <3>1, <3>2, CopyRows DEF SoundWait, SoundCopy
    <3>4. revoker[v].wait \in Nat
      BY <1>1 DEF RevokerRow
    <3> QED  BY <1>1, <3>2, <3>3, <3>4, RevokedTimed
  <2> QED  BY <2>1, <2>2
<1>4. \A g \in Files : file'[g] = file[g] \/ file'[g].status \in Gone
  BY <1>1, <1>10, <1>11 DEF Gone
<1>5. ASSUME NEW p \in Writers, writer[p].pc = "writing" PROVE file'[writer[p].file] = file[writer[p].file]
  <2>1. writer[p].file \in Files
    BY <1>5 DEF StorageInv, SoundWriter
  <2> QED  BY <1>1, <1>10, <1>5, <2>1 DEF Locked
<1>6. SoundWait(v)'
  <2>1. CASE revoker'[v].pc # "revoke"
    BY <2>1 DEF SoundWait
  <2>2. CASE revoker'[v].pc = "revoke"
    <3>0. ~(Revoke(v) \/ EnqueueAgain(v))
      <4>1. Revoke(v) \/ EnqueueAgain(v) =>
              revoker' = [revoker EXCEPT ![v] = IdleRevoker] \/ revoker' = [revoker EXCEPT ![v].pc = "enqueue"]
        BY DEF Revoke, EnqueueAgain
      <4>2. CASE revoker' = [revoker EXCEPT ![v] = IdleRevoker]
        BY <1>1, <2>2, <4>2 DEF IdleRevoker
      <4>3. CASE revoker' = [revoker EXCEPT ![v].pc = "enqueue"]
        BY <1>1, <2>2, <4>3 DEF RevokerRow
      <4> QED  BY <4>1, <4>2, <4>3
    <3>1. PICK g \in Files : ReadFile(v, g)
      BY <3>0 DEF RevokerStep
    <3>2. revoker'[v] = [pc |-> "revoke", file |-> g, wait |-> SettleTicks(file[g].status)] /\ file' = file
      BY <1>1, <3>1 DEF ReadFile, storage
    <3>3. orphan[g] < GraceTicks
      BY CopyRows, StorageAssumption DEF SoundCopy
    <3>4. \A p \in Writers : writer[p].left < GraceTicks
      BY WriterRows, StorageAssumption DEF WriterRow
    <3> QED  BY <1>1, <3>2, <3>3, <3>4 DEF SoundWait, SettleTicks
  <2> QED  BY <2>1, <2>2
<1>7. \A w \in Revokers : w # v => revoker'[w] = revoker[w]
  BY <1>1 DEF RevokerStep, ReadFile, Revoke, EnqueueAgain
<1>8. \A w \in Revokers : SoundWait(w)' \/ revoker'[w] = revoker[w]
  <2> TAKE w \in Revokers
  <2>1. ASSUME w = v PROVE SoundWait(w)'
    BY <1>6, <2>1 DEF SoundWait
  <2> QED  BY <1>7, <2>1
<1> QED  BY <1>1, <1>3, <1>4, <1>5, <1>8, ServiceCopies

LEMMA TickCopies == ASSUME StorageInv, CopiesInv, Tick PROVE CopiesInv'
<1>1. GraceTicks \in Nat /\ FlightTicks \in Nat
  BY StorageAssumption
<1>2. ASSUME NEW f \in Files
      PROVE  /\ file'[f].status = file[f].status /\ file[f].left \in Int
             /\ file[f].status = "reserved" => file'[f].left = Down(file[f].left, -GraceTicks)
             /\ orphan[f] \in Int /\ orphan'[f] = Down(orphan[f], -1)
  BY TickRows
<1>3. ASSUME NEW f \in Files PROVE SoundCopy(f)'
  <2>1. Timed(f)'
    BY <1>3, CopyRows, TickTimed
  <2>2. orphan'[f] <= FlightTicks /\ (orphan[f] < 0 => orphan'[f] < 0)
    BY <1>1, <1>2, CopyRows DEF SoundCopy, Down
  <2>3. file[f].left \in -GraceTicks..ReserveTicks
    BY CopyRows DEF FileRow
  <2>4. orphan[f] < file[f].left + GraceTicks => Down(orphan[f], -1) < Down(file[f].left, -GraceTicks) + GraceTicks
    BY <1>1, <1>2, <2>3 DEF Down
  <2> QED  BY <1>2, <2>1, <2>2, <2>4, CopyRows DEF SoundCopy
<1>4. ASSUME NEW p \in Writers
      PROVE  /\ writer'[p].pc = writer[p].pc /\ writer'[p].plan = writer[p].plan
             /\ writer'[p].made = writer[p].made /\ writer'[p].file = writer[p].file
             /\ writer'[p].source = writer[p].source
             /\ writer[p].left \in Int /\ writer'[p].left = Down(writer[p].left, -1)
  BY TickRows
<1>5. ASSUME NEW p \in Writers PROVE SoundTargets(p)'
  <2>1. SoundTargets(p) /\ \A t \in writer[p].plan : t[1] \in Files
    BY WriterRows DEF CopiesInv
  <2>2. \A t \in writer'[p].plan : orphan'[t[1]] < 0
    BY <1>2, <1>4, <2>1 DEF SoundTargets, Down
  <2>3. ASSUME writer[p].pc = "writing"
        PROVE  writer'[p].left < file'[writer'[p].file].left + GraceTicks
    <3>1. PICK f \in Files : f = writer[p].file /\ file[f].status = "reserved"
      BY <2>3 DEF StorageInv, SoundWriter
    <3>2. writer[p].left < file[f].left + GraceTicks
      BY <2>1, <2>3, <3>1 DEF SoundTargets
    <3>3. file[f].left \in -GraceTicks..ReserveTicks
      BY CopyRows DEF FileRow
    <3>4. Down(writer[p].left, -1) < Down(file[f].left, -GraceTicks) + GraceTicks
      BY <1>1, <1>2, <1>4, <3>2, <3>3 DEF Down
    <3> QED  BY <1>2, <1>4, <3>1, <3>4
  <2> QED  BY <1>4, <2>1, <2>2, <2>3 DEF SoundTargets
<1>6. ASSUME NEW v \in Revokers PROVE SoundWait(v)'
  <2>1. /\ revoker'[v].pc = revoker[v].pc /\ revoker'[v].file = revoker[v].file
        /\ revoker[v].wait \in Nat /\ revoker'[v].wait = Down(revoker[v].wait, 0)
    BY TickRows
  <2> SUFFICES ASSUME revoker[v].pc = "revoke", file'[revoker[v].file].status = "reserved"
               PROVE  /\ orphan'[revoker[v].file] < Down(revoker[v].wait, 0)
                      /\ \A p \in Writers : writer[p].pc = "writing" /\ writer[p].file = revoker[v].file =>
                                              writer'[p].left < Down(revoker[v].wait, 0)
    BY <1>4, <2>1 DEF SoundWait
  <2>2. PICK f \in Files : f = revoker[v].file
    BY DEF StorageInv, SoundRevoker
  <2>3. /\ orphan[f] < revoker[v].wait
        /\ \A p \in Writers : writer[p].pc = "writing" /\ writer[p].file = f => writer[p].left < revoker[v].wait
    BY <1>2, <2>2 DEF CopiesInv, SoundWait
  <2>4. \A n \in Int : \A m \in Nat : n < m => Down(n, -1) < Down(m, 0)
    BY DEF Down
  <2> QED  BY <1>2, <1>4, <2>1, <2>2, <2>3, <2>4
<1>7. SoleTargets'
  <2>1. \A p \in Writers : Targets(p)' = Targets(p)
    BY <1>4 DEF Targets
  <2> QED  BY <2>1 DEF CopiesInv, SoleTargets
<1> QED  BY <1>3, <1>5, <1>6, <1>7 DEF CopiesInv

\* Requests: the files of the others are as they were.
LEMMA WriterCopies ==
    ASSUME StorageInv, CopiesInv, NEW p \in Writers, UNCHANGED <<cleaner, revoker>>,
           \A f \in Files : SoundCopy(f)', SoundTargets(p)',
           \A q \in Writers : q # p => Targets(q) \cap (Targets(p)') = {},
           \A q \in Writers : q # p => writer'[q] = writer[q],
           \A f \in Files : f \in Targets(p) \/ orphan'[f] = orphan[f] \/ orphan'[f] < 0,
           \A f \in Files : file[f].status = "reserved" => file'[f] = file[f] \/ f \in Targets(p),
           \A v \in Revokers : SoundWait(v)'
    PROVE  CopiesInv'
<1>1. ASSUME NEW q \in Writers, q # p PROVE SoundTargets(q)'
  <2>1. writer'[q] = writer[q] /\ SoundTargets(q) /\ SoundWriter(q) /\ \A t \in writer[q].plan : t[1] \in Files
    BY <1>1, WriterRows DEF CopiesInv
  <2>2. \A t \in writer[q].plan : t[1] \in Targets(q) /\ t[1] \notin Targets(p)
    BY <1>1 DEF CopiesInv, SoleTargets, Targets
  <2>3. \A t \in writer'[q].plan : orphan'[t[1]] < 0
    BY <2>1, <2>2 DEF SoundTargets
  <2>4. ASSUME writer[q].pc = "writing" PROVE file'[writer[q].file] = file[writer[q].file]
    <3>1. PICK f \in Files : f = writer[q].file /\ file[f].status = "reserved"
      BY <2>1, <2>4 DEF SoundWriter
    <3>2. f \notin Targets(p)
      BY <2>1, <2>2, <2>4, <3>1 DEF SoundTargets
    <3> QED  BY <3>1, <3>2
  <2> QED  BY <2>1, <2>3, <2>4 DEF SoundTargets
<1>2. \A q \in Writers : SoundTargets(q)'
  <2> TAKE q \in Writers
  <2>1. ASSUME q = p PROVE SoundTargets(q)'
    BY <2>1 DEF SoundTargets
  <2> QED  BY <1>1, <2>1
<1>3. SoleTargets'
  <2>1. \A q \in Writers : q # p => Targets(q)' = Targets(q)
    BY DEF Targets
  <2> SUFFICES ASSUME NEW q \in Writers, NEW r \in Writers, q # r PROVE (Targets(q) \cap Targets(r))' = {}
    BY DEF SoleTargets
  <2>2. CASE q = p
    BY <2>1, <2>2 DEF Targets
  <2>3. CASE r = p
    BY <2>1, <2>3 DEF Targets
  <2>4. CASE q # p /\ r # p
    BY <2>1, <2>4 DEF CopiesInv, SoleTargets
  <2> QED  BY <2>2, <2>3, <2>4
<1> QED  BY <1>2, <1>3 DEF CopiesInv

\* What a writer still has to write only shrinks.
LEMMA FewerTargets ==
    ASSUME CopiesInv, NEW p \in Writers, writer'[p].plan \subseteq writer[p].plan, writer'[p].made \subseteq writer[p].made
    PROVE  \A q \in Writers : q # p => Targets(q) \cap (Targets(p)') = {}
<1>1. Targets(p)' \subseteq Targets(p)
  BY DEF Targets
<1> QED  BY <1>1 DEF CopiesInv, SoleTargets

LEMMA BeginCopies ==
    ASSUME StorageInv, CopiesInv, NEW p \in Writers, NEW f, NEW s, BeginWrite(p, f, s)
    PROVE  CopiesInv'
<1>1. /\ <<f, s>> \in writer[p].plan /\ UNCHANGED <<file, used, cleanup, objects, orphan, revoker, cleaner>>
      /\ \A v \in Revokers : revoker[v].file # f
      /\ file[f].status = "reserved" /\ file[f].left > 0 /\ f \in Files
      /\ FlightTicks \in Nat /\ GraceTicks \in Nat /\ FlightTicks < GraceTicks
  BY WriterRows, StorageAssumption DEF BeginWrite, storage, Writable
<1>2. /\ writer'[p].pc = "writing" /\ writer'[p].file = f /\ writer'[p].source = s /\ writer'[p].left = FlightTicks
      /\ writer'[p].plan = writer[p].plan /\ writer'[p].made = writer[p].made
      /\ \A q \in Writers : q # p => writer'[q] = writer[q]
  BY WriterRows DEF BeginWrite, WriterRow
<1>3. \A g \in Files : SoundCopy(g)'
  <2> TAKE g \in Files
  <2>1. Timed(g)'
    BY <1>1, CopyRows, TimedKeeps
  <2> QED  BY <1>1, <2>1, CopyRows, CopyKeeps
<1>4. SoundTargets(p)'
  <2>1. SoundTargets(p) /\ file[f].left \in Int
    BY <1>1, CopyRows DEF CopiesInv
  <2> QED  BY <1>1, <1>2, <2>1 DEF SoundTargets
<1>5. \A v \in Revokers : SoundWait(v)'
  <2> TAKE v \in Revokers
  <2>1. SoundWait(v) /\ revoker[v].file # f
    BY <1>1 DEF CopiesInv
  <2> QED  BY <1>1, <1>2, <2>1 DEF SoundWait
<1> QED  BY <1>1, <1>2, <1>3, <1>4, <1>5, FewerTargets, WriterCopies

\* A write that ends without a file: what may still land does so before anything is erased.
LEMMA GiveUpCopies ==
    ASSUME StorageInv, CopiesInv, NEW p \in Writers, UNCHANGED <<file, used, cleanup, revoker, cleaner>>,
           \/ UNCHANGED <<objects, orphan>>
           \/ writer[p].pc = "writing" /\ \E landed \in BOOLEAN : Abandon(writer[p], landed),
           NEW w \in {Failed(writer[p]), IdleWriter}, writer' = [writer EXCEPT ![p] = w]
    PROVE  CopiesInv'
<1>1. w.plan = {} /\ w.pc # "writing" /\ w.made \subseteq writer[p].made
  <2>1. CASE w = IdleWriter
    BY <2>1 DEF IdleWriter
  <2>2. CASE w = [IdleWriter EXCEPT !.pc = "discard", !.made = writer[p].made]
    BY <2>2 DEF IdleWriter
  <2> QED  BY <2>1, <2>2 DEF Failed
<1>2. writer'[p] = w /\ \A q \in Writers : q # p => writer'[q] = writer[q]
  BY WriterRows
<1>3. SoundTargets(p)' /\ \A q \in Writers : q # p => Targets(q) \cap (Targets(p)') = {}
  <2>1. \A q \in Writers : q # p => Targets(q) \cap (Targets(p)') = {}
    BY <1>1, <1>2, FewerTargets
  <2> QED  BY <1>1, <1>2, <2>1 DEF SoundTargets
<1>4. CASE UNCHANGED <<objects, orphan>>
  <2>1. \A g \in Files : SoundCopy(g)'
    <3> TAKE g \in Files
    <3>1. Timed(g)'
      BY <1>4, CopyRows, TimedKeeps
    <3> QED  BY <1>4, <3>1, CopyRows, CopyKeeps
  <2>2. \A v \in Revokers : SoundWait(v)'
    BY <1>1, <1>2, <1>4 DEF CopiesInv, SoundWait
  <2> QED  BY <1>2, <1>3, <1>4, <2>1, <2>2, WriterCopies
<1>5. ASSUME writer[p].pc = "writing", NEW landed \in BOOLEAN, Abandon(writer[p], landed) PROVE CopiesInv'
  <2>1. PICK f \in Files : f = writer[p].file /\ file[f].status = "reserved"
    BY <1>5 DEF StorageInv, SoundWriter
  <2>2. PICK n \in Int : n = writer[p].left
    BY WriterRows
  <2>3. n < file[f].left + GraceTicks /\ n <= FlightTicks
    <3>1. n <= FlightTicks
      BY <2>2, WriterRows, StorageAssumption DEF WriterRow
    <3>2. SoundTargets(p)
      BY DEF CopiesInv
    <3>3. writer[p].left < file[writer[p].file].left + GraceTicks
      BY <1>5, <3>2 DEF SoundTargets
    <3> QED  BY <2>1, <2>2, <3>1, <3>3
  <2>4. /\ orphan'[f] = Later(orphan[f], n) /\ (\A g \in Files : g # f => orphan'[g] = orphan[g])
        /\ \A g \in Files : g # f => (g \in objects' <=> g \in objects)
    BY <1>5, <2>1, <2>2 DEF Abandon, StorageInv, StorageRows
  <2>5. ASSUME NEW g \in Files PROVE SoundCopy(g)'
    <3>1. CASE g # f
      <4>1. Timed(g)'
        BY <2>4, <3>1, CopyRows, TimedKeeps
      <4> QED  BY <2>4, <3>1, <4>1, CopyRows, CopyKeeps
    <3>2. CASE g = f
      <4>1. ~cleanup[f].queued /\ orphan[f] \in Int /\ file[f].left \in Int /\ SoundCopy(f)
        BY <2>1, CopyRows DEF SoundFile, Gone
      <4>2. Timed(f)'
        BY <2>1, <4>1 DEF Timed, OwnsCleanup
      <4>3. orphan'[f] <= FlightTicks /\ orphan'[f] < file[f].left + GraceTicks
        BY <2>1, <2>3, <2>4, <4>1, StorageAssumption DEF SoundCopy, Later
      <4>4. SoundCopy(f)'
        BY <2>1, <4>2, <4>3 DEF SoundCopy
      <4> QED  BY <3>2, <4>4 DEF SoundCopy, Timed, OwnsCleanup
    <3> QED  BY <3>1, <3>2
  <2>6. ASSUME NEW v \in Revokers PROVE SoundWait(v)'
    <3> SUFFICES ASSUME revoker[v].pc = "revoke", file[revoker[v].file].status = "reserved"
                 PROVE  /\ orphan'[revoker[v].file] < revoker[v].wait
                        /\ \A q \in Writers : writer'[q].pc = "writing" /\ writer'[q].file = revoker[v].file =>
                                              writer'[q].left < revoker[v].wait
      BY DEF SoundWait
    <3>1. PICK g \in Files : g = revoker[v].file
      BY DEF StorageInv, SoundRevoker
    <3>2. /\ orphan[g] < revoker[v].wait
          /\ \A q \in Writers : writer[q].pc = "writing" /\ writer[q].file = g => writer[q].left < revoker[v].wait
      BY <3>1 DEF CopiesInv, SoundWait
    <3>3. orphan'[g] < revoker[v].wait
      <4>1. CASE g = f
        BY <1>5, <2>1, <2>2, <2>4, <3>2, <4>1 DEF Later
      <4>2. CASE g # f
        BY <2>4, <3>2, <4>2
      <4> QED  BY <4>1, <4>2
    <3>4. \A q \in Writers : writer'[q].pc = "writing" => writer'[q] = writer[q]
      BY <1>1, <1>2
    <3> QED  BY <3>1, <3>2, <3>3, <3>4
  <2>7. f \in Targets(p)
    <3>1. SoundTargets(p)
      BY DEF CopiesInv
    <3>2. <<f, writer[p].source>> \in writer[p].plan
      BY <1>5, <2>1, <3>1 DEF SoundTargets
    <3>3. <<f, writer[p].source>>[1] = f
      OBVIOUS
    <3>4. f \in {t[1] : t \in writer[p].plan}
      BY <3>2, <3>3
    <3> QED  BY <3>4 DEF Targets
  <2>8. \A g \in Files : g \in Targets(p) \/ orphan'[g] = orphan[g]
    BY <2>4, <2>7
  <2> QED  BY <1>2, <1>3, <2>5, <2>6, <2>8, WriterCopies
<1> QED  BY <1>4, <1>5

LEMMA FinishCopies == ASSUME StorageInv, CopiesInv, NEW p \in Writers, FinishWrite(p) PROVE CopiesInv'
<1> DEFINE rest == writer[p].plan \ {<<writer[p].file, writer[p].source>>}
<1>1. PICK f \in Files : f = writer[p].file /\ file[f].status = "reserved" /\ writer[p].pc = "writing"
  BY DEF FinishWrite, StorageInv, SoundWriter
<1>2. PICK w \in {IdleWriter, [IdleWriter EXCEPT !.pc = "reserved", !.plan = rest, !.made = writer[p].made]} :
        writer' = [writer EXCEPT ![p] = w]
  BY DEF FinishWrite
<1>3. rest \subseteq writer[p].plan
  OBVIOUS
<1> HIDE DEF rest
<1>4. w.plan \subseteq writer[p].plan /\ w.made \subseteq writer[p].made /\ w.pc # "writing"
  <2>1. CASE w = IdleWriter
    BY <2>1 DEF IdleWriter
  <2>2. CASE w = [IdleWriter EXCEPT !.pc = "reserved", !.plan = rest, !.made = writer[p].made]
    BY <1>3, <2>2 DEF IdleWriter
  <2> QED  BY <1>2, <2>1, <2>2
<1>5. writer'[p] = w /\ \A q \in Writers : q # p => writer'[q] = writer[q]
  BY <1>2, WriterRows
<1>6. /\ file' = [file EXCEPT ![f] = [status |-> "ready", left |-> 0]] /\ objects' = objects \cup {f}
      /\ UNCHANGED <<used, cleanup, orphan, revoker, cleaner>> /\ file \in [Files -> FileRow]
  BY <1>1 DEF FinishWrite, StorageInv, StorageRows
<1>7. file'[f].status = "ready" /\ \A g \in Files : g # f => file'[g] = file[g]
  BY <1>6
<1>8. f \in Targets(p) /\ orphan[f] < 0 /\ SoundTargets(p)
  BY <1>1 DEF CopiesInv, SoundTargets, Targets
<1>9. ASSUME NEW g \in Files PROVE SoundCopy(g)'
  <2>1. CASE g # f
    <3>1. Timed(g)'
      BY <1>6, <1>7, <2>1, CopyRows, TimedKeeps
    <3> QED  BY <1>6, <1>7, <2>1, <3>1, CopyRows, CopyKeeps
  <2>2. CASE g = f
    <3>1. ~cleanup[f].queued /\ SoundCopy(f)
      BY <1>1, CopyRows DEF SoundFile, Gone
    <3>2. Timed(f)'
      BY <1>6, <1>7, <3>1 DEF Timed, OwnsCleanup
    <3>3. SoundCopy(f)'
      BY <1>6, <1>7, <1>8, <3>1, <3>2 DEF SoundCopy
    <3> QED  BY <2>2, <3>3 DEF SoundCopy, Timed, OwnsCleanup
  <2> QED  BY <2>1, <2>2
<1>10. SoundTargets(p)'
  BY <1>4, <1>5, <1>6, <1>8 DEF SoundTargets
<1>11. ASSUME NEW v \in Revokers PROVE SoundWait(v)'
  <2> SUFFICES ASSUME revoker[v].pc = "revoke", file'[revoker[v].file].status = "reserved"
               PROVE  /\ orphan[revoker[v].file] < revoker[v].wait
                      /\ \A q \in Writers : writer'[q].pc = "writing" /\ writer'[q].file = revoker[v].file =>
                                            writer'[q].left < revoker[v].wait
    BY <1>6 DEF SoundWait
  <2>1. PICK g \in Files : g = revoker[v].file
    BY DEF StorageInv, SoundRevoker
  <2>2. g # f
    BY <1>7, <2>1
  <2>3. file[g].status = "reserved"
    BY <1>7, <2>1, <2>2
  <2>4. /\ orphan[g] < revoker[v].wait
        /\ \A q \in Writers : writer[q].pc = "writing" /\ writer[q].file = g => writer[q].left < revoker[v].wait
    BY <2>1, <2>3 DEF CopiesInv, SoundWait
  <2>5. \A q \in Writers : writer'[q].pc = "writing" => writer'[q] = writer[q]
    BY <1>4, <1>5
  <2> QED  BY <2>1, <2>4, <2>5
<1>12. \A g \in Files : file[g].status = "reserved" => file'[g] = file[g] \/ g \in Targets(p)
  BY <1>7, <1>8
<1> QED  BY <1>4, <1>5, <1>6, <1>9, <1>10, <1>11, <1>12, FewerTargets, WriterCopies

LEMMA ReserveCopies ==
    ASSUME StorageInv, CopiesInv, NEW p \in Writers, NEW plan \in Plans, ReserveFiles(p, plan) PROVE CopiesInv'
<1>0. PICK made : made = {t[1] : t \in plan}
  OBVIOUS
<1>1. /\ made \in SUBSET Files
      /\ \A f \in Files : f \in made => file[f].status = "absent" /\ file'[f] = Reserved
      /\ \A f \in Files : f \notin made => file'[f] = file[f]
      /\ UNCHANGED <<cleanup, objects, orphan, revoker, cleaner>>
      /\ writer'[p].plan = plan /\ writer'[p].made \subseteq made /\ writer'[p].pc = "reserved"
      /\ \A q \in Writers : q # p => writer'[q] = writer[q]
  <2>1. made \in SUBSET Files /\ UNCHANGED <<cleanup, objects, orphan, revoker, cleaner>>
    BY <1>0, ReservedFacts
  <2>2. \A f \in Files : f \in made => file[f].status = "absent" /\ file'[f] = Reserved
    BY <1>0, ReservedFacts
  <2>3. \A f \in Files : f \notin made => file'[f] = file[f]
    BY <1>0, ReservedFacts
  <2>4. writer'[p].plan = plan /\ writer'[p].made \subseteq made /\ writer'[p].pc = "reserved"
    BY <1>0, ReservedFacts
  <2>5. \A q \in Writers : q # p => writer'[q] = writer[q]
    BY <1>0, ReservedFacts
  <2> QED  BY <2>1, <2>2, <2>3, <2>4, <2>5
<1>2. Reserved.status = "reserved" /\ Reserved.left = ReserveTicks /\ ReserveTicks \in Nat /\ GraceTicks \in Nat
  BY StorageAssumption DEF Reserved
<1>3. ASSUME NEW f \in Files, f \in made PROVE SoundCopy(f)' /\ orphan[f] < 0
  <2>1. /\ ~cleanup[f].queued /\ SoundCopy(f) /\ Timed(f) /\ file[f].status = "absent" /\ orphan[f] \in Int
        /\ file'[f].status = "reserved" /\ file'[f].left = ReserveTicks
    BY <1>1, <1>2, <1>3, CopyRows DEF SoundFile, Gone
  <2>2. Timed(f)' /\ orphan[f] < 0
    BY <1>1, <2>1 DEF Timed, OwnsCleanup
  <2> QED  BY <1>1, <1>2, <2>1, <2>2 DEF SoundCopy
<1>4. ASSUME NEW f \in Files, f \notin made PROVE SoundCopy(f)'
  <2>1. file'[f] = file[f]
    BY <1>1, <1>4
  <2>2. Timed(f)'
    BY <1>1, <2>1, CopyRows, TimedKeeps
  <2> QED  BY <1>1, <2>1, <2>2, CopyRows, CopyKeeps
<1>5. SoundTargets(p)'
  <2>1. \A t \in plan : t[1] \in made
    BY <1>0
  <2> QED  BY <1>1, <1>3, <2>1 DEF SoundTargets
<1>6. ASSUME NEW q \in Writers, q # p PROVE Targets(q) \cap (Targets(p)') = {}
  <2>1. \A f \in Targets(q) : f \in Files /\ file[f].status # "absent"
    BY WriterRows DEF Targets, SoundWriter
  <2>2. Targets(p)' \subseteq made
    BY <1>0, <1>1 DEF Targets
  <2> QED  BY <1>1, <2>1, <2>2
<1>7. ASSUME NEW v \in Revokers PROVE SoundWait(v)'
  <2> SUFFICES ASSUME revoker[v].pc = "revoke", file'[revoker[v].file].status = "reserved"
               PROVE  /\ orphan[revoker[v].file] < revoker[v].wait
                      /\ \A q \in Writers : writer'[q].pc = "writing" /\ writer'[q].file = revoker[v].file =>
                                            writer'[q].left < revoker[v].wait
    BY <1>1 DEF SoundWait
  <2>1. PICK g \in Files : g = revoker[v].file /\ file[g].status # "absent"
    BY DEF StorageInv, SoundRevoker
  <2>2. file'[g] = file[g]
    BY <1>1, <2>1
  <2>3. /\ orphan[g] < revoker[v].wait
        /\ \A q \in Writers : writer[q].pc = "writing" /\ writer[q].file = g => writer[q].left < revoker[v].wait
    BY <2>1, <2>2 DEF CopiesInv, SoundWait
  <2>4. \A q \in Writers : writer'[q].pc = "writing" => writer'[q] = writer[q]
    BY <1>1
  <2> QED  BY <2>1, <2>3, <2>4
<1>8. \A f \in Files : file[f].status = "reserved" => file'[f] = file[f]
  BY <1>1
<1>9. \A f \in Files : SoundCopy(f)'
  BY <1>3, <1>4
<1> QED  BY <1>1, <1>5, <1>6, <1>7, <1>8, <1>9, WriterCopies

LEMMA DiscardedCopies == ASSUME StorageInv, CopiesInv, NEW p \in Writers, DiscardCopies(p) PROVE CopiesInv'
<1>0. PICK made : made = Discarded(p)
  OBVIOUS
<1>1. /\ \A f \in Files : f \in made =>
            file[f].status \in Counted /\ file'[f] = Revoked /\ cleanup'[f].queued /\ cleanup'[f].linked
      /\ \A f \in Files : f \in made => cleanup'[f] = Enqueued(cleanup[f], SettleTicks(file[f].status), TRUE)
      /\ \A f \in Files : f \notin made => file'[f] = file[f] /\ cleanup'[f] = cleanup[f]
  BY <1>0, DiscardFacts
<1>2. /\ UNCHANGED <<used, objects, orphan, revoker, cleaner>>
      /\ writer'[p] = IdleWriter /\ \A q \in Writers : q # p => writer'[q] = writer[q]
  BY <1>0, DiscardFacts
<1>3. Revoked.status = "delete_pending" /\ IdleWriter.pc = "idle" /\ IdleWriter.plan = {} /\ IdleWriter.made = {}
  BY DEF Revoked, IdleWriter
<1>4. ASSUME NEW f \in Files, f \in made PROVE SoundCopy(f)'
  <2>1. file'[f].status = "delete_pending" /\ cleanup'[f] = Enqueued(cleanup[f], SettleTicks(file[f].status), TRUE)
    BY <1>1, <1>3, <1>4
  <2>2. SettleTicks(file[f].status) \in Nat /\ orphan'[f] = orphan[f]
    BY <1>2, SettleNat
  <2>3. CASE file[f].status \in {"reserved", "ready"}
    <3>1. orphan[f] < SettleTicks(file[f].status) \/ orphan[f] < 0
      BY <2>3, CopyRows, StorageAssumption DEF SettleTicks, SoundCopy
    <3>2. Timed(f)'
      BY <2>1, <2>2, <2>3, <3>1, RevokedTimed
    <3> QED  BY <2>1, <2>2, <3>2, CopyRows, CopyKeeps DEF Gone
  <2>4. CASE file[f].status = "delete_pending"
    <3>1. Timed(f)'
      BY <1>2, <2>1, <2>2, <2>4, CopyRows, TimedKeeps
    <3> QED  BY <2>1, <2>2, <3>1, CopyRows, CopyKeeps DEF Gone
  <2> QED  BY <1>1, <1>4, <2>3, <2>4 DEF Counted
<1>5. ASSUME NEW f \in Files, f \notin made PROVE SoundCopy(f)'
  <2>1. file'[f] = file[f] /\ cleanup'[f] = cleanup[f]
    BY <1>1, <1>5
  <2>2. Timed(f)'
    BY <1>2, <2>1, CopyRows, TimedKeeps
  <2> QED  BY <1>2, <2>1, <2>2, CopyRows, CopyKeeps
<1>6. SoundTargets(p)' /\ \A q \in Writers : q # p => Targets(q) \cap (Targets(p)') = {}
  BY <1>2, <1>3 DEF SoundTargets, Targets
<1>7. ASSUME NEW v \in Revokers PROVE SoundWait(v)'
  <2> SUFFICES ASSUME revoker[v].pc = "revoke", file'[revoker[v].file].status = "reserved"
               PROVE  /\ orphan[revoker[v].file] < revoker[v].wait
                      /\ \A q \in Writers : writer'[q].pc = "writing" /\ writer'[q].file = revoker[v].file =>
                                            writer'[q].left < revoker[v].wait
    BY <1>2 DEF SoundWait
  <2>1. PICK g \in Files : g = revoker[v].file
    BY DEF StorageInv, SoundRevoker
  <2>2. file'[g] = file[g]
    BY <1>1, <1>3, <2>1
  <2>3. /\ orphan[g] < revoker[v].wait
        /\ \A q \in Writers : writer[q].pc = "writing" /\ writer[q].file = g => writer[q].left < revoker[v].wait
    BY <2>1, <2>2 DEF CopiesInv, SoundWait
  <2>4. \A q \in Writers : writer'[q].pc = "writing" => writer'[q] = writer[q]
    BY <1>2, <1>3
  <2> QED  BY <2>1, <2>3, <2>4
<1>8. \A f \in Files : file[f].status = "reserved" => file'[f] = file[f] \/ f \in Targets(p)
  <2>1. \A f \in made : f \in Targets(p)
    BY <1>0 DEF Discarded, Targets
  <2> QED  BY <1>1, <2>1
<1>9. \A f \in Files : SoundCopy(f)'
  BY <1>4, <1>5
<1> QED  BY <1>2, <1>6, <1>7, <1>8, <1>9, WriterCopies

LEMMA CopiesStep == StorageInv /\ CopiesInv /\ [Next]_svars => (StorageInv /\ CopiesInv)'
<1> SUFFICES ASSUME StorageInv, CopiesInv, [Next]_svars PROVE StorageInv' /\ CopiesInv'
  OBVIOUS
<1>1. CASE Next
  <2>1. StorageInv'
    BY <1>1, StorageStep
  <2>2. ASSUME NEW p \in Writers, WriterStep(p) PROVE CopiesInv'
    <3>1. ASSUME NEW f, NEW s, RefuseWrite(p, f, s) PROVE CopiesInv'
      <4>1. UNCHANGED <<file, used, cleanup, revoker, cleaner, objects, orphan>>
            /\ writer' = [writer EXCEPT ![p] = Failed(writer[p])]
        BY <3>1 DEF RefuseWrite, storage, StorageInv, StorageRows
      <4> QED  BY <4>1, GiveUpCopies
    <3>2. ASSUME NEW landed \in BOOLEAN, FailWrite(p, landed) PROVE CopiesInv'
      <4>1. UNCHANGED <<file, used, cleanup, revoker, cleaner>> /\ writer' = [writer EXCEPT ![p] = Failed(writer[p])]
            /\ writer[p].pc = "writing" /\ Abandon(writer[p], landed)
        BY <3>2 DEF FailWrite, StorageInv, StorageRows
      <4> QED  BY <4>1, GiveUpCopies
    <3>3. ASSUME NEW landed \in BOOLEAN, CrashWriter(p, landed) PROVE CopiesInv'
      <4>1. UNCHANGED <<file, used, cleanup, revoker, cleaner>> /\ writer' = [writer EXCEPT ![p] = IdleWriter]
            /\ \/ UNCHANGED <<objects, orphan>>
               \/ writer[p].pc = "writing" /\ Abandon(writer[p], landed)
        BY <3>3 DEF CrashWriter
      <4> QED  BY <4>1, GiveUpCopies
    <3> QED  BY <2>2, <3>1, <3>2, <3>3, ReserveCopies, BeginCopies, FinishCopies, DiscardedCopies DEF WriterStep
  <2> QED  BY <1>1, <2>1, <2>2, RevokerCopies, CleanerCopies, ExpireCopies, LandCopies, TickCopies DEF Next
<1>2. CASE UNCHANGED svars
  <2>1. StorageInv'
    BY <1>2, QuotaKeeps DEF svars, StorageInv, StorageRows, SoleWrite, SoundFile, SoundWriter, SoundRevoker, SoundCleaner
  <2>2. CopiesInv'
    BY <1>2 DEF svars, CopiesInv, SoundCopy, SoundTargets, SoleTargets, Targets, SoundWait, Timed, OwnsCleanup
  <2> QED  BY <2>1, <2>2
<1> QED  BY <1>1, <1>2

\* "releasing capacity only after confirmed erasure": over publications, uploads through the
\* server, revocations, and sweeps that crash or come late, what is in the bucket, or may
\* still get there, belongs to a file the quota counts; published files have their bytes.
THEOREM StorageIsSound == Spec => [](StorageTypeOK /\ QuotaExact /\ ReadyHasBytes /\ ErasureQueued /\ BytesCounted)
<1>1. Init => StorageInv /\ CopiesInv
  <2> SUFFICES ASSUME Init PROVE StorageInv /\ CopiesInv
    OBVIOUS
  <2>1. \A f \in Files : SoundCopy(f)
    <3>1. \A f \in Files : orphan[f] = -1 /\ file[f].status = "absent" /\ f \notin objects
      BY DEF Init, NoFile
    <3>2. \A f \in Files : cleanup[f].queued = FALSE /\ cleanup[f].token = None
      BY DEF Init, NoCleanup
    <3> QED  BY <3>1, <3>2, StorageAssumption DEF SoundCopy, Timed
  <2>2. \A p \in Writers : writer[p].pc = "idle" /\ writer[p].plan = {} /\ writer[p].made = {}
    BY DEF Init, IdleWriter
  <2>3. (\A p \in Writers : SoundTargets(p)) /\ SoleTargets
    BY <2>2 DEF SoundTargets, SoleTargets, Targets
  <2>4. \A v \in Revokers : SoundWait(v)
    BY DEF Init, IdleRevoker, SoundWait
  <2> QED  BY <2>1, <2>3, <2>4, StorageStarts DEF CopiesInv
<1>2. StorageInv /\ CopiesInv /\ [Next]_svars => (StorageInv /\ CopiesInv)'
  BY CopiesStep
<1>3. StorageInv /\ CopiesInv => StorageTypeOK /\ QuotaExact /\ ReadyHasBytes /\ ErasureQueued /\ BytesCounted
  <2> SUFFICES ASSUME StorageInv, CopiesInv
               PROVE  StorageTypeOK /\ QuotaExact /\ ReadyHasBytes /\ ErasureQueued /\ BytesCounted
    OBVIOUS
  <2>1. BytesCounted
    BY CopyRows DEF Timed, BytesCounted, FileRow
  <2> QED  BY <2>1, StoredSound
<1> QED  BY <1>1, <1>2, <1>3, PTL DEF Spec
====

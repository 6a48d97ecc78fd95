------------------------------ MODULE Assistant ------------------------------
(***************************************************************************)
(* One turn of the general assistant: the graph of                         *)
(* my_agents/agents/general_assistant/graph.py and the completion of its   *)
(* run.  The graph reopens files of the conversation, decides whether the  *)
(* turn may search documents, retrieves evidence (or one whole document),  *)
(* may pause twice to ask the person, composes the reply, and the run is   *)
(* completed from the checkpointed ids of what was retrieved.  Meanwhile   *)
(* documents are edited, indexed again, revoked or deleted, and originals  *)
(* of files expire.                                                        *)
(*                                                                         *)
(* A chunk is the document and the version it was cut from.  A message is  *)
(* its kind: what the wording rules see in it.  What search finds relevant *)
(* is any subset of what it may read; module Retrieval models the search.  *)
(***************************************************************************)
EXTENDS Naturals, FiniteSets

CONSTANTS
    Docs,
    SystemDocs,      \* documents of system knowledge bases
    Scoped,          \* documents of the knowledge base a person may select
    Files,           \* files submitted to the conversation
    NoDoc,
    MaxRefinements,  \* DOCUMENT_SELECTION_REFINEMENT_MAX_ATTEMPTS
    MaxChanges       \* bound: changes of documents and files during the turn

ASSUME AssistantAssumption ==
    /\ SystemDocs \subseteq Docs /\ Scoped \subseteq Docs \ SystemDocs /\ NoDoc \notin Docs
    /\ MaxRefinements \in Nat /\ MaxChanges \in Nat

VARIABLES
    docs,     \* version, whether its chunks are indexed, whether readable, whether it is long
    files,    \* the files whose original is available
    turn,     \* the checkpointed graph state and runtime context
    changes

avars == <<docs, files, turn, changes>>

Kinds == {"chat", "refuse", "web", "project", "followup", "about", "this", "whole"}
AboutDocuments == {"about", "this", "whole"}
Priorities == {"automatic", "on_request", "always"}
Modes == {"all", "selected", "empty"}

NoResult == [route |-> "none", chunks |-> {}, grounding |-> "general", attempts |-> 0, insufficient |-> FALSE]
NoCoverage == [doc |-> NoDoc, long |-> FALSE]

\* graph_input_for_run and graph_context_for_run: a run starts with nothing retrieved;
\* a replay of an answer to a whole document starts with that document selected.
Fresh(kind, priority, mode, model, hitl, allowed, attached, document) ==
    [at |-> "attachments", kind |-> kind, priority |-> priority, mode |-> mode, model |-> model,
     hitl |-> hitl, allowed |-> allowed,
     workspace |-> attached, chosen |-> {}, access |-> "original", fileNeed |-> FALSE, fileGone |-> FALSE,
     full |-> FALSE, result |-> NoResult, text |-> {}, selected |-> document, byPerson |-> FALSE,
     options |-> {}, known |-> FALSE, needs |-> FALSE, tries |-> 0, asks |-> 0,
     refinable |-> FALSE, browsable |-> FALSE, target |-> "none", coverage |-> NoCoverage,
     round |-> 0, reply |-> "none", seen |-> {}, used |-> {}, end |-> "none", cited |-> {}]

AssistantInit ==
    /\ docs \in [Docs -> [ver : {1}, indexed : {TRUE}, live : {TRUE}, readable : BOOLEAN, long : BOOLEAN]]
    /\ \A d \in SystemDocs : docs[d].readable
    /\ files \in SUBSET Files
    /\ changes = 0
    /\ \E kind \in Kinds, priority \in Priorities, mode \in Modes, model, hitl, allowed \in BOOLEAN,
          attached \in SUBSET files, document \in Docs \cup {NoDoc} :
          /\ document # NoDoc => ~allowed /\ attached = {}
          /\ turn = Fresh(kind, priority, mode, model, hitl, allowed, attached, document)

-----------------------------------------------------------------------------
(* What the turn may read. *)

\* retrieval_knowledge_base_ids: all, or the selected base with the ambient system ones.
InScope(t) == CASE t.mode = "all" -> Docs
                [] t.mode = "selected" -> Scoped \cup SystemDocs
                [] t.mode = "empty" -> SystemDocs

\* _authorized_document_filter, evaluated by every query.
Authorized(t) == {d \in InScope(t) : docs[d].readable}

\* _user_selectable_document_filter: without system knowledge.
Choosable(t) == Authorized(t) \ SystemDocs

Chunk(d) == [doc |-> d, ver |-> docs[d].ver]
ChunksOf(ds) == {Chunk(d) : d \in {x \in ds : docs[x].indexed}}
Stamped(t, chunks) == {[doc |-> c.doc, ver |-> c.ver, round |-> t.round] : c \in chunks}

\* Fault: the range is read by its id alone.
MayReadAny(t, d) == docs[d].live

\* read_full_document_range finds the document again among those that may be chosen.
MayRead(t, d) == d \in Choosable(t)

-----------------------------------------------------------------------------
(* The files of the conversation: AttachmentRecallRuntime.resolve. *)

\* Reopening selected files: their notes, or every original or none.
Reopen(t, ids) ==
    IF t.access = "notes" THEN [t EXCEPT !.fileNeed = FALSE, !.chosen = ids]
    ELSE IF ~(ids \subseteq files) THEN [t EXCEPT !.fileGone = TRUE]
    ELSE [t EXCEPT !.fileNeed = FALSE, !.chosen = ids, !.workspace = ids]

\* The first resolution: attached files, or what the access decision says of earlier ones.
FirstResolution(t) ==
    IF t.workspace # {} THEN {[t EXCEPT !.chosen = t.workspace]}
    ELSE {t, [t EXCEPT !.fileGone = (Files # {})]}
         \cup {[t EXCEPT !.fileNeed = (Files # {}), !.access = a] : a \in {"notes", "original"}}
         \cup {Reopen(t, ids) : ids \in SUBSET Files \ {{}}}

ResolveAttachments ==
    /\ turn.at = "attachments"
    /\ \E u \in FirstResolution(turn) :
          turn' = [u EXCEPT !.at = IF u.fileNeed /\ u.hitl THEN "waitfile" ELSE "source"]
    /\ UNCHANGED <<docs, files, changes>>

\* A resumed run gets a new runtime context: the workspace is not in it.
Resumed(t) == [t EXCEPT !.round = @ + 1, !.workspace = {}]

\* The person names files that were offered; originals must be available at the resume.
AnswerFiles ==
    /\ turn.at = "waitfile"
    /\ \E ids \in SUBSET Files \ {{}} :
          /\ turn.access = "original" => ids \subseteq files
          /\ turn' = [Resumed(turn) EXCEPT !.at = "reopen", !.chosen = ids]
    /\ UNCHANGED <<docs, files, changes>>

\* request_attachments resolves the answer in the worker, later than the resume was accepted.
ReopenAnswered ==
    /\ turn.at = "reopen"
    /\ turn' = [Reopen([turn EXCEPT !.chosen = {}], turn.chosen) EXCEPT !.at = "source"]
    /\ UNCHANGED <<docs, files, changes>>

-----------------------------------------------------------------------------
(* Which sources the turn uses: retrieval_gate.py and tool_selection.py. *)

\* Fault: a preference for documents is read before the refusal.
PreferenceEager(t) ==
    CASE t.priority = "automatic" -> "undecided"
      [] t.priority = "always" -> "knowledge_base"
      [] t.kind = "refuse" \/ t.mode = "empty" -> "bypass"
      [] t.mode = "selected" \/ t.kind \in AboutDocuments \cup {"followup"} -> "knowledge_base"
      [] OTHER -> "bypass"

\* retrieval_preference_decision; automatic leaves the choice to the decider.
Preference(t) ==
    CASE t.priority = "automatic" -> "undecided"
      [] t.priority # "automatic" /\ (t.kind = "refuse" \/ t.mode = "empty") -> "bypass"
      [] OTHER -> IF t.priority = "always" \/ t.mode = "selected"
                       \/ t.kind \in AboutDocuments \cup {"followup"}
                  THEN "knowledge_base" ELSE "bypass"

\* DeterministicRetrievalSourceDecider.
RuleSource(t) ==
    IF t.kind \notin {"refuse", "web"}
       /\ (t.mode = "selected" \/ t.kind \in AboutDocuments \cup {"project", "followup"})
    THEN "knowledge_base" ELSE "bypass"

\* A model may choose either, and on failure the rules do; a refusal is not put to it.
DeciderSources(t) ==
    IF t.kind = "refuse" THEN {"bypass"}
    ELSE {RuleSource(t)} \cup (IF t.model THEN {"knowledge_base", "bypass"} ELSE {})

Sources(t) == IF Preference(t) = "undecided" THEN DeciderSources(t) ELSE {Preference(t)}

\* The tool planner: the rules read the wording, a model may choose either tool.
Comprehensive(t) == {t.kind = "whole"} \cup (IF t.model THEN BOOLEAN ELSE {})

Bypassed(t) == [t EXCEPT !.full = FALSE, !.at = "respond",
                         !.result = [NoResult EXCEPT !.route = "no_retrieval", !.attempts = 1]]

\* Files that are missing or unclear, and attached files without a selected base, leave
\* documents out.
DecideSource ==
    /\ turn.at = "source"
    /\ IF turn.fileGone \/ turn.fileNeed \/ (turn.workspace # {} /\ turn.mode # "selected")
       THEN turn' = Bypassed(turn)
       ELSE \E source \in Sources(turn) :
            IF source = "bypass" THEN turn' = Bypassed(turn)
            ELSE \E full \in Comprehensive(turn) :
                 turn' = [turn EXCEPT !.full = full, !.at = IF full THEN "target" ELSE "rag"]
    /\ UNCHANGED <<docs, files, changes>>

-----------------------------------------------------------------------------
(* Focused retrieval, as the graph sees ContextForge. *)

\* route_retrieval with the counts of documents, and force_retrieval.
Route(t, authorized, choosable) ==
    CASE t.kind = "this" -> IF choosable > 1 THEN "clarification_required" ELSE "retrieval_required"
      [] t.kind \in {"about", "whole"} -> "retrieval_required"
      [] t.kind \in {"project", "followup"} -> "retrieval_optional"
      [] OTHER -> IF authorized > 0 \/ t.priority # "automatic"
                  THEN "retrieval_optional" ELSE "no_retrieval"

\* answer_mode_for_route.
Grounding(route, chunks) ==
    CASE route = "retrieval_required" /\ chunks # {} -> "grounded"
      [] route = "retrieval_optional" /\ chunks # {} -> "mixed"
      [] OTHER -> "general"

\* select_after_rag_context.
AfterRag(t, result, mayAsk) ==
    IF mayAsk /\ t.hitl /\ t.allowed /\ result.route = "clarification_required" THEN "prepare"
    ELSE IF result.insufficient THEN "finish" ELSE "respond"

\* Fault: the second search is not counted.
CountedNot(t) == 1

Counted(t) == t.result.attempts + 1

\* One attempt over the given documents: what is found and relevant is consulted; a
\* required search without relevant evidence is repeated once.
Attempt(t, pool, founds, route, mayAsk, again) ==
    \E found \in founds :
    LET chunks == IF route \in {"no_retrieval", "clarification_required"} THEN {} ELSE found
        attempts == Counted(t)
        empty == route = "retrieval_required" /\ chunks = {}
        result == [route |-> route, chunks |-> chunks, grounding |-> Grounding(route, chunks),
                   attempts |-> attempts, insufficient |-> empty]
    IN  turn' = IF empty /\ attempts < 2
                THEN [t EXCEPT !.result = [NoResult EXCEPT !.attempts = attempts], !.at = again]
                ELSE [t EXCEPT !.result = result, !.text = Stamped(t, chunks),
                               !.at = AfterRag(t, result, mayAsk)]

RetrieveContext ==
    /\ turn.at = "rag"
    /\ Attempt(turn, Authorized(turn), SUBSET ChunksOf(Authorized(turn)),
               Route(turn, Cardinality(Authorized(turn)), Cardinality(Choosable(turn))), TRUE, "rag")
    /\ UNCHANGED <<docs, files, changes>>

\* Fault: the resumed turn searches the whole scope again.
SelectedPoolAll(t) == Authorized(t)

\* Every chunk of the selected document is evidence, if it may still be read.
SelectedPool(t) == Authorized(t) \cap {t.selected}

RetrieveSelected ==
    /\ turn.at = "selected"
    /\ Attempt(turn, SelectedPool(turn), {ChunksOf(SelectedPool(turn))}, Route(turn, 1, 1), FALSE, "selected")
    /\ UNCHANGED <<docs, files, changes>>

-----------------------------------------------------------------------------
(* Asking which document is meant. *)

\* What the names in the message resolve to: one document, or some candidates.
Resolutions(t) ==
    {[doc |-> d, options |-> {}] : d \in Choosable(t)}
    \cup {[doc |-> NoDoc, options |-> c] : c \in SUBSET Choosable(t)}

\* Fault: one refinement more than the limit.
MayRefineMore(t) == t.tries <= MaxRefinements

MayRefine(t) == t.tries < MaxRefinements

Ask(t, options) ==
    [t EXCEPT !.options = options, !.known = TRUE, !.needs = FALSE, !.at = "waitdoc", !.asks = @ + 1,
              !.refinable = MayRefine(t), !.browsable = ~MayRefine(t)]

AfterChoice(t) == IF t.full THEN "target" ELSE "selected"

\* prepare_document_selection: the options already found, or a new resolution; a unique
\* one is not asked about.
PrepareSelection ==
    /\ turn.at = "prepare"
    /\ IF turn.known /\ ~turn.needs THEN turn' = Ask(turn, turn.options)
       ELSE \E r \in Resolutions(turn) :
            turn' = IF r.doc # NoDoc
                    THEN [turn EXCEPT !.selected = r.doc, !.needs = FALSE, !.at = AfterChoice(turn),
                                      !.result = NoResult]
                    ELSE Ask(turn, r.options)
    /\ UNCHANGED <<docs, files, changes>>

\* The person selects an offered document, or any when browsing; it must be readable then.
AnswerDocument ==
    /\ turn.at = "waitdoc"
    /\ \E d \in Choosable(turn) :
          /\ d \in turn.options \/ turn.browsable
          /\ turn' = [Resumed(turn) EXCEPT !.selected = d, !.byPerson = TRUE, !.at = AfterChoice(turn),
                                           !.result = NoResult]
    /\ UNCHANGED <<docs, files, changes>>

Refine ==
    /\ turn.at = "waitdoc" /\ turn.refinable
    /\ turn' = [Resumed(turn) EXCEPT !.tries = @ + 1, !.options = {}, !.needs = TRUE,
                                     !.at = IF turn.full THEN "target" ELSE "prepare"]
    /\ UNCHANGED <<docs, files, changes>>

\* The interaction expires, or the run is cancelled while it waits.
Abandon ==
    /\ turn.at \in {"waitfile", "waitdoc"}
    /\ turn' = [turn EXCEPT !.at = "done", !.end = "cancelled"]
    /\ UNCHANGED <<docs, files, changes>>

-----------------------------------------------------------------------------
(* Reading one whole document. *)

\* _full_document_empty_state.
Empty(t, route) ==
    [t EXCEPT !.text = {},
              !.result = [NoResult EXCEPT !.route = route, !.attempts = 1,
                                          !.insufficient = (route = "retrieval_required")]]

Unavailable(t) == [Empty(t, "retrieval_required") EXCEPT !.target = "unavailable", !.at = "finish"]

ResolveTarget ==
    /\ turn.at = "target"
    /\ IF turn.selected # NoDoc
       THEN turn' = IF turn.selected \in Choosable(turn)
                    THEN [turn EXCEPT !.target = "resolved", !.needs = FALSE, !.at = "read"]
                    ELSE Unavailable(turn)
       ELSE \E r \in Resolutions(turn) :
            turn' = IF r.doc # NoDoc
                    THEN [turn EXCEPT !.selected = r.doc, !.target = "resolved", !.needs = FALSE, !.at = "read"]
                    ELSE IF r.options # {} \/ Cardinality(Choosable(turn)) > 1
                    THEN [Empty(turn, "clarification_required") EXCEPT
                              !.target = "ambiguous", !.options = r.options, !.known = TRUE, !.needs = FALSE,
                              !.at = IF turn.hitl /\ turn.allowed THEN "prepare" ELSE "respond"]
                    ELSE Unavailable(turn)
    /\ UNCHANGED <<docs, files, changes>>

\* A range with the chunks that vouch for it.
Readable(t) == MayRead(t, t.selected) /\ docs[t.selected].indexed

PrepareRead ==
    /\ turn.at = "read"
    /\ turn' = IF Readable(turn)
               THEN [turn EXCEPT !.coverage = [doc |-> turn.selected, long |-> docs[turn.selected].long],
                                 !.result = [route |-> "retrieval_required", chunks |-> {Chunk(turn.selected)},
                                             grounding |-> "grounded", attempts |-> 1, insufficient |-> FALSE],
                                 !.text = {}, !.at = "respond"]
               ELSE Unavailable(turn)
    /\ UNCHANGED <<docs, files, changes>>

-----------------------------------------------------------------------------
(* The reply. *)

\* Fault: the files selected before the pause are not reopened.
ReopenedNot(t) == t

\* After a pause the files selected before it are reopened.
Reopened(t) == IF t.workspace = {} /\ t.chosen # {} THEN Reopen(t, t.chosen) ELSE t

\* _compose_reply: a fixed reply when the files are missing or unclear, else the model
\* reads the evidence and the open files.
Compose(t, text) ==
    LET u == IF t.fileGone \/ t.fileNeed THEN t ELSE Reopened(t) IN
    IF u.fileGone \/ u.fileNeed THEN [u EXCEPT !.reply = "limited", !.at = "finish"]
    ELSE [u EXCEPT !.reply = "composed", !.seen = text, !.used = u.workspace, !.at = "finish"]

\* respond_full_document reads the range again and refuses one of other offsets.
Respond ==
    /\ turn.at = "respond"
    /\ turn' = IF ~(turn.full /\ turn.target = "resolved" /\ turn.coverage # NoCoverage)
               THEN Compose(turn, turn.text)
               ELSE IF Readable(turn) /\ docs[turn.selected].long = turn.coverage.long
               THEN Compose(turn, Stamped(turn, {Chunk(turn.selected)}))
               ELSE [Unavailable(turn) EXCEPT !.coverage = NoCoverage]
    /\ UNCHANGED <<docs, files, changes>>

\* Fault: the answer is completed with the chunks as they were checkpointed.
RehydratedAll(chunks) == chunks

\* _retrieval_context_from_snapshot: the chunks that still exist.
Rehydrated(chunks) == {c \in chunks : docs[c.doc].live /\ docs[c.doc].indexed /\ docs[c.doc].ver = c.ver}

\* The grounding verifier.
Verified(result, consulted) ==
    /\ result.route = "retrieval_required" => result.grounding = "grounded"
    /\ (result.grounding = "general") <=> (consulted = {})

\* Completion: a clarification or an insufficient reply cites nothing; an answer cites
\* what it consulted, and fails the run when too little of it is left.
Complete ==
    /\ turn.at = "finish"
    /\ LET result == turn.result
           consulted == IF result.grounding = "general" THEN {} ELSE Rehydrated(result.chunks)
           Ended(end, cited) == [turn EXCEPT !.at = "done", !.end = end, !.cited = cited]
       IN  turn' = IF result.route = "clarification_required"
                   THEN [Ended("clarification", {}) EXCEPT !.coverage = NoCoverage]
                   ELSE IF result.insufficient
                   THEN [Ended("insufficient", {}) EXCEPT !.coverage = NoCoverage]
                   ELSE IF Verified(result, consulted) THEN Ended("answer", consulted)
                   ELSE IF result.route = "retrieval_required" /\ result.attempts >= 2
                   THEN Ended("insufficient", {})
                   ELSE Ended("failed", {})
    /\ UNCHANGED <<docs, files, changes>>

-----------------------------------------------------------------------------
(* The rest of the product. *)

Change ==
    /\ turn.at # "done" /\ changes < MaxChanges /\ changes' = changes + 1
    /\ \/ /\ \E d \in Docs \ SystemDocs :
                /\ docs[d].live
                /\ \/ docs' = [docs EXCEPT ![d].readable = FALSE]
                   \/ docs' = [docs EXCEPT ![d].readable = FALSE, ![d].live = FALSE, ![d].indexed = FALSE]
                   \/ \E long \in BOOLEAN :
                        docs' = [docs EXCEPT ![d].ver = @ + 1, ![d].indexed = FALSE, ![d].long = long]
          /\ UNCHANGED files
       \/ \E f \in files : files' = files \ {f} /\ UNCHANGED docs
    /\ UNCHANGED turn

\* The extraction of an edited document ends.
Index ==
    /\ \E d \in Docs : docs[d].live /\ ~docs[d].indexed /\ docs' = [docs EXCEPT ![d].indexed = TRUE]
    /\ turn.at # "done"
    /\ UNCHANGED <<files, turn, changes>>

Execute ==
    \/ ResolveAttachments \/ ReopenAnswered \/ DecideSource
    \/ RetrieveContext \/ RetrieveSelected \/ PrepareSelection
    \/ ResolveTarget \/ PrepareRead \/ Respond \/ Complete

Answered == AnswerFiles \/ AnswerDocument \/ Refine

AssistantNext == Execute \/ Answered \/ Abandon \/ Change \/ Index

AssistantSpec == AssistantInit /\ [][AssistantNext]_avars

-----------------------------------------------------------------------------
(* Properties. *)

\* Text is read only from documents the person may read at that moment, also when the
\* document was selected, or its id checkpointed, before a pause.
NoForeignText ==
    [][\A e \in (turn'.text \ turn.text) \cup (turn'.seen \ (turn.text \cup turn.seen)) :
          docs[e.doc].readable /\ e.doc \in InScope(turn)]_avars

\* An explicit refusal of documents is honoured under every preference and decider.
RefusalHonoured == turn.kind = "refuse" => turn.text = {} /\ turn.seen = {} /\ turn.cited = {}

\* Once the person has named the document, the run rests on that document alone, and does
\* not ask again.
SelectionSettles ==
    turn.byPerson =>
        /\ \A c \in turn.cited \cup turn.seen : c.doc = turn.selected
        /\ turn.end # "clarification"

\* What a composed answer cites is what the model read: the same version of the text,
\* read after the last pause.
CitedWasRead ==
    turn.reply = "composed" /\ turn.at = "done" =>
        turn.cited \subseteq {[doc |-> e.doc, ver |-> e.ver] : e \in {s \in turn.seen : s.round = turn.round}}

\* The person is asked at most once more than they may refine, and can always answer: each
\* pause allows a refinement, or the choice of any document.
AskingBounded ==
    turn.at = "waitdoc" => turn.asks <= MaxRefinements + 1 /\ (turn.refinable # turn.browsable)

\* A reply composed by the model in a turn that opened originals had all of them open:
\* otherwise the reply states that they are missing.
LimitStated ==
    turn.reply = "composed" /\ turn.chosen # {} /\ turn.access = "original" => turn.used = turn.chosen

\* A wish not to search is honoured, questions to the person are bounded and settle, and
\* the reply cites and relies on what was read.
TurnSound == RefusalHonoured /\ SelectionSettles /\ AskingBounded /\ CitedWasRead /\ LimitStated
=============================================================================

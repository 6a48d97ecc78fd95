--------------------------- MODULE AssistantProofs ---------------------------
(***************************************************************************)
(* Proofs about one turn of the general assistant, for any documents and   *)
(* files, any number of changes to them during the turn, and any limit on  *)
(* refinements.                                                            *)
(***************************************************************************)
EXTENDS Assistant, TLAPS

Points == {"attachments", "waitfile", "reopen", "source", "rag", "selected", "prepare", "waitdoc",
           "target", "read", "respond", "finish", "done"}
Routes == {"none", "no_retrieval", "retrieval_optional", "retrieval_required", "clarification_required"}
Ends == {"none", "clarification", "insufficient", "answer", "failed", "cancelled"}

ChunkType == [doc : Docs, ver : Nat]
TextType == [doc : Docs, ver : Nat, round : Nat]
ResultType == [route : Routes, chunks : SUBSET ChunkType, grounding : {"general", "grounded", "mixed"},
               attempts : Nat, insufficient : BOOLEAN]

TurnType ==
    [at : Points, kind : Kinds, priority : Priorities, mode : Modes, model : BOOLEAN,
     hitl : BOOLEAN, allowed : BOOLEAN,
     workspace : SUBSET Files, chosen : SUBSET Files, access : {"notes", "original"},
     fileNeed : BOOLEAN, fileGone : BOOLEAN,
     full : BOOLEAN, result : ResultType, text : SUBSET TextType, selected : Docs \cup {NoDoc},
     byPerson : BOOLEAN,
     options : SUBSET Docs, known : BOOLEAN, needs : BOOLEAN, tries : Nat, asks : Nat,
     refinable : BOOLEAN, browsable : BOOLEAN, target : {"none", "resolved", "ambiguous", "unavailable"},
     coverage : [doc : Docs \cup {NoDoc}, long : BOOLEAN],
     round : Nat, reply : {"none", "limited", "composed"}, seen : SUBSET TextType, used : SUBSET Files,
     end : Ends, cited : SUBSET ChunkType]

AssistantTypeOK ==
    /\ docs \in [Docs -> [ver : Nat, indexed : BOOLEAN, live : BOOLEAN, readable : BOOLEAN, long : BOOLEAN]]
    /\ files \in SUBSET Files
    /\ turn \in TurnType
    /\ changes \in Nat

-----------------------------------------------------------------------------
(* The inductive invariant. *)

\* What is written at the end is not written before.
Unwritten(t) ==
    /\ t.at \notin {"finish", "done"} => t.reply = "none" /\ t.seen = {}
    /\ t.at # "done" => t.cited = {} /\ t.end = "none"
    /\ t.at \notin {"respond", "finish", "done"} => t.coverage = NoCoverage
    /\ t.at \in {"target", "read"} => t.full
    /\ t.at = "read" => t.target = "resolved" /\ t.selected \in Docs

\* A refused search is never begun.
Refused(t) ==
    t.kind = "refuse" =>
        /\ t.at \notin {"rag", "selected", "prepare", "waitdoc", "target", "read"}
        /\ ~t.full /\ t.result.chunks = {} /\ t.text = {} /\ t.seen = {} /\ t.cited = {}

\* After the person's choice all that is read and found is of the chosen document.
Settled(t) ==
    t.byPerson =>
        /\ t.at \in {"target", "selected", "read", "respond", "finish", "done"}
        /\ t.selected \in Docs
        /\ t.at \in {"respond", "finish", "done"} =>
             /\ t.result.route # "clarification_required"
             /\ \A c \in t.result.chunks : c.doc = t.selected
             /\ \A e \in t.text : e.doc = t.selected
             /\ \A e \in t.seen : e.doc = t.selected
             /\ \A c \in t.cited : c.doc = t.selected
             /\ t.end # "clarification"

\* A question is asked once, and once more for every refinement.
Asked(t) ==
    /\ t.tries <= MaxRefinements
    /\ ~t.byPerson /\ t.at \notin {"waitdoc", "done"} => t.asks = t.tries
    /\ t.at = "waitdoc" =>
         /\ t.asks = t.tries + 1
         /\ t.refinable <=> t.tries < MaxRefinements
         /\ t.browsable <=> ~t.refinable

\* The turn answers from one whole document.
WholeRead(t) == t.full /\ t.target = "resolved" /\ t.coverage # NoCoverage

\* What the model was given in this round.
Given(t, text, c) == [doc |-> c.doc, ver |-> c.ver, round |-> t.round] \in text

\* What was found is what the model reads, or is out of date and will not be cited.
Current(t) ==
    /\ \A c \in t.result.chunks : c.ver <= docs[c.doc].ver
    /\ t.at = "respond" =>
         IF WholeRead(t) THEN t.selected \in Docs /\ \A c \in t.result.chunks : c.doc = t.selected
         ELSE \A c \in t.result.chunks : Given(t, t.text, c)
    /\ t.at = "finish" /\ t.reply = "composed" =>
         \A c \in t.result.chunks : Given(t, t.seen, c) \/ c.ver < docs[c.doc].ver
    /\ t.at = "done" /\ t.reply = "composed" => \A c \in t.cited : Given(t, t.seen, c)

\* What is open is what was chosen.
Opened(t) ==
    /\ t.at # "attachments" => t.workspace = {} \/ t.workspace = t.chosen
    /\ t.at = "reopen" => t.workspace = {}
    /\ t.reply = "composed" /\ t.chosen # {} /\ t.access = "original" => t.used = t.chosen

AssistantInv ==
    /\ AssistantTypeOK
    /\ Unwritten(turn) /\ Refused(turn) /\ Settled(turn) /\ Asked(turn) /\ Current(turn) /\ Opened(turn)

-----------------------------------------------------------------------------
(* The operators of the module. *)

LEMMA RouteTyped ==
    ASSUME NEW t, NEW a, NEW c
    PROVE  /\ Route(t, a, c) \in Routes \ {"none"}
           /\ Route(t, 1, 1) # "clarification_required"
  BY DEF Route, Routes

LEMMA ChunksTyped ==
    ASSUME AssistantTypeOK, NEW ds \in SUBSET Docs
    PROVE  /\ ChunksOf(ds) \subseteq ChunkType
           /\ \A c \in ChunksOf(ds) : c.doc \in ds /\ c.ver = docs[c.doc].ver
  BY DEF ChunksOf, Chunk, ChunkType, AssistantTypeOK

LEMMA StampedTyped ==
    ASSUME NEW t \in TurnType, NEW chunks \in SUBSET ChunkType
    PROVE  /\ Stamped(t, chunks) \subseteq TextType
           /\ \A e \in Stamped(t, chunks) : \E c \in chunks : e.doc = c.doc
           /\ \A c \in chunks : Given(t, Stamped(t, chunks), c)
  BY DEF Stamped, TextType, ChunkType, TurnType, Given

LEMMA ReadableDocs ==
    ASSUME AssistantTypeOK
    PROVE  /\ Authorized(turn) \subseteq Docs /\ Choosable(turn) \subseteq Authorized(turn)
           /\ \A d \in Authorized(turn) : docs[d].readable /\ d \in InScope(turn)
  BY AssistantAssumption DEF Authorized, Choosable, InScope, AssistantTypeOK, TurnType, Modes

\* The two differ at most in the files they have open and in where they stand.
SameButFiles(u, t) ==
    /\ u.kind = t.kind /\ u.priority = t.priority /\ u.mode = t.mode /\ u.model = t.model
    /\ u.hitl = t.hitl /\ u.allowed = t.allowed /\ u.full = t.full /\ u.result = t.result /\ u.text = t.text
    /\ u.selected = t.selected /\ u.byPerson = t.byPerson /\ u.options = t.options /\ u.known = t.known
    /\ u.needs = t.needs /\ u.tries = t.tries /\ u.asks = t.asks /\ u.refinable = t.refinable
    /\ u.browsable = t.browsable /\ u.target = t.target /\ u.coverage = t.coverage /\ u.round = t.round
    /\ u.reply = t.reply /\ u.seen = t.seen /\ u.used = t.used /\ u.end = t.end /\ u.cited = t.cited

\* Reopening files opens what was chosen, or reports a missing original.
LEMMA FilesMissed ==
    ASSUME NEW t \in TurnType, NEW some \in BOOLEAN, NEW u, u = [t EXCEPT !.fileGone = some]
    PROVE  /\ u \in TurnType /\ SameButFiles(u, t) /\ u.at = t.at /\ u.access = t.access
           /\ u.chosen = t.chosen /\ u.workspace = t.workspace /\ u.fileGone = some
  <1>1. u \in TurnType
    BY DEF TurnType
  <1> QED
    BY <1>1 DEF TurnType, SameButFiles

LEMMA FilesUnclear ==
    ASSUME NEW t \in TurnType, NEW some \in BOOLEAN, NEW a \in {"notes", "original"},
           NEW u, u = [t EXCEPT !.fileNeed = some, !.access = a]
    PROVE  /\ u \in TurnType /\ SameButFiles(u, t) /\ u.chosen = t.chosen /\ u.workspace = t.workspace
  <1>0. [t EXCEPT !.fileNeed = some, !.access = a] \in TurnType
    <2> DEFINE v == [t EXCEPT !.fileNeed = some]
    <2>1. v \in TurnType
      BY DEF TurnType
    <2>2. [t EXCEPT !.fileNeed = some, !.access = a] = [v EXCEPT !.access = a]
      OBVIOUS
    <2> HIDE DEF v
    <2>3. [v EXCEPT !.access = a] \in TurnType
      BY <2>1 DEF TurnType
    <2> QED
      BY <2>2, <2>3
  <1>1. u \in TurnType
    BY <1>0
  <1> QED
    BY <1>1 DEF TurnType, SameButFiles

LEMMA ReopenTyped ==
    ASSUME NEW t \in TurnType, NEW ids \in SUBSET Files, NEW u, u = Reopen(t, ids)
    PROVE  /\ u \in TurnType /\ SameButFiles(u, t) /\ u.at = t.at /\ u.access = t.access
           /\ \/ u.fileGone /\ u.chosen = t.chosen /\ u.workspace = t.workspace
              \/ u.chosen = ids /\ t.access = "notes" /\ u.workspace = t.workspace
              \/ u.chosen = ids /\ u.workspace = ids
  <1>1. CASE t.access = "notes"
    <2> DEFINE need == FALSE
    <2>1. need \in BOOLEAN
      OBVIOUS
    <2>0. ASSUME NEW b \in BOOLEAN PROVE [t EXCEPT !.fileNeed = b, !.chosen = ids] \in TurnType
      BY DEF TurnType
    <2>2. u = [t EXCEPT !.fileNeed = need, !.chosen = ids]
      BY <1>1 DEF Reopen
    <2> HIDE DEF need
    <2>3. u \in TurnType
      BY <2>0, <2>1, <2>2
    <2>4. SameButFiles(u, t) /\ u.at = t.at /\ u.access = t.access /\ u.chosen = ids /\ u.workspace = t.workspace
      BY <2>1, <2>2, <2>3 DEF TurnType, SameButFiles
    <2> QED
      BY <1>1, <2>3, <2>4
  <1>2. CASE t.access # "notes" /\ ~(ids \subseteq files)
    <2>1. u = [t EXCEPT !.fileGone = TRUE]
      BY <1>2 DEF Reopen
    <2> QED
      BY <2>1, FilesMissed
  <1>3. CASE t.access # "notes" /\ ids \subseteq files
    <2> DEFINE need == FALSE
    <2>1. need \in BOOLEAN
      OBVIOUS
    <2>0. ASSUME NEW b \in BOOLEAN PROVE [t EXCEPT !.fileNeed = b, !.chosen = ids, !.workspace = ids] \in TurnType
      BY DEF TurnType
    <2>2. u = [t EXCEPT !.fileNeed = need, !.chosen = ids, !.workspace = ids]
      BY <1>3 DEF Reopen
    <2> HIDE DEF need
    <2>3. u \in TurnType
      BY <2>0, <2>1, <2>2
    <2>4. SameButFiles(u, t) /\ u.at = t.at /\ u.access = t.access /\ u.chosen = ids /\ u.workspace = ids
      BY <2>1, <2>2, <2>3 DEF TurnType, SameButFiles
    <2> QED
      BY <2>3, <2>4
  <1> QED
    BY <1>1, <1>2, <1>3

-----------------------------------------------------------------------------
(* The steps of the graph. *)

\* A step before the end that changes only the files, and where the turn stands.
LEMMA FilesStep ==
    ASSUME AssistantInv, docs' = docs, changes' = changes, files' = files,
           turn' \in TurnType, SameButFiles(turn', turn),
           turn.at \in {"attachments", "waitfile", "reopen", "source"},
           turn'.at \in {"waitfile", "reopen", "source"},
           turn'.workspace = {} \/ turn'.workspace = turn'.chosen, turn'.at = "reopen" => turn'.workspace = {}
    PROVE  AssistantInv'
  <1>1. AssistantTypeOK'
    BY DEF AssistantInv, AssistantTypeOK
  <1>2. Unwritten(turn')
    BY DEF AssistantInv, Unwritten, SameButFiles
  <1>3. Refused(turn')
    BY DEF AssistantInv, Refused, SameButFiles
  <1>4. Settled(turn')
    BY DEF AssistantInv, Settled, SameButFiles
  <1>5. Asked(turn')
    BY DEF AssistantInv, Asked, SameButFiles
  <1>6. Current(turn)'
    BY DEF AssistantInv, Current, SameButFiles
  <1>7. Opened(turn')
    BY DEF AssistantInv, Opened, SameButFiles, Unwritten
  <1> QED
    BY <1>1, <1>2, <1>3, <1>4, <1>5, <1>6, <1>7 DEF AssistantInv

LEMMA ResolveAttachmentsKeeps ==
    ASSUME AssistantInv, ResolveAttachments PROVE AssistantInv'
  <1>0. turn \in TurnType
    BY DEF AssistantInv, AssistantTypeOK
  <1>1. PICK u \in FirstResolution(turn) :
            turn' = [u EXCEPT !.at = IF u.fileNeed /\ u.hitl THEN "waitfile" ELSE "source"]
    BY DEF ResolveAttachments
  <1>2. /\ u \in TurnType /\ SameButFiles(u, turn)
        /\ u.workspace = {} \/ u.workspace = u.chosen
    <2>1. CASE turn.workspace # {}
      BY <1>0, <2>1 DEF FirstResolution, TurnType, SameButFiles
    <2> DEFINE some == Files # {}
    <2>0. some \in BOOLEAN
      OBVIOUS
    <2> HIDE DEF some
    <2>2. CASE turn.workspace = {} /\ (u = turn \/ u = [turn EXCEPT !.fileGone = some])
      BY <1>0, <2>0, <2>2, FilesMissed DEF SameButFiles
    <2>3. ASSUME turn.workspace = {}, NEW a \in {"notes", "original"},
                 u = [turn EXCEPT !.fileNeed = some, !.access = a]
          PROVE  /\ u \in TurnType /\ SameButFiles(u, turn)
                 /\ u.workspace = {} \/ u.workspace = u.chosen
      BY <1>0, <2>0, <2>3, FilesUnclear
    <2>4. ASSUME turn.workspace = {}, NEW ids \in SUBSET Files \ {{}}, u = Reopen(turn, ids)
          PROVE  /\ u \in TurnType /\ SameButFiles(u, turn)
                 /\ u.workspace = {} \/ u.workspace = u.chosen
      BY <1>0, <2>4, ReopenTyped
    <2> QED
      BY <1>1, <2>1, <2>2, <2>3, <2>4 DEF FirstResolution, some
  <1>3. turn' \in TurnType /\ SameButFiles(turn', u) /\ turn'.at \in {"waitfile", "source"}
        /\ turn'.workspace = u.workspace /\ turn'.chosen = u.chosen
    BY <1>1, <1>2 DEF TurnType, SameButFiles, Points
  <1>4. SameButFiles(turn', turn)
    BY <1>2, <1>3 DEF SameButFiles
  <1> QED
    BY <1>2, <1>3, <1>4, FilesStep DEF ResolveAttachments

LEMMA ReopenAnsweredKeeps ==
    ASSUME AssistantInv, ReopenAnswered PROVE AssistantInv'
  <1> DEFINE t == [turn EXCEPT !.chosen = {}]
             u == Reopen(t, turn.chosen)
  <1>0. turn \in TurnType /\ turn.workspace = {} /\ turn.chosen \in SUBSET Files
    BY DEF AssistantInv, AssistantTypeOK, Opened, ReopenAnswered, TurnType
  <1>1. t \in TurnType /\ SameButFiles(t, turn) /\ t.workspace = {} /\ t.chosen = {}
    BY <1>0 DEF TurnType, SameButFiles
  <1>2. turn' = [u EXCEPT !.at = "source"]
    BY DEF ReopenAnswered
  <1> HIDE DEF t
  <1>3. u \in TurnType /\ SameButFiles(u, t) /\ (u.workspace = {} \/ u.workspace = u.chosen)
    BY <1>0, <1>1, ReopenTyped
  <1> HIDE DEF u
  <1>4. turn' \in TurnType /\ SameButFiles(turn', u) /\ turn'.at = "source"
        /\ turn'.workspace = u.workspace /\ turn'.chosen = u.chosen
    BY <1>2, <1>3 DEF TurnType, SameButFiles, Points
  <1>5. SameButFiles(turn', turn)
    BY <1>1, <1>3, <1>4 DEF SameButFiles
  <1> QED
    BY <1>3, <1>4, <1>5, FilesStep DEF ReopenAnswered

LEMMA AnswerFilesKeeps ==
    ASSUME AssistantInv, AnswerFiles PROVE AssistantInv'
  <1>0. turn \in TurnType /\ turn.at = "waitfile" /\ UNCHANGED <<docs, files, changes>>
    BY DEF AssistantInv, AssistantTypeOK, AnswerFiles
  <1>1. PICK ids \in SUBSET Files : turn' = [Resumed(turn) EXCEPT !.at = "reopen", !.chosen = ids]
    BY DEF AnswerFiles
  <1> DEFINE n == turn.round + 1
             u == [turn EXCEPT !.round = n, !.workspace = {}]
  <1>2. turn' = [u EXCEPT !.at = "reopen", !.chosen = ids] /\ n \in Nat
    BY <1>0, <1>1 DEF Resumed, TurnType
  <1> HIDE DEF n
  <1>3. u \in TurnType
    BY <1>0, <1>2 DEF TurnType
  <1> HIDE DEF u
  <1>a. [u EXCEPT !.at = "reopen", !.chosen = ids] \in TurnType
    BY <1>3, ZenonT(60) DEF TurnType, Points
  <1>4. AssistantTypeOK'
    BY <1>0, <1>2, <1>a DEF AssistantInv, AssistantTypeOK
  <1>5. Unwritten(turn') /\ Refused(turn') /\ Settled(turn')
    BY <1>0, <1>2, <1>3 DEF TurnType, AssistantInv, Unwritten, Refused, Settled, u
  <1>6. Asked(turn') /\ Opened(turn')
    BY <1>0, <1>2, <1>3 DEF TurnType, AssistantInv, Asked, Opened, Unwritten, u
  <1>7. Current(turn)'
    BY <1>0, <1>2, <1>3 DEF TurnType, AssistantInv, Current, u
  <1> QED
    BY <1>4, <1>5, <1>6, <1>7 DEF AssistantInv

\* A turn that bypasses documents has found nothing.
LEMMA BypassKeeps ==
    ASSUME AssistantInv, turn.at = "source", turn' = Bypassed(turn), UNCHANGED <<docs, files, changes>>
    PROVE  AssistantInv'
  <1> DEFINE r == [NoResult EXCEPT !.route = "no_retrieval", !.attempts = 1]
  <1>0. turn \in TurnType
    BY DEF AssistantInv, AssistantTypeOK
  <1>1. r \in ResultType /\ r.chunks = {} /\ r.route = "no_retrieval"
    BY DEF ResultType, NoResult, Routes, ChunkType
  <1>2. turn' = [turn EXCEPT !.full = FALSE, !.at = "respond", !.result = r]
    BY DEF Bypassed
  <1> HIDE DEF r
  <1>3. [turn EXCEPT !.full = FALSE, !.at = "respond", !.result = r] \in TurnType
    BY <1>0, <1>1, ZenonT(60) DEF TurnType, Points
  <1>4. AssistantTypeOK'
    BY <1>2, <1>3 DEF AssistantInv, AssistantTypeOK
  <1>5. Unwritten(turn') /\ Refused(turn') /\ Settled(turn')
    BY <1>0, <1>1, <1>2 DEF TurnType, AssistantInv, Unwritten, Refused, Settled
  <1>6. Asked(turn') /\ Opened(turn')
    BY <1>0, <1>2 DEF TurnType, AssistantInv, Asked, Opened, Unwritten
  <1>7. Current(turn)'
    BY <1>0, <1>1, <1>2 DEF TurnType, AssistantInv, Current, WholeRead
  <1> QED
    BY <1>4, <1>5, <1>6, <1>7 DEF AssistantInv

LEMMA DecideSourceKeeps ==
    ASSUME AssistantInv, DecideSource PROVE AssistantInv'
  <1>0. turn \in TurnType /\ turn.at = "source" /\ UNCHANGED <<docs, files, changes>>
    BY DEF AssistantInv, AssistantTypeOK, DecideSource
  <1>1. CASE turn' = Bypassed(turn)
    BY <1>0, <1>1, BypassKeeps
  <1>2. ASSUME NEW full \in BOOLEAN, turn' = [turn EXCEPT !.full = full, !.at = IF full THEN "target" ELSE "rag"],
               turn.kind # "refuse"
        PROVE  AssistantInv'
    <2> DEFINE p == IF full THEN "target" ELSE "rag"
    <2>0. p \in Points
      BY DEF Points
    <2> HIDE DEF p
    <2>1. [turn EXCEPT !.full = full, !.at = p] \in TurnType
      BY <1>0, <2>0 DEF TurnType
    <2>2. AssistantTypeOK'
      BY <1>0, <1>2, <2>1 DEF AssistantInv, AssistantTypeOK, p
    <2>3. Unwritten(turn') /\ Refused(turn') /\ Settled(turn')
      BY <1>0, <1>2 DEF TurnType, AssistantInv, Unwritten, Refused, Settled
    <2>4. Asked(turn') /\ Opened(turn')
      BY <1>0, <1>2 DEF TurnType, AssistantInv, Asked, Opened, Unwritten
    <2>5. Current(turn)'
      BY <1>0, <1>2 DEF TurnType, AssistantInv, Current
    <2> QED
      BY <2>2, <2>3, <2>4, <2>5 DEF AssistantInv
  <1>3. turn.kind = "refuse" => Sources(turn) = {"bypass"}
    BY DEF Sources, Preference, DeciderSources
  <1>4. \A full \in Comprehensive(turn) : full \in BOOLEAN
    BY DEF Comprehensive
  <1> QED
    BY <1>1, <1>2, <1>3, <1>4 DEF DecideSource

-----------------------------------------------------------------------------
(* Searching. *)

\* A search that is repeated, and one whose result stands.
Retried(t, attempts, again) == [t EXCEPT !.result = [NoResult EXCEPT !.attempts = attempts], !.at = again]
Found(t, result, text, p) == [t EXCEPT !.result = result, !.text = text, !.at = p]

LEMMA RetriedKeeps ==
    ASSUME AssistantInv, NEW attempts \in Nat, turn.at \in {"rag", "selected"},
           turn' = Retried(turn, attempts, turn.at), UNCHANGED <<docs, files, changes>>
    PROVE  AssistantInv'
  <1> DEFINE r == [NoResult EXCEPT !.attempts = attempts]
  <1>0. turn \in TurnType /\ turn.at \in Points
    BY DEF AssistantInv, AssistantTypeOK, Points
  <1>1. r \in ResultType /\ r.chunks = {}
    BY DEF ResultType, NoResult, Routes, ChunkType
  <1>2. turn' = [turn EXCEPT !.result = r, !.at = turn.at]
    BY DEF Retried
  <1> HIDE DEF r
  <1>3. [turn EXCEPT !.result = r, !.at = turn.at] \in TurnType
    BY <1>0, <1>1 DEF TurnType
  <1>4. AssistantTypeOK'
    BY <1>2, <1>3 DEF AssistantInv, AssistantTypeOK
  <1>5. Unwritten(turn') /\ Refused(turn') /\ Settled(turn')
    BY <1>0, <1>1, <1>2 DEF TurnType, AssistantInv, Unwritten, Refused, Settled
  <1>6. Asked(turn') /\ Opened(turn')
    BY <1>0, <1>2 DEF TurnType, AssistantInv, Asked, Opened, Unwritten
  <1>7. Current(turn)'
    BY <1>0, <1>1, <1>2 DEF TurnType, AssistantInv, Current
  <1> QED
    BY <1>4, <1>5, <1>6, <1>7 DEF AssistantInv

LEMMA FoundKeeps ==
    ASSUME AssistantInv, turn.at \in {"rag", "selected"},
           NEW r \in ResultType, NEW p \in {"prepare", "finish", "respond"},
           turn' = Found(turn, r, Stamped(turn, r.chunks), p),
           \A c \in r.chunks : c.ver = docs[c.doc].ver,
           turn.at = "rag" => ~turn.byPerson,
           turn.at = "selected" => /\ p # "prepare" /\ r.route # "clarification_required"
                                   /\ \A c \in r.chunks : c.doc = turn.selected,
           turn.kind # "refuse", UNCHANGED <<docs, files, changes>>
    PROVE  AssistantInv'
  <1> DEFINE text == Stamped(turn, r.chunks)
  <1>0. turn \in TurnType /\ p \in Points /\ docs \in [Docs -> [ver : Nat, indexed : BOOLEAN, live : BOOLEAN, readable : BOOLEAN, long : BOOLEAN]]
    BY DEF AssistantInv, AssistantTypeOK, Points
  <1>1. r.chunks \in SUBSET ChunkType /\ \A c \in r.chunks : c.ver <= docs[c.doc].ver
    BY <1>0 DEF ResultType, ChunkType
  <1>2. /\ text \subseteq TextType
        /\ \A e \in text : \E c \in r.chunks : e.doc = c.doc
        /\ \A c \in r.chunks : Given(turn, text, c)
    BY <1>0, <1>1, StampedTyped
  <1>3. turn' = [turn EXCEPT !.result = r, !.text = text, !.at = p]
    BY DEF Found
  <1> HIDE DEF text
  <1>4. [turn EXCEPT !.result = r, !.text = text, !.at = p] \in TurnType
    BY <1>0, <1>2 DEF TurnType
  <1>5. AssistantTypeOK'
    BY <1>3, <1>4 DEF AssistantInv, AssistantTypeOK
  <1>6. Unwritten(turn') /\ Refused(turn')
    BY <1>0, <1>3 DEF TurnType, AssistantInv, Unwritten, Refused
  <1>7. Settled(turn')
    BY <1>0, <1>2, <1>3 DEF TurnType, AssistantInv, Settled, Unwritten
  <1>8. Asked(turn') /\ Opened(turn')
    BY <1>0, <1>3 DEF TurnType, AssistantInv, Asked, Opened, Unwritten
  <1>9. Current(turn)'
    BY <1>0, <1>1, <1>2, <1>3 DEF TurnType, AssistantInv, Current, WholeRead, Given, Unwritten
  <1> QED
    BY <1>5, <1>6, <1>7, <1>8, <1>9 DEF AssistantInv

\* Both kinds of search end in one of these ways.
LEMMA AttemptOutcome ==
    ASSUME AssistantInv, NEW pool \in SUBSET Authorized(turn), NEW founds,
           \A found \in founds : found \subseteq ChunksOf(pool),
           NEW route \in Routes \ {"none"}, NEW mayAsk \in BOOLEAN, NEW again,
           Attempt(turn, pool, founds, route, mayAsk, again)
    PROVE  \/ \E attempts \in Nat : turn' = Retried(turn, attempts, again)
           \/ \E r \in ResultType, p \in {"prepare", "finish", "respond"} :
                /\ turn' = Found(turn, r, Stamped(turn, r.chunks), p)
                /\ \A c \in r.chunks : c.doc \in pool /\ c.ver = docs[c.doc].ver
                /\ r.route = route /\ (p = "prepare" => mayAsk)
  <1>0. turn \in TurnType /\ turn.result \in ResultType /\ AssistantTypeOK
    BY DEF AssistantInv, AssistantTypeOK, TurnType
  <1> DEFINE attempts == Counted(turn)
  <1>1. attempts \in Nat
    BY <1>0 DEF Counted, ResultType
  <1>2. PICK found \in founds :
          LET chunks == IF route \in {"no_retrieval", "clarification_required"} THEN {} ELSE found
              empty == route = "retrieval_required" /\ chunks = {}
              result == [route |-> route, chunks |-> chunks, grounding |-> Grounding(route, chunks),
                         attempts |-> attempts, insufficient |-> empty]
          IN  turn' = IF empty /\ attempts < 2
                      THEN [turn EXCEPT !.result = [NoResult EXCEPT !.attempts = attempts], !.at = again]
                      ELSE [turn EXCEPT !.result = result, !.text = Stamped(turn, chunks),
                                        !.at = AfterRag(turn, result, mayAsk)]
    BY DEF Attempt
  <1> DEFINE chunks == IF route \in {"no_retrieval", "clarification_required"} THEN {} ELSE found
             empty == route = "retrieval_required" /\ chunks = {}
             result == [route |-> route, chunks |-> chunks, grounding |-> Grounding(route, chunks),
                        attempts |-> attempts, insufficient |-> empty]
             p == AfterRag(turn, result, mayAsk)
  <1>3. CASE empty /\ attempts < 2
    BY <1>1, <1>2, <1>3 DEF Retried
  <1>4. CASE ~(empty /\ attempts < 2)
    <2>1. pool \subseteq Docs
      BY <1>0, ReadableDocs
    <2>2. /\ chunks \subseteq ChunkType
          /\ \A c \in chunks : c.doc \in pool /\ c.ver = docs[c.doc].ver
      BY <1>0, <2>1, ChunksTyped
    <2>3. turn' = Found(turn, result, Stamped(turn, chunks), p)
      BY <1>2, <1>4 DEF Found
    <2>4. empty \in BOOLEAN
      OBVIOUS
    <2>5. Grounding(route, chunks) \in {"general", "grounded", "mixed"}
      BY DEF Grounding
    <2> HIDE DEF chunks, empty, attempts
    <2>6. result \in ResultType /\ result.chunks = chunks /\ result.route = route
      BY <1>1, <2>2, <2>4, <2>5 DEF ResultType
    <2> HIDE DEF result
    <2>7. p \in {"prepare", "finish", "respond"} /\ (p = "prepare" => mayAsk)
      BY DEF AfterRag
    <2> HIDE DEF p
    <2> QED
      BY <2>2, <2>3, <2>6, <2>7
  <1> QED
    BY <1>3, <1>4

\* A search of the selected document is repeated, or finds chunks of that document.
LEMMA SelectedOutcome ==
    ASSUME AssistantInv, RetrieveSelected
    PROVE  \/ \E attempts \in Nat : turn' = Retried(turn, attempts, "selected")
           \/ \E r \in ResultType, p \in {"finish", "respond"} :
                /\ turn' = Found(turn, r, Stamped(turn, r.chunks), p)
                /\ \A c \in r.chunks : c.doc \in SelectedPool(turn) /\ c.ver = docs[c.doc].ver
                /\ r.route = Route(turn, 1, 1)
  <1> DEFINE route == Route(turn, 1, 1)
             founds == {ChunksOf(SelectedPool(turn))}
             mayAsk == FALSE
  <1>1. route \in Routes \ {"none"} /\ mayAsk \in BOOLEAN /\ ~mayAsk
    BY RouteTyped
  <1>2. /\ Attempt(turn, SelectedPool(turn), founds, route, mayAsk, "selected")
        /\ \A found \in founds : found \subseteq ChunksOf(SelectedPool(turn))
    BY DEF RetrieveSelected
  <1>3. SelectedPool(turn) \in SUBSET Authorized(turn)
    BY DEF SelectedPool
  <1> HIDE DEF route, founds, mayAsk
  <1>4. \/ \E attempts \in Nat : turn' = Retried(turn, attempts, "selected")
        \/ \E r \in ResultType, p \in {"prepare", "finish", "respond"} :
             /\ turn' = Found(turn, r, Stamped(turn, r.chunks), p)
             /\ \A c \in r.chunks : c.doc \in SelectedPool(turn) /\ c.ver = docs[c.doc].ver
             /\ r.route = route /\ (p = "prepare" => mayAsk)
    <2> DEFINE pool == SelectedPool(turn)
    <2> HIDE DEF pool
    <2>1. pool \in SUBSET Authorized(turn) /\ Attempt(turn, pool, founds, route, mayAsk, "selected")
          /\ \A found \in founds : found \subseteq ChunksOf(pool)
      BY <1>2, <1>3 DEF pool
    <2>2. \/ \E attempts \in Nat : turn' = Retried(turn, attempts, "selected")
          \/ \E r \in ResultType, p \in {"prepare", "finish", "respond"} :
               /\ turn' = Found(turn, r, Stamped(turn, r.chunks), p)
               /\ \A c \in r.chunks : c.doc \in pool /\ c.ver = docs[c.doc].ver
               /\ r.route = route /\ (p = "prepare" => mayAsk)
      BY <1>1, <2>1, AttemptOutcome, Z3
    <2> QED
      BY <2>2 DEF pool
  <1> QED
    BY <1>1, <1>4 DEF route

LEMMA RetrieveContextKeeps ==
    ASSUME AssistantInv, RetrieveContext PROVE AssistantInv'
  <1>0. AssistantTypeOK /\ turn.at = "rag" /\ UNCHANGED <<docs, files, changes>>
    BY DEF AssistantInv, RetrieveContext
  <1>1. turn.kind # "refuse" /\ ~turn.byPerson
    BY <1>0 DEF AssistantInv, Refused, Settled
  <1> DEFINE route == Route(turn, Cardinality(Authorized(turn)), Cardinality(Choosable(turn)))
             founds == SUBSET ChunksOf(Authorized(turn))
             mayAsk == TRUE
  <1>2. route \in Routes \ {"none"} /\ mayAsk \in BOOLEAN
    BY RouteTyped
  <1>3. /\ Attempt(turn, Authorized(turn), founds, route, mayAsk, "rag")
        /\ \A found \in founds : found \subseteq ChunksOf(Authorized(turn))
    BY DEF RetrieveContext
  <1> HIDE DEF route, founds, mayAsk
  <1>4. \/ \E attempts \in Nat : turn' = Retried(turn, attempts, "rag")
        \/ \E r \in ResultType, p \in {"prepare", "finish", "respond"} :
             /\ turn' = Found(turn, r, Stamped(turn, r.chunks), p)
             /\ \A c \in r.chunks : c.doc \in Authorized(turn) /\ c.ver = docs[c.doc].ver
    BY <1>2, <1>3, AttemptOutcome
  <1> QED
    BY <1>0, <1>1, <1>4, RetriedKeeps, FoundKeeps

LEMMA RetrieveSelectedKeeps ==
    ASSUME AssistantInv, RetrieveSelected PROVE AssistantInv'
  <1>0. AssistantTypeOK /\ turn.at = "selected" /\ UNCHANGED <<docs, files, changes>>
    BY DEF AssistantInv, RetrieveSelected
  <1>1. turn.kind # "refuse"
    BY <1>0 DEF AssistantInv, Refused
  <1>2. Route(turn, 1, 1) \in Routes \ {"none"} /\ Route(turn, 1, 1) # "clarification_required"
    BY RouteTyped
  <1>4. SelectedPool(turn) \in SUBSET Authorized(turn) /\ \A d \in SelectedPool(turn) : d = turn.selected
    BY DEF SelectedPool
  <1>6. CASE \E attempts \in Nat : turn' = Retried(turn, attempts, "selected")
    BY <1>0, <1>6, RetriedKeeps
  <1>7. ASSUME NEW r \in ResultType, NEW p \in {"finish", "respond"},
               turn' = Found(turn, r, Stamped(turn, r.chunks), p),
               \A c \in r.chunks : c.doc \in SelectedPool(turn) /\ c.ver = docs[c.doc].ver,
               r.route = Route(turn, 1, 1)
        PROVE  AssistantInv'
    BY <1>0, <1>1, <1>2, <1>4, <1>7, FoundKeeps
  <1> QED
    BY <1>6, <1>7, SelectedOutcome

-----------------------------------------------------------------------------
(* Asking which document is meant. *)

\* The turn waits for the person's choice among some documents.
LEMMA AskKeeps ==
    ASSUME AssistantInv, turn.at = "prepare", NEW options \in SUBSET Docs, turn' = Ask(turn, options),
           UNCHANGED <<docs, files, changes>>
    PROVE  AssistantInv'
  <1> DEFINE may == MayRefine(turn)
             wide == ~MayRefine(turn)
             n == turn.asks + 1
  <1>0. turn \in TurnType /\ turn.tries \in Nat /\ turn.asks \in Nat
    BY DEF AssistantInv, AssistantTypeOK, TurnType
  <1>1. may \in BOOLEAN /\ wide \in BOOLEAN /\ n \in Nat /\ (may <=> turn.tries < MaxRefinements) /\ (wide <=> ~may)
    BY <1>0 DEF MayRefine
  <1>2. turn' = [turn EXCEPT !.options = options, !.known = TRUE, !.needs = FALSE, !.at = "waitdoc", !.asks = n,
                             !.refinable = may, !.browsable = wide]
    BY DEF Ask
  <1>b. n = turn.asks + 1
    OBVIOUS
  <1> HIDE DEF may, wide, n
  <1>3. ASSUME NEW yes \in BOOLEAN, NEW no \in BOOLEAN
        PROVE  [turn EXCEPT !.options = options, !.known = yes, !.needs = no, !.at = "waitdoc", !.asks = n,
                            !.refinable = may, !.browsable = wide] \in TurnType
    BY <1>0, <1>1, ZenonT(60) DEF TurnType, Points
  <1>4. turn' \in TurnType
    BY <1>2, <1>3
  <1>5. AssistantTypeOK'
    BY <1>4 DEF AssistantInv, AssistantTypeOK
  <1>6. Unwritten(turn') /\ Refused(turn') /\ Settled(turn')
    BY <1>0, <1>2 DEF TurnType, AssistantInv, Unwritten, Refused, Settled
  <1>7. turn'.tries = turn.tries /\ turn'.asks = n /\ turn'.at = "waitdoc" /\ turn'.byPerson = turn.byPerson
        /\ turn'.refinable = may /\ turn'.browsable = wide
    BY <1>0, <1>2 DEF TurnType
  <1>8. Asked(turn')
    BY <1>0, <1>1, <1>b, <1>7 DEF AssistantInv, Asked, Settled
  <1>9. Opened(turn')
    BY <1>0, <1>2 DEF TurnType, AssistantInv, Opened, Unwritten
  <1>10. Current(turn)'
    BY <1>0, <1>2 DEF TurnType, AssistantInv, Current
  <1> QED
    BY <1>5, <1>6, <1>8, <1>9, <1>10 DEF AssistantInv

LEMMA ResolutionTyped ==
    ASSUME AssistantInv, NEW r \in Resolutions(turn)
    PROVE  /\ r.doc \in Docs \cup {NoDoc} /\ r.options \in SUBSET Docs
           /\ r.doc # NoDoc => r.doc \in Docs
  BY ReadableDocs DEF AssistantInv, Resolutions

LEMMA PrepareSelectionKeeps ==
    ASSUME AssistantInv, PrepareSelection PROVE AssistantInv'
  <1>0. turn \in TurnType /\ turn.at = "prepare" /\ UNCHANGED <<docs, files, changes>> /\ turn.options \in SUBSET Docs
    BY DEF AssistantInv, AssistantTypeOK, PrepareSelection, TurnType
  <1>1. CASE turn' = Ask(turn, turn.options)
    BY <1>0, <1>1, AskKeeps
  <1>2. ASSUME NEW r \in Resolutions(turn), turn' = Ask(turn, r.options)
        PROVE  AssistantInv'
    BY <1>0, <1>2, AskKeeps, ResolutionTyped
  <1>3. ASSUME NEW r \in Resolutions(turn), r.doc # NoDoc,
               turn' = [turn EXCEPT !.selected = r.doc, !.needs = FALSE, !.at = AfterChoice(turn), !.result = NoResult]
        PROVE  AssistantInv'
    <2> DEFINE d == r.doc
               p == AfterChoice(turn)
    <2>1. d \in Docs /\ turn' = [turn EXCEPT !.selected = d, !.needs = FALSE, !.at = p, !.result = NoResult]
      BY <1>3, ResolutionTyped
    <2>2. p \in Points /\ p \in {"target", "selected"} /\ (p = "target" => turn.full)
      BY DEF AfterChoice, Points
    <2>3. NoResult \in ResultType /\ NoResult.chunks = {}
      BY DEF ResultType, NoResult, Routes, ChunkType
    <2> HIDE DEF d, p
    <2>4. ASSUME NEW no \in BOOLEAN
          PROVE  [turn EXCEPT !.selected = d, !.needs = no, !.at = p, !.result = NoResult] \in TurnType
      BY <1>0, <2>1, <2>2, <2>3 DEF TurnType
    <2>5. AssistantTypeOK'
      BY <1>0, <2>1, <2>4 DEF AssistantInv, AssistantTypeOK
    <2>6. Unwritten(turn') /\ Refused(turn') /\ Settled(turn')
      BY <1>0, <2>1, <2>2, <2>3 DEF TurnType, AssistantInv, Unwritten, Refused, Settled
    <2>7. Asked(turn') /\ Opened(turn')
      BY <1>0, <2>1, <2>2 DEF TurnType, AssistantInv, Asked, Opened, Unwritten
    <2>8. Current(turn)'
      BY <1>0, <2>1, <2>2, <2>3 DEF TurnType, AssistantInv, Current
    <2> QED
      BY <2>5, <2>6, <2>7, <2>8 DEF AssistantInv
  <1> QED
    BY <1>1, <1>2, <1>3 DEF PrepareSelection

LEMMA AnswerDocumentKeeps ==
    ASSUME AssistantInv, AnswerDocument PROVE AssistantInv'
  <1>0. turn \in TurnType /\ turn.at = "waitdoc" /\ UNCHANGED <<docs, files, changes>>
    BY DEF AssistantInv, AssistantTypeOK, AnswerDocument
  <1>1. PICK d \in Choosable(turn) :
            turn' = [Resumed(turn) EXCEPT !.selected = d, !.byPerson = TRUE, !.at = AfterChoice(turn), !.result = NoResult]
    BY DEF AnswerDocument
  <1> DEFINE n == turn.round + 1
             u == [turn EXCEPT !.round = n, !.workspace = {}]
             p == AfterChoice(turn)
  <1>2. turn' = [u EXCEPT !.selected = d, !.byPerson = TRUE, !.at = p, !.result = NoResult] /\ n \in Nat /\ d \in Docs
    BY <1>0, <1>1, ReadableDocs DEF Resumed, TurnType, AssistantInv
  <1>3. p \in Points /\ p \in {"target", "selected"} /\ (p = "target" => turn.full)
    BY DEF AfterChoice, Points
  <1>4. NoResult \in ResultType /\ NoResult.chunks = {}
    BY DEF ResultType, NoResult, Routes, ChunkType
  <1> HIDE DEF n, p
  <1>5. u \in TurnType
    BY <1>0, <1>2 DEF TurnType
  <1> HIDE DEF u
  <1>6. ASSUME NEW yes \in BOOLEAN
        PROVE  [u EXCEPT !.selected = d, !.byPerson = yes, !.at = p, !.result = NoResult] \in TurnType
    BY <1>2, <1>3, <1>4, <1>5 DEF TurnType
  <1>7. AssistantTypeOK'
    BY <1>0, <1>2, <1>6 DEF AssistantInv, AssistantTypeOK
  <1>8. Unwritten(turn') /\ Refused(turn') /\ Settled(turn')
    BY <1>0, <1>2, <1>3, <1>4, <1>5 DEF TurnType, AssistantInv, Unwritten, Refused, Settled, u
  <1>9. Asked(turn') /\ Opened(turn')
    BY <1>0, <1>2, <1>3, <1>5 DEF TurnType, AssistantInv, Asked, Opened, Unwritten, u
  <1>10. Current(turn)'
    BY <1>0, <1>2, <1>3, <1>4, <1>5 DEF TurnType, AssistantInv, Current, u
  <1> QED
    BY <1>7, <1>8, <1>9, <1>10 DEF AssistantInv

LEMMA RefineKeeps ==
    ASSUME AssistantInv, Refine PROVE AssistantInv'
  <1>0. turn \in TurnType /\ turn.at = "waitdoc" /\ turn.refinable /\ UNCHANGED <<docs, files, changes>>
    BY DEF AssistantInv, AssistantTypeOK, Refine
  <1> DEFINE n == turn.round + 1
             u == [turn EXCEPT !.round = n, !.workspace = {}]
             p == IF turn.full THEN "target" ELSE "prepare"
             m == turn.tries + 1
  <1>1. n \in Nat /\ m \in Nat /\ u.tries = turn.tries /\ m = turn.tries + 1
    BY <1>0 DEF TurnType
  <1>2. turn' = [u EXCEPT !.tries = m, !.options = {}, !.needs = TRUE, !.at = p]
    BY <1>1 DEF Refine, Resumed
  <1>3. p \in Points /\ p \in {"target", "prepare"} /\ (p = "target" => turn.full)
    BY DEF Points
  <1> HIDE DEF n, p, m
  <1>5. u \in TurnType
    BY <1>0, <1>1 DEF TurnType
  <1> HIDE DEF u
  <1>a. m \in Nat /\ p \in Points
    BY <1>1, <1>3
  <1>6. ASSUME NEW yes \in BOOLEAN, NEW none \in SUBSET Docs
        PROVE  [u EXCEPT !.tries = m, !.options = none, !.needs = yes, !.at = p] \in TurnType
    BY <1>a, <1>5 DEF TurnType
  <1>7. AssistantTypeOK'
    BY <1>0, <1>2, <1>6 DEF AssistantInv, AssistantTypeOK
  <1>8. Unwritten(turn') /\ Refused(turn') /\ Settled(turn')
    BY <1>0, <1>2, <1>3, <1>5 DEF TurnType, AssistantInv, Unwritten, Refused, Settled, u
  <1>9. turn'.tries = m /\ turn'.asks = turn.asks /\ turn'.at = p /\ turn.tries \in Nat
    BY <1>0, <1>2, <1>5 DEF TurnType, u
  <1>10. Asked(turn')
    <2>1. /\ turn.tries <= MaxRefinements /\ MaxRefinements \in Nat /\ turn.asks = turn.tries + 1
          /\ turn.refinable <=> turn.tries < MaxRefinements
      BY <1>0, AssistantAssumption DEF AssistantInv, Asked
    <2>2. turn'.tries <= MaxRefinements /\ turn'.asks = turn'.tries
      BY <1>0, <1>1, <1>9, <2>1
    <2> QED
      BY <1>3, <1>9, <2>2 DEF Asked
  <1>11. Opened(turn')
    BY <1>0, <1>2, <1>3, <1>5 DEF TurnType, AssistantInv, Opened, Unwritten, u
  <1>12. Current(turn)'
    BY <1>0, <1>2, <1>3, <1>5 DEF TurnType, AssistantInv, Current, u
  <1> QED
    BY <1>7, <1>8, <1>10, <1>11, <1>12 DEF AssistantInv

LEMMA AbandonKeeps ==
    ASSUME AssistantInv, Abandon PROVE AssistantInv'
  <1>0. turn \in TurnType /\ turn.at \in {"waitfile", "waitdoc"} /\ UNCHANGED <<docs, files, changes>>
    BY DEF AssistantInv, AssistantTypeOK, Abandon
  <1>1. turn' = [turn EXCEPT !.at = "done", !.end = "cancelled"]
    BY DEF Abandon
  <1>a. ASSUME NEW p \in Points, NEW e \in Ends PROVE [turn EXCEPT !.at = p, !.end = e] \in TurnType
    BY <1>0, ZenonT(60) DEF TurnType
  <1>2. [turn EXCEPT !.at = "done", !.end = "cancelled"] \in TurnType
    BY <1>a DEF Points, Ends
  <1>3. AssistantTypeOK'
    BY <1>0, <1>1, <1>2 DEF AssistantInv, AssistantTypeOK
  <1>4. Unwritten(turn') /\ Refused(turn') /\ Settled(turn')
    BY <1>0, <1>1 DEF TurnType, AssistantInv, Unwritten, Refused, Settled
  <1>5. Asked(turn') /\ Opened(turn')
    BY <1>0, <1>1 DEF TurnType, AssistantInv, Asked, Opened, Unwritten
  <1>6. Current(turn)'
    BY <1>0, <1>1 DEF TurnType, AssistantInv, Current, Unwritten
  <1> QED
    BY <1>3, <1>4, <1>5, <1>6 DEF AssistantInv

-----------------------------------------------------------------------------
(* Reading one whole document, and the reply. *)

\* The two differ at most in what was found, which document is meant, and where they stand.
SameButTarget(u, t) ==
    /\ u.kind = t.kind /\ u.full = t.full /\ u.byPerson = t.byPerson
    /\ u.tries = t.tries /\ u.asks = t.asks /\ u.round = t.round
    /\ u.workspace = t.workspace /\ u.chosen = t.chosen /\ u.access = t.access
    /\ u.reply = t.reply /\ u.seen = t.seen /\ u.used = t.used /\ u.end = t.end /\ u.cited = t.cited

LEMMA EmptyTyped ==
    ASSUME NEW t \in TurnType, NEW route \in {"retrieval_required", "clarification_required"},
           NEW u, u = Empty(t, route)
    PROVE  /\ u \in TurnType /\ SameButTarget(u, t) /\ u.text = {}
           /\ u.result.chunks = {} /\ u.result.route = route
           /\ u.selected = t.selected /\ u.coverage = t.coverage
  <1> DEFINE b == route = "retrieval_required"
             r == [NoResult EXCEPT !.route = route, !.attempts = 1, !.insufficient = b]
  <1>1. b \in BOOLEAN
    OBVIOUS
  <1>2. u = [t EXCEPT !.text = {}, !.result = r]
    BY DEF Empty
  <1> HIDE DEF b
  <1>3. r \in ResultType /\ r.chunks = {} /\ r.route = route
    BY <1>1 DEF ResultType, NoResult, Routes, ChunkType
  <1> HIDE DEF r
  <1>4. [t EXCEPT !.text = {}, !.result = r] \in TurnType
    BY <1>3 DEF TurnType
  <1> QED
    BY <1>2, <1>3, <1>4 DEF TurnType, SameButTarget

LEMMA UnavailableTyped ==
    ASSUME NEW t \in TurnType, NEW v, v = Unavailable(t)
    PROVE  /\ v \in TurnType /\ SameButTarget(v, t) /\ v.text = {} /\ v.at = "finish"
           /\ v.result.chunks = {} /\ v.result.route = "retrieval_required"
           /\ v.selected = t.selected
  <1> DEFINE u == Empty(t, "retrieval_required")
  <1>1. /\ u \in TurnType /\ SameButTarget(u, t) /\ u.text = {}
        /\ u.result.chunks = {} /\ u.result.route = "retrieval_required" /\ u.selected = t.selected
    BY EmptyTyped
  <1>2. v = [u EXCEPT !.target = "unavailable", !.at = "finish"]
    BY DEF Unavailable
  <1> HIDE DEF u
  <1>a. ASSUME NEW p \in Points PROVE [u EXCEPT !.target = "unavailable", !.at = p] \in TurnType
    BY <1>1, ZenonT(60) DEF TurnType
  <1>3. [u EXCEPT !.target = "unavailable", !.at = "finish"] \in TurnType
    BY <1>a DEF Points
  <1> QED
    BY <1>1, <1>2, <1>3 DEF TurnType, SameButTarget

\* The document cannot be read: the turn ends without evidence.
LEMMA UnavailableKeeps ==
    ASSUME AssistantInv, turn.at \in {"target", "read", "respond"}, turn.kind # "refuse",
           turn' \in TurnType, SameButTarget(turn', turn), turn'.text = {}, turn'.at = "finish",
           turn'.result.chunks = {}, turn'.result.route = "retrieval_required", turn'.selected = turn.selected,
           UNCHANGED <<docs, files, changes>>
    PROVE  AssistantInv'
  <1>1. AssistantTypeOK'
    BY DEF AssistantInv, AssistantTypeOK
  <1>2. Unwritten(turn') /\ Refused(turn')
    BY DEF AssistantInv, Unwritten, Refused, SameButTarget
  <1>3. Settled(turn')
    BY DEF AssistantInv, Settled, Unwritten, SameButTarget
  <1>4. Asked(turn')
    BY DEF AssistantInv, Asked, SameButTarget
  <1>5. Opened(turn')
    BY DEF AssistantInv, Opened, SameButTarget
  <1>6. Current(turn)'
    BY DEF AssistantInv, Current, SameButTarget
  <1> QED
    BY <1>1, <1>2, <1>3, <1>4, <1>5, <1>6 DEF AssistantInv

LEMMA ResolveTargetKeeps ==
    ASSUME AssistantInv, ResolveTarget PROVE AssistantInv'
  <1>0. turn \in TurnType /\ turn.at = "target" /\ UNCHANGED <<docs, files, changes>>
    BY DEF AssistantInv, AssistantTypeOK, ResolveTarget
  <1>1. turn.kind # "refuse" /\ turn.full /\ (turn.byPerson => turn.selected \in Docs)
    BY <1>0 DEF AssistantInv, Refused, Unwritten, Settled
  <1>2. CASE turn' = Unavailable(turn)
    <2> DEFINE v == turn'
    <2>1. /\ v \in TurnType /\ SameButTarget(v, turn) /\ v.text = {} /\ v.at = "finish"
          /\ v.result.chunks = {} /\ v.result.route = "retrieval_required" /\ v.selected = turn.selected
      BY <1>0, <1>2, UnavailableTyped
    <2> QED
      BY <1>0, <1>1, <2>1, UnavailableKeeps
  <1>3. ASSUME NEW d \in Docs,
               turn' = [turn EXCEPT !.selected = d, !.target = "resolved", !.needs = FALSE, !.at = "read"]
        PROVE  AssistantInv'
    <2>1. ASSUME NEW no \in BOOLEAN
          PROVE  [turn EXCEPT !.selected = d, !.target = "resolved", !.needs = no, !.at = "read"] \in TurnType
      BY <1>0, ZenonT(60) DEF TurnType, Points
    <2>2. AssistantTypeOK'
      BY <1>0, <1>3, <2>1 DEF AssistantInv, AssistantTypeOK
    <2>3. Unwritten(turn') /\ Refused(turn') /\ Settled(turn')
      BY <1>0, <1>1, <1>3 DEF TurnType, AssistantInv, Unwritten, Refused, Settled
    <2>4. Asked(turn') /\ Opened(turn')
      BY <1>0, <1>3 DEF TurnType, AssistantInv, Asked, Opened, Unwritten
    <2>5. Current(turn)'
      BY <1>0, <1>3 DEF TurnType, AssistantInv, Current
    <2> QED
      BY <2>2, <2>3, <2>4, <2>5 DEF AssistantInv
  <1>4. CASE turn.selected # NoDoc /\ turn' = [turn EXCEPT !.target = "resolved", !.needs = FALSE, !.at = "read"]
    <2>1. turn.selected \in Docs
      BY <1>0, <1>4 DEF TurnType
    <2>2. turn' = [turn EXCEPT !.selected = turn.selected, !.target = "resolved", !.needs = FALSE, !.at = "read"]
      BY <1>0, <1>4 DEF TurnType
    <2> QED
      BY <1>3, <2>1, <2>2
  <1>5. ASSUME NEW options \in SUBSET Docs, NEW p, p \in {"prepare", "respond"}, turn.selected = NoDoc,
               turn' = [Empty(turn, "clarification_required") EXCEPT
                          !.target = "ambiguous", !.options = options, !.known = TRUE, !.needs = FALSE, !.at = p]
        PROVE  AssistantInv'
    <2> DEFINE u == Empty(turn, "clarification_required")
    <2>1. /\ u \in TurnType /\ SameButTarget(u, turn) /\ u.text = {} /\ u.coverage = turn.coverage
          /\ u.result.chunks = {} /\ u.selected = turn.selected
      BY <1>0, EmptyTyped
    <2>2. turn' = [u EXCEPT !.target = "ambiguous", !.options = options, !.known = TRUE, !.needs = FALSE, !.at = p]
      BY <1>5
    <2> HIDE DEF u
    <2>3. ASSUME NEW yes \in BOOLEAN, NEW no \in BOOLEAN
          PROVE  [u EXCEPT !.target = "ambiguous", !.options = options, !.known = yes, !.needs = no, !.at = p] \in TurnType
      <3>1. p \in Points /\ u \in TurnType
        BY <1>5, <2>1 DEF Points
      <3> QED
        BY <3>1 DEF TurnType
    <2>4. turn' \in TurnType
      BY <2>2, <2>3
    <2>5. SameButTarget(turn', u) /\ turn'.text = u.text /\ turn'.result = u.result /\ turn'.selected = u.selected
          /\ turn'.coverage = u.coverage /\ turn'.at = p
      BY <2>1, <2>2 DEF TurnType, SameButTarget
    <2>6. SameButTarget(turn', turn) /\ turn'.text = {} /\ turn'.result.chunks = {} /\ turn'.selected = turn.selected
          /\ turn'.coverage = turn.coverage
      BY <2>1, <2>5 DEF SameButTarget
    <2>7. ~turn.byPerson /\ turn.coverage = NoCoverage
      BY <1>0, <1>1, <1>5, AssistantAssumption DEF AssistantInv, Unwritten
    <2>8. AssistantTypeOK'
      BY <1>0, <2>4 DEF AssistantInv, AssistantTypeOK
    <2>9. Unwritten(turn') /\ Refused(turn') /\ Settled(turn')
      BY <1>0, <1>1, <1>5, <2>5, <2>6, <2>7 DEF AssistantInv, Unwritten, Refused, Settled, SameButTarget
    <2>10. Asked(turn') /\ Opened(turn')
      BY <1>0, <1>5, <2>5, <2>6 DEF AssistantInv, Asked, Opened, SameButTarget
    <2>11. Current(turn)'
      BY <1>0, <1>5, <2>5, <2>6, <2>7 DEF AssistantInv, Current, SameButTarget, WholeRead, Unwritten
    <2> QED
      BY <2>8, <2>9, <2>10, <2>11 DEF AssistantInv
  <1>6. CASE turn.selected # NoDoc
    BY <1>2, <1>4, <1>6 DEF ResolveTarget
  <1>7. CASE turn.selected = NoDoc
    <2>1. PICK r \in Resolutions(turn) :
            turn' = IF r.doc # NoDoc
                    THEN [turn EXCEPT !.selected = r.doc, !.target = "resolved", !.needs = FALSE, !.at = "read"]
                    ELSE IF r.options # {} \/ Cardinality(Choosable(turn)) > 1
                    THEN [Empty(turn, "clarification_required") EXCEPT
                              !.target = "ambiguous", !.options = r.options, !.known = TRUE, !.needs = FALSE,
                              !.at = IF turn.hitl /\ turn.allowed THEN "prepare" ELSE "respond"]
                    ELSE Unavailable(turn)
      BY <1>7 DEF ResolveTarget
    <2>2. r.options \in SUBSET Docs /\ (r.doc # NoDoc => r.doc \in Docs)
      BY ResolutionTyped
    <2> DEFINE p == IF turn.hitl /\ turn.allowed THEN "prepare" ELSE "respond"
    <2>3. p \in {"prepare", "respond"}
      OBVIOUS
    <2>4. CASE r.doc # NoDoc
      BY <1>3, <2>1, <2>2, <2>4
    <2>5. CASE r.doc = NoDoc /\ (r.options # {} \/ Cardinality(Choosable(turn)) > 1)
      <3>1. turn' = [Empty(turn, "clarification_required") EXCEPT
                        !.target = "ambiguous", !.options = r.options, !.known = TRUE, !.needs = FALSE, !.at = p]
        BY <2>1, <2>5
      <3> HIDE DEF p
      <3> QED
        BY <1>5, <1>7, <2>2, <2>3, <3>1
    <2>6. CASE r.doc = NoDoc /\ ~(r.options # {} \/ Cardinality(Choosable(turn)) > 1)
      BY <1>2, <2>1, <2>6
    <2> QED
      BY <2>4, <2>5, <2>6
  <1> QED
    BY <1>6, <1>7

LEMMA PrepareReadKeeps ==
    ASSUME AssistantInv, PrepareRead PROVE AssistantInv'
  <1>0. turn \in TurnType /\ turn.at = "read" /\ UNCHANGED <<docs, files, changes>> /\ AssistantTypeOK
    BY DEF AssistantInv, AssistantTypeOK, PrepareRead
  <1>1. turn.kind # "refuse" /\ turn.full /\ turn.target = "resolved" /\ turn.selected \in Docs
    BY <1>0 DEF AssistantInv, Refused, Unwritten
  <1>2. CASE turn' = Unavailable(turn)
    <2> DEFINE v == turn'
    <2>1. /\ v \in TurnType /\ SameButTarget(v, turn) /\ v.text = {} /\ v.at = "finish"
          /\ v.result.chunks = {} /\ v.result.route = "retrieval_required" /\ v.selected = turn.selected
      BY <1>0, <1>2, UnavailableTyped
    <2> QED
      BY <1>0, <1>1, <2>1, UnavailableKeeps
  <1>3. CASE turn' = [turn EXCEPT !.coverage = [doc |-> turn.selected, long |-> docs[turn.selected].long],
                                  !.result = [route |-> "retrieval_required", chunks |-> {Chunk(turn.selected)},
                                              grounding |-> "grounded", attempts |-> 1, insufficient |-> FALSE],
                                  !.text = {}, !.at = "respond"]
    <2> DEFINE cover == [doc |-> turn.selected, long |-> docs[turn.selected].long]
               c0 == Chunk(turn.selected)
               r == [route |-> "retrieval_required", chunks |-> {c0}, grounding |-> "grounded", attempts |-> 1,
                     insufficient |-> FALSE]
    <2>1. cover \in [doc : Docs \cup {NoDoc}, long : BOOLEAN] /\ cover # NoCoverage
      <3>1. docs[turn.selected].long \in BOOLEAN
        BY <1>0, <1>1 DEF AssistantTypeOK
      <3>2. cover.doc # NoCoverage.doc
        BY <1>1, AssistantAssumption DEF NoCoverage
      <3> QED
        BY <1>1, <3>1, <3>2
    <2>2. c0 \in ChunkType /\ c0.doc = turn.selected /\ c0.ver <= docs[c0.doc].ver
      BY <1>0, <1>1 DEF Chunk, ChunkType, AssistantTypeOK
    <2>3. turn' = [turn EXCEPT !.coverage = cover, !.result = r, !.text = {}, !.at = "respond"]
      BY <1>3
    <2> HIDE DEF cover, c0
    <2>4. r \in ResultType /\ r.chunks = {c0} /\ r.route # "clarification_required"
      BY <2>2 DEF ResultType, Routes
    <2> HIDE DEF r
    <2>5. ASSUME NEW p \in Points PROVE [turn EXCEPT !.coverage = cover, !.result = r, !.text = {}, !.at = p] \in TurnType
      BY <1>0, <2>1, <2>4 DEF TurnType
    <2>6. AssistantTypeOK'
      <3>1. turn' \in TurnType
        BY <2>3, <2>5 DEF Points
      <3> QED
        BY <1>0, <3>1 DEF AssistantTypeOK
    <2>7. Unwritten(turn') /\ Refused(turn')
      BY <1>0, <1>1, <2>3 DEF TurnType, AssistantInv, Unwritten, Refused
    <2>8. Settled(turn')
      BY <1>0, <2>2, <2>3, <2>4 DEF TurnType, AssistantInv, Settled, Unwritten
    <2>9. Asked(turn') /\ Opened(turn')
      BY <1>0, <2>3 DEF TurnType, AssistantInv, Asked, Opened, Unwritten
    <2>10. turn'.result.chunks = {c0} /\ turn'.at = "respond" /\ turn'.full /\ turn'.target = "resolved"
           /\ turn'.coverage = cover /\ turn'.selected = turn.selected
      BY <1>0, <1>1, <2>3, <2>4 DEF TurnType
    <2>11. Current(turn)'
      BY <1>0, <1>1, <2>1, <2>2, <2>10 DEF Current, WholeRead
    <2> QED
      BY <2>6, <2>7, <2>8, <2>9, <2>11 DEF AssistantInv
  <1> QED
    BY <1>2, <1>3 DEF PrepareRead

\* The two differ at most in what was said, and where they stand.
SameButSaid(v, u) ==
    /\ v.kind = u.kind /\ v.full = u.full /\ v.byPerson = u.byPerson /\ v.tries = u.tries /\ v.asks = u.asks
    /\ v.round = u.round /\ v.result = u.result /\ v.text = u.text /\ v.selected = u.selected
    /\ v.end = u.end /\ v.cited = u.cited /\ v.workspace = u.workspace /\ v.chosen = u.chosen /\ v.access = u.access

\* The reply is composed from a text, or states what is missing.
LEMMA ComposeTyped ==
    ASSUME NEW t \in TurnType, NEW text \in SUBSET TextType, NEW v, v = Compose(t, text)
    PROVE  /\ v \in TurnType /\ v.at = "finish"
           /\ v.kind = t.kind /\ v.full = t.full /\ v.byPerson = t.byPerson /\ v.tries = t.tries /\ v.asks = t.asks
           /\ v.round = t.round /\ v.result = t.result /\ v.text = t.text /\ v.selected = t.selected
           /\ v.end = t.end /\ v.cited = t.cited
           /\ (t.workspace = {} \/ t.workspace = t.chosen) => (v.workspace = {} \/ v.workspace = v.chosen)
           /\ \/ v.reply = "limited" /\ v.seen = t.seen
              \/ /\ v.reply = "composed" /\ v.seen = text
                 /\ (t.workspace = {} \/ t.workspace = t.chosen) /\ v.access = "original" /\ v.chosen # {}
                       => v.used = v.chosen
  <1> DEFINE u == IF t.fileGone \/ t.fileNeed THEN t ELSE Reopened(t)
  <1>0. t.chosen \in SUBSET Files
    BY DEF TurnType
  <1>1. /\ u \in TurnType /\ SameButFiles(u, t)
        /\ (t.workspace = {} \/ t.workspace = t.chosen) => (u.workspace = {} \/ u.workspace = u.chosen)
        /\ (t.workspace = {} \/ t.workspace = t.chosen) /\ ~u.fileGone /\ u.chosen # {} /\ u.access = "original" /\ ~(t.fileGone \/ t.fileNeed)
              => u.workspace = u.chosen
    <2>1. CASE t.fileGone \/ t.fileNeed
      BY <2>1 DEF SameButFiles
    <2>2. CASE ~(t.fileGone \/ t.fileNeed) /\ t.workspace = {} /\ t.chosen # {}
      <3>1. u = Reopen(t, t.chosen)
        BY <2>2 DEF Reopened
      <3> HIDE DEF u
      <3> QED
        BY <1>0, <2>2, <3>1, ReopenTyped
    <2>3. CASE ~(t.fileGone \/ t.fileNeed) /\ ~(t.workspace = {} /\ t.chosen # {})
      <3>1. u = t
        BY <2>3 DEF Reopened
      <3> HIDE DEF u
      <3> QED
        BY <2>3, <3>1 DEF SameButFiles
    <2> QED
      BY <2>1, <2>2, <2>3
  <1>2. v = IF u.fileGone \/ u.fileNeed THEN [u EXCEPT !.reply = "limited", !.at = "finish"]
            ELSE [u EXCEPT !.reply = "composed", !.seen = text, !.used = u.workspace, !.at = "finish"]
    BY DEF Compose
  <1>3. t.fileGone \/ t.fileNeed => u.fileGone \/ u.fileNeed
    OBVIOUS
  <1> HIDE DEF u
  <1>4. CASE u.fileGone \/ u.fileNeed
    <2>1. v = [u EXCEPT !.reply = "limited", !.at = "finish"]
      BY <1>2, <1>4
    <2>2. ASSUME NEW p \in Points PROVE [u EXCEPT !.reply = "limited", !.at = p] \in TurnType
      BY <1>1 DEF TurnType
    <2>3. v \in TurnType
      BY <2>1, <2>2 DEF Points
    <2>4. /\ SameButSaid(v, u) /\ v.at = "finish" /\ v.reply = "limited" /\ v.seen = u.seen
      BY <1>1, <2>1 DEF TurnType, SameButSaid
    <2> QED
      BY <1>1, <2>3, <2>4 DEF SameButFiles, SameButSaid
  <1>5. CASE ~(u.fileGone \/ u.fileNeed)
    <2> DEFINE w == u.workspace
    <2>1. v = [u EXCEPT !.reply = "composed", !.seen = text, !.used = w, !.at = "finish"] /\ w \in SUBSET Files
      BY <1>1, <1>2, <1>5 DEF TurnType
    <2> HIDE DEF w
    <2>2. ASSUME NEW p \in Points PROVE [u EXCEPT !.reply = "composed", !.seen = text, !.used = w, !.at = p] \in TurnType
      BY <1>1, <2>1, ZenonT(60) DEF TurnType
    <2>3. v \in TurnType
      BY <2>1, <2>2 DEF Points
    <2>4. /\ SameButSaid(v, u) /\ v.at = "finish" /\ v.reply = "composed" /\ v.seen = text /\ v.used = w
      BY <1>1, <2>1 DEF TurnType, SameButSaid
    <2> QED
      BY <1>1, <1>3, <1>5, <2>3, <2>4 DEF SameButFiles, SameButSaid, w
  <1> QED
    BY <1>4, <1>5

LEMMA ComposeKeeps ==
    ASSUME AssistantInv, turn.at = "respond", NEW text \in SUBSET TextType, turn' = Compose(turn, text),
           turn.kind = "refuse" => text = {}, turn.byPerson => \A e \in text : e.doc = turn.selected,
           \A c \in turn.result.chunks : Given(turn, text, c) \/ c.ver < docs[c.doc].ver,
           UNCHANGED <<docs, files, changes>>
    PROVE  AssistantInv'
  <1>0. turn \in TurnType /\ (turn.workspace = {} \/ turn.workspace = turn.chosen)
        /\ turn.reply = "none" /\ turn.seen = {} /\ turn.cited = {} /\ turn.end = "none"
    BY DEF AssistantInv, AssistantTypeOK, Opened, Unwritten
  <1> DEFINE v == turn'
  <1>1. /\ v \in TurnType /\ v.at = "finish"
        /\ v.kind = turn.kind /\ v.full = turn.full /\ v.byPerson = turn.byPerson /\ v.tries = turn.tries /\ v.asks = turn.asks
        /\ v.round = turn.round /\ v.result = turn.result /\ v.text = turn.text /\ v.selected = turn.selected
        /\ v.end = turn.end /\ v.cited = turn.cited
        /\ v.workspace = {} \/ v.workspace = v.chosen
        /\ \/ v.reply = "limited" /\ v.seen = turn.seen
           \/ /\ v.reply = "composed" /\ v.seen = text
              /\ v.access = "original" /\ v.chosen # {} => v.used = v.chosen
    BY <1>0, ComposeTyped
  <1>2. AssistantTypeOK'
    BY <1>1 DEF AssistantInv, AssistantTypeOK
  <1>3. Unwritten(turn')
    BY <1>0, <1>1 DEF Unwritten
  <1>4. Refused(turn')
    BY <1>0, <1>1 DEF AssistantInv, Refused
  <1>5. Settled(turn')
    BY <1>0, <1>1 DEF AssistantInv, Settled
  <1>6. Asked(turn') /\ Opened(turn')
    BY <1>0, <1>1 DEF AssistantInv, Asked, Opened
  <1>7. Current(turn)'
    BY <1>0, <1>1 DEF AssistantInv, Current, Given
  <1> QED
    BY <1>2, <1>3, <1>4, <1>5, <1>6, <1>7 DEF AssistantInv

LEMMA RespondKeeps ==
    ASSUME AssistantInv, Respond PROVE AssistantInv'
  <1>0. turn \in TurnType /\ turn.at = "respond" /\ UNCHANGED <<docs, files, changes>> /\ AssistantTypeOK
        /\ turn.text \in SUBSET TextType /\ turn.result \in ResultType /\ turn.result.chunks \in SUBSET ChunkType
    BY DEF AssistantInv, AssistantTypeOK, Respond, TurnType, ResultType
  <1>1. CASE ~WholeRead(turn)
    <2>1. turn' = Compose(turn, turn.text)
      BY <1>1 DEF Respond, WholeRead
    <2>2. /\ turn.kind = "refuse" => turn.text = {}
          /\ turn.byPerson => \A e \in turn.text : e.doc = turn.selected
          /\ \A c \in turn.result.chunks : Given(turn, turn.text, c)
      BY <1>0, <1>1 DEF AssistantInv, Refused, Settled, Current
    <2> QED
      BY <1>0, <2>1, <2>2, ComposeKeeps
  <1>2. CASE WholeRead(turn)
    <2>0. turn.kind # "refuse" /\ turn.selected \in Docs
          /\ \A c \in turn.result.chunks : c.doc = turn.selected /\ c.ver <= docs[c.doc].ver
      BY <1>0, <1>2 DEF AssistantInv, Refused, Current, WholeRead
    <2>1. CASE turn' = Compose(turn, Stamped(turn, {Chunk(turn.selected)}))
      <3> DEFINE k == Chunk(turn.selected)
                 text == Stamped(turn, {k})
      <3>1. k \in ChunkType /\ k.doc = turn.selected /\ k.ver = docs[turn.selected].ver
        BY <1>0, <2>0 DEF Chunk, ChunkType, AssistantTypeOK
      <3> HIDE DEF k
      <3>2. /\ text \subseteq TextType
            /\ \A e \in text : e.doc = k.doc
            /\ Given(turn, text, k)
        BY <1>0, <3>1, StampedTyped
      <3>3. turn' = Compose(turn, text)
        BY <2>1 DEF k
      <3> HIDE DEF text
      <3>4. ASSUME NEW c \in turn.result.chunks PROVE Given(turn, text, c) \/ c.ver < docs[c.doc].ver
        <4>1. c.ver \in Nat /\ docs[turn.selected].ver \in Nat
          BY <1>0, <2>0 DEF ChunkType, AssistantTypeOK
        <4>2. c.ver = k.ver \/ c.ver < docs[c.doc].ver
          BY <2>0, <3>1, <4>1
        <4> QED
          BY <2>0, <3>1, <3>2, <4>2 DEF Given
      <3> QED
        BY <1>0, <2>0, <3>1, <3>2, <3>3, <3>4, ComposeKeeps
    <2>2. CASE turn' = [Unavailable(turn) EXCEPT !.coverage = NoCoverage]
      <3> DEFINE v == Unavailable(turn)
      <3>1. /\ v \in TurnType /\ SameButTarget(v, turn) /\ v.text = {} /\ v.at = "finish"
            /\ v.result.chunks = {} /\ v.result.route = "retrieval_required" /\ v.selected = turn.selected
        BY <1>0, UnavailableTyped
      <3>2. turn' = [v EXCEPT !.coverage = NoCoverage]
        BY <2>2
      <3> HIDE DEF v
      <3>3. [v EXCEPT !.coverage = NoCoverage] \in TurnType
        BY <3>1, ZenonT(60) DEF TurnType, NoCoverage
      <3>4. /\ turn' \in TurnType /\ SameButTarget(turn', v) /\ turn'.text = v.text /\ turn'.at = v.at
            /\ turn'.result = v.result /\ turn'.selected = v.selected
        BY <3>1, <3>2, <3>3 DEF TurnType, SameButTarget
      <3>5. SameButTarget(turn', turn)
        BY <3>1, <3>4 DEF SameButTarget
      <3> QED
        BY <1>0, <2>0, <3>1, <3>4, <3>5, UnavailableKeeps
    <2> QED
      BY <1>2, <2>1, <2>2 DEF Respond, WholeRead
  <1> QED
    BY <1>1, <1>2

\* The run ends with an outcome and citations that are among what was found and still current.
LEMMA EndedKeeps ==
    ASSUME AssistantInv, turn.at = "finish", NEW e \in Ends, NEW cited \in SUBSET turn.result.chunks,
           NEW cover \in [doc : Docs \cup {NoDoc}, long : BOOLEAN],
           turn' = [[turn EXCEPT !.at = "done", !.end = e, !.cited = cited] EXCEPT !.coverage = cover],
           e = "clarification" => turn.result.route = "clarification_required",
           \A c \in cited : docs[c.doc].ver = c.ver, UNCHANGED <<docs, files, changes>>
    PROVE  AssistantInv'
  <1> DEFINE u == [turn EXCEPT !.at = "done", !.end = e, !.cited = cited]
  <1>0. turn \in TurnType /\ AssistantTypeOK /\ cited \in SUBSET ChunkType
    BY DEF AssistantInv, AssistantTypeOK, TurnType, ResultType
  <1>1. u \in TurnType
    <2>1. ASSUME NEW p \in Points PROVE [turn EXCEPT !.at = p, !.end = e, !.cited = cited] \in TurnType
      BY <1>0, ZenonT(60) DEF TurnType
    <2> QED
      BY <2>1 DEF Points
  <1>3. turn' = [u EXCEPT !.coverage = cover]
    OBVIOUS
  <1>4. u.end = e /\ u.cited = cited
    BY <1>0 DEF TurnType
  <1> HIDE DEF u
  <1>5. [u EXCEPT !.coverage = cover] \in TurnType
    BY <1>1 DEF TurnType
  <1>6. turn' \in TurnType
    BY <1>3, <1>5
  <1>7. /\ turn'.kind = turn.kind /\ turn'.full = turn.full /\ turn'.byPerson = turn.byPerson
        /\ turn'.tries = turn.tries /\ turn'.asks = turn.asks
        /\ turn'.round = turn.round /\ turn'.result = turn.result /\ turn'.text = turn.text
        /\ turn'.selected = turn.selected /\ turn'.workspace = turn.workspace
        /\ turn'.chosen = turn.chosen /\ turn'.access = turn.access
        /\ turn'.reply = turn.reply /\ turn'.seen = turn.seen /\ turn'.used = turn.used
        /\ turn'.at = "done" /\ turn'.end = e /\ turn'.cited = cited
    BY <1>0, <1>1, <1>3, <1>4 DEF TurnType, u
  <1>8. AssistantTypeOK'
    BY <1>0, <1>6 DEF AssistantTypeOK
  <1>9. Unwritten(turn') /\ Refused(turn')
    BY <1>7 DEF AssistantInv, Unwritten, Refused
  <1>10. Settled(turn')
    BY <1>7 DEF AssistantInv, Settled
  <1>11. Asked(turn') /\ Opened(turn')
    BY <1>7 DEF AssistantInv, Asked, Opened
  <1>12. Current(turn)'
    <2>1. \A c \in cited : c.ver \in Nat
      BY <1>0 DEF ChunkType
    <2>2. turn.reply = "composed" => \A c \in cited : Given(turn, turn.seen, c)
      BY <2>1 DEF AssistantInv, Current
    <2> QED
      BY <1>7, <2>2 DEF AssistantInv, Current, Given
  <1> QED
    BY <1>8, <1>9, <1>10, <1>11, <1>12 DEF AssistantInv

LEMMA CompleteKeeps ==
    ASSUME AssistantInv, Complete PROVE AssistantInv'
  <1> DEFINE result == turn.result
             consulted == IF result.grounding = "general" THEN {} ELSE Rehydrated(result.chunks)
             Ended(e, cited) == [turn EXCEPT !.at = "done", !.end = e, !.cited = cited]
  <1>0. turn \in TurnType /\ turn.at = "finish" /\ UNCHANGED <<docs, files, changes>>
        /\ turn.coverage \in [doc : Docs \cup {NoDoc}, long : BOOLEAN]
    BY DEF AssistantInv, AssistantTypeOK, Complete, TurnType
  <1>1. consulted \in SUBSET result.chunks /\ \A c \in consulted : docs[c.doc].ver = c.ver
    BY DEF Rehydrated
  <1>2. \/ result.route = "clarification_required" /\ turn' = [Ended("clarification", {}) EXCEPT !.coverage = NoCoverage]
        \/ turn' = [Ended("insufficient", {}) EXCEPT !.coverage = NoCoverage]
        \/ turn' = Ended("answer", consulted)
        \/ turn' = Ended("insufficient", {})
        \/ turn' = Ended("failed", {})
    BY DEF Complete
  <1> HIDE DEF consulted
  <1>3. NoCoverage \in [doc : Docs \cup {NoDoc}, long : BOOLEAN]
    BY DEF NoCoverage
  <1>4. ASSUME NEW e \in Ends, NEW cited \in SUBSET ChunkType
        PROVE  Ended(e, cited) = [Ended(e, cited) EXCEPT !.coverage = turn.coverage]
    BY <1>0 DEF TurnType
  <1>5. consulted \in SUBSET ChunkType
    BY <1>0, <1>1 DEF TurnType, ResultType
  <1>6. ASSUME NEW e \in Ends, NEW cited \in SUBSET turn.result.chunks, NEW cover \in {NoCoverage, turn.coverage},
               turn' = [Ended(e, cited) EXCEPT !.coverage = cover],
               e = "clarification" => turn.result.route = "clarification_required",
               \A c \in cited : docs[c.doc].ver = c.ver
        PROVE  AssistantInv'
    BY <1>0, <1>3, <1>6, EndedKeeps
  <1>7. CASE turn' = Ended("answer", consulted)
    <2>1. turn' = [Ended("answer", consulted) EXCEPT !.coverage = turn.coverage]
      BY <1>4, <1>5, <1>7 DEF Ends
    <2> QED
      BY <1>1, <1>6, <2>1 DEF Ends
  <1>8. ASSUME NEW e \in {"insufficient", "failed"}, turn' = Ended(e, {}) PROVE AssistantInv'
    <2>1. turn' = [Ended(e, {}) EXCEPT !.coverage = turn.coverage]
      BY <1>4, <1>8 DEF Ends
    <2> DEFINE none == {}
    <2>2. none \in SUBSET turn.result.chunks /\ (\A c \in none : docs[c.doc].ver = c.ver) /\ e \in Ends /\ e # "clarification"
      BY <1>8 DEF Ends
    <2>3. turn' = [Ended(e, none) EXCEPT !.coverage = turn.coverage]
      BY <2>1
    <2> HIDE DEF none
    <2> QED
      BY <1>6, <2>2, <2>3
  <1>9. ASSUME NEW e \in {"insufficient", "clarification"}, turn' = [Ended(e, {}) EXCEPT !.coverage = NoCoverage],
               e = "clarification" => turn.result.route = "clarification_required"
        PROVE  AssistantInv'
    <2> DEFINE none == {}
    <2>1. none \in SUBSET turn.result.chunks /\ (\A c \in none : docs[c.doc].ver = c.ver) /\ e \in Ends
      BY <1>9 DEF Ends
    <2>2. turn' = [Ended(e, none) EXCEPT !.coverage = NoCoverage]
      BY <1>9
    <2> HIDE DEF none
    <2> QED
      BY <1>6, <1>9, <2>1, <2>2
  <1> QED
    BY <1>2, <1>7, <1>8, <1>9

-----------------------------------------------------------------------------
(* The rest of the product. *)

\* Documents and files change; versions only grow.
LEMMA OthersKeep ==
    ASSUME AssistantInv, AssistantTypeOK', turn' = turn, \A d \in Docs : docs[d].ver <= docs'[d].ver
    PROVE  AssistantInv'
  <1>1. turn \in TurnType /\ turn.result.chunks \in SUBSET ChunkType
    BY DEF AssistantInv, AssistantTypeOK, TurnType, ResultType
  <1>2. \A c \in turn.result.chunks : /\ c.ver \in Nat /\ docs[c.doc].ver \in Nat /\ docs'[c.doc].ver \in Nat
                                      /\ docs[c.doc].ver <= docs'[c.doc].ver
    BY <1>1 DEF AssistantInv, AssistantTypeOK, ChunkType
  <1>3. Current(turn)'
    BY <1>1, <1>2 DEF AssistantInv, Current, Given, WholeRead
  <1> QED
    BY <1>3 DEF AssistantInv

LEMMA ChangeKeeps ==
    ASSUME AssistantInv, Change PROVE AssistantInv'
  <1> DEFINE Row == [ver : Nat, indexed : BOOLEAN, live : BOOLEAN, readable : BOOLEAN, long : BOOLEAN]
  <1>a. docs \in [Docs -> Row] /\ files \in SUBSET Files /\ changes \in Nat /\ turn \in TurnType
    BY DEF AssistantInv, AssistantTypeOK
  <1>b. changes' = changes + 1 /\ turn' = turn
    BY DEF Change
  <1>0. docs \in [Docs -> Row] /\ files \in SUBSET Files /\ changes' \in Nat /\ turn' = turn /\ turn \in TurnType
    BY <1>a, <1>b
  <1>1. CASE docs' = docs /\ files' \in SUBSET Files
    <2>1. AssistantTypeOK'
      BY <1>0, <1>1 DEF AssistantTypeOK
    <2>2. \A d \in Docs : docs[d].ver <= docs'[d].ver
      BY <1>0, <1>1
    <2> QED
      BY <1>0, <2>1, <2>2, OthersKeep
  <1>2. ASSUME NEW d \in Docs, NEW row \in Row, docs' = [docs EXCEPT ![d] = row], docs[d].ver <= row.ver,
               files' = files
        PROVE  AssistantInv'
    <2>1. AssistantTypeOK'
      BY <1>0, <1>2 DEF AssistantTypeOK
    <2>2. \A x \in Docs : docs[x].ver <= docs'[x].ver
      BY <1>0, <1>2
    <2> QED
      BY <1>0, <2>1, <2>2, OthersKeep
  <1>3. ASSUME NEW d \in Docs, docs' = [docs EXCEPT ![d].readable = FALSE], files' = files PROVE AssistantInv'
    <2> DEFINE row == [docs[d] EXCEPT !.readable = FALSE]
    <2>0. docs[d] \in Row /\ docs[d].ver \in Nat
      BY <1>0
    <2>1. row \in Row
      BY <2>0
    <2>2. docs[d].ver <= row.ver
      BY <2>0
    <2>3. docs' = [docs EXCEPT ![d] = row]
      BY <1>0, <1>3
    <2> HIDE DEF row
    <2> QED
      BY <1>2, <1>3, <2>1, <2>2, <2>3
  <1>4. ASSUME NEW d \in Docs, docs' = [docs EXCEPT ![d].readable = FALSE, ![d].live = FALSE, ![d].indexed = FALSE],
               files' = files
        PROVE  AssistantInv'
    <2> DEFINE row == [docs[d] EXCEPT !.readable = FALSE, !.live = FALSE, !.indexed = FALSE]
    <2>0. docs[d] \in Row /\ docs[d].ver \in Nat
      BY <1>0
    <2>1. row \in Row
      BY <2>0
    <2>3. docs[d].ver <= row.ver
      BY <2>0
    <2>2. docs' = [docs EXCEPT ![d] = row]
      BY <1>0, <1>4
    <2> HIDE DEF row
    <2> QED
      BY <1>2, <1>4, <2>1, <2>2, <2>3
  <1>5. ASSUME NEW d \in Docs, NEW long \in BOOLEAN, files' = files,
               docs' = [docs EXCEPT ![d].ver = @ + 1, ![d].indexed = FALSE, ![d].long = long]
        PROVE  AssistantInv'
    <2> DEFINE n == docs[d].ver + 1
               no == FALSE
               row == [docs[d] EXCEPT !.ver = n, !.indexed = no, !.long = long]
    <2>0. docs[d] \in Row /\ n \in Nat /\ docs[d].ver <= n
      BY <1>0
    <2>a. no \in BOOLEAN
      OBVIOUS
    <2>2. docs' = [docs EXCEPT ![d] = row]
      BY <1>0, <1>5
    <2> HIDE DEF n, no
    <2>1. row \in Row
      BY <2>0, <2>a
    <2>3. docs[d].ver <= row.ver
      BY <2>0
    <2> HIDE DEF row
    <2> QED
      BY <1>2, <1>5, <2>1, <2>2, <2>3
  <1> QED
    BY <1>0, <1>1, <1>3, <1>4, <1>5 DEF Change

LEMMA IndexKeeps ==
    ASSUME AssistantInv, Index PROVE AssistantInv'
  <1>0. PICK d \in Docs : docs' = [docs EXCEPT ![d].indexed = TRUE]
    BY DEF Index
  <1>1. UNCHANGED <<files, turn, changes>> /\ AssistantTypeOK
    BY DEF Index, AssistantInv
  <1>2. AssistantTypeOK'
    BY <1>0, <1>1 DEF AssistantTypeOK
  <1>3. \A x \in Docs : docs[x].ver <= docs'[x].ver
    BY <1>0, <1>1 DEF AssistantTypeOK
  <1> QED
    BY <1>1, <1>2, <1>3, OthersKeep

-----------------------------------------------------------------------------
(* The theorems. *)

LEMMA AssistantInitially ==
    ASSUME AssistantInit PROVE AssistantInv
  <1>1. PICK kind \in Kinds, priority \in Priorities, mode \in Modes, model \in BOOLEAN, hitl \in BOOLEAN,
             allowed \in BOOLEAN, attached \in SUBSET files, document \in Docs \cup {NoDoc} :
             turn = Fresh(kind, priority, mode, model, hitl, allowed, attached, document)
    BY DEF AssistantInit
  <1>2. docs \in [Docs -> [ver : Nat, indexed : BOOLEAN, live : BOOLEAN, readable : BOOLEAN, long : BOOLEAN]]
        /\ files \in SUBSET Files /\ changes \in Nat
    <2>1. docs \in [Docs -> [ver : {1}, indexed : {TRUE}, live : {TRUE}, readable : BOOLEAN, long : BOOLEAN]]
          /\ files \in SUBSET Files /\ changes = 0
      BY DEF AssistantInit
    <2>2. ASSUME NEW d \in Docs
          PROVE  docs[d] \in [ver : Nat, indexed : BOOLEAN, live : BOOLEAN, readable : BOOLEAN, long : BOOLEAN]
      <3>1. docs[d] \in [ver : {1}, indexed : {TRUE}, live : {TRUE}, readable : BOOLEAN, long : BOOLEAN]
        BY <2>1
      <3>2. docs[d].ver = 1 /\ docs[d].indexed = TRUE /\ docs[d].live = TRUE
            /\ docs[d].readable \in BOOLEAN /\ docs[d].long \in BOOLEAN
            /\ docs[d] = [ver |-> docs[d].ver, indexed |-> docs[d].indexed, live |-> docs[d].live,
                          readable |-> docs[d].readable, long |-> docs[d].long]
        BY <3>1
      <3>3. docs[d].ver \in Nat
        BY <3>2
      <3>4. docs[d].indexed \in BOOLEAN
        BY <3>2
      <3>5. docs[d].live \in BOOLEAN
        BY <3>2
      <3> QED
        BY <3>2, <3>3, <3>4, <3>5
    <2> QED
      BY <2>1, <2>2
  <1>3. NoResult \in ResultType /\ NoResult.chunks = {}
    BY DEF ResultType, NoResult, Routes, ChunkType
  <1>4. NoCoverage \in [doc : Docs \cup {NoDoc}, long : BOOLEAN]
    BY DEF NoCoverage
  <1>5. "attachments" \in Points /\ "none" \in Ends /\ attached \in SUBSET Files
    BY <1>2 DEF Points, Ends
  <1>6. turn \in TurnType
    BY <1>1, <1>3, <1>4, <1>5 DEF Fresh, TurnType
  <1>7. /\ turn.at = "attachments" /\ turn.reply = "none" /\ turn.seen = {} /\ turn.cited = {} /\ turn.end = "none"
        /\ turn.coverage = NoCoverage /\ turn.result = NoResult /\ turn.text = {} /\ ~turn.full /\ ~turn.byPerson
        /\ turn.tries = 0 /\ turn.asks = 0
    BY <1>1 DEF Fresh
  <1>8. Unwritten(turn) /\ Refused(turn) /\ Settled(turn) /\ Asked(turn) /\ Opened(turn)
    BY <1>3, <1>7, AssistantAssumption DEF Unwritten, Refused, Settled, Asked, Opened
  <1>9. Current(turn)
    BY <1>3, <1>7 DEF Current
  <1> QED
    BY <1>2, <1>6, <1>8, <1>9 DEF AssistantInv, AssistantTypeOK

LEMMA AssistantSteps ==
    ASSUME AssistantInv, [AssistantNext]_avars PROVE AssistantInv'
  <1>1. CASE UNCHANGED avars
    BY <1>1 DEF avars, AssistantInv, AssistantTypeOK, Current, Given, WholeRead
  <1>2. CASE Execute
    BY <1>2, ResolveAttachmentsKeeps, ReopenAnsweredKeeps, DecideSourceKeeps, RetrieveContextKeeps,
       RetrieveSelectedKeeps, PrepareSelectionKeeps, ResolveTargetKeeps, PrepareReadKeeps, RespondKeeps,
       CompleteKeeps DEF Execute
  <1>3. CASE Answered \/ Abandon
    BY <1>3, AnswerFilesKeeps, AnswerDocumentKeeps, RefineKeeps, AbandonKeeps DEF Answered
  <1>4. CASE Change \/ Index
    BY <1>4, ChangeKeeps, IndexKeeps
  <1> QED
    BY <1>1, <1>2, <1>3, <1>4 DEF AssistantNext

\* The inductive invariant of a turn holds in every state of every turn.
THEOREM AssistantInvariance == AssistantSpec => []AssistantInv
  BY AssistantInitially, AssistantSteps, PTL DEF AssistantSpec

\* A refusal to search is honoured, the person's choice of a document settles what the run
\* rests on, questions are bounded, and a composed reply cites what the model read in the
\* round that wrote it and had every file open that it names, whatever is edited, revoked,
\* deleted or expires during the turn and its pauses.
THEOREM TurnsAreSound == AssistantSpec => []TurnSound
  <1>1. AssistantInv => TurnSound
    <2> SUFFICES ASSUME AssistantInv PROVE TurnSound
      OBVIOUS
    <2>0. turn \in TurnType /\ turn.asks \in Nat /\ turn.tries \in Nat /\ turn.cited \in SUBSET ChunkType
      BY DEF AssistantInv, AssistantTypeOK, TurnType
    <2>1. RefusalHonoured
      BY DEF AssistantInv, Refused, RefusalHonoured
    <2>2. SelectionSettles
      BY DEF AssistantInv, Settled, Unwritten, SelectionSettles
    <2>3. AskingBounded
      BY <2>0, AssistantAssumption DEF AssistantInv, Asked, AskingBounded
    <2>4. CitedWasRead
      <3> SUFFICES ASSUME turn.reply = "composed", turn.at = "done", NEW c \in turn.cited
                   PROVE  \E e \in {x \in turn.seen : x.round = turn.round} : c = [doc |-> e.doc, ver |-> e.ver]
        BY DEF CitedWasRead
      <3> DEFINE e == [doc |-> c.doc, ver |-> c.ver, round |-> turn.round]
      <3>1. e \in turn.seen /\ e.round = turn.round
        BY DEF AssistantInv, Current, Given
      <3>2. c = [doc |-> e.doc, ver |-> e.ver]
        BY <2>0 DEF ChunkType
      <3> QED
        BY <3>1, <3>2
    <2>5. LimitStated
      BY DEF AssistantInv, Opened, LimitStated
    <2> QED
      BY <2>1, <2>2, <2>3, <2>4, <2>5 DEF TurnSound
  <1> QED
    BY <1>1, AssistantInvariance, PTL

-----------------------------------------------------------------------------
(* Where text comes from. *)

\* The steps that read no text.
LEMMA QuietSteps ==
    ASSUME AssistantInv, AssistantNext, ~RetrieveContext, ~RetrieveSelected, ~Respond
    PROVE  turn'.text \subseteq turn.text /\ turn'.seen = turn.seen
  <1>0. turn \in TurnType /\ turn.chosen \in SUBSET Files
    BY DEF AssistantInv, AssistantTypeOK, TurnType
  <1>1. CASE ResolveAttachments
    <2>1. PICK u \in FirstResolution(turn) :
              turn' = [u EXCEPT !.at = IF u.fileNeed /\ u.hitl THEN "waitfile" ELSE "source"]
      BY <1>1 DEF ResolveAttachments
    <2>2. u \in TurnType /\ SameButFiles(u, turn)
      <3>1. CASE turn.workspace # {}
        BY <1>0, <2>1, <3>1 DEF FirstResolution, TurnType, SameButFiles
      <3> DEFINE some == Files # {}
      <3>0. some \in BOOLEAN
        OBVIOUS
      <3> HIDE DEF some
      <3>2. CASE turn.workspace = {} /\ (u = turn \/ u = [turn EXCEPT !.fileGone = some])
        BY <1>0, <3>0, <3>2, FilesMissed DEF SameButFiles
      <3>3. ASSUME turn.workspace = {}, NEW a \in {"notes", "original"},
                   u = [turn EXCEPT !.fileNeed = some, !.access = a]
            PROVE  u \in TurnType /\ SameButFiles(u, turn)
        BY <1>0, <3>0, <3>3, FilesUnclear
      <3>4. ASSUME turn.workspace = {}, NEW ids \in SUBSET Files \ {{}}, u = Reopen(turn, ids)
            PROVE  u \in TurnType /\ SameButFiles(u, turn)
        BY <1>0, <3>4, ReopenTyped
      <3> QED
        BY <2>1, <3>1, <3>2, <3>3, <3>4 DEF FirstResolution, some
    <2>3. turn'.text = u.text /\ turn'.seen = u.seen
      BY <2>1, <2>2 DEF TurnType
    <2> QED
      BY <2>2, <2>3 DEF SameButFiles
  <1>2. CASE ReopenAnswered
    <2> DEFINE t == [turn EXCEPT !.chosen = {}]
               u == Reopen(t, turn.chosen)
    <2>1. t \in TurnType /\ t.text = turn.text /\ t.seen = turn.seen
      BY <1>0 DEF TurnType
    <2> HIDE DEF t
    <2>2. u \in TurnType /\ u.text = t.text /\ u.seen = t.seen
      BY <1>0, <2>1, ReopenTyped DEF SameButFiles
    <2>3. turn' = [u EXCEPT !.at = "source"]
      BY <1>2 DEF ReopenAnswered, t
    <2> HIDE DEF u
    <2> QED
      BY <2>1, <2>2, <2>3 DEF TurnType
  <1>3. CASE AnswerFiles \/ AnswerDocument \/ Refine
    <2> DEFINE u == Resumed(turn)
    <2>1. u \in TurnType /\ u.text = turn.text /\ u.seen = turn.seen
      <3> DEFINE n == turn.round + 1
      <3>1. n \in Nat
        BY <1>0 DEF TurnType
      <3>2. u = [turn EXCEPT !.round = n, !.workspace = {}]
        BY DEF Resumed
      <3> HIDE DEF n, u
      <3> QED
        BY <1>0, <3>1, <3>2, ZenonT(60) DEF TurnType
    <2>2. \/ \E ids : turn' = [u EXCEPT !.at = "reopen", !.chosen = ids]
          \/ \E d, p : turn' = [u EXCEPT !.selected = d, !.byPerson = TRUE, !.at = p, !.result = NoResult]
          \/ \E n, p : turn' = [u EXCEPT !.tries = n, !.options = {}, !.needs = TRUE, !.at = p]
      <3>1. CASE AnswerFiles
        BY <3>1 DEF AnswerFiles
      <3>2. CASE AnswerDocument
        BY <3>2 DEF AnswerDocument
      <3>3. CASE Refine
        BY <3>3 DEF Refine
      <3> QED
        BY <1>3, <3>1, <3>2, <3>3
    <2> HIDE DEF u
    <2> QED
      BY <2>1, <2>2, ZenonT(60) DEF TurnType
  <1>4. CASE DecideSource
    BY <1>0, <1>4, ZenonT(60) DEF DecideSource, Bypassed, TurnType
  <1>5. CASE PrepareSelection
    <2>1. ASSUME NEW options, turn' = Ask(turn, options) PROVE turn'.text = turn.text /\ turn'.seen = turn.seen
      <3> DEFINE may == MayRefine(turn)
                 wide == ~MayRefine(turn)
                 n == turn.asks + 1
      <3>1. turn' = [turn EXCEPT !.options = options, !.known = TRUE, !.needs = FALSE, !.at = "waitdoc",
                                 !.asks = n, !.refinable = may, !.browsable = wide]
        BY <2>1 DEF Ask
      <3> HIDE DEF may, wide, n
      <3> QED
        BY <1>0, <3>1 DEF TurnType
    <2>2. ASSUME NEW d, NEW p,
                 turn' = [turn EXCEPT !.selected = d, !.needs = FALSE, !.at = p, !.result = NoResult]
          PROVE  turn'.text = turn.text /\ turn'.seen = turn.seen
      BY <1>0, <2>2 DEF TurnType
    <2>3. CASE turn.known /\ ~turn.needs
      BY <1>5, <2>1, <2>3 DEF PrepareSelection
    <2>4. CASE ~(turn.known /\ ~turn.needs)
      <3>1. PICK r \in Resolutions(turn) :
              turn' = IF r.doc # NoDoc
                      THEN [turn EXCEPT !.selected = r.doc, !.needs = FALSE, !.at = AfterChoice(turn),
                                        !.result = NoResult]
                      ELSE Ask(turn, r.options)
        BY <1>5, <2>4 DEF PrepareSelection
      <3> QED
        BY <2>1, <2>2, <3>1
    <2> QED
      BY <2>3, <2>4
  <1>6. CASE ResolveTarget
    <2>1. CASE turn' = Unavailable(turn)
      BY <1>0, <2>1, UnavailableTyped DEF SameButTarget
    <2>2. ASSUME NEW d, turn' = [turn EXCEPT !.selected = d, !.target = "resolved", !.needs = FALSE, !.at = "read"]
          PROVE  turn'.text = turn.text /\ turn'.seen = turn.seen
      BY <1>0, <2>2 DEF TurnType
    <2>3. ASSUME turn' = [turn EXCEPT !.target = "resolved", !.needs = FALSE, !.at = "read"]
          PROVE  turn'.text = turn.text /\ turn'.seen = turn.seen
      BY <1>0, <2>3 DEF TurnType
    <2>4. ASSUME NEW options, NEW p,
                 turn' = [Empty(turn, "clarification_required") EXCEPT
                            !.target = "ambiguous", !.options = options, !.known = TRUE, !.needs = FALSE, !.at = p]
          PROVE  turn'.text = {} /\ turn'.seen = turn.seen
      <3> DEFINE u == Empty(turn, "clarification_required")
      <3>1. u \in TurnType /\ u.text = {} /\ u.seen = turn.seen
        BY <1>0, EmptyTyped DEF SameButTarget
      <3>2. turn' = [u EXCEPT !.target = "ambiguous", !.options = options, !.known = TRUE, !.needs = FALSE, !.at = p]
        BY <2>4
      <3> HIDE DEF u
      <3> QED
        BY <3>1, <3>2 DEF TurnType
    <2>5. CASE turn.selected # NoDoc
      BY <1>6, <2>1, <2>3, <2>5 DEF ResolveTarget
    <2>6. CASE turn.selected = NoDoc
      <3>1. PICK r \in Resolutions(turn) :
              turn' = IF r.doc # NoDoc
                      THEN [turn EXCEPT !.selected = r.doc, !.target = "resolved", !.needs = FALSE, !.at = "read"]
                      ELSE IF r.options # {} \/ Cardinality(Choosable(turn)) > 1
                      THEN [Empty(turn, "clarification_required") EXCEPT
                                !.target = "ambiguous", !.options = r.options, !.known = TRUE, !.needs = FALSE,
                                !.at = IF turn.hitl /\ turn.allowed THEN "prepare" ELSE "respond"]
                      ELSE Unavailable(turn)
        BY <1>6, <2>6 DEF ResolveTarget
      <3> QED
        BY <2>1, <2>2, <2>4, <3>1
    <2> QED
      BY <2>5, <2>6
  <1>7. CASE PrepareRead
    <2>1. ASSUME NEW v, v = Unavailable(turn) PROVE v.text = {} /\ v.seen = turn.seen
      BY <1>0, <2>1, UnavailableTyped DEF SameButTarget
    <2> QED
      BY <1>0, <1>7, <2>1 DEF PrepareRead, TurnType
  <1>8. CASE Complete
    BY <1>0, <1>8 DEF Complete, TurnType
  <1>9. CASE Abandon \/ Change \/ Index
    BY <1>0, <1>9 DEF Abandon, Change, Index, TurnType
  <1> QED
    BY <1>1, <1>2, <1>3, <1>4, <1>5, <1>6, <1>7, <1>8, <1>9 DEF AssistantNext, Execute, Answered

\* A search takes text only from what it may read.
LEMMA SearchReads ==
    ASSUME AssistantInv, RetrieveContext \/ RetrieveSelected
    PROVE  /\ turn'.seen = turn.seen
           /\ \A e \in turn'.text : e \in turn.text \/ e.doc \in Authorized(turn)
  <1>0. turn \in TurnType
    BY DEF AssistantInv, AssistantTypeOK
  <1>1. \/ \E attempts \in Nat, again \in {"rag", "selected"} : turn' = Retried(turn, attempts, again)
        \/ \E r \in ResultType, p \in {"prepare", "finish", "respond"} :
             /\ turn' = Found(turn, r, Stamped(turn, r.chunks), p)
             /\ \A c \in r.chunks : c.doc \in Authorized(turn)
    <2>1. CASE RetrieveContext
      <3> DEFINE route == Route(turn, Cardinality(Authorized(turn)), Cardinality(Choosable(turn)))
                 founds == SUBSET ChunksOf(Authorized(turn))
                 mayAsk == TRUE
      <3>1. route \in Routes \ {"none"} /\ mayAsk \in BOOLEAN
        BY RouteTyped
      <3>2. /\ Attempt(turn, Authorized(turn), founds, route, mayAsk, "rag")
            /\ \A found \in founds : found \subseteq ChunksOf(Authorized(turn))
        BY <2>1 DEF RetrieveContext
      <3> HIDE DEF route, founds, mayAsk
      <3>3. \/ \E attempts \in Nat : turn' = Retried(turn, attempts, "rag")
            \/ \E r \in ResultType, p \in {"prepare", "finish", "respond"} :
                 /\ turn' = Found(turn, r, Stamped(turn, r.chunks), p)
                 /\ \A c \in r.chunks : c.doc \in Authorized(turn) /\ c.ver = docs[c.doc].ver
                 /\ r.route = route /\ (p = "prepare" => mayAsk)
        BY <3>1, <3>2, AttemptOutcome
      <3> QED
        BY <3>3
    <2>2. CASE RetrieveSelected
      <3>1. \A d \in SelectedPool(turn) : d \in Authorized(turn)
        BY DEF SelectedPool
      <3> QED
        BY <2>2, <3>1, SelectedOutcome
    <2> QED
      BY <2>1, <2>2
  <1>2. CASE \E attempts \in Nat, again \in {"rag", "selected"} : turn' = Retried(turn, attempts, again)
    BY <1>0, <1>2 DEF Retried, TurnType
  <1>3. ASSUME NEW r \in ResultType, NEW p \in {"prepare", "finish", "respond"},
               turn' = Found(turn, r, Stamped(turn, r.chunks), p), \A c \in r.chunks : c.doc \in Authorized(turn)
        PROVE  turn'.seen = turn.seen /\ \A e \in turn'.text : e.doc \in Authorized(turn)
    <2>1. r.chunks \in SUBSET ChunkType
      BY DEF ResultType
    <2>2. \A e \in Stamped(turn, r.chunks) : e.doc \in Authorized(turn)
      BY <1>0, <1>3, <2>1, StampedTyped
    <2>3. turn'.seen = turn.seen /\ turn'.text = Stamped(turn, r.chunks)
      BY <1>0, <1>3 DEF Found, TurnType
    <2> QED
      BY <2>2, <2>3
  <1> QED
    BY <1>1, <1>2, <1>3

\* The reply is made from the text that was found, or from the document as it may be read now.
LEMMA RespondReads ==
    ASSUME AssistantInv, Respond
    PROVE  /\ turn'.text \subseteq turn.text
           /\ \A e \in turn'.seen : e \in turn.text \cup turn.seen \/ e.doc \in Authorized(turn)
  <1>0. turn \in TurnType /\ turn.text \in SUBSET TextType /\ AssistantTypeOK
    BY DEF AssistantInv, AssistantTypeOK, TurnType
  <1>1. ASSUME NEW text \in SUBSET TextType, turn' = Compose(turn, text)
        PROVE  turn'.text = turn.text /\ (turn'.seen = turn.seen \/ turn'.seen = text)
    BY <1>0, <1>1, ComposeTyped
  <1>2. CASE turn' = Compose(turn, turn.text)
    BY <1>0, <1>1, <1>2
  <1>3. CASE Readable(turn) /\ turn' = Compose(turn, Stamped(turn, {Chunk(turn.selected)}))
    <2> DEFINE k == Chunk(turn.selected)
               text == Stamped(turn, {k})
    <2>1. turn.selected \in Authorized(turn) /\ turn.selected \in Docs
      BY <1>0, <1>3, ReadableDocs DEF Readable, MayRead
    <2>2. k \in ChunkType /\ k.doc = turn.selected
      BY <1>0, <2>1 DEF Chunk, ChunkType, AssistantTypeOK
    <2>3. turn' = Compose(turn, text)
      BY <1>3
    <2> HIDE DEF k
    <2>4. text \in SUBSET TextType /\ \A e \in text : e.doc = k.doc
      BY <1>0, <2>2, StampedTyped
    <2> HIDE DEF text
    <2> QED
      BY <1>1, <2>1, <2>2, <2>3, <2>4
  <1>4. CASE turn' = [Unavailable(turn) EXCEPT !.coverage = NoCoverage]
    <2> DEFINE v == Unavailable(turn)
    <2>1. v \in TurnType /\ v.text = {} /\ v.seen = turn.seen
      BY <1>0, UnavailableTyped DEF SameButTarget
    <2>2. turn' = [v EXCEPT !.coverage = NoCoverage]
      BY <1>4
    <2> HIDE DEF v
    <2> QED
      BY <2>1, <2>2 DEF TurnType
  <1> QED
    BY <1>2, <1>3, <1>4 DEF Respond

\* No step gives the turn text of a document that its user may not read at that moment, or
\* that is out of the scope chosen, also after a pause during which rights were lost.
THEOREM TextIsAuthorized == AssistantSpec => NoForeignText
  <1> DEFINE Fresh1 == (turn'.text \ turn.text) \cup (turn'.seen \ (turn.text \cup turn.seen))
  <1>1. ASSUME AssistantInv, AssistantNext, NEW e \in Fresh1
        PROVE  docs[e.doc].readable /\ e.doc \in InScope(turn)
    <2>1. e.doc \in Authorized(turn)
      <3>1. CASE RetrieveContext \/ RetrieveSelected
        BY <1>1, <3>1, SearchReads
      <3>2. CASE Respond
        BY <1>1, <3>2, RespondReads
      <3>3. CASE ~RetrieveContext /\ ~RetrieveSelected /\ ~Respond
        BY <1>1, <3>3, QuietSteps
      <3> QED
        BY <3>1, <3>2, <3>3
    <2> QED
      BY <1>1, <2>1, ReadableDocs DEF AssistantInv
  <1>2. ASSUME AssistantInv, [AssistantNext]_avars
        PROVE  [\A e \in Fresh1 : docs[e.doc].readable /\ e.doc \in InScope(turn)]_avars
    BY <1>1, <1>2
  <1> QED
    BY <1>2, AssistantInvariance, PTL DEF AssistantSpec, NoForeignText
=============================================================================

--------------------------- MODULE SessionEvidence ---------------------------
(***************************************************************************)
(* The evidence of earlier answers (conversations/session_evidence.py).    *)
(* An answer records links to every source behind it, also to the sources  *)
(* of the recaps it was given (excerpts are left out here).  A later       *)
(* answer is given recaps of a few earlier turns, each only if every       *)
(* source it is linked to may still be read.                               *)
(***************************************************************************)
EXTENDS Naturals, Sequences, FiniteSets, FiniteSetsExt

CONSTANTS
    Papers,        \* documents
    Hidden,        \* those of system knowledge bases
    RecallLimit,   \* recaps given to one answer
    LinkLimit,     \* links of one record
    MaxAnswers,    \* bound: answers of the conversation
    MaxLosses      \* bound: losses and returns of access

ASSUME EvidenceAssumption ==
    /\ IsFiniteSet(Papers) /\ Hidden \subseteq Papers
    /\ {RecallLimit, LinkLimit} \subseteq Nat \ {0}

VARIABLES
    legible,   \* the sources that may be read now
    answers,   \* the completed answers, in order
    draft,     \* the answer being made
    losses,
    made       \* answers begun

evars == <<legible, answers, draft, losses, made>>

\* links and complete are recorded; truly is the history of what the model was given.
NoAnswer == [links |-> {}, complete |-> TRUE, cited |-> {}, truly |-> {}]
NoDraft == [at |-> "none", before |-> 0, given |-> {}, left |-> {}, recaps |-> {}, answer |-> NoAnswer]

EvidenceInit == legible = Papers /\ answers = <<>> /\ draft = NoDraft /\ losses = 0 /\ made = 0

\* Recorded links and citations, without the documents of the system.
Dependencies(a) == (a.links \cup a.cited) \ Hidden

Recallable(a) == a.complete /\ Dependencies(a) \subseteq legible

\* A message, or the regeneration of an answer: then only the turns before it are
\* candidates.  Turns whose message is masked are left out.
Begin ==
    /\ draft.at = "none" /\ made < MaxAnswers /\ made' = made + 1
    /\ \E before \in {Len(answers)} \cup {k - 1 : k \in DOMAIN answers}, given \in SUBSET legible :
          draft' = [NoDraft EXCEPT !.at = "recall", !.before = before, !.given = given,
                                   !.left = {k \in 1..before : Recallable(answers[k])}]
    /\ UNCHANGED <<legible, answers, losses>>

\* The candidates are looked at in the order of their relevance, each with its sources, and
\* given as a recap unless one of them is lost.
Consider ==
    /\ draft.at = "recall" /\ Cardinality(draft.recaps) < RecallLimit
    /\ \E k \in draft.left :
          draft' = [draft EXCEPT !.left = @ \ {k},
                                 !.recaps = IF Recallable(answers[k]) THEN @ \cup {k} ELSE @]
    /\ UNCHANGED <<legible, answers, losses, made>>

Carried(recaps) == UNION {Dependencies(answers[k]) : k \in recaps}

\* capture_answer_input: links beyond the limit are cut, those carried last, and the record
\* says so.
Fitted(links, carried) ==
    {[links |-> s, complete |-> Cardinality(links) <= LinkLimit] :
        s \in {k \in kSubset(Min({LinkLimit, Cardinality(links)}), links) : carried \cap links \subseteq k}}

\* Fault: the links of the recaps are not carried forward.
CapturedLinksOwn(given, recaps) == given

CapturedLinks(given, recaps) == given \cup Carried(recaps)

\* The prompt is packed: recaps are left out, the last first, when they are too long, and
\* all of them when they have too many links.  What is left is captured.
PackPrompt ==
    /\ draft.at = "recall" /\ (draft.left = {} \/ Cardinality(draft.recaps) = RecallLimit)
    /\ \E kept \in SUBSET draft.recaps :
          LET recaps == IF Cardinality(Carried(kept)) > LinkLimit THEN {} ELSE kept
          IN  \E record \in Fitted(CapturedLinks(draft.given, recaps), Carried(recaps)) :
              draft' = [draft EXCEPT !.at = "answering", !.recaps = recaps,
                  !.answer = [links |-> record.links, complete |-> record.complete,
                              cited |-> {},
                              truly |-> draft.given \cup UNION {answers[k].truly : k \in recaps}]]
    /\ UNCHANGED <<legible, answers, losses, made>>

\* record, after the model answered: documents of the system leave no link.
Record ==
    /\ draft.at = "answering"
    /\ draft' = [draft EXCEPT !.at = "recorded", !.answer.links = @ \ Hidden]
    /\ UNCHANGED <<legible, answers, losses, made>>

\* The run completes with citations; a regenerated answer replaces the later turns.
Finish ==
    /\ draft.at = "recorded"
    /\ \E cited \in SUBSET draft.given :
          answers' = Append(SubSeq(answers, 1, draft.before), [draft.answer EXCEPT !.cited = cited])
    /\ draft' = NoDraft
    /\ UNCHANGED <<legible, losses, made>>

\* A failed or cancelled run supplies no recap.
Discard ==
    /\ draft.at # "none" /\ draft' = NoDraft
    /\ UNCHANGED <<legible, answers, losses, made>>

\* A source is deleted or its access revoked, or access is given back.
Lose ==
    /\ losses < MaxLosses /\ losses' = losses + 1
    /\ \E s \in Papers \ Hidden : legible' \in {legible \ {s}, legible \cup {s}}
    /\ UNCHANGED <<answers, draft, made>>

EvidenceNext == Begin \/ Consider \/ PackPrompt \/ Record \/ Finish \/ Discard \/ Lose

EvidenceSpec == EvidenceInit /\ [][EvidenceNext]_evars

-----------------------------------------------------------------------------
(* Properties. *)

\* A turn is recapped only while everything its answer was made from, also through the
\* recaps that it was given itself, may be read.
RecapFailsClosed ==
    [][\A k \in draft'.recaps \ draft.recaps :
          draft'.at = "recall" => answers[k].truly \ Hidden \subseteq legible]_evars

=============================================================================

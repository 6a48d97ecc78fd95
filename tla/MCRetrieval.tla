---------------------------- MODULE MCRetrieval ----------------------------
(***************************************************************************)
(* Instance of Retrieval, Assistant and SessionEvidence: the search for    *)
(* evidence, the turn that uses it, and what later turns are told of it.   *)
(* They are explored apart; a part restricts the wordings, the settings or *)
(* the kinds of message to those that matter to its question.              *)
(***************************************************************************)
EXTENDS Retrieval, Assistant, SessionEvidence, TLC

VARIABLE part
mcvars == <<part, rvars, avars, evars>>

\* Two documents of two chunks and one, the first chunks of the same text; one of the system.
MCCorpus == << [doc |-> 1, ordinal |-> 0, size |-> 2, text |-> "a"],
               [doc |-> 1, ordinal |-> 1, size |-> 3, text |-> "b"],
               [doc |-> 2, ordinal |-> 0, size |-> 2, text |-> "a"],
               [doc |-> 3, ordinal |-> 0, size |-> 1, text |-> "c"] >>

Wording(kind) ==
    [kind |-> kind, selected |-> NoDocument, force |-> FALSE, types |-> {}, named |-> FALSE, personal |-> FALSE, overview |-> FALSE,
     reranker |-> "deterministic",
     title |-> [d \in Documents |-> 0], profile |-> [d \in Documents |-> 0],
     meaning |-> [c \in Chunks |-> 0], words |-> [c \in Chunks |-> 0], facts |-> [c \in Chunks |-> <<>>],
     mentions |-> [c \in Chunks |-> {}]]

\* The queries, with every overlap of what they find.
Gathering ==
    {[Wording("optional") EXCEPT !.title[1] = t, !.profile[2] = p, !.meaning[2] = m, !.words = w,
                                 !.mentions = n, !.overview = o] :
        t \in {0, 850}, p \in {0, 300}, m \in {0, 400}, w \in {<<i, j, k, 0>> : i, j, k \in {0, 90}},
        n \in {[c \in Chunks |-> {}], [c \in Chunks |-> {"e"}]}, o \in BOOLEAN}

\* Routes, the fallback, a selected document.
Routing ==
    {[Wording(k) EXCEPT !.selected = s, !.force = f, !.personal = q, !.words[1] = w] :
        k \in {"ambiguous", "required", "optional", "general", "other"},
        s \in {NoDocument, 1}, f, q \in BOOLEAN, w \in {0, 90}}

\* Facts of two types, more of them than are listed.
Fact(type, score) == [type |-> type, score |-> score]
SomeFacts == << <<Fact("api_endpoint", 900), Fact("command", 950)>>, <<Fact("command", 900)>>,
                <<Fact("api_endpoint", 950)>>, <<>> >>

Listing ==
    {[Wording(k) EXCEPT !.types = t, !.named = n, !.force = f, !.facts = x] :
        k \in {"required", "general", "other"}, t \in SUBSET FactTypes, n, f \in BOOLEAN,
        x \in {SomeFacts, [SomeFacts EXCEPT ![3] = <<>>], [c \in Chunks |-> <<>>]}}

\* Rankings that disagree, and the rerankers that judge them.
Judging ==
    {[Wording("required") EXCEPT !.reranker = r, !.meaning = m, !.words = w, !.title[2] = t] :
        r \in {"cross_encoder", "jev"}, m, w \in {<<300, 200, 0, 0>>, <<100, 0, 200, 300>>, <<200, 300, 100, 50>>},
        t \in {0, 850}}

SearchInit ==
    /\ granted \in {{1, 2, 3}, {2, 3}, {1, 2}} \cup (IF part = "route" THEN {{}} ELSE {}) /\ revoked = 0 /\ search = Started(1)
    /\ asked \in CASE part = "gather" -> Gathering [] part = "route" -> Routing \cup Listing [] OTHER -> Judging

Idle == granted = {} /\ revoked = 0 /\ asked = Wording("other") /\ search = [Started(1) EXCEPT !.at = "done"]

\* A turn at its start; files are of interest when some were submitted.
TurnInit ==
    /\ AssistantInit
    /\ turn.selected = NoDoc \/ turn.priority = "always"
    /\ \A d \in Docs \ Scoped : ~docs[d].long
    /\ turn.model => turn.priority = "automatic"
    /\ turn.hitl # turn.allowed => turn.kind = "whole"
    /\ part = "turn" => /\ files = {} /\ turn.workspace = {}
                        /\ turn.mode # "empty" \/ turn.kind \in {"chat", "whole"}
                        /\ turn.priority # "on_request" \/ turn.kind \in {"refuse", "followup"}
    /\ part = "files" => /\ files # {} /\ turn.kind = "whole" /\ turn.priority = "always" /\ turn.hitl
                         /\ turn.mode = "selected" /\ ~turn.model
                         /\ \A d \in Docs : docs[d].readable

Still == docs = [d \in Docs |-> [ver |-> 1, indexed |-> TRUE, live |-> TRUE, readable |-> FALSE, long |-> FALSE]]
         /\ files = {} /\ changes = 0
         /\ turn = [Fresh("chat", "always", "all", FALSE, FALSE, FALSE, {}, NoDoc) EXCEPT !.at = "done"]

SearchParts == {"gather", "route", "judge"}
TurnParts == {"turn", "files"}

MCInit ==
    /\ part \in {"gather", "route", "judge", "turn", "files", "recap"}
    /\ EvidenceInit
    /\ CASE part \in SearchParts -> SearchInit /\ Still
         [] part \in TurnParts -> Idle /\ TurnInit
         [] OTHER -> Idle /\ Still

MCNext ==
    /\ UNCHANGED part
    /\ \/ part \in SearchParts /\ RetrievalNext /\ UNCHANGED <<avars, evars>>
       \/ part \in TurnParts /\ AssistantNext /\ UNCHANGED <<rvars, evars>>
                             /\ (part = "turn" => turn'.fileNeed = FALSE)
       \/ part = "recap" /\ EvidenceNext /\ UNCHANGED <<rvars, avars>>

\* The run is executed and each pause ends: it is answered, or expires.
MCFairness ==
    /\ WF_mcvars(part \in TurnParts /\ Execute /\ UNCHANGED <<part, rvars, evars>>)
    /\ WF_mcvars(part \in TurnParts /\ (Answered \/ Abandon) /\ UNCHANGED <<part, rvars, evars>>)

MCSpec == MCInit /\ [][MCNext]_mcvars /\ MCFairness

\* No chunk is found, and no text given to a model, that may not be read at that time.
NothingForeign == NoForeignHit /\ NoForeignText

\* A turn ends: the search is repeated, and the person asked, a bounded number of times.
MCTurnEnds == <>(turn.at = "done")
=============================================================================

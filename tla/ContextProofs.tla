--------------------------- MODULE ContextProofs ----------------------------
(***************************************************************************)
(* Proofs about what a turn is given besides its message: Memories, for    *)
(* any number of memories, suggestions, requests and texts, and Workspace, *)
(* for any number of attachments, runs, containers and overlapping sweeps. *)
(* The invariants speak of one row at a time, so that a step is examined   *)
(* at the rows it writes.                                                  *)
(***************************************************************************)
EXTENDS Memories, Workspace, TLAPS

MemoRow == [status : {"none", "active", "inactive", "deleted"}, text : Texts \cup {Blank},
            category : Categories, sourced : BOOLEAN, stale : BOOLEAN]
SuggestionRow == [status : {"none", "pending", "confirmed", "rejected", "expired"},
                  text : Texts \cup {Blank}, category : Categories, due : BOOLEAN]
RequestRow == [op : {"idle", "confirm", "reject", "create", "deactivate", "delete", "recall"},
               at : {"idle", "loaded", "project", "unproject", "found"},
               row : MemoRow, of : Memos \cup Suggestions \cup {Blank}, found : SUBSET Memos]

\* What the policy lets through.
Screened(text, category, sourced) ==
    /\ text \in Texts \ Sensitive
    /\ category = "stable_preference" => text \in Preferences
    /\ category = "document_derived_fact" => sourced

\* Active memories, pending suggestions and the suggestions that a request is about
\* to confirm have passed the policy.
SoundMemo(r) == r.status = "active" => Screened(r.text, r.category, r.sourced)
SoundSuggestion(r) == r.status = "pending" => Screened(r.text, r.category, FALSE)
SoundRequest(r) ==
    /\ r.op \in {"confirm", "reject"} /\ r.at = "loaded" => r.of \in Suggestions
    /\ r.op = "reject" => r.at = "loaded"
    /\ r.op \in {"deactivate", "delete"} => r.of \in Memos
    /\ r.at \in {"project", "unproject"} => r.of \in Memos
    /\ r.op = "confirm" /\ r.at = "loaded" =>
         Screened(r.row.text, r.row.category, FALSE) /\ r.row.sourced = FALSE

MemosOK == memo \in [Memos -> MemoRow] /\ \A m \in Memos : SoundMemo(memo[m])
SuggestionsOK ==
    sugg \in [Suggestions -> SuggestionRow] /\ \A s \in Suggestions : SoundSuggestion(sugg[s])
RequestsOK == req \in [Requests -> RequestRow] /\ \A c \in Requests : SoundRequest(req[c])

\* Deletion is final: a handler that had loaded the row can still mark it
\* inactive, but no handler takes it for a free row or makes it active.
DeletedRows ==
    /\ deleted \subseteq Memos
    /\ \A m \in deleted : memo[m].status \in {"inactive", "deleted"} /\ memo[m].text = Blank

MemoriesInv ==
    /\ MemosOK /\ SuggestionsOK /\ RequestsOK /\ DeletedRows
    /\ enabled \in BOOLEAN /\ store \subseteq Memos /\ recalled \subseteq Memos

-----------------------------------------------------------------------------
(* Rows. *)

\* The empty rows are sound.
LEMMA EmptyRows ==
    /\ NoMemo \in MemoRow /\ SoundMemo(NoMemo)
    /\ NoSuggestion \in SuggestionRow /\ SoundSuggestion(NoSuggestion)
    /\ NoRequest \in RequestRow /\ SoundRequest(NoRequest)
<1>1. NoMemo \in MemoRow /\ NoSuggestion \in SuggestionRow
  BY DEF NoMemo, NoSuggestion, MemoRow, SuggestionRow, Categories
<1>2. NoRequest \in RequestRow
  BY <1>1 DEF NoRequest, RequestRow
<1> QED  BY <1>1, <1>2 DEF NoMemo, NoSuggestion, NoRequest, SoundMemo, SoundSuggestion,
                            SoundRequest

LEMMA MemoriesInitially == MemoriesInit => MemoriesInv
BY EmptyRows DEF MemoriesInit, MemoriesInv, MemosOK, SuggestionsOK, RequestsOK, DeletedRows

\* A request moves to a sound state.
LEMMA RequestMoves ==
    ASSUME RequestsOK, NEW c \in Requests, NEW r \in RequestRow, SoundRequest(r),
           req' = [req EXCEPT ![c] = r]
    PROVE  RequestsOK'
BY DEF RequestsOK

\* A request ends.
LEMMA RequestEnds == ASSUME RequestsOK, NEW c \in Requests, End(c) PROVE RequestsOK'
BY RequestMoves, EmptyRows DEF End

\* Expiring the pending suggestions that are due keeps the rows sound.
LEMMA SweptSound ==
    ASSUME SuggestionsOK
    PROVE  /\ Swept \in [Suggestions -> SuggestionRow]
           /\ \A s \in Suggestions : SoundSuggestion(Swept[s])
<1>1. ASSUME NEW s \in Suggestions PROVE Swept[s] \in SuggestionRow /\ SoundSuggestion(Swept[s])
  <2>1. sugg[s] \in SuggestionRow /\ SoundSuggestion(sugg[s])
    BY DEF SuggestionsOK
  <2>2. [sugg[s] EXCEPT !.status = "expired", !.text = Blank] \in SuggestionRow
    BY <2>1 DEF SuggestionRow
  <2>3. [sugg[s] EXCEPT !.status = "expired", !.text = Blank].status = "expired"
    BY <2>1 DEF SuggestionRow
  <2> QED  BY <2>1, <2>2, <2>3 DEF Swept, SoundSuggestion
<1> QED  BY <1>1 DEF Swept

\* Deciding a suggestion scrubs it.
LEMMA DecideSound ==
    ASSUME SuggestionsOK, NEW s \in Suggestions,
           NEW status \in {"confirmed", "rejected", "expired"}, Decide(s, status)
    PROVE  SuggestionsOK'
<1> DEFINE row == [sugg[s] EXCEPT !.status = status, !.text = Blank]
<1>1. row \in SuggestionRow /\ row.status = status
  BY DEF SuggestionsOK, SuggestionRow
<1>2. sugg' = [sugg EXCEPT ![s] = row]
  BY DEF SuggestionsOK, Decide, SuggestionRow
<1>3. SoundSuggestion(row)
  BY <1>1 DEF SoundSuggestion
<1> HIDE DEF row
<1> QED  BY <1>1, <1>2, <1>3 DEF SuggestionsOK

\* A memory is written to a row that is free or not made active: what was deleted
\* stays so.
LEMMA MemoWritten ==
    ASSUME MemosOK, DeletedRows, NEW m \in Memos, NEW r \in MemoRow, SoundMemo(r),
           memo' = [memo EXCEPT ![m] = r], UNCHANGED deleted,
           m \in deleted => r.status \in {"inactive", "deleted"} /\ r.text = Blank
    PROVE  MemosOK' /\ DeletedRows'
BY DEF MemosOK, DeletedRows

-----------------------------------------------------------------------------
(* One lemma per group of actions. *)

LEMMA SettingsPreserve ==
    ASSUME MemoriesInv,
           (\E on \in BOOLEAN : SetEnabled(on)) \/ Reconcile
    PROVE  MemoriesInv'
<1>1. CASE Reconcile
  BY <1>1 DEF Reconcile, Reconciled, MemoriesInv, MemosOK, SuggestionsOK, RequestsOK, DeletedRows
<1>2. ASSUME NEW on \in BOOLEAN, SetEnabled(on) PROVE MemoriesInv'
  <2>1. SuggestionsOK'
    BY <1>2, SweptSound DEF SetEnabled, MemoriesInv, SuggestionsOK
  <2>2. store' \subseteq Memos /\ enabled' \in BOOLEAN
    BY <1>2 DEF SetEnabled, Reconciled, MemoriesInv
  <2> QED  BY <1>2, <2>1, <2>2 DEF SetEnabled, MemoriesInv, MemosOK, RequestsOK, DeletedRows
<1> QED  BY <1>1, <1>2

LEMMA SuggestPreserves ==
    ASSUME MemoriesInv, NEW s \in Suggestions, NEW t \in Texts, NEW k \in Categories,
           Suggest(s, t, k)
    PROVE  MemoriesInv'
<1> DEFINE row == [status |-> "pending", text |-> t, category |-> k, due |-> FALSE]
<1>1. row \in SuggestionRow
  BY DEF SuggestionRow
<1>2. SoundSuggestion(row)
  BY DEF Suggest, Allowed, SoundSuggestion, Screened
<1>3. sugg' = [Swept EXCEPT ![s] = row]
  BY DEF Suggest
<1> HIDE DEF row
<1>4. SuggestionsOK'
  BY <1>1, <1>2, <1>3, SweptSound DEF MemoriesInv, SuggestionsOK
<1> QED  BY <1>4 DEF Suggest, MemoriesInv, MemosOK, RequestsOK, DeletedRows

LEMMA SuggestionDuePreserves ==
    ASSUME MemoriesInv, NEW s \in Suggestions, SuggestionDue(s)
    PROVE  MemoriesInv'
<1> DEFINE row == [sugg[s] EXCEPT !.due = TRUE]
<1>1. row \in SuggestionRow /\ SoundSuggestion(row)
  BY DEF MemoriesInv, SuggestionsOK, SuggestionRow, SoundSuggestion
<1>2. sugg' = [sugg EXCEPT ![s] = row]
  BY DEF SuggestionDue, MemoriesInv, SuggestionsOK, SuggestionRow
<1> HIDE DEF row
<1>3. SuggestionsOK'
  BY <1>1, <1>2 DEF MemoriesInv, SuggestionsOK
<1> QED  BY <1>3 DEF SuggestionDue, MemoriesInv, MemosOK, RequestsOK, DeletedRows

LEMMA LoadSuggestionPreserves ==
    ASSUME MemoriesInv, NEW c \in Requests, NEW op \in {"confirm", "reject"},
           NEW s \in Suggestions, LoadSuggestion(c, op, s)
    PROVE  MemoriesInv'
<1> DEFINE row == [NoMemo EXCEPT !.text = sugg[s].text, !.category = sugg[s].category]
           r == [NoRequest EXCEPT !.op = op, !.at = "loaded", !.of = s, !.row = row]
<1>1. sugg[s] \in SuggestionRow /\ SoundSuggestion(sugg[s]) /\ sugg[s].status = "pending"
  BY DEF LoadSuggestion, MemoriesInv, SuggestionsOK
<1>2. /\ row \in MemoRow /\ row.sourced = FALSE
      /\ row.text = sugg[s].text /\ row.category = sugg[s].category
  BY <1>1, EmptyRows DEF SuggestionRow, MemoRow, NoMemo
<1>3. req' = [req EXCEPT ![c] = r]
  BY DEF LoadSuggestion
<1> HIDE DEF row
<1>4. r \in RequestRow /\ SoundRequest(r)
  BY <1>1, <1>2, EmptyRows DEF RequestRow, NoRequest, SoundRequest, SoundSuggestion
<1> HIDE DEF r
<1>5. RequestsOK'
  BY <1>3, <1>4, RequestMoves DEF MemoriesInv
<1> QED  BY <1>5 DEF LoadSuggestion, MemoriesInv, MemosOK, SuggestionsOK, DeletedRows

LEMMA RejectPreserves ==
    ASSUME MemoriesInv, NEW c \in Requests, RejectSuggestion(c)
    PROVE  MemoriesInv'
<1>1. req[c].of \in Suggestions
  BY DEF RejectSuggestion, MemoriesInv, RequestsOK, SoundRequest
<1>2. SuggestionsOK' /\ RequestsOK'
  BY <1>1, DecideSound, RequestEnds DEF RejectSuggestion, MemoriesInv
<1> QED  BY <1>2 DEF RejectSuggestion, MemoriesInv, MemosOK, DeletedRows

LEMMA ConfirmPreserves ==
    ASSUME MemoriesInv, NEW c \in Requests, NEW m \in Memos, ConfirmSuggestion(c, m)
    PROVE  MemoriesInv'
<1>1. /\ req[c] \in RequestRow /\ req[c].of \in Suggestions
      /\ Screened(req[c].row.text, req[c].row.category, FALSE)
      /\ m \notin deleted
  BY DEF ConfirmSuggestion, MemoriesInv, RequestsOK, SoundRequest, DeletedRows
<1>2. CASE sugg[req[c].of].due \/ ~enabled
  <2>1. SuggestionsOK' /\ RequestsOK' /\ UNCHANGED memo
    BY <1>1, <1>2, DecideSound, RequestEnds DEF ConfirmSuggestion, MemoriesInv, SuggestionsOK
  <2> QED  BY <2>1 DEF ConfirmSuggestion, MemoriesInv, MemosOK, DeletedRows
<1>3. CASE ~(sugg[req[c].of].due \/ ~enabled)
  <2> DEFINE row == [req[c].row EXCEPT !.status = "active"]
             r == [req[c] EXCEPT !.at = "project", !.of = m]
  <2>1. /\ memo' = [memo EXCEPT ![m] = row] /\ Decide(req[c].of, "confirmed")
        /\ req' = [req EXCEPT ![c].at = "project", ![c].of = m]
        /\ UNCHANGED <<enabled, store, recalled, deleted>>
    BY <1>3 DEF ConfirmSuggestion
  <2>2. row \in MemoRow /\ SoundMemo(row)
    BY <1>1 DEF RequestRow, MemoRow, SoundMemo, Screened
  <2>3. req' = [req EXCEPT ![c] = r]
    BY <2>1 DEF MemoriesInv, RequestsOK, RequestRow
  <2>4. r \in RequestRow /\ SoundRequest(r)
    BY <1>1 DEF RequestRow, SoundRequest, ConfirmSuggestion
  <2> HIDE DEF row, r
  <2>5. MemosOK' /\ DeletedRows'
    BY <1>1, <2>1, <2>2, MemoWritten DEF MemoriesInv
  <2>6. RequestsOK' /\ SuggestionsOK'
    BY <1>1, <2>1, <2>3, <2>4, RequestMoves, DecideSound DEF MemoriesInv
  <2> QED  BY <2>1, <2>5, <2>6 DEF MemoriesInv
<1> QED  BY <1>2, <1>3

LEMMA StorePreserves ==
    ASSUME MemoriesInv, NEW c \in Requests, NEW m \in Memos, NEW t \in Texts,
           NEW k \in Categories, NEW sourced \in BOOLEAN, NEW mode,
           StoreMemory(c, m, t, k, sourced, mode)
    PROVE  MemoriesInv'
<1> DEFINE row == [status |-> "active", text |-> t, category |-> k, sourced |-> sourced,
                   stale |-> FALSE]
           r == [NoRequest EXCEPT !.op = "create", !.at = "project", !.of = m]
<1>1. row \in MemoRow
  BY DEF MemoRow
<1>2. SoundMemo(row)
  BY DEF StoreMemory, Allowed, SoundMemo, Screened
<1>3. r \in RequestRow /\ SoundRequest(r)
  BY EmptyRows DEF RequestRow, NoRequest, SoundRequest
<1>4. /\ memo' = [memo EXCEPT ![m] = row] /\ req' = [req EXCEPT ![c] = r] /\ sugg' = Swept
      /\ UNCHANGED <<enabled, store, recalled, deleted>>
      /\ m \notin deleted
  BY DEF StoreMemory, MemoriesInv, DeletedRows
<1> HIDE DEF row, r
<1>5. MemosOK' /\ DeletedRows'
  BY <1>1, <1>2, <1>4, MemoWritten DEF MemoriesInv
<1>6. RequestsOK' /\ SuggestionsOK'
  BY <1>3, <1>4, RequestMoves, SweptSound DEF MemoriesInv, SuggestionsOK
<1> QED  BY <1>4, <1>5, <1>6 DEF MemoriesInv

LEMMA LoadMemoryPreserves ==
    ASSUME MemoriesInv, NEW c \in Requests, NEW op \in {"deactivate", "delete"},
           NEW m \in Memos, LoadMemory(c, op, m)
    PROVE  MemoriesInv'
<1> DEFINE r == [NoRequest EXCEPT !.op = op, !.at = "loaded", !.of = m, !.row = memo[m]]
<1>1. memo[m] \in MemoRow
  BY DEF MemoriesInv, MemosOK
<1>2. r \in RequestRow /\ SoundRequest(r)
  BY <1>1, EmptyRows DEF RequestRow, NoRequest, SoundRequest
<1>3. req' = [req EXCEPT ![c] = r] /\ sugg' = Swept
  BY DEF LoadMemory
<1> HIDE DEF r
<1>4. RequestsOK' /\ SuggestionsOK'
  BY <1>2, <1>3, RequestMoves, SweptSound DEF MemoriesInv, SuggestionsOK
<1> QED  BY <1>4 DEF LoadMemory, MemoriesInv, MemosOK, DeletedRows

\* The step of a handler that goes on to remove the projection.
LEMMA ToUnproject ==
    ASSUME MemoriesInv, NEW c \in Requests, req[c].op \in {"deactivate", "delete"},
           req' = [req EXCEPT ![c].at = "unproject"]
    PROVE  RequestsOK' /\ req[c].of \in Memos
<1> DEFINE r == [req[c] EXCEPT !.at = "unproject"]
<1>1. req[c] \in RequestRow /\ SoundRequest(req[c])
  BY DEF MemoriesInv, RequestsOK
<1>2. r \in RequestRow /\ SoundRequest(r)
  BY <1>1 DEF RequestRow, SoundRequest
<1>3. req' = [req EXCEPT ![c] = r]
  BY DEF MemoriesInv, RequestsOK, RequestRow
<1> HIDE DEF r
<1>4. RequestsOK'
  BY <1>2, <1>3, RequestMoves DEF MemoriesInv
<1> QED  BY <1>1, <1>4 DEF SoundRequest

LEMMA DeactivatePreserves ==
    ASSUME MemoriesInv, NEW c \in Requests, Deactivate(c)
    PROVE  MemoriesInv'
<1> DEFINE m == req[c].of
           row == Deactivated(m, req[c].row)
<1>1. RequestsOK' /\ m \in Memos
  BY ToUnproject DEF Deactivate
<1>2. memo[m] \in MemoRow /\ SoundMemo(memo[m])
  BY <1>1 DEF MemoriesInv, MemosOK
<1>3. row \in MemoRow /\ row.status \in {memo[m].status, "inactive"} /\ row.text = memo[m].text
  BY <1>2 DEF MemoRow, Deactivated
<1>4. SoundMemo(row)
  BY <1>2, <1>3 DEF MemoRow, Deactivated, SoundMemo
<1>5. memo' = [memo EXCEPT ![m] = row] /\ UNCHANGED <<enabled, sugg, store, recalled, deleted>>
  BY DEF Deactivate
<1>6. m \in deleted => row.status \in {"inactive", "deleted"} /\ row.text = Blank
  BY <1>3 DEF MemoriesInv, DeletedRows
<1> HIDE DEF row
<1>7. MemosOK' /\ DeletedRows'
  BY <1>1, <1>3, <1>4, <1>5, <1>6, MemoWritten DEF MemoriesInv
<1> QED  BY <1>1, <1>5, <1>7 DEF MemoriesInv, SuggestionsOK

LEMMA DeletePreserves ==
    ASSUME MemoriesInv, NEW c \in Requests, Delete(c)
    PROVE  MemoriesInv'
<1> DEFINE m == req[c].of
           row == [memo[m] EXCEPT !.status = "deleted", !.text = Blank]
<1>1. RequestsOK' /\ m \in Memos
  BY ToUnproject DEF Delete
<1>2. row \in MemoRow /\ row.status = "deleted" /\ row.text = Blank
  BY <1>1 DEF MemoriesInv, MemosOK, MemoRow
<1>3. memo' = [memo EXCEPT ![m] = row]
  BY <1>1 DEF Delete, MemoriesInv, MemosOK, MemoRow
<1> HIDE DEF row
<1>4. MemosOK' /\ DeletedRows'
  BY <1>1, <1>2, <1>3 DEF Delete, MemoriesInv, MemosOK, DeletedRows, SoundMemo
<1> QED  BY <1>1, <1>4 DEF Delete, MemoriesInv, SuggestionsOK

LEMMA SourceRemovedPreserves ==
    ASSUME MemoriesInv, SourceRemoved
    PROVE  MemoriesInv'
<1>1. ASSUME NEW m \in Memos
      PROVE  /\ memo'[m] \in MemoRow /\ SoundMemo(memo'[m])
             /\ memo'[m].status = memo[m].status /\ memo'[m].text = memo[m].text
  <2>1. memo[m] \in MemoRow /\ SoundMemo(memo[m])
    BY DEF MemoriesInv, MemosOK
  <2>2. memo'[m] = memo[m] \/ memo'[m] = [memo[m] EXCEPT !.stale = TRUE]
    BY DEF SourceRemoved
  <2> QED  BY <2>1, <2>2 DEF MemoRow, SoundMemo
<1>2. memo' \in [Memos -> MemoRow]
  BY <1>1 DEF SourceRemoved
<1>3. MemosOK' /\ DeletedRows'
  BY <1>1, <1>2 DEF MemosOK, DeletedRows, SourceRemoved, MemoriesInv
<1> QED  BY <1>3 DEF SourceRemoved, MemoriesInv, SuggestionsOK, RequestsOK

LEMMA ProjectionPreserves ==
    ASSUME MemoriesInv, NEW c \in Requests, Project(c) \/ Unproject(c)
    PROVE  MemoriesInv'
<1>1. RequestsOK'
  BY RequestEnds DEF Project, Unproject, MemoriesInv
<1>2. store' \subseteq Memos
  BY DEF Project, Unproject, MemoriesInv, RequestsOK, SoundRequest
<1> QED  BY <1>1, <1>2 DEF Project, Unproject, MemoriesInv, MemosOK, SuggestionsOK, DeletedRows

LEMMA RecallPreserves ==
    ASSUME MemoriesInv, NEW c \in Requests, Search(c) \/ Recall(c) \/ RecallFromRows(c)
    PROVE  MemoriesInv'
<1>1. CASE Search(c)
  <2>1. PICK found \in SUBSET store :
          req' = [req EXCEPT ![c] = [NoRequest EXCEPT !.op = "recall", !.at = "found",
                                                      !.found = found]]
    BY <1>1 DEF Search
  <2> DEFINE r == [NoRequest EXCEPT !.op = "recall", !.at = "found", !.found = found]
  <2>2. r \in RequestRow /\ SoundRequest(r)
    BY EmptyRows DEF RequestRow, NoRequest, SoundRequest, MemoriesInv
  <2> HIDE DEF r
  <2>3. RequestsOK'
    BY <2>1, <2>2, RequestMoves DEF MemoriesInv, r
  <2> QED  BY <1>1, <2>3 DEF Search, MemoriesInv, MemosOK, SuggestionsOK, DeletedRows
<1>2. CASE Recall(c)
  <2>1. RequestsOK'
    BY <1>2, RequestEnds DEF Recall, MemoriesInv
  <2>2. recalled' \subseteq Memos
    BY <1>2 DEF Recall, Revalidated, MemoriesInv, RequestsOK, RequestRow
  <2> QED  BY <1>2, <2>1, <2>2 DEF Recall, MemoriesInv, MemosOK, SuggestionsOK, DeletedRows
<1>3. CASE RecallFromRows(c)
  <2>1. recalled' \subseteq Memos
    BY <1>3 DEF RecallFromRows, Revalidated
  <2>2. SuggestionsOK'
    BY <1>3, SweptSound DEF RecallFromRows, MemoriesInv, SuggestionsOK
  <2> QED  BY <1>3, <2>1, <2>2 DEF RecallFromRows, MemoriesInv, MemosOK, RequestsOK, DeletedRows
<1> QED  BY <1>1, <1>2, <1>3

-----------------------------------------------------------------------------
(* Theorems. *)

LEMMA MemoriesStep == MemoriesInv /\ [MemoriesNext]_uvars => MemoriesInv'
<1> SUFFICES ASSUME MemoriesInv, [MemoriesNext]_uvars PROVE MemoriesInv'
  OBVIOUS
<1>1. CASE UNCHANGED uvars
  BY <1>1 DEF uvars, MemoriesInv, MemosOK, SuggestionsOK, RequestsOK, DeletedRows
<1>2. CASE MemoriesNext
  BY <1>2, SettingsPreserve, SourceRemovedPreserves, SuggestPreserves, SuggestionDuePreserves,
     LoadSuggestionPreserves, RejectPreserves, ConfirmPreserves, StorePreserves,
     LoadMemoryPreserves, DeactivatePreserves, DeletePreserves, ProjectionPreserves,
     RecallPreserves
     DEF MemoriesNext
<1> QED  BY <1>1, <1>2

\* The inductive invariant of the memories holds: rows, suggestions and requests in
\* flight are sound, one by one, whatever handlers overlap.
THEOREM MemoriesInvariance == MemoriesSpec => []MemoriesInv
BY MemoriesInitially, MemoriesStep, PTL DEF MemoriesSpec

\* delete_memory and evaluate_memory_write: a deleted memory stays scrubbed, and
\* every active memory passed the policy, also through a suggestion confirmed later.
THEOREM MemoriesAreSound == MemoriesSpec => []MemoriesSound
<1>1. MemoriesInv => MemoriesSound
  BY DEF MemoriesInv, MemosOK, DeletedRows, SoundMemo, Screened, MemoriesSound,
         DeletedStaysScrubbed, OnlyAllowedStored
<1> QED  BY <1>1, MemoriesInvariance, PTL

\* active_memories_by_ids_for_context: a recall delivers only memories that are
\* active, not stale, not scrubbed, and of a user who has memory enabled.
THEOREM RecallIsGoverned == MemoriesSpec => RecallGoverned
<1>1. MemoriesInv /\ [MemoriesNext]_uvars =>
        [recalled' # recalled => \A m \in recalled' : Eligible(m) /\ memo[m].text # Blank]_uvars
  <2> SUFFICES ASSUME MemoriesInv, MemoriesNext, recalled' # recalled,
                      NEW m \in recalled'
               PROVE  Eligible(m) /\ memo[m].text # Blank
    OBVIOUS
  <2>a. /\ \A on \in BOOLEAN : SetEnabled(on) => recalled' = recalled
        /\ Reconcile \/ SourceRemoved => recalled' = recalled
    BY DEF SetEnabled, Reconcile, SourceRemoved
  <2>b. \A s \in Suggestions :
          /\ SuggestionDue(s) => recalled' = recalled
          /\ \A t \in Texts, k \in Categories : Suggest(s, t, k) => recalled' = recalled
    BY DEF SuggestionDue, Suggest
  <2>c. \A c \in Requests :
          /\ \A s \in Suggestions, op \in {"confirm", "reject"} :
               LoadSuggestion(c, op, s) => recalled' = recalled
          /\ \A m1 \in Memos : /\ ConfirmSuggestion(c, m1) => recalled' = recalled
                               /\ \A op \in {"deactivate", "delete"} :
                                    LoadMemory(c, op, m1) => recalled' = recalled
    BY DEF LoadSuggestion, ConfirmSuggestion, LoadMemory
  <2>d. \A c \in Requests, m1 \in Memos, t \in Texts, k \in Categories, sourced \in BOOLEAN,
           mode \in {"explicit", "auto_store"} :
             StoreMemory(c, m1, t, k, sourced, mode) => recalled' = recalled
    BY DEF StoreMemory
  <2>e. \A c \in Requests :
          RejectSuggestion(c) \/ Deactivate(c) \/ Delete(c) \/ Project(c) \/ Unproject(c) \/ Search(c)
            => recalled' = recalled
    BY DEF RejectSuggestion, Deactivate, Delete, Project, Unproject, Search
  <2>1. PICK c \in Requests : Recall(c) \/ RecallFromRows(c)
    BY <2>a, <2>b, <2>c, <2>d, <2>e DEF MemoriesNext
  <2>2. m \in Memos /\ Eligible(m)
    BY <2>1 DEF Recall, RecallFromRows, Revalidated, MemoriesInv, RequestsOK, RequestRow
  <2> QED  BY <2>2, MemoriesAssumption DEF Eligible, MemoriesInv, MemosOK, SoundMemo, Screened
<1> QED  BY <1>1, MemoriesInvariance, PTL DEF MemoriesSpec, RecallGoverned

-----------------------------------------------------------------------------
(* The document workspace of a conversation. *)

Resources == {Original(a) : a \in Files} \cup {Container(b) : b \in Boxes}
             \cup {InContainer(b, x) : b \in Boxes, x \in Files \cup Turns}

\* Rows, as every module of the workspace keeps them.
AttRow == [status : {"none", "uploading", "available", "expired", "deleted"},
           late : {"no", "unused", "expired"}, swept : BOOLEAN]
WsRow == [box : 0..MaxBoxes, status : {"none", "active", "expired", "failed"}, idle : BOOLEAN,
          legacy : BOOLEAN, skill : BOOLEAN, mounted : SUBSET Files]
BoxRow == [live : BOOLEAN, files : SUBSET (Files \cup Turns)]
SweeperRow == [at : {"idle", "claimed", "erased", "refused"}, job : Resources \cup {Original(Nil)}, gone : BOOLEAN]
TurnRow == [at : {"new", "prepared", "mounting", "ready", "executed", "done", "failed"}, sel : SUBSET Files,
            box : 0..MaxBoxes, fresh : BOOLEAN, seen : SUBSET Files, local : SUBSET Files,
            was : {"none", "active", "expired", "failed"}]
WorkspaceRows ==
    /\ att \in [Files -> AttRow] /\ file \in [Files -> {"none", "there", "gone"}]
    /\ ws \in WsRow /\ box \in [Boxes -> BoxRow] /\ drawn \in 0..MaxBoxes
    /\ DOMAIN job \subseteq Resources
    /\ sweeper \in [Sweepers -> SweeperRow] /\ turn \in [Turns -> TurnRow]
    /\ art \in [Turns -> {"none", "available", "expired", "deleted"}]
    /\ \A s \in Sweepers : sweeper[s].at # "idle" => sweeper[s].job \in Resources

\* What is named by the outbox, or by a sweep at work.
Named(j) == j \in DOMAIN job \/ \E s \in Sweepers : sweeper[s].at # "idle" /\ sweeper[s].job = j

\* Originals: what is to be erased belonged to an attachment that was revoked.
OriginalsInv ==
    \A a \in Files :
        /\ file[a] = "none" => att[a].status = "none"
        /\ att[a].swept => att[a].status \in {"expired", "deleted"}
        /\ Named(Original(a)) => att[a].swept
        /\ att[a].swept => file[a] = "gone" \/ Original(a) \in DOMAIN job
        /\ \A s \in Sweepers : sweeper[s].at = "erased" /\ sweeper[s].job = Original(a) => file[a] = "gone"

AtWork(r) == turn[r].at \notin {"new", "done", "failed"}
SoleRun == \A r, q \in Turns : AtWork(r) /\ AtWork(q) => r = q

\* Outputs: no run works on an attachment that its owner has removed.
OutputsInv ==
    "overlap" \notin mishap =>
      \A r \in Turns, a \in Files : att[a].status = "deleted" /\ a \in turn[r].sel =>
        ~AtWork(r) /\ art[r] # "available"

\* Copies.
Copies(b) == box[b].files \cap Files
NotMounting == \A r \in Turns : turn[r].at # "mounting"
NumberedBoxes ==
    /\ ws.box <= drawn
    /\ \A j \in DOMAIN job : j.box <= drawn
    /\ \A s \in Sweepers : sweeper[s].job.box <= drawn
HeldRows == \A s \in Sweepers : sweeper[s].at # "idle" /\ ~sweeper[s].gone => sweeper[s].job \in DOMAIN job
CopiesNamed == \A a \in Files, b \in Boxes : Named(InContainer(b, a)) => Revoked(a)
\* What a sweep has erased, and still names, is no longer there.
ErasedCopies ==
    \A s \in Sweepers : sweeper[s].at = "erased" /\ ~sweeper[s].gone =>
        /\ \A a \in Files, b \in Boxes : sweeper[s].job = InContainer(b, a) => a \notin box[b].files
        /\ \A b \in Boxes : sweeper[s].job = Container(b) => ~box[b].live
\* A run that has read the row: its container, what it has mounted in it, and what has
\* become of what it found there.
PreparedInv(r) == turn[r].at = "prepared" => ~turn[r].fresh /\ turn[r].seen = {} /\ turn[r].local = {}
MountedIn(r, b) ==
    "cut" \notin mishap /\ box[b].live =>
      /\ Copies(b) \subseteq turn[r].local
      /\ \A a \in turn[r].local \ Copies(b) : Revoked(a)
      /\ \A a \in turn[r].seen \cap Copies(b) : a \in ws.mounted \/ InContainer(b, a) \in DOMAIN job
MountingInv(r) ==
    turn[r].at = "mounting" =>
      /\ turn[r].box \in Boxes /\ turn[r].box <= drawn /\ MountedIn(r, turn[r].box)
      /\ IF turn[r].fresh
         THEN turn[r].box # ws.box /\ turn[r].seen = {} /\ \A j \in DOMAIN job : j.box # turn[r].box
         ELSE turn[r].box = ws.box /\ ws.mounted \subseteq turn[r].seen
      /\ \A a \in Files : InContainer(turn[r].box, a) \in DOMAIN job => a \in turn[r].seen
      /\ turn[r].seen \cap turn[r].sel \subseteq turn[r].local
\* A run that executes sees the copies of what it selected.
SeenBy(r, b) ==
    "cut" \notin mishap /\ box[b].live =>
      Copies(b) \subseteq turn[r].sel /\ \A a \in turn[r].sel \ Copies(b) : Revoked(a)
ReadyInv(r) == turn[r].at \in {"ready", "executed"} => turn[r].box \in Boxes /\ SeenBy(r, turn[r].box)
\* Between runs, the copies in the container of the row.
RowOf(b) ==
    "cut" \notin mishap /\ box[b].live =>
      /\ \A a \in Copies(b) : a \in ws.mounted \/ InContainer(b, a) \in DOMAIN job
      /\ \A a \in ws.mounted \ Copies(b) : Revoked(a)
RestInv == NotMounting /\ ws.box # 0 => RowOf(ws.box)
RunInv(r) == PreparedInv(r) /\ MountingInv(r) /\ ReadyInv(r)
CopiesInv ==
    /\ NumberedBoxes /\ HeldRows /\ CopiesNamed /\ ErasedCopies /\ RestInv
    /\ \A r \in Turns : RunInv(r)

WorkspaceInv == WorkspaceRows /\ OriginalsInv /\ SoleRun /\ OutputsInv /\ CopiesInv


\* The resources that a row of the outbox names are told apart by what they are.
LEMMA ResourceKinds ==
    /\ \A a : Original(a).kind = "file" /\ Original(a).box = 0 /\ Original(a).of = a
    /\ \A b : Container(b).kind = "container" /\ Container(b).box = b /\ Container(b).of = Nil
    /\ \A b, x : InContainer(b, x).kind = "container_file" /\ InContainer(b, x).box = b /\ InContainer(b, x).of = x
BY DEF Original, Container, InContainer

LEMMA ResourceTypes ==
    /\ \A a \in Files : Original(a) \in Resources
    /\ \A b \in Boxes : Container(b) \in Resources
    /\ \A b \in Boxes, x \in Files \cup Turns : InContainer(b, x) \in Resources
    /\ Boxes \subseteq Nat /\ MaxBoxes \in Nat /\ \A n \in 0..MaxBoxes : n # 0 => n \in Boxes
BY WorkspaceAssumption DEF Resources, Boxes

LEMMA ResourceCases ==
    ASSUME NEW j \in Resources
    PROVE  \/ \E a \in Files : j = Original(a)
           \/ \E b \in Boxes : j = Container(b)
           \/ \E b \in Boxes, x \in Files \cup Turns : j = InContainer(b, x)
BY DEF Resources

LEMMA CopyNames ==
    /\ \A b, c, x, y : InContainer(b, x) = InContainer(c, y) => b = c /\ x = y
    /\ \A a, b, x : InContainer(b, x) # Original(a) /\ InContainer(b, x) # Container(a)
<1>1. \A b, c, x, y : InContainer(b, x) = InContainer(c, y) => b = c /\ x = y
  BY DEF InContainer
<1>2. \A a, b, x : InContainer(b, x) # Original(a) /\ InContainer(b, x) # Container(a)
  BY DEF InContainer, Original, Container
<1> QED  BY <1>1, <1>2

LEMMA EnqueueDomain == ASSUME NEW rs, Enqueue(rs) PROVE DOMAIN job' = DOMAIN job \cup rs
BY DEF Enqueue

LEMMA TargetsTypes == ASSUME WorkspaceRows, NEW a \in Files PROVE Targets(a) \subseteq Resources
<1>1. Original(a) \in Resources
  BY ResourceTypes
<1>2. ws.box # 0 => Container(ws.box) \in Resources /\ InContainer(ws.box, a) \in Resources
  BY ResourceTypes DEF WorkspaceRows, WsRow
<1>3. ws.box # 0 => \A r \in Turns : InContainer(ws.box, r) \in Resources
  BY ResourceTypes DEF WorkspaceRows, WsRow
<1>4. DerivedFrom(a) \subseteq Turns
  BY DEF DerivedFrom
<1> QED  BY <1>1, <1>2, <1>3, <1>4 DEF Targets

\* A revocation: what it queues, and the rows it writes.
LEMMA RevokeFacts ==
    ASSUME WorkspaceRows, NEW a \in Files, NEW status \in {"expired", "deleted"}, Revoke(a, status)
    PROVE  /\ DOMAIN job' = DOMAIN job \cup Targets(a) /\ DOMAIN job' \subseteq Resources
           /\ att'[a].swept = TRUE /\ att'[a].status = status /\ att' \in [Files -> AttRow]
           /\ \A x \in Files : x # a => att'[x] = att[x]
           /\ ws' \in WsRow /\ ws'.box = ws.box
           /\ \/ ws'.mounted = ws.mounted /\ (ws.box = 0 \/ a \notin ws.mounted \/ ws.legacy)
              \/ ws'.mounted = ws.mounted \ {a} /\ ws.box # 0 /\ a \in ws.mounted /\ InContainer(ws.box, a) \in DOMAIN job'
           /\ art' \in [Turns -> {"none", "available", "expired", "deleted"}]
           /\ \A r \in Turns : art'[r] = "available" => art[r] = "available" /\ a \notin turn[r].sel
           /\ UNCHANGED <<file, box, drawn, sweeper, turn, conv>>
<1>1. DOMAIN job' = DOMAIN job \cup Targets(a) /\ UNCHANGED <<file, box, drawn, sweeper, turn, conv>>
  BY EnqueueDomain DEF Revoke
<1>2. DOMAIN job' \subseteq Resources
  BY <1>1, TargetsTypes DEF WorkspaceRows
<1>3. att' = [att EXCEPT ![a].status = status, ![a].swept = TRUE] /\ att \in [Files -> AttRow]
  BY DEF Revoke, WorkspaceRows
<1>4. /\ att'[a].swept = TRUE /\ att'[a].status = status /\ att' \in [Files -> AttRow]
      /\ \A x \in Files : x # a => att'[x] = att[x]
  BY <1>3 DEF AttRow
<1>5. /\ ws' \in WsRow /\ ws'.box = ws.box
      /\ \/ ws'.mounted = ws.mounted /\ (ws.box = 0 \/ a \notin ws.mounted \/ ws.legacy)
         \/ ws'.mounted = ws.mounted \ {a} /\ ws.box # 0 /\ a \in ws.mounted /\ ~ws.legacy
  <2>1. ws \in WsRow
    BY DEF WorkspaceRows
  <2>2. CASE ws' = ws /\ (ws.box = 0 \/ a \notin ws.mounted)
    BY <2>1, <2>2
  <2>3. CASE ws' = [ws EXCEPT !.status = "expired"] /\ ws.legacy
    BY <2>1, <2>3 DEF WsRow
  <2>4. CASE ws' = [ws EXCEPT !.mounted = @ \ {a}] /\ ws.box # 0 /\ a \in ws.mounted /\ ~ws.legacy
    BY <2>1, <2>4 DEF WsRow
  <2> QED  BY <2>2, <2>3, <2>4 DEF Revoke
<1>6. ws.box # 0 /\ a \in ws.mounted /\ ~ws.legacy => InContainer(ws.box, a) \in Targets(a)
  BY DEF Targets
<1>7. art' \in [Turns -> {"none", "available", "expired", "deleted"}]
  BY DEF Revoke, WorkspaceRows
<1>8. \A r \in Turns : art'[r] = "available" => art[r] = "available" /\ a \notin turn[r].sel
  BY DEF Revoke, DerivedFrom
<1> QED  BY <1>1, <1>2, <1>4, <1>5, <1>6, <1>7, <1>8

-----------------------------------------------------------------------------
(* The rows. *)

LEMMA UploadRows ==
    ASSUME WorkspaceRows, NEW a \in Files,
           UploadFile(a) \/ UploadCommit(a) \/ UploadLost(a) \/ MarkExpired(a) \/ Late(a, "unused") \/ Late(a, "expired")
    PROVE  WorkspaceRows'
<1>1. UNCHANGED <<ws, box, drawn, job, sweeper, turn, art>>
  BY DEF UploadFile, UploadCommit, UploadLost, MarkExpired, Late
<1>2. file' \in [Files -> {"none", "there", "gone"}]
  BY DEF UploadFile, UploadCommit, UploadLost, MarkExpired, Late, WorkspaceRows
<1>3. att' \in [Files -> AttRow]
  <2>1. att \in [Files -> AttRow]
    BY DEF WorkspaceRows
  <2> QED  BY <2>1 DEF UploadFile, UploadCommit, UploadLost, MarkExpired, Late, AttRow
<1> QED  BY <1>1, <1>2, <1>3 DEF WorkspaceRows

LEMMA RemovalRows ==
    ASSUME WorkspaceRows, NEW a \in Files, DeleteAttachment(a) \/ SweepAttachment(a) PROVE WorkspaceRows'
<1>1. PICK status \in {"expired", "deleted"} : Revoke(a, status)
  BY DEF DeleteAttachment, SweepAttachment
<1> QED  BY <1>1, RevokeFacts DEF WorkspaceRows

LEMMA OverRow ==
    ASSUME NEW r \in Turns, turn[r].sel \in SUBSET Files, NEW at \in {"done", "failed"}
    PROVE  Over(r, at) \in TurnRow /\ Over(r, at).at = at /\ Over(r, at).sel = turn[r].sel
<1>1. NoTurn \in TurnRow
  BY ResourceTypes DEF NoTurn, TurnRow
<1>2. PICK t \in TurnRow : t = NoTurn
  BY <1>1
<1>3. [t EXCEPT !.at = at] \in TurnRow /\ [t EXCEPT !.at = at].at = at
  BY DEF TurnRow
<1>4. PICK u \in TurnRow : u = [t EXCEPT !.at = at]
  BY <1>3
<1>5. [u EXCEPT !.sel = turn[r].sel] \in TurnRow /\ [u EXCEPT !.sel = turn[r].sel].at = u.at
      /\ [u EXCEPT !.sel = turn[r].sel].sel = turn[r].sel
  BY DEF TurnRow
<1>6. Over(r, at) = [u EXCEPT !.sel = turn[r].sel]
  BY <1>2, <1>4, Zenon DEF Over
<1> QED  BY <1>3, <1>4, <1>5, <1>6

LEMMA ConversationFacts ==
    ASSUME WorkspaceRows, DeleteConversation
    PROVE  /\ DOMAIN job \subseteq DOMAIN job' /\ DOMAIN job' \subseteq Resources
           /\ \A x \in Files : att[x].status \notin {"none", "uploading"} => Original(x) \in DOMAIN job'
           /\ \A x \in Files : IF att[x].status \in {"none", "uploading"} THEN att'[x] = att[x]
                               ELSE att'[x].status = "deleted" /\ att'[x].swept = TRUE
           /\ att' \in [Files -> AttRow]
           /\ \A j \in DOMAIN job' : \/ j \in DOMAIN job
                                     \/ \E x \in Files : j = Original(x) /\ att'[x].swept
                                     \/ j = Container(ws.box) /\ ws.box \in Boxes
           /\ ws' = NoWorkspace /\ turn' \in [Turns -> TurnRow]
           /\ \A r \in Turns : turn'[r].at \in {"new", "failed"} /\ turn'[r].sel = turn[r].sel /\ art'[r] = "none"
           /\ mishap \subseteq mishap'
           /\ UNCHANGED <<file, box, drawn, sweeper>>
<1> DEFINE rs == {Original(a) : a \in {x \in Files : att[x].status \notin {"none", "uploading"}}}
                   \cup (IF ws.box = 0 THEN {} ELSE {Container(ws.box)})
<1>1. Enqueue(rs) /\ UNCHANGED <<file, box, drawn, sweeper>> /\ ws' = NoWorkspace /\ mishap \subseteq mishap'
  BY DEF DeleteConversation
<1>2. ws.box # 0 => ws.box \in Boxes
  BY ResourceTypes DEF WorkspaceRows, WsRow
<1>3. rs \subseteq Resources
  BY <1>2, ResourceTypes
<1>4. \A j \in rs : \/ \E x \in Files : j = Original(x) /\ att[x].status \notin {"none", "uploading"}
                    \/ j = Container(ws.box) /\ ws.box \in Boxes
  BY <1>2
<1>5. \A x \in Files : att[x].status \notin {"none", "uploading"} => Original(x) \in rs
  OBVIOUS
<1> HIDE DEF rs
<1>6. DOMAIN job' = DOMAIN job \cup rs
  BY <1>1, EnqueueDomain
<1>7. att \in [Files -> AttRow] /\ turn \in [Turns -> TurnRow]
  BY DEF WorkspaceRows
<1>8. /\ att' \in [Files -> AttRow]
      /\ \A x \in Files : IF att[x].status \in {"none", "uploading"} THEN att'[x] = att[x]
                          ELSE att'[x].status = "deleted" /\ att'[x].swept = TRUE
  BY <1>7 DEF DeleteConversation, AttRow
<1>9. \A r \in Turns : Over(r, "failed") \in TurnRow /\ Over(r, "failed").sel = turn[r].sel /\ Over(r, "failed").at = "failed"
  BY <1>7, OverRow DEF TurnRow
<1>10. turn' \in [Turns -> TurnRow] /\ \A r \in Turns : turn'[r].at \in {"new", "failed"} /\ turn'[r].sel = turn[r].sel /\ art'[r] = "none"
  BY <1>7, <1>9 DEF DeleteConversation
<1> QED  BY <1>1, <1>3, <1>4, <1>5, <1>6, <1>8, <1>10 DEF WorkspaceRows

LEMMA ConversationRows == ASSUME WorkspaceRows, DeleteConversation PROVE WorkspaceRows'
<1>1. NoWorkspace \in WsRow
  BY ResourceTypes DEF NoWorkspace, WsRow
<1>2. art' \in [Turns -> {"none", "available", "expired", "deleted"}]
  BY DEF DeleteConversation
<1> QED  BY <1>1, <1>2, ConversationFacts DEF WorkspaceRows

\* A sweep of the outbox: what it holds, and the rows that it removes.
LEMMA IdleSweepers == IdleSweeper \in SweeperRow /\ IdleSweeper.at = "idle" /\ IdleSweeper.job.box = 0 /\ IdleSweeper.gone = FALSE
BY ResourceKinds DEF IdleSweeper, SweeperRow

LEMMA ClaimFacts ==
    ASSUME WorkspaceRows, NEW s \in Sweepers, NEW j \in DOMAIN job, Claim(s, j)
    PROVE  /\ DOMAIN job' = DOMAIN job /\ sweeper[s].at = "idle" /\ sweeper' \in [Sweepers -> SweeperRow]
           /\ sweeper'[s].at = "claimed" /\ sweeper'[s].job = j /\ sweeper'[s].gone = FALSE /\ j \in Resources
           /\ \A x \in Sweepers : x # s => sweeper'[x] = sweeper[x]
           /\ UNCHANGED <<att, file, ws, box, drawn, turn, art, conv, passed, mishap>>
<1>1. j \in Resources /\ sweeper \in [Sweepers -> SweeperRow]
  BY DEF WorkspaceRows
<1>2. [at |-> "claimed", job |-> j, gone |-> FALSE] \in SweeperRow
  BY <1>1 DEF SweeperRow
<1> QED  BY <1>1, <1>2 DEF Claim

LEMMA ErasedFacts ==
    ASSUME WorkspaceRows, NEW j \in Resources, Erased(j)
    PROVE  /\ file' \in [Files -> {"none", "there", "gone"}] /\ box' \in [Boxes -> BoxRow]
           /\ \A a \in Files : IF j = Original(a) THEN file'[a] = "gone" ELSE file'[a] = file[a]
           /\ \A b \in Boxes : IF j = Container(b) THEN ~box'[b].live ELSE box'[b].live = box[b].live
           /\ \A b \in Boxes : box'[b].files \subseteq box[b].files
           /\ \A b \in Boxes, x \in Files \cup Turns : j = InContainer(b, x) => x \notin box'[b].files
           /\ \A b \in Boxes, x \in Files \cup Turns : x \in box[b].files /\ x \notin box'[b].files =>
                j = Container(b) \/ j = InContainer(b, x)
<1>0. file \in [Files -> {"none", "there", "gone"}] /\ box \in [Boxes -> BoxRow]
  BY DEF WorkspaceRows
<1>1. CASE \E a \in Files : j = Original(a)
  <2>1. PICK a \in Files : j = Original(a)
    BY <1>1
  <2>2. file' = [file EXCEPT ![a] = "gone"] /\ box' = box
    BY <2>1, ResourceKinds DEF Erased
  <2>3. \A x \in Files : j = Original(x) <=> x = a
    BY <2>1, ResourceKinds
  <2>4. \A b, x : j # Container(b) /\ j # InContainer(b, x)
    BY <2>1, ResourceKinds
  <2> QED  BY <1>0, <2>2, <2>3, <2>4
<1>2. CASE \E b \in Boxes : j = Container(b)
  <2>1. PICK b \in Boxes : j = Container(b)
    BY <1>2
  <2>2. file' = file /\ box' = [box EXCEPT ![b] = [live |-> FALSE, files |-> {}]]
    BY <2>1, ResourceKinds DEF Erased
  <2>3. \A x \in Boxes : j = Container(x) <=> x = b
    BY <2>1, ResourceKinds
  <2>4. \A a, x : j # Original(a) /\ j # InContainer(a, x)
    BY <2>1, ResourceKinds
  <2>5. [live |-> FALSE, files |-> {}] \in BoxRow
    BY DEF BoxRow
  <2> QED  BY <1>0, <2>2, <2>3, <2>4, <2>5
<1>3. CASE \E b \in Boxes, x \in Files \cup Turns : j = InContainer(b, x)
  <2>1. PICK b \in Boxes, x \in Files \cup Turns : j = InContainer(b, x)
    BY <1>3
  <2>2. file' = file /\ box' = [box EXCEPT ![b].files = @ \ {x}]
    <3>1. j.kind = "container_file" /\ j.box = b /\ j.of = x
      BY <2>1, ResourceKinds
    <3>2. file' = file
      BY <3>1 DEF Erased
    <3>3. box' = [box EXCEPT ![j.box].files = @ \ {j.of}]
      BY <3>1 DEF Erased
    <3> QED  BY <3>1, <3>2, <3>3
  <2>3. \A c \in Boxes, y \in Files \cup Turns : j = InContainer(c, y) <=> c = b /\ y = x
    BY <2>1, ResourceKinds
  <2>4. \A a : j # Original(a) /\ j # Container(a)
    BY <2>1, ResourceKinds
  <2>5. /\ box'[b].live = box[b].live /\ box'[b].files = box[b].files \ {x} /\ box' \in [Boxes -> BoxRow]
        /\ \A c \in Boxes : c # b => box'[c] = box[c]
    BY <1>0, <2>2 DEF BoxRow
  <2> QED  BY <1>0, <2>2, <2>3, <2>4, <2>5
<1> QED  BY <1>1, <1>2, <1>3, ResourceCases

LEMMA SettleFacts ==
    ASSUME WorkspaceRows, NEW s \in Sweepers, Settle(s)
    PROVE  /\ DOMAIN job' = IF Removes(s) THEN DOMAIN job \ {sweeper[s].job} ELSE DOMAIN job
           /\ sweeper[s].at \in {"erased", "refused"} /\ sweeper' \in [Sweepers -> SweeperRow] /\ sweeper'[s] = IdleSweeper
           /\ \A x \in Sweepers : x # s => /\ sweeper'[x].at = sweeper[x].at /\ sweeper'[x].job = sweeper[x].job
                                           /\ sweeper'[x].gone = (sweeper[x].gone \/ (Removes(s) /\ sweeper[x].job = sweeper[s].job))
           /\ UNCHANGED <<att, file, ws, box, drawn, turn, art, conv, passed, mishap>>
<1>1. sweeper \in [Sweepers -> SweeperRow]
  BY DEF WorkspaceRows
<1>2. /\ sweeper' = [x \in Sweepers |->
                     IF x = s THEN IdleSweeper
                     ELSE IF Removes(s) /\ Held(s, x) THEN [sweeper[x] EXCEPT !.gone = TRUE] ELSE sweeper[x]]
      /\ sweeper[s].at \in {"erased", "refused"}
      /\ UNCHANGED <<att, file, ws, box, drawn, turn, art, conv, passed, mishap>>
  BY DEF Settle
<1>3. DOMAIN job' = IF Removes(s) THEN DOMAIN job \ {sweeper[s].job} ELSE DOMAIN job
  BY DEF Settle, Removes, AfterErased, AfterRefused
<1>4. \A x \in Sweepers : /\ [sweeper[x] EXCEPT !.gone = TRUE] \in SweeperRow /\ [sweeper[x] EXCEPT !.gone = TRUE].gone = TRUE
                          /\ [sweeper[x] EXCEPT !.gone = TRUE].at = sweeper[x].at /\ [sweeper[x] EXCEPT !.gone = TRUE].job = sweeper[x].job
  BY <1>1 DEF SweeperRow
<1>5. sweeper' \in [Sweepers -> SweeperRow] /\ sweeper'[s] = IdleSweeper
  BY <1>1, <1>2, <1>4, IdleSweepers
<1>6. ASSUME NEW x \in Sweepers, x # s
      PROVE  /\ sweeper'[x].at = sweeper[x].at /\ sweeper'[x].job = sweeper[x].job
             /\ sweeper'[x].gone = (sweeper[x].gone \/ (Removes(s) /\ sweeper[x].job = sweeper[s].job))
  <2>1. sweeper'[x] = IF Removes(s) /\ sweeper[x].job = sweeper[s].job THEN [sweeper[x] EXCEPT !.gone = TRUE] ELSE sweeper[x]
    BY <1>2, <1>6 DEF Held
  <2>2. sweeper[x].gone \in BOOLEAN
    BY <1>1 DEF SweeperRow
  <2> QED  BY <1>4, <2>1, <2>2
<1> QED  BY <1>2, <1>3, <1>5, <1>6

LEMMA OutboxRows ==
    ASSUME WorkspaceRows, NEW s \in Sweepers,
           (\E j \in DOMAIN job : Claim(s, j)) \/ Erase(s) \/ EraseError(s) \/ Settle(s) \/ SweeperCrash(s)
    PROVE  WorkspaceRows'
<1>1. ASSUME NEW j \in DOMAIN job, Claim(s, j) PROVE WorkspaceRows'
  BY <1>1, ClaimFacts DEF WorkspaceRows
<1>2. ASSUME Erase(s) \/ EraseError(s) PROVE WorkspaceRows'
  <2>1. sweeper[s].job \in Resources /\ sweeper[s].at = "claimed" /\ sweeper \in [Sweepers -> SweeperRow]
    BY <1>2 DEF Erase, EraseError, WorkspaceRows
  <2>2. Erased(sweeper[s].job) \/ UNCHANGED <<file, box>>
    BY <1>2 DEF Erase, EraseError
  <2>3. file' \in [Files -> {"none", "there", "gone"}] /\ box' \in [Boxes -> BoxRow]
    BY <2>1, <2>2, ErasedFacts DEF WorkspaceRows
  <2>4. PICK at \in {"erased", "refused"} : sweeper' = [sweeper EXCEPT ![s].at = at]
    BY <1>2 DEF Erase, EraseError
  <2>5. /\ sweeper' \in [Sweepers -> SweeperRow]
        /\ \A x \in Sweepers : sweeper'[x].at # "idle" => sweeper'[x].job \in Resources
    BY <2>1, <2>4 DEF SweeperRow, WorkspaceRows
  <2>6. UNCHANGED <<att, ws, drawn, job, turn, art>>
    BY <1>2 DEF Erase, EraseError
  <2> QED  BY <2>3, <2>5, <2>6 DEF WorkspaceRows
<1>3. ASSUME Settle(s) PROVE WorkspaceRows'
  <2>1. \A x \in Sweepers : sweeper'[x].at # "idle" => sweeper'[x].job \in Resources
    BY <1>3, SettleFacts, IdleSweepers DEF WorkspaceRows
  <2>2. DOMAIN job' \subseteq Resources
    BY <1>3, SettleFacts DEF WorkspaceRows
  <2> QED  BY <1>3, <2>1, <2>2, SettleFacts DEF WorkspaceRows
<1>4. ASSUME SweeperCrash(s) PROVE WorkspaceRows'
  BY <1>4, IdleSweepers DEF SweeperCrash, WorkspaceRows
<1> QED  BY <1>1, <1>2, <1>3, <1>4

LEMMA TimeRows ==
    ASSUME WorkspaceRows,
           \/ \E j \in DOMAIN job : LeaseLapse(j) \/ RetryDue(j)
           \/ WorkspaceIdle \/ (\E b \in Boxes : BoxExpires(b)) \/ (\E r \in Turns : ArtifactExpires(r))
           \/ \E x \in Files \cup {Conv} : PassActiveCheck(x)
    PROVE  WorkspaceRows' /\ UNCHANGED <<att, file, drawn, sweeper, turn, mishap>> /\ DOMAIN job' = DOMAIN job
<1>1. ASSUME NEW j \in DOMAIN job, LeaseLapse(j) \/ RetryDue(j)
      PROVE  DOMAIN job' = DOMAIN job /\ UNCHANGED <<att, file, ws, box, drawn, sweeper, turn, art, mishap>>
  BY <1>1 DEF LeaseLapse, RetryDue
<1>2. CASE WorkspaceIdle
  BY <1>2 DEF WorkspaceIdle, WorkspaceRows, WsRow
<1>3. ASSUME NEW b \in Boxes, BoxExpires(b)
      PROVE  WorkspaceRows' /\ UNCHANGED <<att, file, drawn, sweeper, turn, job, mishap>>
  <2>1. [live |-> FALSE, files |-> {}] \in BoxRow
    BY DEF BoxRow
  <2> QED  BY <1>3, <2>1 DEF BoxExpires, WorkspaceRows
<1>4. ASSUME NEW r \in Turns, ArtifactExpires(r)
      PROVE  WorkspaceRows' /\ UNCHANGED <<att, file, drawn, sweeper, turn, job, mishap>>
  BY <1>4 DEF ArtifactExpires, WorkspaceRows
<1>5. ASSUME NEW x \in Files \cup {Conv}, PassActiveCheck(x)
      PROVE  UNCHANGED <<att, file, ws, box, drawn, sweeper, turn, art, job, mishap>>
  BY <1>5 DEF PassActiveCheck
<1>6. ASSUME DOMAIN job' = DOMAIN job, UNCHANGED <<att, file, ws, box, drawn, sweeper, turn, art>> PROVE WorkspaceRows'
  BY <1>6 DEF WorkspaceRows
<1>7. WorkspaceIdle => UNCHANGED <<att, file, drawn, sweeper, turn, job, mishap>>
  BY DEF WorkspaceIdle
<1> QED  BY <1>1, <1>2, <1>3, <1>4, <1>5, <1>6, <1>7

-----------------------------------------------------------------------------
(* Runs: the rows each step writes. *)

TurnAts == {"new", "prepared", "mounting", "ready", "executed", "done", "failed"}

LEMMA FreshTurn ==
    NoTurn \in TurnRow /\ NoTurn.fresh = FALSE /\ NoTurn.seen = {} /\ NoTurn.local = {} /\ NoTurn.at = "new"
      /\ NoTurn.sel = {}
BY ResourceTypes DEF NoTurn, TurnRow

LEMMA TurnAt ==
    ASSUME NEW t \in TurnRow, NEW at \in TurnAts
    PROVE  LET u == [t EXCEPT !.at = at] IN
           /\ u \in TurnRow /\ u.at = at /\ u.sel = t.sel /\ u.box = t.box /\ u.fresh = t.fresh
           /\ u.seen = t.seen /\ u.local = t.local /\ u.was = t.was
BY DEF TurnRow, TurnAts

Selecting(t, at, S) == [t EXCEPT !.at = at, !.sel = S]
LEMMA TurnSelects ==
    ASSUME NEW t \in TurnRow, NEW at \in TurnAts, NEW S \in SUBSET Files
    PROVE  LET u == Selecting(t, at, S) IN
           /\ u \in TurnRow /\ u.at = at /\ u.sel = S /\ u.box = t.box /\ u.fresh = t.fresh
           /\ u.seen = t.seen /\ u.local = t.local
<1>1. PICK v \in TurnRow : /\ v = [t EXCEPT !.at = at] /\ v.at = at /\ v.box = t.box /\ v.fresh = t.fresh
                           /\ v.seen = t.seen /\ v.local = t.local
  BY TurnAt
<1>2. LET u == [v EXCEPT !.sel = S] IN
           /\ u \in TurnRow /\ u.at = v.at /\ u.sel = S /\ u.box = v.box /\ u.fresh = v.fresh
           /\ u.seen = v.seen /\ u.local = v.local
  BY DEF TurnRow
<1>3. Selecting(t, at, S) = [v EXCEPT !.sel = S]
  BY <1>1, Zenon DEF Selecting
<1> QED  BY <1>1, <1>2, <1>3

LEMMA PrepareFacts ==
    ASSUME WorkspaceRows, NEW r \in Turns, NEW S \in SUBSET Files \ {{}}, Prepare(r, S)
    PROVE  /\ turn' \in [Turns -> TurnRow] /\ turn'[r].at = "prepared" /\ turn'[r].sel = S /\ ~Active
           /\ turn'[r].fresh = FALSE /\ turn'[r].seen = {} /\ turn'[r].local = {}
           /\ \A q \in Turns : q # r => turn'[q] = turn[q]
           /\ \A a \in S : att[a].status = "available"
           /\ UNCHANGED <<att, file, ws, box, drawn, job, sweeper, art, conv, passed, mishap>>
<1>1. PICK v \in TurnRow : /\ v = Selecting(NoTurn, "prepared", S)
                           /\ v.at = "prepared" /\ v.sel = S /\ v.fresh = FALSE /\ v.seen = {} /\ v.local = {}
  <2>1. "prepared" \in TurnAts /\ S \in SUBSET Files
    BY DEF TurnAts
  <2> QED  BY <2>1, FreshTurn, TurnSelects
<1>2. turn' = [turn EXCEPT ![r] = v] /\ turn \in [Turns -> TurnRow]
  BY <1>1 DEF Prepare, WorkspaceRows, Selecting
<1> QED  BY <1>1, <1>2 DEF Prepare

\* What a run finds: a container that it draws, or the one of the row.
WorkspaceStatus == {"none", "active", "expired", "failed"}
Boxed(t, b) == [t EXCEPT !.at = "mounting", !.box = b]
Drawing(t, b, was) == [t EXCEPT !.at = "mounting", !.box = b, !.fresh = TRUE, !.was = was]
Finding(t, b, S) == [t EXCEPT !.at = "mounting", !.box = b, !.seen = S, !.local = S]
LEMMA TurnBoxes ==
    ASSUME NEW t \in TurnRow, NEW b \in 0..MaxBoxes
    PROVE  LET u == Boxed(t, b) IN
           /\ u \in TurnRow /\ u.at = "mounting" /\ u.sel = t.sel /\ u.box = b /\ u.fresh = t.fresh
           /\ u.seen = t.seen /\ u.local = t.local
<1>1. PICK v \in TurnRow : /\ v = [t EXCEPT !.at = "mounting"] /\ v.at = "mounting" /\ v.sel = t.sel /\ v.fresh = t.fresh
                           /\ v.seen = t.seen /\ v.local = t.local
  <2>1. "mounting" \in TurnAts
    BY DEF TurnAts
  <2> QED  BY <2>1, TurnAt
<1>2. LET w == [v EXCEPT !.box = b] IN
        /\ w \in TurnRow /\ w.at = v.at /\ w.sel = v.sel /\ w.fresh = v.fresh
        /\ w.seen = v.seen /\ w.local = v.local /\ w.box = b
  BY DEF TurnRow
<1>3. Boxed(t, b) = [v EXCEPT !.box = b]
  BY <1>1, Zenon DEF Boxed
<1> QED  BY <1>1, <1>2, <1>3

LEMMA TurnDraws ==
    ASSUME NEW t \in TurnRow, NEW b \in 0..MaxBoxes, NEW was \in WorkspaceStatus
    PROVE  LET u == Drawing(t, b, was) IN
           /\ u \in TurnRow /\ u.at = "mounting" /\ u.sel = t.sel /\ u.box = b /\ u.fresh = TRUE
           /\ u.seen = t.seen /\ u.local = t.local
<1>1. PICK w \in TurnRow : /\ w = Boxed(t, b) /\ w.at = "mounting" /\ w.sel = t.sel /\ w.box = b
                           /\ w.seen = t.seen /\ w.local = t.local
  BY TurnBoxes
<1>2. PICK x \in TurnRow : /\ x = [w EXCEPT !.fresh = TRUE] /\ x.at = w.at /\ x.sel = w.sel /\ x.fresh = TRUE
                           /\ x.seen = w.seen /\ x.local = w.local /\ x.box = w.box
  <2>1. LET x == [w EXCEPT !.fresh = TRUE] IN
          /\ x \in TurnRow /\ x.at = w.at /\ x.sel = w.sel /\ x.fresh = TRUE
          /\ x.seen = w.seen /\ x.local = w.local /\ x.box = w.box
    BY DEF TurnRow
  <2> QED  BY <2>1
<1>3. LET u == [x EXCEPT !.was = was] IN
        /\ u \in TurnRow /\ u.at = x.at /\ u.sel = x.sel /\ u.fresh = x.fresh
        /\ u.seen = x.seen /\ u.local = x.local /\ u.box = x.box
  BY DEF TurnRow, WorkspaceStatus
<1>4. Drawing(t, b, was) = [x EXCEPT !.was = was]
  BY <1>1, <1>2, Zenon DEF Drawing, Boxed
<1> QED  BY <1>1, <1>2, <1>3, <1>4

LEMMA TurnFinds ==
    ASSUME NEW t \in TurnRow, NEW b \in 0..MaxBoxes, NEW S \in SUBSET Files
    PROVE  LET u == Finding(t, b, S) IN
           /\ u \in TurnRow /\ u.at = "mounting" /\ u.sel = t.sel /\ u.box = b /\ u.fresh = t.fresh
           /\ u.seen = S /\ u.local = S
<1>1. PICK w \in TurnRow : w = Boxed(t, b) /\ w.at = "mounting" /\ w.sel = t.sel /\ w.box = b /\ w.fresh = t.fresh
  BY TurnBoxes
<1>2. PICK y \in TurnRow : /\ y = [w EXCEPT !.seen = S] /\ y.at = w.at /\ y.sel = w.sel /\ y.fresh = w.fresh
                           /\ y.seen = S /\ y.box = w.box
  <2>1. LET y == [w EXCEPT !.seen = S] IN
          /\ y \in TurnRow /\ y.at = w.at /\ y.sel = w.sel /\ y.fresh = w.fresh
          /\ y.seen = S /\ y.box = w.box
    BY DEF TurnRow
  <2> QED  BY <2>1
<1>3. LET u == [y EXCEPT !.local = S] IN
        /\ u \in TurnRow /\ u.at = y.at /\ u.sel = y.sel /\ u.fresh = y.fresh
        /\ u.seen = y.seen /\ u.local = S /\ u.box = y.box
  BY DEF TurnRow
<1>4. Finding(t, b, S) = [y EXCEPT !.local = S]
  BY <1>1, <1>2, Zenon DEF Finding, Boxed
<1> QED  BY <1>1, <1>2, <1>3, <1>4

LEMMA ReadFacts ==
    ASSUME WorkspaceRows, NEW r \in Turns, EnsureRead(r)
    PROVE  /\ turn' \in [Turns -> TurnRow] /\ turn[r].at = "prepared" /\ turn'[r].at = "mounting"
           /\ turn'[r].sel = turn[r].sel /\ ~CleanupPending
           /\ \A q \in Turns : q # r => turn'[q] = turn[q]
           /\ box' \in [Boxes -> BoxRow] /\ drawn' \in 0..MaxBoxes
           /\ \/ /\ drawn' = drawn + 1 /\ turn'[r].box = drawn' /\ turn'[r].fresh = TRUE /\ drawn' \in Boxes
                 /\ turn'[r].seen = turn[r].seen /\ turn'[r].local = turn[r].local
                 /\ box'[drawn'].files = {}
                 /\ \A b \in Boxes : b # drawn' => box'[b] = box[b] \/ (~box'[b].live /\ box'[b].files = {})
              \/ /\ UNCHANGED <<box, drawn>> /\ turn'[r].box = ws.box /\ turn'[r].fresh = turn[r].fresh /\ ws.box # 0
                 /\ turn'[r].seen = ws.mounted /\ turn'[r].local = ws.mounted
           /\ UNCHANGED <<att, file, ws, job, sweeper, art, conv, passed, mishap>>
<1>1. /\ turn[r].at = "prepared" /\ ~CleanupPending /\ turn[r] \in TurnRow /\ turn \in [Turns -> TurnRow]
      /\ box \in [Boxes -> BoxRow] /\ drawn \in 0..MaxBoxes /\ ws \in WsRow /\ MaxBoxes \in Nat
      /\ UNCHANGED <<att, file, ws, job, sweeper, art, conv, passed, mishap>>
  BY ResourceTypes DEF EnsureRead, WorkspaceRows
<1>2. CASE NeedsRecreation(turn[r].sel)
  <2>1. /\ drawn < MaxBoxes /\ drawn' = drawn + 1
        /\ \E old \in SUBSET {b \in Boxes : b = ws.box} :
             box' = [b \in Boxes |-> IF b = drawn + 1 THEN [live |-> TRUE, files |-> {}]
                                     ELSE IF b \in old THEN [live |-> FALSE, files |-> {}] ELSE box[b]]
    BY <1>2 DEF EnsureRead
  <2>2. turn' = [turn EXCEPT ![r].at = "mounting", ![r].box = drawn + 1, ![r].fresh = TRUE, ![r].was = ws.status]
    BY <1>2 DEF EnsureRead
  <2>3. drawn' \in Boxes /\ drawn' \in 0..MaxBoxes
    BY <1>1, <2>1 DEF Boxes
  <2>4. [live |-> TRUE, files |-> {}] \in BoxRow /\ [live |-> FALSE, files |-> {}] \in BoxRow
    BY DEF BoxRow
  <2>5. /\ box' \in [Boxes -> BoxRow] /\ box'[drawn'].files = {}
        /\ \A b \in Boxes : b # drawn' => box'[b] = box[b] \/ (~box'[b].live /\ box'[b].files = {})
    BY <1>1, <2>1, <2>3, <2>4
  <2>6. PICK u \in TurnRow : /\ u = Drawing(turn[r], drawn', ws.status)
                             /\ u.at = "mounting" /\ u.sel = turn[r].sel /\ u.box = drawn' /\ u.fresh = TRUE
                             /\ u.seen = turn[r].seen /\ u.local = turn[r].local
    <3>1. PICK was \in WorkspaceStatus : was = ws.status
      BY <1>1 DEF WsRow, WorkspaceStatus
    <3>2. PICK b \in 0..MaxBoxes : b = drawn'
      BY <2>3
    <3>3. PICK t \in TurnRow : t = turn[r]
      BY <1>1
    <3>4. PICK u \in TurnRow : /\ u = Drawing(t, b, was) /\ u.at = "mounting" /\ u.sel = t.sel /\ u.box = b /\ u.fresh = TRUE
                               /\ u.seen = t.seen /\ u.local = t.local
      BY TurnDraws
    <3> QED  BY <3>1, <3>2, <3>3, <3>4
  <2>7. turn' = [turn EXCEPT ![r] = u]
    BY <1>1, <2>1, <2>2, <2>6 DEF Drawing
  <2>8. turn'[r] = u /\ turn' \in [Turns -> TurnRow] /\ \A q \in Turns : q # r => turn'[q] = turn[q]
    BY <1>1, <2>7
  <2> QED  BY <1>1, <2>1, <2>3, <2>5, <2>6, <2>8
<1>3. CASE ~NeedsRecreation(turn[r].sel)
  <2>1. UNCHANGED <<box, drawn>> /\ ws.box # 0
    BY <1>3 DEF EnsureRead, NeedsRecreation
  <2>2. turn' = [turn EXCEPT ![r].at = "mounting", ![r].box = ws.box, ![r].seen = ws.mounted, ![r].local = ws.mounted]
    BY <1>3 DEF EnsureRead
  <2>3. ws.box \in 0..MaxBoxes /\ ws.mounted \in SUBSET Files /\ ws.status \in {"none", "active", "expired", "failed"}
    BY <1>1 DEF WsRow
  <2>4. PICK u \in TurnRow : /\ u = Finding(turn[r], ws.box, ws.mounted)
                             /\ u.at = "mounting" /\ u.sel = turn[r].sel /\ u.box = ws.box /\ u.fresh = turn[r].fresh
                             /\ u.seen = ws.mounted /\ u.local = ws.mounted
    BY <1>1, <2>3, TurnFinds
  <2>5. turn' = [turn EXCEPT ![r] = u]
    BY <1>1, <2>2, <2>4 DEF Finding
  <2>6. turn'[r] = u /\ turn' \in [Turns -> TurnRow] /\ \A q \in Turns : q # r => turn'[q] = turn[q]
    BY <1>1, <2>5
  <2> QED  BY <1>1, <2>1, <2>4, <2>6
<1> QED  BY <1>2, <1>3

LEMMA UnmountFacts ==
    ASSUME WorkspaceRows, NEW r \in Turns, NEW a \in Files, Unmount(r, a)
    PROVE  /\ turn' \in [Turns -> TurnRow] /\ box' \in [Boxes -> BoxRow]
           /\ turn[r].at = "mounting" /\ a \notin turn[r].sel
           /\ turn'[r].at = "mounting" /\ turn'[r].sel = turn[r].sel /\ turn'[r].box = turn[r].box
           /\ turn'[r].fresh = turn[r].fresh /\ turn'[r].seen = turn[r].seen /\ turn'[r].local = turn[r].local \ {a}
           /\ \A q \in Turns : q # r => turn'[q] = turn[q]
           /\ \A b \in Boxes : /\ box'[b].live = box[b].live
                               /\ box'[b].files = IF b = turn[r].box THEN box[b].files \ {a} ELSE box[b].files
           /\ UNCHANGED <<att, file, ws, drawn, job, sweeper, art, conv, passed, mishap>>
<1>1. /\ turn \in [Turns -> TurnRow] /\ box \in [Boxes -> BoxRow] /\ turn[r] \in TurnRow
      /\ turn[r].at = "mounting" /\ a \notin turn[r].sel
      /\ UNCHANGED <<att, file, ws, drawn, job, sweeper, art, conv, passed, mishap>>
  BY DEF Unmount, Unwanted, WorkspaceRows
<1>2. box' = [box EXCEPT ![turn[r].box].files = @ \ {a}] /\ turn' = [turn EXCEPT ![r].local = @ \ {a}]
  BY DEF Unmount
<1>3. /\ box' \in [Boxes -> BoxRow]
      /\ \A b \in Boxes : /\ box'[b].live = box[b].live
                          /\ box'[b].files = IF b = turn[r].box THEN box[b].files \ {a} ELSE box[b].files
  BY <1>1, <1>2 DEF BoxRow
<1>4. /\ turn' \in [Turns -> TurnRow]
      /\ turn'[r].at = turn[r].at /\ turn'[r].sel = turn[r].sel /\ turn'[r].box = turn[r].box
      /\ turn'[r].fresh = turn[r].fresh /\ turn'[r].seen = turn[r].seen /\ turn'[r].local = turn[r].local \ {a}
      /\ \A q \in Turns : q # r => turn'[q] = turn[q]
  BY <1>1, <1>2 DEF TurnRow
<1> QED  BY <1>1, <1>3, <1>4

LEMMA MountFacts ==
    ASSUME WorkspaceRows, NEW r \in Turns, NEW a \in Files, Mount(r, a)
    PROVE  /\ turn' \in [Turns -> TurnRow] /\ box' \in [Boxes -> BoxRow]
           /\ turn[r].at = "mounting" /\ a \in turn[r].sel /\ a \notin turn[r].local
           /\ turn'[r].at = "mounting" /\ turn'[r].sel = turn[r].sel /\ turn'[r].box = turn[r].box
           /\ turn'[r].fresh = turn[r].fresh /\ turn'[r].seen = turn[r].seen /\ turn'[r].local = turn[r].local \cup {a}
           /\ \A q \in Turns : q # r => turn'[q] = turn[q]
           /\ \A b \in Boxes : /\ box'[b].live = box[b].live
                               /\ box'[b].files = IF b = turn[r].box THEN box[b].files \cup {a} ELSE box[b].files
           /\ UNCHANGED <<att, file, ws, drawn, job, sweeper, art, conv, passed, mishap>>
<1>1. /\ turn \in [Turns -> TurnRow] /\ box \in [Boxes -> BoxRow] /\ turn[r] \in TurnRow
      /\ turn[r].at = "mounting" /\ a \in turn[r].sel /\ a \notin turn[r].local
      /\ UNCHANGED <<att, file, ws, drawn, job, sweeper, art, conv, passed, mishap>>
  BY DEF Mount, WorkspaceRows
<1>2. box' = [box EXCEPT ![turn[r].box].files = @ \cup {a}] /\ turn' = [turn EXCEPT ![r].local = @ \cup {a}]
  BY DEF Mount
<1>3. /\ box' \in [Boxes -> BoxRow]
      /\ \A b \in Boxes : /\ box'[b].live = box[b].live
                          /\ box'[b].files = IF b = turn[r].box THEN box[b].files \cup {a} ELSE box[b].files
  BY <1>1, <1>2 DEF BoxRow
<1>4. /\ turn' \in [Turns -> TurnRow]
      /\ turn'[r].at = turn[r].at /\ turn'[r].sel = turn[r].sel /\ turn'[r].box = turn[r].box
      /\ turn'[r].fresh = turn[r].fresh /\ turn'[r].seen = turn[r].seen /\ turn'[r].local = turn[r].local \cup {a}
      /\ \A q \in Turns : q # r => turn'[q] = turn[q]
  BY <1>1, <1>2 DEF TurnRow
<1> QED  BY <1>1, <1>3, <1>4

LEMMA CommitFacts ==
    ASSUME WorkspaceRows, NEW r \in Turns, EnsureCommit(r)
    PROVE  /\ turn' \in [Turns -> TurnRow] /\ ws' \in WsRow
           /\ turn[r].at = "mounting" /\ turn[r].local = turn[r].sel
           /\ turn'[r].at = "ready" /\ turn'[r].sel = turn[r].sel /\ turn'[r].box = turn[r].box
           /\ \A q \in Turns : q # r => turn'[q] = turn[q]
           /\ ws'.box = turn[r].box
           /\ ws'.mounted = IF turn[r].fresh \/ turn[r].local # turn[r].seen THEN turn[r].local ELSE ws.mounted
           /\ UNCHANGED <<att, file, box, drawn, job, sweeper, art, conv, passed, mishap>>
<1>1. /\ turn \in [Turns -> TurnRow] /\ turn[r] \in TurnRow /\ ws \in WsRow
      /\ turn[r].at = "mounting" /\ turn[r].local = turn[r].sel
      /\ UNCHANGED <<att, file, box, drawn, job, sweeper, art, conv, passed, mishap>>
  BY DEF EnsureCommit, Unwanted, WorkspaceRows
<1>2. turn' = [turn EXCEPT ![r].at = "ready"]
  BY DEF EnsureCommit
<1>3. /\ turn' \in [Turns -> TurnRow] /\ turn'[r].at = "ready" /\ turn'[r].sel = turn[r].sel /\ turn'[r].box = turn[r].box
      /\ \A q \in Turns : q # r => turn'[q] = turn[q]
  BY <1>1, <1>2 DEF TurnRow
<1>4. PICK mounted \in SUBSET Files, legacy \in BOOLEAN, skill \in BOOLEAN, status \in WorkspaceStatus :
        /\ mounted = IF turn[r].fresh \/ turn[r].local # turn[r].seen THEN turn[r].local ELSE ws.mounted
        /\ ws' = [[[[[[ws EXCEPT !.box = turn[r].box] EXCEPT !.idle = FALSE] EXCEPT !.mounted = mounted]
                      EXCEPT !.legacy = legacy] EXCEPT !.status = status] EXCEPT !.skill = skill]
  <2>1. (IF turn[r].fresh \/ turn[r].local # turn[r].seen THEN turn[r].local ELSE ws.mounted) \in SUBSET Files
    BY <1>1 DEF TurnRow, WsRow
  <2>2. (IF turn[r].fresh THEN FALSE ELSE ws.legacy) \in BOOLEAN
    BY <1>1 DEF WsRow
  <2>3. (IF turn[r].fresh /\ turn[r].was # "active" THEN "active" ELSE ws.status) \in WorkspaceStatus
    BY <1>1 DEF WsRow, WorkspaceStatus
  <2>4. (IF turn[r].fresh THEN turn[r].sel \cap Sheets # {} ELSE ws.skill) \in BOOLEAN
    BY <1>1 DEF WsRow
  <2> QED  BY <2>1, <2>2, <2>3, <2>4, Zenon DEF EnsureCommit
<1>5. PICK b \in 0..MaxBoxes : b = turn[r].box
  BY <1>1 DEF TurnRow
<1> DEFINE w1 == [ws EXCEPT !.box = b]
<1>6. w1 \in WsRow /\ w1.box = b
  BY <1>1 DEF WsRow
<1> HIDE DEF w1
<1> DEFINE w2 == [w1 EXCEPT !.idle = FALSE]
<1>7. w2 \in WsRow /\ w2.box = b
  BY <1>6 DEF WsRow
<1> HIDE DEF w2
<1> DEFINE w3 == [w2 EXCEPT !.mounted = mounted]
<1>8. w3 \in WsRow /\ w3.box = b /\ w3.mounted = mounted
  BY <1>7 DEF WsRow
<1> HIDE DEF w3
<1> DEFINE w4 == [w3 EXCEPT !.legacy = legacy]
<1>9. w4 \in WsRow /\ w4.box = b /\ w4.mounted = mounted
  BY <1>8 DEF WsRow
<1> HIDE DEF w4
<1> DEFINE w5 == [w4 EXCEPT !.status = status]
<1>10. w5 \in WsRow /\ w5.box = b /\ w5.mounted = mounted
  BY <1>9 DEF WsRow, WorkspaceStatus
<1> HIDE DEF w5
<1> DEFINE w6 == [w5 EXCEPT !.skill = skill]
<1>11. w6 \in WsRow /\ w6.box = b /\ w6.mounted = mounted
  BY <1>10 DEF WsRow
<1> HIDE DEF w6
<1>12. ws' = w6
  BY <1>4, <1>5, Zenon DEF w1, w2, w3, w4, w5, w6
<1>13. ws' \in WsRow /\ ws'.box = turn[r].box /\ ws'.mounted = mounted
  BY <1>5, <1>11, <1>12
<1> QED  BY <1>1, <1>3, <1>4, <1>13

LEMMA ExecuteFacts ==
    ASSUME WorkspaceRows, NEW r \in Turns, Execute(r)
    PROVE  /\ turn' \in [Turns -> TurnRow] /\ box' \in [Boxes -> BoxRow]
           /\ turn[r].at = "ready" /\ turn'[r].at = "executed" /\ turn'[r].sel = turn[r].sel /\ turn'[r].box = turn[r].box
           /\ \A q \in Turns : q # r => turn'[q] = turn[q]
           /\ \A b \in Boxes : box'[b].live = box[b].live /\ box'[b].files \cap Files = box[b].files \cap Files
           /\ UNCHANGED <<att, file, ws, drawn, job, sweeper, art, conv, passed, mishap>>
<1>1. /\ turn \in [Turns -> TurnRow] /\ box \in [Boxes -> BoxRow] /\ turn[r] \in TurnRow /\ turn[r].at = "ready"
      /\ UNCHANGED <<att, file, ws, drawn, job, sweeper, art, conv, passed, mishap>>
  BY DEF Execute, WorkspaceRows
<1>2. PICK made \in SUBSET {r} : box' = [box EXCEPT ![turn[r].box].files = @ \cup made]
  BY DEF Execute
<1>3. made \cap Files = {} /\ made \subseteq Turns
  BY WorkspaceAssumption
<1>4. /\ box' \in [Boxes -> BoxRow]
      /\ \A b \in Boxes : box'[b].live = box[b].live /\ box'[b].files \cap Files = box[b].files \cap Files
  BY <1>1, <1>2, <1>3 DEF BoxRow
<1>5. turn' = [turn EXCEPT ![r].at = "executed"]
  BY DEF Execute
<1>6. /\ turn' \in [Turns -> TurnRow] /\ turn'[r].at = "executed" /\ turn'[r].sel = turn[r].sel /\ turn'[r].box = turn[r].box
      /\ \A q \in Turns : q # r => turn'[q] = turn[q]
  BY <1>1, <1>5 DEF TurnRow
<1> QED  BY <1>1, <1>4, <1>6

LEMMA FinishFacts ==
    ASSUME WorkspaceRows, NEW r \in Turns, Finish(r)
    PROVE  /\ turn' \in [Turns -> TurnRow] /\ ws' \in WsRow /\ ws'.box = ws.box /\ ws'.mounted = ws.mounted
           /\ turn[r].at = "executed" /\ turn'[r].at = "done" /\ turn'[r].sel = turn[r].sel
           /\ \A q \in Turns : q # r => turn'[q] = turn[q] /\ art'[q] = art[q]
           /\ art' \in [Turns -> {"none", "available", "expired", "deleted"}]
           /\ UNCHANGED <<att, file, box, drawn, job, sweeper, conv, passed, mishap>>
<1>1. /\ turn \in [Turns -> TurnRow] /\ turn[r] \in TurnRow /\ ws \in WsRow /\ turn[r].at = "executed"
      /\ art \in [Turns -> {"none", "available", "expired", "deleted"}]
      /\ UNCHANGED <<att, file, box, drawn, job, sweeper, conv, passed, mishap>>
  BY DEF Finish, WorkspaceRows
<1>2. Over(r, "done") \in TurnRow /\ Over(r, "done").sel = turn[r].sel /\ Over(r, "done").at = "done"
  BY <1>1, OverRow DEF TurnRow
<1>3. ws' = [ws EXCEPT !.idle = FALSE]
  BY DEF Finish
<1>4. turn' = [turn EXCEPT ![r] = Over(r, "done")]
  BY DEF Finish
<1>5. art' = [art EXCEPT ![r] = IF r \in box[turn[r].box].files THEN "available" ELSE @]
  BY DEF Finish
<1>6. ws' \in WsRow /\ ws'.box = ws.box /\ ws'.mounted = ws.mounted
  BY <1>1, <1>3 DEF WsRow
<1> QED  BY <1>1, <1>2, <1>4, <1>5, <1>6

LEMMA FailFacts ==
    ASSUME WorkspaceRows, NEW r \in Turns, TurnFails(r)
    PROVE  /\ turn' \in [Turns -> TurnRow] /\ ws' \in WsRow /\ ws'.box = ws.box /\ ws'.mounted = ws.mounted
           /\ turn'[r].at = "failed" /\ turn'[r].sel = turn[r].sel
           /\ \A q \in Turns : q # r => turn'[q] = turn[q]
           /\ mishap' = IF turn[r].at = "mounting" THEN mishap \cup {"cut"} ELSE mishap
           /\ UNCHANGED <<att, file, box, drawn, job, sweeper, art, conv, passed>>
<1>1. /\ turn \in [Turns -> TurnRow] /\ turn[r] \in TurnRow /\ ws \in WsRow
      /\ mishap' = IF turn[r].at = "mounting" THEN mishap \cup {"cut"} ELSE mishap
      /\ UNCHANGED <<att, file, box, drawn, job, sweeper, art, conv, passed>>
  BY DEF TurnFails, WorkspaceRows
<1>2. Over(r, "failed") \in TurnRow /\ Over(r, "failed").sel = turn[r].sel /\ Over(r, "failed").at = "failed"
  BY <1>1, OverRow DEF TurnRow
<1>3. ws' = ws \/ ws' = [ws EXCEPT !.status = "failed"]
  BY DEF TurnFails
<1>4. ws' \in WsRow /\ ws'.box = ws.box /\ ws'.mounted = ws.mounted
  BY <1>1, <1>3 DEF WsRow
<1>5. turn' = [turn EXCEPT ![r] = Over(r, "failed")]
  BY DEF TurnFails
<1> QED  BY <1>1, <1>2, <1>4, <1>5

LEMMA RunRows ==
    ASSUME WorkspaceRows, NEW r \in Turns,
           \/ \E S \in SUBSET Files \ {{}} : Prepare(r, S)
           \/ EnsureRead(r) \/ EnsureCommit(r) \/ Execute(r) \/ Finish(r) \/ TurnFails(r)
           \/ \E a \in Files : Unmount(r, a) \/ Mount(r, a)
    PROVE  WorkspaceRows'
<1>1. ASSUME NEW S \in SUBSET Files \ {{}}, Prepare(r, S) PROVE WorkspaceRows'
  BY <1>1, PrepareFacts DEF WorkspaceRows
<1>2. ASSUME EnsureRead(r) PROVE WorkspaceRows'
  BY <1>2, ReadFacts DEF WorkspaceRows
<1>3. ASSUME NEW a \in Files, Unmount(r, a) PROVE WorkspaceRows'
  BY <1>3, UnmountFacts DEF WorkspaceRows
<1>4. ASSUME NEW a \in Files, Mount(r, a) PROVE WorkspaceRows'
  BY <1>4, MountFacts DEF WorkspaceRows
<1>5. ASSUME EnsureCommit(r) PROVE WorkspaceRows'
  BY <1>5, CommitFacts DEF WorkspaceRows
<1>6. ASSUME Execute(r) PROVE WorkspaceRows'
  BY <1>6, ExecuteFacts DEF WorkspaceRows
<1>7. ASSUME Finish(r) PROVE WorkspaceRows'
  BY <1>7, FinishFacts DEF WorkspaceRows
<1>8. ASSUME TurnFails(r) PROVE WorkspaceRows'
  BY <1>8, FailFacts DEF WorkspaceRows
<1> QED  BY <1>1, <1>2, <1>3, <1>4, <1>5, <1>6, <1>7, <1>8

-----------------------------------------------------------------------------
(* Originals. *)

\* Steps that leave the originals, their rows and the outbox alone.
LEMMA OriginalsFrame ==
    ASSUME OriginalsInv, DOMAIN job' = DOMAIN job, UNCHANGED <<att, file, sweeper>> PROVE OriginalsInv'
BY DEF OriginalsInv, Named

\* It is enough that what holds of each attachment still does.
SoundOriginal(a) ==
    /\ file[a] = "none" => att[a].status = "none"
    /\ att[a].swept => att[a].status \in {"expired", "deleted"}
    /\ Named(Original(a)) => att[a].swept
    /\ att[a].swept => file[a] = "gone" \/ Original(a) \in DOMAIN job
    /\ \A s \in Sweepers : sweeper[s].at = "erased" /\ sweeper[s].job = Original(a) => file[a] = "gone"

LEMMA Originals == OriginalsInv <=> \A a \in Files : SoundOriginal(a)
BY DEF OriginalsInv, SoundOriginal

LEMMA UploadOriginals ==
    ASSUME WorkspaceRows, OriginalsInv, NEW a \in Files,
           UploadFile(a) \/ UploadCommit(a) \/ UploadLost(a) \/ MarkExpired(a) \/ Late(a, "unused") \/ Late(a, "expired")
    PROVE  OriginalsInv'
<1>1. UNCHANGED <<job, sweeper>>
  BY DEF UploadFile, UploadCommit, UploadLost, MarkExpired, Late
<1>2. SoundOriginal(a) /\ att[a] \in AttRow /\ att \in [Files -> AttRow] /\ file \in [Files -> {"none", "there", "gone"}]
  BY Originals DEF WorkspaceRows
<1>3. \A x \in Files : x # a => att'[x] = att[x] /\ file'[x] = file[x]
  BY <1>2 DEF UploadFile, UploadCommit, UploadLost, MarkExpired, Late
<1>4. att'[a].swept = att[a].swept
  BY <1>2 DEF UploadFile, UploadCommit, UploadLost, MarkExpired, Late, AttRow
<1>5. file'[a] = "none" => att'[a].status = "none"
  BY <1>2 DEF UploadFile, UploadCommit, UploadLost, MarkExpired, Late, AttRow, SoundOriginal
<1>6. SoundOriginal(a)'
  <2>1. CASE att[a].swept
    <3>1. att[a].status \in {"expired", "deleted"} /\ file[a] # "none"
      BY <1>2, <2>1 DEF SoundOriginal
    <3>2. file' = file /\ att'[a].status \in {"expired", "deleted"}
      BY <1>2, <3>1 DEF UploadFile, UploadCommit, UploadLost, MarkExpired, Late, AttRow
    <3> QED  BY <1>1, <1>2, <1>4, <1>5, <3>2 DEF SoundOriginal, Named
  <2>2. CASE ~att[a].swept
    <3>1. ~Named(Original(a)) /\ \A s \in Sweepers : ~(sweeper[s].at = "erased" /\ sweeper[s].job = Original(a))
      BY <1>2, <2>2 DEF SoundOriginal, Named
    <3> QED  BY <1>1, <1>4, <1>5, <2>2, <3>1 DEF SoundOriginal, Named
  <2> QED  BY <2>1, <2>2
<1>7. \A x \in Files : x # a => SoundOriginal(x)'
  BY <1>1, <1>3, Originals DEF SoundOriginal, Named
<1> QED  BY <1>6, <1>7 DEF OriginalsInv, SoundOriginal

LEMMA RemovalOriginals ==
    ASSUME WorkspaceRows, OriginalsInv, NEW a \in Files, NEW status \in {"expired", "deleted"}, Revoke(a, status),
           att[a].status # "none"
    PROVE  OriginalsInv'
<1>1. Original(a) \in DOMAIN job' /\ \A j \in DOMAIN job' : j \in DOMAIN job \/ j = Original(a) \/ j.kind # "file"
  <2>1. Original(a) \in Targets(a)
    BY DEF Targets
  <2>2. \A j \in Targets(a) : j = Original(a) \/ j.kind # "file"
    BY ResourceKinds DEF Targets
  <2> QED  BY <2>1, <2>2, RevokeFacts
<1>2. ASSUME NEW x \in Files PROVE SoundOriginal(x)'
  <2>1. SoundOriginal(x) /\ UNCHANGED <<file, sweeper>> /\ DOMAIN job \subseteq DOMAIN job'
    BY Originals, RevokeFacts
  <2>2. CASE x = a
    <3>1. att'[x].swept = TRUE /\ att'[x].status = status /\ Original(x) \in DOMAIN job'
      BY <1>1, <2>2, RevokeFacts
    <3>2. file[x] # "none"
      BY <2>1, <2>2 DEF SoundOriginal
    <3> QED  BY <2>1, <3>1, <3>2 DEF SoundOriginal
  <2>3. CASE x # a
    <3>1. att'[x] = att[x] /\ Original(x) # Original(a) /\ Original(x).kind = "file"
      <4>1. att'[x] = att[x]
        BY <2>3, RevokeFacts
      <4>2. Original(x).of = x /\ Original(a).of = a /\ Original(x).kind = "file"
        BY ResourceKinds
      <4> QED  BY <2>3, <4>1, <4>2
    <3>2. Original(x) \in DOMAIN job' <=> Original(x) \in DOMAIN job
      BY <1>1, <2>1, <3>1
    <3> QED  BY <2>1, <3>1, <3>2 DEF SoundOriginal, Named
  <2> QED  BY <2>2, <2>3
<1> QED  BY <1>2 DEF OriginalsInv, SoundOriginal

LEMMA ConversationOriginals == ASSUME WorkspaceRows, OriginalsInv, DeleteConversation PROVE OriginalsInv'
<1>1. ASSUME NEW x \in Files PROVE SoundOriginal(x)'
  <2>1. SoundOriginal(x) /\ UNCHANGED <<file, sweeper>> /\ DOMAIN job \subseteq DOMAIN job'
    BY Originals, ConversationFacts
  <2>2. CASE att[x].status \in {"none", "uploading"}
    <3>1. ~att[x].swept /\ att'[x] = att[x] /\ Original(x) \notin DOMAIN job
      BY <2>1, <2>2, ConversationFacts DEF SoundOriginal, Named
    <3>2. Original(x) \notin DOMAIN job'
      <4> SUFFICES ASSUME Original(x) \in DOMAIN job' PROVE FALSE
        OBVIOUS
      <4>1. \A y \in Files : Original(x) = Original(y) => y = x
        BY ResourceKinds
      <4>2. Original(x) # Container(ws.box)
        BY ResourceKinds
      <4>3. \/ Original(x) \in DOMAIN job
            \/ \E y \in Files : Original(x) = Original(y) /\ att'[y].swept
            \/ Original(x) = Container(ws.box)
        BY ConversationFacts
      <4> QED  BY <3>1, <4>1, <4>2, <4>3
    <3> QED  BY <2>1, <3>1, <3>2 DEF SoundOriginal, Named
  <2>3. CASE att[x].status \notin {"none", "uploading"}
    <3>1. att'[x].status = "deleted" /\ att'[x].swept = TRUE /\ Original(x) \in DOMAIN job'
      BY <2>3, ConversationFacts
    <3>2. file[x] # "none"
      BY <2>1, <2>3 DEF SoundOriginal
    <3> QED  BY <2>1, <3>1, <3>2 DEF SoundOriginal
  <2> QED  BY <2>2, <2>3
<1> QED  BY <1>1 DEF OriginalsInv, SoundOriginal

LEMMA OutboxOriginals ==
    ASSUME WorkspaceRows, OriginalsInv, NEW s \in Sweepers,
           (\E j \in DOMAIN job : Claim(s, j)) \/ Erase(s) \/ EraseError(s) \/ Settle(s) \/ SweeperCrash(s)
    PROVE  OriginalsInv'
<1>1. ASSUME NEW j \in DOMAIN job, Claim(s, j) PROVE OriginalsInv'
  <2>1. ASSUME NEW a \in Files PROVE SoundOriginal(a)'
    <3>1. SoundOriginal(a)
      BY Originals
    <3>2. Named(Original(a))' => Named(Original(a))
      BY <1>1, ClaimFacts DEF Named
    <3>3. \A x \in Sweepers : sweeper'[x].at = "erased" => sweeper'[x] = sweeper[x]
      BY <1>1, ClaimFacts
    <3> QED  BY <1>1, <3>1, <3>2, <3>3, ClaimFacts DEF SoundOriginal
  <2> QED  BY <2>1 DEF OriginalsInv, SoundOriginal
<1>2. ASSUME Erase(s) \/ EraseError(s) PROVE OriginalsInv'
  <2>1. sweeper[s].job \in Resources /\ sweeper[s].at = "claimed" /\ sweeper \in [Sweepers -> SweeperRow]
    BY <1>2 DEF Erase, EraseError, WorkspaceRows
  <2>2. /\ UNCHANGED <<att, job>>
        /\ \/ Erased(sweeper[s].job) /\ sweeper' = [sweeper EXCEPT ![s].at = "erased"]
           \/ (Erased(sweeper[s].job) \/ UNCHANGED <<file, box>>) /\ sweeper' = [sweeper EXCEPT ![s].at = "refused"]
    BY <1>2 DEF Erase, EraseError
  <2>3. \A x \in Sweepers : sweeper'[x].job = sweeper[x].job /\ (sweeper'[x].at # "idle" => sweeper[x].at # "idle")
    BY <2>1, <2>2 DEF SweeperRow
  <2>4. ASSUME NEW a \in Files PROVE SoundOriginal(a)'
    <3>1. SoundOriginal(a) /\ (Named(Original(a))' => Named(Original(a)))
      BY <2>2, <2>3, Originals DEF Named
    <3>2. file'[a] = file[a] \/ file'[a] = "gone"
      BY <2>1, <2>2, ErasedFacts
    <3>3. ASSUME NEW x \in Sweepers, sweeper'[x].at = "erased", sweeper'[x].job = Original(a) PROVE file'[a] = "gone"
      <4>1. CASE x = s
        <5>1. Erased(sweeper[s].job) /\ sweeper[s].job = Original(a)
          BY <2>1, <2>2, <2>3, <3>3, <4>1 DEF SweeperRow
        <5> QED  BY <2>1, <5>1, ErasedFacts
      <4>2. CASE x # s
        <5>1. sweeper'[x] = sweeper[x]
          BY <2>1, <2>2, <4>2
        <5> QED  BY <3>1, <3>2, <3>3, <5>1 DEF SoundOriginal
      <4> QED  BY <4>1, <4>2
    <3> QED  BY <2>2, <3>1, <3>2, <3>3 DEF SoundOriginal
  <2> QED  BY <2>4 DEF OriginalsInv, SoundOriginal
<1>3. ASSUME Settle(s) PROVE OriginalsInv'
  <2>1. ASSUME NEW a \in Files PROVE SoundOriginal(a)'
    <3>1. SoundOriginal(a) /\ UNCHANGED <<att, file>>
      BY <1>3, Originals, SettleFacts
    <3>2. \A x \in Sweepers : sweeper'[x].at # "idle" => sweeper'[x].at = sweeper[x].at /\ sweeper'[x].job = sweeper[x].job
      BY <1>3, SettleFacts, IdleSweepers
    <3>3. Named(Original(a))' => Named(Original(a))
      BY <1>3, <3>2, SettleFacts DEF Named
    <3>4. Original(a) \in DOMAIN job /\ Original(a) \notin DOMAIN job' => file[a] = "gone"
      <4> SUFFICES ASSUME Original(a) \in DOMAIN job, Original(a) \notin DOMAIN job' PROVE file[a] = "gone"
        OBVIOUS
      <4>1. Removes(s) /\ sweeper[s].job = Original(a)
        BY <1>3, SettleFacts
      <4> QED  BY <3>1, <4>1 DEF Removes, SoundOriginal
    <3>5. \A x \in Sweepers : sweeper'[x].at = "erased" => sweeper'[x].at = sweeper[x].at /\ sweeper'[x].job = sweeper[x].job
      BY <3>2
    <3> QED  BY <3>1, <3>3, <3>4, <3>5 DEF SoundOriginal
  <2> QED  BY <2>1 DEF OriginalsInv, SoundOriginal
<1>4. ASSUME SweeperCrash(s) PROVE OriginalsInv'
  <2>1. UNCHANGED <<att, file, job>> /\ \A x \in Sweepers : sweeper'[x] = sweeper[x] \/ sweeper'[x] = IdleSweeper
    BY <1>4 DEF SweeperCrash, WorkspaceRows
  <2>2. \A x \in Sweepers : sweeper'[x].at # "idle" => sweeper'[x] = sweeper[x]
    BY <2>1, IdleSweepers
  <2> QED  BY <2>1, <2>2 DEF OriginalsInv, Named
<1> QED  BY <1>1, <1>2, <1>3, <1>4

-----------------------------------------------------------------------------
(* Runs one at a time, and what they leave. *)

OutputsClear == \A r \in Turns, a \in Files : att[a].status = "deleted" /\ a \in turn[r].sel => ~AtWork(r) /\ art[r] # "available"

LEMMA Outputs == OutputsInv <=> ("overlap" \notin mishap => OutputsClear)
BY DEF OutputsInv, OutputsClear

LEMMA ActiveAtWork == Active <=> \E r \in Turns : AtWork(r)
BY DEF Active, AtWork

LEMMA RunsKept ==
    ASSUME SoleRun, OutputsInv, UNCHANGED turn, "overlap" \notin mishap' => "overlap" \notin mishap,
           "overlap" \notin mishap' =>
              /\ \A a \in Files : att'[a].status = "deleted" => att[a].status = "deleted"
              /\ \A r \in Turns : art'[r] = "available" => art[r] = "available"
    PROVE  SoleRun' /\ OutputsInv'
<1>1. SoleRun'
  BY DEF SoleRun, AtWork
<1>2. "overlap" \notin mishap' => OutputsClear'
  BY Outputs DEF OutputsClear, AtWork
<1> QED  BY <1>1, <1>2 DEF OutputsInv, OutputsClear

LEMMA UploadRuns ==
    ASSUME WorkspaceRows, SoleRun, OutputsInv, NEW a \in Files,
           UploadFile(a) \/ UploadCommit(a) \/ UploadLost(a) \/ MarkExpired(a) \/ Late(a, "unused") \/ Late(a, "expired")
    PROVE  SoleRun' /\ OutputsInv'
<1>1. UNCHANGED <<turn, art, mishap>>
  BY DEF UploadFile, UploadCommit, UploadLost, MarkExpired, Late
<1>2. \A x \in Files : att'[x].status = "deleted" => att[x].status = "deleted"
  <2> TAKE x \in Files
  <2>1. att \in [Files -> AttRow]
    BY DEF WorkspaceRows
  <2> QED  BY <2>1 DEF UploadFile, UploadCommit, UploadLost, MarkExpired, Late, AttRow
<1> QED  BY <1>1, <1>2, RunsKept

LEMMA DeletionRuns ==
    ASSUME WorkspaceRows, SoleRun, OutputsInv, NEW a \in Files, DeleteAttachment(a)
    PROVE  SoleRun' /\ OutputsInv'
<1>1. Revoke(a, "deleted") /\ mishap' = IF Active THEN mishap \cup {"overlap"} ELSE mishap
  BY DEF DeleteAttachment
<1>2. SoleRun' /\ UNCHANGED turn
  BY <1>1, RevokeFacts DEF SoleRun, AtWork
<1>3. ASSUME "overlap" \notin mishap' PROVE OutputsClear'
  <2>1. ~Active /\ OutputsClear
    BY <1>1, <1>3, Outputs
  <2>2. ASSUME NEW r \in Turns, NEW x \in Files, att'[x].status = "deleted", x \in turn[r].sel
        PROVE  ~AtWork(r) /\ art'[r] # "available"
    <3>1. CASE x = a
      BY <1>1, <2>1, <2>2, <3>1, RevokeFacts, ActiveAtWork
    <3>2. CASE x # a
      <4>1. att'[x] = att[x] /\ (art'[r] = "available" => art[r] = "available")
        BY <1>1, <3>2, RevokeFacts
      <4> QED  BY <2>1, <2>2, <4>1 DEF OutputsClear
    <3> QED  BY <3>1, <3>2
  <2> QED  BY <1>2, <2>2 DEF OutputsClear, AtWork
<1> QED  BY <1>2, <1>3 DEF OutputsInv, OutputsClear

LEMMA SweepRuns ==
    ASSUME WorkspaceRows, SoleRun, OutputsInv, NEW a \in Files, SweepAttachment(a)
    PROVE  SoleRun' /\ OutputsInv'
<1>1. PICK status \in {"expired", "deleted"} : Revoke(a, status) /\ (status = "deleted" => att[a].status = "deleted")
  BY DEF SweepAttachment
<1>2. mishap' = mishap /\ UNCHANGED turn
  BY <1>1, RevokeFacts DEF SweepAttachment
<1>3. \A x \in Files : att'[x].status = "deleted" => att[x].status = "deleted"
  <2> TAKE x \in Files
  <2>1. CASE x = a
    BY <1>1, <2>1, RevokeFacts
  <2>2. CASE x # a
    BY <1>1, <2>2, RevokeFacts
  <2> QED  BY <2>1, <2>2
<1>4. \A r \in Turns : art'[r] = "available" => art[r] = "available"
  BY <1>1, RevokeFacts
<1> QED  BY <1>2, <1>3, <1>4, RunsKept

LEMMA ConversationRuns == ASSUME WorkspaceRows, SoleRun, OutputsInv, DeleteConversation PROVE SoleRun' /\ OutputsInv'
<1>1. \A r \in Turns : turn'[r].at \in {"new", "failed"} /\ art'[r] = "none"
  BY ConversationFacts
<1> QED  BY <1>1 DEF SoleRun, OutputsInv, AtWork

\* A step of a run at work leaves it the only one.
LEMMA SoleKeeps ==
    ASSUME SoleRun, NEW r \in Turns, AtWork(r), \A q \in Turns : q # r => turn'[q] = turn[q] PROVE SoleRun'
BY DEF SoleRun, AtWork

LEMMA StepRuns ==
    ASSUME WorkspaceRows, SoleRun, OutputsInv, NEW r \in Turns,
           \/ \E S \in SUBSET Files \ {{}} : Prepare(r, S)
           \/ EnsureRead(r) \/ EnsureCommit(r) \/ Execute(r) \/ Finish(r) \/ TurnFails(r)
           \/ \E a \in Files : Unmount(r, a) \/ Mount(r, a)
    PROVE  SoleRun' /\ OutputsInv'
<1>1. ASSUME NEW S \in SUBSET Files \ {{}}, Prepare(r, S) PROVE SoleRun' /\ OutputsInv'
  <2>1. \A q \in Turns : ~AtWork(q)
    BY <1>1, PrepareFacts, ActiveAtWork
  <2>2. SoleRun'
    <3>1. \A q \in Turns : q # r => turn'[q] = turn[q]
      BY <1>1, PrepareFacts
    <3>2. \A q \in Turns : q # r => ~(AtWork(q)')
      BY <2>1, <3>1 DEF AtWork
    <3> QED  BY <3>2 DEF SoleRun, AtWork
  <2>3. ASSUME "overlap" \notin mishap', NEW q \in Turns, NEW a \in Files, att'[a].status = "deleted", a \in turn'[q].sel
        PROVE  ~AtWork(q)' /\ art'[q] # "available"
    <3>1. "overlap" \notin mishap /\ att[a].status = "deleted" /\ art' = art
      BY <1>1, <2>3, PrepareFacts
    <3>2. q # r
      BY <1>1, <2>3, <3>1, PrepareFacts
    <3>3. turn'[q] = turn[q]
      BY <1>1, <3>2, PrepareFacts
    <3> QED  BY <2>3, <3>1, <3>3 DEF OutputsInv, AtWork
  <2> QED  BY <2>2, <2>3 DEF OutputsInv
<1>2. ASSUME EnsureRead(r) \/ EnsureCommit(r) \/ Execute(r) \/ TurnFails(r) \/ \E a \in Files : Unmount(r, a) \/ Mount(r, a)
      PROVE  SoleRun' /\ OutputsInv'
  <2>1. AtWork(r)
    BY <1>2 DEF EnsureRead, EnsureCommit, Execute, TurnFails, Unmount, Mount, AtWork
  <2>2. /\ turn'[r].sel = turn[r].sel /\ \A q \in Turns : q # r => turn'[q] = turn[q]
        /\ UNCHANGED <<att, art>> /\ ("overlap" \in mishap' <=> "overlap" \in mishap)
    <3>1. CASE EnsureRead(r)
      BY <3>1, ReadFacts
    <3>2. CASE EnsureCommit(r)
      BY <3>2, CommitFacts
    <3>3. CASE Execute(r)
      BY <3>3, ExecuteFacts
    <3>4. CASE TurnFails(r)
      BY <3>4, FailFacts
    <3>5. ASSUME NEW a \in Files, Unmount(r, a)
          PROVE  /\ turn'[r].sel = turn[r].sel /\ \A q \in Turns : q # r => turn'[q] = turn[q]
                 /\ UNCHANGED <<att, art>> /\ ("overlap" \in mishap' <=> "overlap" \in mishap)
      BY <3>5, UnmountFacts
    <3>6. ASSUME NEW a \in Files, Mount(r, a)
          PROVE  /\ turn'[r].sel = turn[r].sel /\ \A q \in Turns : q # r => turn'[q] = turn[q]
                 /\ UNCHANGED <<att, art>> /\ ("overlap" \in mishap' <=> "overlap" \in mishap)
      BY <3>6, MountFacts
    <3> QED  BY <1>2, <3>1, <3>2, <3>3, <3>4, <3>5, <3>6
  <2>3. SoleRun'
    BY <2>1, <2>2, SoleKeeps
  <2>4. "overlap" \notin mishap' => OutputsClear'
    <3> SUFFICES ASSUME "overlap" \notin mishap', NEW q \in Turns, NEW a \in Files, att'[a].status = "deleted", a \in turn'[q].sel
                 PROVE  ~AtWork(q)' /\ art'[q] # "available"
      BY DEF OutputsClear
    <3>1. OutputsClear /\ att[a].status = "deleted" /\ a \in turn[q].sel
      BY <2>2, Outputs
    <3>2. ~AtWork(q) /\ art[q] # "available"
      BY <3>1 DEF OutputsClear
    <3> QED  BY <2>1, <2>2, <3>2 DEF AtWork
  <2> QED  BY <2>3, <2>4 DEF OutputsInv, OutputsClear
<1>3. ASSUME Finish(r) PROVE SoleRun' /\ OutputsInv'
  <2>1. AtWork(r)
    BY <1>3 DEF Finish, AtWork
  <2>2. /\ turn'[r].sel = turn[r].sel /\ \A q \in Turns : q # r => turn'[q] = turn[q] /\ art'[q] = art[q]
        /\ UNCHANGED <<att, mishap>>
    BY <1>3, FinishFacts
  <2>3. SoleRun'
    BY <2>1, <2>2, SoleKeeps
  <2>4. "overlap" \notin mishap' => OutputsClear'
    <3> SUFFICES ASSUME "overlap" \notin mishap', NEW q \in Turns, NEW a \in Files, att'[a].status = "deleted", a \in turn'[q].sel
                 PROVE  ~AtWork(q)' /\ art'[q] # "available"
      BY DEF OutputsClear
    <3>1. OutputsClear /\ att[a].status = "deleted" /\ a \in turn[q].sel
      BY <2>2, Outputs
    <3>2. ~AtWork(q) /\ art[q] # "available"
      BY <3>1 DEF OutputsClear
    <3> QED  BY <2>1, <2>2, <3>2 DEF AtWork
  <2> QED  BY <2>3, <2>4 DEF OutputsInv, OutputsClear
<1> QED  BY <1>1, <1>2, <1>3

-----------------------------------------------------------------------------
(* Copies. *)

LEMMA CopyTypes ==
    ASSUME WorkspaceRows
    PROVE  /\ ws.box \in 0..MaxBoxes /\ ws.mounted \in SUBSET Files /\ (ws.box # 0 => ws.box \in Boxes)
           /\ drawn \in Nat /\ Boxes \subseteq Nat \ {0} /\ ws.box \in Nat
           /\ \A r \in Turns : /\ turn[r].local \in SUBSET Files /\ turn[r].seen \in SUBSET Files
                               /\ turn[r].sel \in SUBSET Files /\ turn[r].box \in 0..MaxBoxes
           /\ \A b \in Boxes : box[b].live \in BOOLEAN
           /\ \A a \in Files : att[a].swept \in BOOLEAN
           /\ \A s \in Sweepers : sweeper[s].gone \in BOOLEAN
<1>1. MaxBoxes \in Nat
  BY ResourceTypes
<1>2. ws \in WsRow /\ drawn \in 0..MaxBoxes /\ turn \in [Turns -> TurnRow] /\ box \in [Boxes -> BoxRow]
      /\ att \in [Files -> AttRow] /\ sweeper \in [Sweepers -> SweeperRow]
  BY DEF WorkspaceRows
<1>3. ws.box \in 0..MaxBoxes /\ ws.mounted \in SUBSET Files
  BY <1>2 DEF WsRow
<1>4. /\ (ws.box # 0 => ws.box \in Boxes) /\ drawn \in Nat /\ Boxes \subseteq Nat \ {0} /\ ws.box \in Nat
  BY <1>1, <1>2, <1>3 DEF Boxes
<1>5. \A r \in Turns : /\ turn[r].local \in SUBSET Files /\ turn[r].seen \in SUBSET Files
                       /\ turn[r].sel \in SUBSET Files /\ turn[r].box \in 0..MaxBoxes
  BY <1>2 DEF TurnRow
<1>6. (\A b \in Boxes : box[b].live \in BOOLEAN) /\ \A a \in Files : att[a].swept \in BOOLEAN
  BY <1>2 DEF BoxRow, AttRow
<1>7. \A s \in Sweepers : sweeper[s].gone \in BOOLEAN
  BY <1>2 DEF SweeperRow
<1> QED  BY <1>3, <1>4, <1>5, <1>6, <1>7

\* Steps that take no copy out of a live container, nor a row out of the outbox.
LEMMA CopiesFrame ==
    ASSUME WorkspaceRows, CopiesInv, UNCHANGED <<drawn, sweeper, turn>>, DOMAIN job' = DOMAIN job,
           ws'.box = ws.box, ws'.mounted = ws.mounted, "cut" \in mishap => "cut" \in mishap',
           \A a \in Files : att[a].swept => att'[a].swept,
           \A b \in Boxes : box'[b].files \subseteq box[b].files /\ (box'[b].live => box'[b] = box[b])
    PROVE  CopiesInv'
<1>1. NumberedBoxes' /\ HeldRows'
  BY DEF CopiesInv, NumberedBoxes, HeldRows
<1>2. CopiesNamed'
  BY DEF CopiesInv, CopiesNamed, Named, Revoked
<1>3. ErasedCopies'
  <2>1. ErasedCopies
    BY DEF CopiesInv
  <2> SUFFICES ASSUME NEW s \in Sweepers, sweeper[s].at = "erased", ~sweeper[s].gone
               PROVE  /\ \A a \in Files, b \in Boxes : sweeper[s].job = InContainer(b, a) => a \notin box'[b].files
                      /\ \A b \in Boxes : sweeper[s].job = Container(b) => ~box'[b].live
    BY DEF ErasedCopies
  <2>2. /\ \A a \in Files, b \in Boxes : sweeper[s].job = InContainer(b, a) => a \notin box[b].files
        /\ \A b \in Boxes : sweeper[s].job = Container(b) => ~box[b].live
    BY <2>1 DEF ErasedCopies
  <2> QED  BY <2>2
<1>4. ASSUME RestInv PROVE RestInv'
  <2> SUFFICES ASSUME NotMounting, ws.box # 0, "cut" \notin mishap, box'[ws.box].live
               PROVE  /\ \A a \in Copies(ws.box) : a \in ws.mounted \/ InContainer(ws.box, a) \in DOMAIN job
                      /\ \A a \in ws.mounted \ Copies(ws.box) : att'[a].swept
                      /\ box'[ws.box] = box[ws.box]
    BY DEF RestInv, RowOf, NotMounting, Copies, Revoked
  <2>1. box'[ws.box] = box[ws.box]
    BY CopyTypes
  <2>2. RowOf(ws.box)
    BY <1>4 DEF RestInv
  <2> QED  BY <2>1, <2>2, CopyTypes DEF RowOf, Revoked
<1>5. ASSUME NEW r \in Turns PROVE RunInv(r)'
  <2>1. RunInv(r)
    BY DEF CopiesInv
  <2>2. PreparedInv(r)'
    BY <2>1 DEF RunInv, PreparedInv
  <2>3. ASSUME NEW b \in Boxes, MountedIn(r, b) PROVE MountedIn(r, b)'
    BY <2>3, CopyTypes DEF MountedIn, Copies, Revoked
  <2>4. ASSUME NEW b \in Boxes, SeenBy(r, b) PROVE SeenBy(r, b)'
    BY <2>4, CopyTypes DEF SeenBy, Copies, Revoked
  <2>5. MountingInv(r)'
    BY <2>1, <2>3 DEF RunInv, MountingInv
  <2>6. ReadyInv(r)'
    BY <2>1, <2>4 DEF RunInv, ReadyInv
  <2> QED  BY <2>2, <2>5, <2>6 DEF RunInv
<1>6. RestInv
  BY DEF CopiesInv
<1> QED  BY <1>1, <1>2, <1>3, <1>4, <1>5, <1>6 DEF CopiesInv

LEMMA UploadCopies ==
    ASSUME WorkspaceRows, CopiesInv, NEW a \in Files,
           UploadFile(a) \/ UploadCommit(a) \/ UploadLost(a) \/ MarkExpired(a) \/ Late(a, "unused") \/ Late(a, "expired")
    PROVE  CopiesInv'
<1>1. UNCHANGED <<ws, box, drawn, job, sweeper, turn, mishap>>
  BY DEF UploadFile, UploadCommit, UploadLost, MarkExpired, Late
<1>2. \A x \in Files : att'[x].swept = att[x].swept
  <2> TAKE x \in Files
  <2>1. att \in [Files -> AttRow]
    BY DEF WorkspaceRows
  <2> QED  BY <2>1 DEF UploadFile, UploadCommit, UploadLost, MarkExpired, Late, AttRow
<1> QED  BY <1>1, <1>2, CopiesFrame

LEMMA TimeCopies ==
    ASSUME WorkspaceRows, CopiesInv,
           \/ \E j \in DOMAIN job : LeaseLapse(j) \/ RetryDue(j)
           \/ WorkspaceIdle \/ (\E b \in Boxes : BoxExpires(b)) \/ (\E r \in Turns : ArtifactExpires(r))
           \/ \E x \in Files \cup {Conv} : PassActiveCheck(x)
    PROVE  CopiesInv'
<1>1. UNCHANGED <<att, drawn, sweeper, turn, mishap>> /\ DOMAIN job' = DOMAIN job
  BY TimeRows
<1>2. ws'.box = ws.box /\ ws'.mounted = ws.mounted
  <2>1. ws' = ws \/ ws' = [ws EXCEPT !.idle = TRUE]
    BY DEF LeaseLapse, RetryDue, WorkspaceIdle, BoxExpires, ArtifactExpires, PassActiveCheck
  <2> QED  BY <2>1 DEF WorkspaceRows, WsRow
<1>3. \A b \in Boxes : box'[b].files \subseteq box[b].files /\ (box'[b].live => box'[b] = box[b])
  <2>1. box' = box \/ \E b \in Boxes : box' = [box EXCEPT ![b] = [live |-> FALSE, files |-> {}]]
    BY DEF LeaseLapse, RetryDue, WorkspaceIdle, BoxExpires, ArtifactExpires, PassActiveCheck
  <2> QED  BY <2>1 DEF WorkspaceRows
<1> QED  BY <1>1, <1>2, <1>3, CopiesFrame

\* A revocation names what is in the container only of the attachment it revokes.
LEMMA TargetsNamed ==
    ASSUME WorkspaceRows, NEW a \in Files
    PROVE  /\ \A j \in Targets(a) : j.box \in {0, ws.box}
           /\ \A x \in Files, b \in Boxes : InContainer(b, x) \in Targets(a) => x = a /\ b = ws.box /\ a \in ws.mounted
<1>1. DerivedFrom(a) \subseteq Turns /\ Turns \cap Files = {}
  BY WorkspaceAssumption DEF DerivedFrom
<1>2. \A j \in Targets(a) : \/ j = Original(a) \/ j = Container(ws.box)
                            \/ j = InContainer(ws.box, a) /\ a \in ws.mounted
                            \/ \E r \in DerivedFrom(a) : j = InContainer(ws.box, r)
  BY DEF Targets
<1>3. \A j \in Targets(a) : j.box \in {0, ws.box}
  BY <1>2, ResourceKinds
<1>4. \A x \in Files, b \in Boxes : InContainer(b, x) \in Targets(a) => x = a /\ b = ws.box /\ a \in ws.mounted
  BY <1>1, <1>2, CopyNames
<1> QED  BY <1>3, <1>4

LEMMA RevokeCopies ==
    ASSUME WorkspaceRows, CopiesInv, NEW a \in Files, NEW status \in {"expired", "deleted"}, Revoke(a, status),
           "cut" \in mishap => "cut" \in mishap'
    PROVE  CopiesInv'
<1>1. /\ DOMAIN job' = DOMAIN job \cup Targets(a) /\ ws'.box = ws.box /\ ws'.mounted \subseteq ws.mounted
      /\ \A x \in ws.mounted : x \in ws'.mounted \/ (x = a /\ InContainer(ws.box, x) \in DOMAIN job')
      /\ \A x \in Files : att[x].swept => att'[x].swept
      /\ att'[a].swept
      /\ UNCHANGED <<box, drawn, sweeper, turn>>
  <2>1. \A x \in Files : att[x].swept => att'[x].swept
    <3> TAKE x \in Files
    <3>1. CASE x = a
      BY <3>1, RevokeFacts
    <3>2. CASE x # a
      BY <3>2, RevokeFacts
    <3> QED  BY <3>1, <3>2
  <2>2. ws'.mounted \subseteq ws.mounted /\ \A x \in ws.mounted : x \in ws'.mounted \/ (x = a /\ InContainer(ws.box, x) \in DOMAIN job')
    BY RevokeFacts
  <2> QED  BY <2>1, <2>2, RevokeFacts
<1>2. NumberedBoxes'
  <2>1. NumberedBoxes
    BY DEF CopiesInv
  <2>2. \A j \in DOMAIN job' : j \in DOMAIN job \/ j.box \in {0, ws.box}
    BY <1>1, TargetsNamed
  <2>3. 0 <= drawn
    BY CopyTypes
  <2> QED  BY <1>1, <2>1, <2>2, <2>3 DEF NumberedBoxes
<1>3. HeldRows' /\ ErasedCopies'
  BY <1>1 DEF CopiesInv, HeldRows, ErasedCopies
<1>4. \A x \in Files, b \in Boxes : InContainer(b, x) \in DOMAIN job' =>
        InContainer(b, x) \in DOMAIN job \/ (x = a /\ b = ws.box /\ a \in ws.mounted)
  BY <1>1, TargetsNamed
<1>5. CopiesNamed'
  BY <1>1, <1>4 DEF CopiesInv, CopiesNamed, Named, Revoked
<1>6. RestInv'
  <2> SUFFICES ASSUME NotMounting, ws.box # 0 PROVE RowOf(ws.box)'
    BY <1>1 DEF RestInv, NotMounting
  <2>1. RowOf(ws.box)
    BY DEF CopiesInv, RestInv
  <2> SUFFICES ASSUME "cut" \notin mishap, box[ws.box].live
               PROVE  /\ \A x \in Copies(ws.box) : x \in ws'.mounted \/ InContainer(ws.box, x) \in DOMAIN job'
                      /\ \A x \in ws'.mounted \ Copies(ws.box) : att'[x].swept
    BY <1>1 DEF RowOf, Copies, Revoked
  <2> QED  BY <1>1, <2>1, CopyTypes DEF RowOf, Revoked
<1>7. ASSUME NEW r \in Turns PROVE RunInv(r)'
  <2>1. RunInv(r)
    BY DEF CopiesInv
  <2>2. PreparedInv(r)'
    BY <1>1, <2>1 DEF RunInv, PreparedInv
  <2>3. ReadyInv(r)'
    <3>1. ASSUME NEW b \in Boxes, SeenBy(r, b) PROVE SeenBy(r, b)'
      BY <1>1, <3>1, CopyTypes DEF SeenBy, Copies, Revoked
    <3> QED  BY <1>1, <2>1, <3>1 DEF RunInv, ReadyInv
  <2>4. ASSUME turn[r].at = "mounting" PROVE MountingInv(r)'
    <3>1. /\ turn[r].box \in Boxes /\ turn[r].box <= drawn /\ MountedIn(r, turn[r].box)
          /\ IF turn[r].fresh
             THEN turn[r].box # ws.box /\ turn[r].seen = {} /\ \A j \in DOMAIN job : j.box # turn[r].box
             ELSE turn[r].box = ws.box /\ ws.mounted \subseteq turn[r].seen
          /\ \A x \in Files : InContainer(turn[r].box, x) \in DOMAIN job => x \in turn[r].seen
          /\ turn[r].seen \cap turn[r].sel \subseteq turn[r].local
      BY <2>1, <2>4 DEF RunInv, MountingInv
    <3>2. MountedIn(r, turn[r].box)'
      <4> SUFFICES ASSUME "cut" \notin mishap, box[turn[r].box].live
                   PROVE  /\ Copies(turn[r].box) \subseteq turn[r].local
                          /\ \A x \in turn[r].local \ Copies(turn[r].box) : att'[x].swept
                          /\ \A x \in turn[r].seen \cap Copies(turn[r].box) : x \in ws'.mounted \/ InContainer(turn[r].box, x) \in DOMAIN job'
        BY <1>1 DEF MountedIn, Copies, Revoked
      <4>1. /\ Copies(turn[r].box) \subseteq turn[r].local
            /\ \A x \in turn[r].local \ Copies(turn[r].box) : att[x].swept
            /\ \A x \in turn[r].seen \cap Copies(turn[r].box) : x \in ws.mounted \/ InContainer(turn[r].box, x) \in DOMAIN job
        BY <3>1 DEF MountedIn, Revoked
      <4>2. ASSUME NEW x \in turn[r].seen \cap Copies(turn[r].box)
            PROVE  x \in ws'.mounted \/ InContainer(turn[r].box, x) \in DOMAIN job'
        <5>1. turn[r].box = ws.box
          BY <3>1, <4>2
        <5> QED  BY <1>1, <4>1, <4>2, <5>1
      <4> QED  BY <1>1, <4>1, <4>2, CopyTypes
    <3>3. CASE turn[r].fresh
      <4>1. \A j \in DOMAIN job' : j.box # turn[r].box
        <5>1. turn[r].box # 0 /\ turn[r].box # ws.box
          BY <3>1, <3>3, CopyTypes
        <5> QED  BY <1>1, <3>1, <3>3, <5>1, TargetsNamed
      <4>2. \A x \in Files : InContainer(turn[r].box, x) \notin DOMAIN job'
        BY <4>1, ResourceKinds
      <4> QED  BY <1>1, <3>1, <3>2, <3>3, <4>1, <4>2 DEF MountingInv
    <3>4. CASE ~turn[r].fresh
      <4>1. \A x \in Files : InContainer(turn[r].box, x) \in DOMAIN job' => x \in turn[r].seen
        BY <1>4, <3>1, <3>4
      <4> QED  BY <1>1, <3>1, <3>2, <3>4, <4>1 DEF MountingInv
    <3> QED  BY <3>3, <3>4
  <2>5. turn[r].at # "mounting" => MountingInv(r)'
    BY <1>1 DEF MountingInv
  <2> QED  BY <2>2, <2>3, <2>4, <2>5 DEF RunInv
<1> QED  BY <1>2, <1>3, <1>5, <1>6, <1>7 DEF CopiesInv

LEMMA ConversationCopies == ASSUME WorkspaceRows, CopiesInv, DeleteConversation PROVE CopiesInv'
<1>1. ws'.box = 0 /\ 0 <= drawn
  BY ConversationFacts, CopyTypes DEF NoWorkspace
<1>2. \A j \in DOMAIN job' : j \in DOMAIN job \/ j.box \in {0, ws.box}
  BY ConversationFacts, ResourceKinds
<1>3. \A a \in Files, b \in Boxes : InContainer(b, a) \in DOMAIN job' => InContainer(b, a) \in DOMAIN job
  <2> SUFFICES ASSUME NEW a \in Files, NEW b \in Boxes, InContainer(b, a) \in DOMAIN job'
               PROVE  InContainer(b, a) \in DOMAIN job
    OBVIOUS
  <2>1. \/ InContainer(b, a) \in DOMAIN job
        \/ \E x \in Files : InContainer(b, a) = Original(x)
        \/ InContainer(b, a) = Container(ws.box)
    BY ConversationFacts
  <2> QED  BY <2>1, CopyNames
<1>4. \A a \in Files : att[a].swept => att'[a].swept
  BY ConversationFacts
<1>5. NumberedBoxes'
  BY <1>1, <1>2, ConversationFacts DEF CopiesInv, NumberedBoxes
<1>6. HeldRows' /\ ErasedCopies'
  BY ConversationFacts DEF CopiesInv, HeldRows, ErasedCopies
<1>7. CopiesNamed'
  BY <1>3, <1>4, ConversationFacts DEF CopiesInv, CopiesNamed, Named, Revoked
<1>8. RestInv' /\ \A r \in Turns : RunInv(r)'
  BY <1>1, ConversationFacts DEF RestInv, RunInv, PreparedInv, MountingInv, ReadyInv
<1> QED  BY <1>5, <1>6, <1>7, <1>8 DEF CopiesInv

\* The provider erases a resource: what is lost of a live container had been revoked.
LEMMA EraseCopies ==
    ASSUME WorkspaceRows, CopiesInv, NEW s \in Sweepers, Erase(s) \/ EraseError(s) PROVE CopiesInv'
<1>1. /\ sweeper[s].job \in Resources /\ sweeper[s].at = "claimed" /\ sweeper \in [Sweepers -> SweeperRow]
      /\ UNCHANGED <<att, ws, drawn, job, turn, mishap>>
  BY DEF Erase, EraseError, WorkspaceRows
<1>2. \/ Erased(sweeper[s].job) /\ sweeper' = [sweeper EXCEPT ![s].at = "erased"]
      \/ (Erased(sweeper[s].job) \/ UNCHANGED <<file, box>>) /\ sweeper' = [sweeper EXCEPT ![s].at = "refused"]
  BY DEF Erase, EraseError
<1>3. /\ \A x \in Sweepers : x # s => sweeper'[x] = sweeper[x]
      /\ sweeper'[s].job = sweeper[s].job /\ sweeper'[s].gone = sweeper[s].gone
      /\ sweeper'[s].at \in {"erased", "refused"} /\ (sweeper'[s].at = "erased" => Erased(sweeper[s].job))
  BY <1>1, <1>2 DEF SweeperRow
<1>4. /\ \A b \in Boxes : box'[b].live => box[b].live
      /\ \A b \in Boxes : box'[b].files \subseteq box[b].files
      /\ \A b \in Boxes, a \in Files : box'[b].live /\ a \in box[b].files /\ a \notin box'[b].files => sweeper[s].job = InContainer(b, a)
  <2>1. CASE Erased(sweeper[s].job)
    BY <1>1, <2>1, ErasedFacts, CopyTypes
  <2>2. CASE UNCHANGED box
    BY <2>2
  <2> QED  BY <1>2, <2>1, <2>2
<1>5. \A b \in Boxes, a \in Files : box'[b].live /\ a \in box[b].files /\ a \notin box'[b].files => Revoked(a)
  BY <1>1, <1>4 DEF CopiesInv, CopiesNamed, Named
<1>6. NumberedBoxes'
  BY <1>1, <1>3 DEF CopiesInv, NumberedBoxes
<1>7. HeldRows'
  BY <1>1, <1>3 DEF CopiesInv, HeldRows
<1>8. CopiesNamed'
  BY <1>1, <1>3 DEF CopiesInv, CopiesNamed, Named, Revoked
<1>9. ErasedCopies'
  <2> SUFFICES ASSUME NEW x \in Sweepers, sweeper'[x].at = "erased", ~sweeper'[x].gone
               PROVE  /\ \A a \in Files, b \in Boxes : sweeper'[x].job = InContainer(b, a) => a \notin box'[b].files
                      /\ \A b \in Boxes : sweeper'[x].job = Container(b) => ~box'[b].live
    BY DEF ErasedCopies
  <2>1. CASE x = s
    <3>1. Erased(sweeper[s].job) /\ sweeper'[x].job = sweeper[s].job
      BY <1>3, <2>1
    <3> QED  BY <1>1, <3>1, ErasedFacts
  <2>2. CASE x # s
    <3>1. /\ \A a \in Files, b \in Boxes : sweeper'[x].job = InContainer(b, a) => a \notin box[b].files
          /\ \A b \in Boxes : sweeper'[x].job = Container(b) => ~box[b].live
      BY <1>3, <2>2 DEF CopiesInv, ErasedCopies
    <3> QED  BY <1>4, <3>1
  <2> QED  BY <2>1, <2>2
<1>10. RestInv'
  <2> SUFFICES ASSUME NotMounting, ws.box # 0 PROVE RowOf(ws.box)'
    BY <1>1 DEF RestInv, NotMounting
  <2>1. RowOf(ws.box) /\ ws.box \in Boxes
    BY CopyTypes DEF CopiesInv, RestInv
  <2> SUFFICES ASSUME "cut" \notin mishap, box'[ws.box].live
               PROVE  /\ \A x \in Copies(ws.box)' : x \in ws.mounted \/ InContainer(ws.box, x) \in DOMAIN job
                      /\ \A x \in ws.mounted \ Copies(ws.box)' : Revoked(x)
    BY <1>1 DEF RowOf, Copies, Revoked
  <2>2. box[ws.box].live
    BY <1>4, <2>1
  <2>3. /\ \A x \in Copies(ws.box) : x \in ws.mounted \/ InContainer(ws.box, x) \in DOMAIN job
        /\ \A x \in ws.mounted \ Copies(ws.box) : Revoked(x)
    BY <2>1, <2>2 DEF RowOf
  <2> QED  BY <1>1, <1>4, <1>5, <2>1, <2>3, CopyTypes DEF Copies
<1>11. ASSUME NEW r \in Turns PROVE RunInv(r)'
  <2>1. RunInv(r)
    BY DEF CopiesInv
  <2>2. PreparedInv(r)'
    BY <1>1, <2>1 DEF RunInv, PreparedInv
  <2>3. ASSUME NEW b \in Boxes, MountedIn(r, b) PROVE MountedIn(r, b)'
    <3> SUFFICES ASSUME "cut" \notin mishap, box'[b].live
                 PROVE  /\ Copies(b)' \subseteq turn[r].local
                        /\ \A a \in turn[r].local \ Copies(b)' : Revoked(a)
                        /\ \A a \in turn[r].seen \cap Copies(b)' : a \in ws.mounted \/ InContainer(b, a) \in DOMAIN job
      BY <1>1 DEF MountedIn, Copies, Revoked
    <3>1. /\ Copies(b) \subseteq turn[r].local
          /\ \A a \in turn[r].local \ Copies(b) : Revoked(a)
          /\ \A a \in turn[r].seen \cap Copies(b) : a \in ws.mounted \/ InContainer(b, a) \in DOMAIN job
      BY <1>4, <2>3 DEF MountedIn
    <3> QED  BY <1>4, <1>5, <3>1, CopyTypes DEF Copies
  <2>4. ASSUME NEW b \in Boxes, SeenBy(r, b) PROVE SeenBy(r, b)'
    <3> SUFFICES ASSUME "cut" \notin mishap, box'[b].live
                 PROVE  Copies(b)' \subseteq turn[r].sel /\ \A a \in turn[r].sel \ Copies(b)' : Revoked(a)
      BY <1>1 DEF SeenBy, Copies, Revoked
    <3>1. Copies(b) \subseteq turn[r].sel /\ \A a \in turn[r].sel \ Copies(b) : Revoked(a)
      BY <1>4, <2>4 DEF SeenBy
    <3> QED  BY <1>4, <1>5, <3>1, CopyTypes DEF Copies
  <2>5. MountingInv(r)'
    BY <1>1, <2>1, <2>3 DEF RunInv, MountingInv
  <2>6. ReadyInv(r)'
    BY <1>1, <2>1, <2>4 DEF RunInv, ReadyInv
  <2> QED  BY <2>2, <2>5, <2>6 DEF RunInv
<1> QED  BY <1>6, <1>7, <1>8, <1>9, <1>10, <1>11 DEF CopiesInv

\* A sweep claims a row, settles it or is lost.
LEMMA OutboxCopies ==
    ASSUME WorkspaceRows, CopiesInv, NEW s \in Sweepers,
           (\E j \in DOMAIN job : Claim(s, j)) \/ Settle(s) \/ SweeperCrash(s)
    PROVE  CopiesInv'
<1>1. UNCHANGED <<att, ws, box, drawn, turn, mishap>>
  BY DEF Claim, Settle, SweeperCrash
<1>2. \/ DOMAIN job' = DOMAIN job
      \/ Removes(s) /\ DOMAIN job' = DOMAIN job \ {sweeper[s].job}
  BY ClaimFacts, SettleFacts DEF SweeperCrash
<1>3. \A x \in Sweepers : sweeper'[x].at # "idle" =>
        \/ sweeper'[x].at = "claimed" /\ sweeper'[x].job \in DOMAIN job /\ DOMAIN job' = DOMAIN job
        \/ /\ sweeper'[x].at = sweeper[x].at /\ sweeper'[x].job = sweeper[x].job
           /\ sweeper[x].gone => sweeper'[x].gone
           /\ DOMAIN job' = DOMAIN job \/ sweeper'[x].gone \/ sweeper[x].job # sweeper[s].job
  <2>1. ASSUME NEW j \in DOMAIN job, Claim(s, j), NEW x \in Sweepers
        PROVE  DOMAIN job' = DOMAIN job /\ (sweeper'[x] = sweeper[x] \/ (sweeper'[x].at = "claimed" /\ sweeper'[x].job \in DOMAIN job))
    BY <2>1, ClaimFacts
  <2>2. ASSUME Settle(s), NEW x \in Sweepers, sweeper'[x].at # "idle"
        PROVE  /\ sweeper'[x].at = sweeper[x].at /\ sweeper'[x].job = sweeper[x].job
               /\ sweeper[x].gone => sweeper'[x].gone
               /\ DOMAIN job' = DOMAIN job \/ sweeper'[x].gone \/ sweeper[x].job # sweeper[s].job
    <3>1. x # s
      BY <2>2, SettleFacts, IdleSweepers
    <3>2. /\ sweeper'[x].at = sweeper[x].at /\ sweeper'[x].job = sweeper[x].job
          /\ sweeper'[x].gone = (sweeper[x].gone \/ (Removes(s) /\ sweeper[x].job = sweeper[s].job))
      BY <2>2, <3>1, SettleFacts
    <3>3. Removes(s) \/ DOMAIN job' = DOMAIN job
      BY <2>2, SettleFacts
    <3> QED  BY <3>2, <3>3
  <2>3. ASSUME SweeperCrash(s), NEW x \in Sweepers
        PROVE  DOMAIN job' = DOMAIN job /\ (sweeper'[x] = sweeper[x] \/ sweeper'[x].at = "idle")
    BY <2>3, IdleSweepers DEF SweeperCrash, WorkspaceRows
  <2> QED  BY <2>1, <2>2, <2>3
<1>4. NumberedBoxes'
  <2>1. NumberedBoxes
    BY DEF CopiesInv
  <2>2. \A j \in DOMAIN job' : j.box <= drawn
    BY <1>2, <2>1 DEF NumberedBoxes
  <2>3. \A x \in Sweepers : sweeper'[x].job \in DOMAIN job \/ sweeper'[x].job = sweeper[x].job \/ sweeper'[x] = IdleSweeper
    <3>1. CASE \E j \in DOMAIN job : Claim(s, j)
      BY <3>1, ClaimFacts
    <3>2. CASE Settle(s)
      BY <3>2, SettleFacts
    <3>3. CASE SweeperCrash(s)
      BY <3>3 DEF SweeperCrash, WorkspaceRows
    <3> QED  BY <3>1, <3>2, <3>3
  <2>4. 0 <= drawn
    BY CopyTypes
  <2> QED  BY <1>1, <2>1, <2>2, <2>3, <2>4, IdleSweepers DEF NumberedBoxes
<1>5. HeldRows'
  <2> SUFFICES ASSUME NEW x \in Sweepers, sweeper'[x].at # "idle", ~sweeper'[x].gone PROVE sweeper'[x].job \in DOMAIN job'
    BY DEF HeldRows
  <2>1. HeldRows
    BY DEF CopiesInv
  <2> QED  BY <1>2, <1>3, <2>1 DEF HeldRows
<1>6. CopiesNamed'
  <2> SUFFICES ASSUME NEW a \in Files, NEW b \in Boxes, Named(InContainer(b, a))' PROVE Revoked(a)
    BY <1>1 DEF CopiesNamed, Revoked
  <2>1. Named(InContainer(b, a))
    BY <1>2, <1>3 DEF Named
  <2> QED  BY <2>1 DEF CopiesInv, CopiesNamed
<1>7. ErasedCopies'
  <2> SUFFICES ASSUME NEW x \in Sweepers, sweeper'[x].at = "erased", ~sweeper'[x].gone
               PROVE  /\ \A a \in Files, b \in Boxes : sweeper'[x].job = InContainer(b, a) => a \notin box[b].files
                      /\ \A b \in Boxes : sweeper'[x].job = Container(b) => ~box[b].live
    BY <1>1 DEF ErasedCopies
  <2>1. sweeper[x].at = "erased" /\ ~sweeper[x].gone /\ sweeper'[x].job = sweeper[x].job
    BY <1>3
  <2> QED  BY <2>1 DEF CopiesInv, ErasedCopies
\* What the settled row named is no longer in the container.
<1>8. ASSUME NEW b \in Boxes, NEW a \in Copies(b), InContainer(b, a) \in DOMAIN job PROVE InContainer(b, a) \in DOMAIN job'
  <2> SUFFICES ASSUME Removes(s), sweeper[s].job = InContainer(b, a) PROVE FALSE
    BY <1>2, <1>8
  <2>1. a \notin box[b].files
    BY <1>8 DEF CopiesInv, ErasedCopies, Removes, Copies
  <2> QED  BY <1>8, <2>1 DEF Copies
<1>9. RestInv'
  <2> SUFFICES ASSUME NotMounting, ws.box # 0 PROVE RowOf(ws.box)'
    BY <1>1 DEF RestInv, NotMounting
  <2>1. RowOf(ws.box) /\ ws.box \in Boxes
    BY CopyTypes DEF CopiesInv, RestInv
  <2> QED  BY <1>1, <1>8, <2>1 DEF RowOf, Copies, Revoked
<1>10. ASSUME NEW r \in Turns PROVE RunInv(r)'
  <2>1. RunInv(r)
    BY DEF CopiesInv
  <2>2. PreparedInv(r)' /\ ReadyInv(r)'
    BY <1>1, <2>1 DEF RunInv, PreparedInv, ReadyInv, SeenBy, Copies, Revoked
  <2>3. ASSUME NEW b \in Boxes, MountedIn(r, b) PROVE MountedIn(r, b)'
    BY <1>1, <1>8, <2>3 DEF MountedIn, Copies, Revoked
  <2>4. DOMAIN job' \subseteq DOMAIN job
    BY <1>2
  <2>5. MountingInv(r)'
    BY <1>1, <2>1, <2>3, <2>4 DEF RunInv, MountingInv
  <2> QED  BY <2>2, <2>5 DEF RunInv
<1> QED  BY <1>4, <1>5, <1>6, <1>7, <1>9, <1>10 DEF CopiesInv

\* While a run works no other does, so what is required of the others is void.
LEMMA OthersRest ==
    ASSUME SoleRun, NEW r \in Turns, AtWork(r) \/ ~Active, \A q \in Turns : q # r => turn'[q] = turn[q]
    PROVE  \A q \in Turns : q # r => RunInv(q)' /\ turn[q].at # "mounting" /\ turn'[q].at # "mounting"
<1> SUFFICES ASSUME NEW q \in Turns, q # r
             PROVE  RunInv(q)' /\ turn[q].at # "mounting" /\ turn'[q].at # "mounting"
  OBVIOUS
<1>1. turn[q].at \in {"new", "done", "failed"}
  BY DEF SoleRun, AtWork, Active
<1>2. turn'[q].at \in {"new", "done", "failed"}
  BY <1>1
<1> QED  BY <1>1, <1>2 DEF RunInv, PreparedInv, MountingInv, ReadyInv

\* A step that changes neither the containers nor the outbox.
LEMMA NamesFrame ==
    ASSUME WorkspaceRows, CopiesInv, UNCHANGED <<att, box, drawn, job, sweeper>>, ws'.box <= drawn
    PROVE  NumberedBoxes' /\ HeldRows' /\ CopiesNamed' /\ ErasedCopies'
BY DEF CopiesInv, NumberedBoxes, HeldRows, CopiesNamed, ErasedCopies, Named, Revoked

LEMMA PrepareCopies ==
    ASSUME WorkspaceRows, SoleRun, CopiesInv, NEW r \in Turns, NEW S \in SUBSET Files \ {{}}, Prepare(r, S)
    PROVE  CopiesInv'
<1>1. /\ turn'[r].at = "prepared" /\ turn'[r].fresh = FALSE /\ turn'[r].seen = {} /\ turn'[r].local = {} /\ ~Active
      /\ \A q \in Turns : q # r => turn'[q] = turn[q]
      /\ UNCHANGED <<att, file, ws, box, drawn, job, sweeper, art, conv, passed, mishap>>
  BY PrepareFacts
<1>2. ws'.box <= drawn
  BY <1>1 DEF CopiesInv, NumberedBoxes
<1>3. \A q \in Turns : q # r => RunInv(q)'
  BY <1>1, OthersRest
<1>4. RunInv(r)'
  BY <1>1 DEF RunInv, PreparedInv, MountingInv, ReadyInv
<1>5. NotMounting
  BY <1>1 DEF NotMounting, Active
<1>6. RestInv'
  BY <1>1, <1>5 DEF CopiesInv, RestInv, RowOf, Copies, Revoked
<1> QED  BY <1>1, <1>2, <1>3, <1>4, <1>6, NamesFrame DEF CopiesInv

\* What is found mounted when the row is read, or a new container.
LEMMA ReadCopies ==
    ASSUME WorkspaceRows, SoleRun, CopiesInv, NEW r \in Turns, EnsureRead(r) PROVE CopiesInv'
<1>1. /\ turn[r].at = "prepared" /\ turn'[r].at = "mounting" /\ turn'[r].sel = turn[r].sel /\ ~CleanupPending
      /\ \A q \in Turns : q # r => turn'[q] = turn[q]
      /\ \/ /\ drawn' = drawn + 1 /\ turn'[r].box = drawn' /\ turn'[r].fresh = TRUE /\ drawn' \in Boxes
            /\ turn'[r].seen = turn[r].seen /\ turn'[r].local = turn[r].local
            /\ box'[drawn'].files = {}
            /\ \A b \in Boxes : b # drawn' => box'[b] = box[b] \/ (~box'[b].live /\ box'[b].files = {})
         \/ /\ UNCHANGED <<box, drawn>> /\ turn'[r].box = ws.box /\ turn'[r].fresh = turn[r].fresh /\ ws.box # 0
            /\ turn'[r].seen = ws.mounted /\ turn'[r].local = ws.mounted
      /\ UNCHANGED <<att, file, ws, job, sweeper, art, conv, passed, mishap>>
  BY ReadFacts
<1>2. AtWork(r)
  BY <1>1 DEF AtWork
<1>3. \A q \in Turns : q # r => RunInv(q)' /\ turn[q].at # "mounting"
  BY <1>1, <1>2, OthersRest
<1>4. NotMounting
  BY <1>1, <1>3 DEF NotMounting
<1>5. RestInv'
  BY <1>1 DEF RestInv, NotMounting
<1>6. PreparedInv(r)' /\ ReadyInv(r)'
  BY <1>1 DEF PreparedInv, ReadyInv
<1>7. turn[r].fresh = FALSE /\ turn[r].seen = {} /\ turn[r].local = {}
  <2>1. PreparedInv(r) /\ turn \in [Turns -> TurnRow]
    BY DEF CopiesInv, RunInv, WorkspaceRows
  <2> QED  BY <1>1, <2>1 DEF PreparedInv, TurnRow
<1>8. HeldRows' /\ CopiesNamed'
  BY <1>1 DEF CopiesInv, HeldRows, CopiesNamed, Named, Revoked
<1>9. /\ ws.box <= drawn /\ \A j \in DOMAIN job : j.box <= drawn
      /\ \A s \in Sweepers : sweeper[s].job.box <= drawn
  BY DEF CopiesInv, NumberedBoxes
<1>10. /\ \A j \in DOMAIN job : j.box \in Nat
       /\ \A s \in Sweepers : sweeper[s].job.box \in Nat
  <2>1. \A j \in Resources \cup {Original(Nil)} : j.box \in Nat
    BY ResourceCases, ResourceKinds, ResourceTypes
  <2>2. DOMAIN job \subseteq Resources /\ \A s \in Sweepers : sweeper[s].job \in Resources \cup {Original(Nil)}
    BY DEF WorkspaceRows, SweeperRow
  <2> QED  BY <2>1, <2>2
<1>11. CASE drawn' = drawn + 1 /\ turn'[r].box = drawn' /\ turn'[r].fresh = TRUE /\ drawn' \in Boxes
            /\ turn'[r].seen = turn[r].seen /\ turn'[r].local = turn[r].local
            /\ box'[drawn'].files = {}
            /\ \A b \in Boxes : b # drawn' => box'[b] = box[b] \/ (~box'[b].live /\ box'[b].files = {})
  <2>1. PICK d \in Boxes : d = drawn' /\ d = drawn + 1 /\ drawn \in Nat /\ ws.box \in Nat
    BY <1>11, CopyTypes
  <2>2. NumberedBoxes'
    BY <1>1, <1>9, <1>10, <2>1 DEF NumberedBoxes
  <2>3. \A j \in DOMAIN job : j.box # d
    BY <1>9, <1>10, <2>1
  <2>4. \A s \in Sweepers : sweeper[s].job.box # d
    BY <1>9, <1>10, <2>1
  <2>5. \A a \in Files : InContainer(d, a) \notin DOMAIN job
    BY <2>3, ResourceKinds
  <2>6. ErasedCopies'
    <3> SUFFICES ASSUME NEW s \in Sweepers, sweeper[s].at = "erased", ~sweeper[s].gone
                 PROVE  /\ \A a \in Files, b \in Boxes : sweeper[s].job = InContainer(b, a) => a \notin box'[b].files
                        /\ \A b \in Boxes : sweeper[s].job = Container(b) => ~box'[b].live
      BY <1>1 DEF ErasedCopies
    <3>1. /\ \A a \in Files, b \in Boxes : sweeper[s].job = InContainer(b, a) => a \notin box[b].files
          /\ \A b \in Boxes : sweeper[s].job = Container(b) => ~box[b].live
      BY DEF CopiesInv, ErasedCopies
    <3>2. \A a \in Files, b \in Boxes : sweeper[s].job = InContainer(b, a) => b # d
      BY <2>4, ResourceKinds
    <3>3. \A b \in Boxes : sweeper[s].job = Container(b) => b # d
      BY <2>4, ResourceKinds
    <3>4. \A b \in Boxes : b # d => box'[b] = box[b] \/ (~box'[b].live /\ box'[b].files = {})
      BY <1>11, <2>1
    <3> QED  BY <3>1, <3>2, <3>3, <3>4
  <2>7. MountedIn(r, d)'
    BY <1>7, <1>11, <2>1 DEF MountedIn, Copies
  <2>8. MountingInv(r)'
    <3>1. /\ turn'[r].box = d /\ turn'[r].fresh = TRUE /\ turn'[r].seen = {} /\ turn'[r].local = {}
          /\ d <= drawn' /\ d # ws.box
      BY <1>7, <1>9, <1>11, <2>1, CopyTypes
    <3>2. MountedIn(r, turn[r].box)'
      BY <2>7, <3>1 DEF MountedIn, Copies
    <3> QED  BY <1>1, <2>3, <2>5, <3>1, <3>2 DEF MountingInv
  <2> QED  BY <1>3, <1>5, <1>6, <1>8, <2>2, <2>6, <2>8 DEF CopiesInv, RunInv
<1>12. CASE UNCHANGED <<box, drawn>> /\ turn'[r].box = ws.box /\ turn'[r].fresh = turn[r].fresh /\ ws.box # 0
            /\ turn'[r].seen = ws.mounted /\ turn'[r].local = ws.mounted
  <2>1. ws.box \in Boxes /\ RowOf(ws.box)
    BY <1>4, <1>12, CopyTypes DEF CopiesInv, RestInv
  <2>2. NumberedBoxes' /\ ErasedCopies'
    BY <1>1, <1>12 DEF CopiesInv, NumberedBoxes, ErasedCopies
  <2>3. \A j \in DOMAIN job : j.box # ws.box
    BY <1>1, <1>12 DEF CleanupPending
  <2>4. \A a \in Files : InContainer(ws.box, a) \notin DOMAIN job
    BY <2>3, ResourceKinds
  <2>5. MountedIn(r, ws.box)'
    <3> SUFFICES ASSUME "cut" \notin mishap, box[ws.box].live
                 PROVE  /\ Copies(ws.box) \subseteq ws.mounted
                        /\ \A a \in ws.mounted \ Copies(ws.box) : Revoked(a)
      BY <1>1, <1>12 DEF MountedIn, Copies, Revoked
    <3> QED  BY <2>1, <2>4 DEF RowOf, Copies
  <2>6. MountingInv(r)'
    <3>1. MountedIn(r, turn[r].box)'
      BY <1>1, <1>12, <2>5 DEF MountedIn, Copies
    <3>2. turn'[r].box \in Boxes /\ turn'[r].box <= drawn'
      BY <1>9, <1>12, <2>1
    <3> QED  BY <1>1, <1>7, <1>12, <2>4, <3>1, <3>2 DEF MountingInv
  <2> QED  BY <1>3, <1>5, <1>6, <1>8, <2>2, <2>6 DEF CopiesInv, RunInv
<1> QED  BY <1>1, <1>11, <1>12

\* What a mounting has reached, in named parts.
LEMMA MountingParts ==
    ASSUME WorkspaceRows, CopiesInv, NEW r \in Turns, turn[r].at = "mounting"
    PROVE  /\ turn[r].box \in Boxes /\ turn[r].box <= drawn
           /\ turn[r].seen \cap turn[r].sel \subseteq turn[r].local
           /\ \A a \in Files : InContainer(turn[r].box, a) \in DOMAIN job => a \in turn[r].seen
           /\ \/ turn[r].fresh /\ turn[r].box # ws.box /\ turn[r].seen = {} /\ \A j \in DOMAIN job : j.box # turn[r].box
              \/ ~turn[r].fresh /\ turn[r].box = ws.box /\ ws.mounted \subseteq turn[r].seen
           /\ "cut" \notin mishap /\ box[turn[r].box].live =>
                /\ Copies(turn[r].box) \subseteq turn[r].local
                /\ \A a \in turn[r].local \ Copies(turn[r].box) : Revoked(a)
                /\ \A a \in turn[r].seen \cap Copies(turn[r].box) : a \in ws.mounted \/ InContainer(turn[r].box, a) \in DOMAIN job
<1>1. MountingInv(r)
  BY DEF CopiesInv, RunInv
<1>2. turn[r].fresh \in BOOLEAN
  BY DEF WorkspaceRows, TurnRow
<1> QED  BY <1>1, <1>2 DEF MountingInv, MountedIn

\* A mounting that goes on: the container, what was found and what was selected stay.
LEMMA MountingGoesOn ==
    ASSUME WorkspaceRows, SoleRun, CopiesInv, NEW r \in Turns,
           turn[r].at = "mounting", turn'[r].at = "mounting", turn'[r].sel = turn[r].sel, turn'[r].box = turn[r].box,
           turn'[r].fresh = turn[r].fresh, turn'[r].seen = turn[r].seen,
           \A q \in Turns : q # r => turn'[q] = turn[q],
           UNCHANGED <<att, ws, drawn, job, sweeper, mishap>>,
           turn[r].seen \cap turn[r].sel \subseteq turn'[r].local,
           MountedIn(r, turn[r].box)', ErasedCopies'
    PROVE  CopiesInv'
<1>1. AtWork(r)
  BY DEF AtWork
<1>2. \A q \in Turns : q # r => RunInv(q)'
  BY <1>1, OthersRest
<1>3. NumberedBoxes' /\ HeldRows' /\ CopiesNamed'
  BY DEF CopiesInv, NumberedBoxes, HeldRows, CopiesNamed, Named, Revoked
<1>4. RestInv'
  BY DEF RestInv, NotMounting
<1>5. PreparedInv(r)' /\ ReadyInv(r)'
  BY DEF PreparedInv, ReadyInv
<1>6. MountingInv(r)'
  BY MountingParts DEF MountingInv
<1> QED  BY <1>2, <1>3, <1>4, <1>5, <1>6 DEF CopiesInv, RunInv

LEMMA UnmountCopies ==
    ASSUME WorkspaceRows, SoleRun, CopiesInv, NEW r \in Turns, NEW a \in Files, Unmount(r, a) PROVE CopiesInv'
<1>1. /\ turn[r].at = "mounting" /\ a \notin turn[r].sel
      /\ turn'[r].at = "mounting" /\ turn'[r].sel = turn[r].sel /\ turn'[r].box = turn[r].box
      /\ turn'[r].fresh = turn[r].fresh /\ turn'[r].seen = turn[r].seen /\ turn'[r].local = turn[r].local \ {a}
      /\ \A q \in Turns : q # r => turn'[q] = turn[q]
      /\ \A b \in Boxes : /\ box'[b].live = box[b].live
                          /\ box'[b].files = IF b = turn[r].box THEN box[b].files \ {a} ELSE box[b].files
      /\ UNCHANGED <<att, file, ws, drawn, job, sweeper, art, conv, passed, mishap>>
  BY UnmountFacts
<1>2. turn[r].box \in Boxes /\ Copies(turn[r].box)' = Copies(turn[r].box) \ {a}
  BY <1>1, MountingParts DEF Copies
<1>3. MountedIn(r, turn[r].box)'
  <2> SUFFICES ASSUME "cut" \notin mishap, box[turn[r].box].live
               PROVE  /\ Copies(turn[r].box)' \subseteq turn[r].local \ {a}
                      /\ \A x \in (turn[r].local \ {a}) \ Copies(turn[r].box)' : Revoked(x)
                      /\ \A x \in turn[r].seen \cap Copies(turn[r].box)' : x \in ws.mounted \/ InContainer(turn[r].box, x) \in DOMAIN job
    BY <1>1, <1>2 DEF MountedIn, Copies, Revoked
  <2> QED  BY <1>1, <1>2, MountingParts
<1>4. ErasedCopies'
  BY <1>1 DEF CopiesInv, ErasedCopies
<1>5. turn[r].seen \cap turn[r].sel \subseteq turn'[r].local
  BY <1>1, MountingParts
<1> QED  BY <1>1, <1>3, <1>4, <1>5, MountingGoesOn

\* What is mounted is not what a sweep has just erased: no erasure of it was queued.
LEMMA MountCopies ==
    ASSUME WorkspaceRows, SoleRun, CopiesInv, NEW r \in Turns, NEW a \in Files, Mount(r, a) PROVE CopiesInv'
<1>1. /\ turn[r].at = "mounting" /\ a \in turn[r].sel /\ a \notin turn[r].local
      /\ turn'[r].at = "mounting" /\ turn'[r].sel = turn[r].sel /\ turn'[r].box = turn[r].box
      /\ turn'[r].fresh = turn[r].fresh /\ turn'[r].seen = turn[r].seen /\ turn'[r].local = turn[r].local \cup {a}
      /\ \A q \in Turns : q # r => turn'[q] = turn[q]
      /\ \A b \in Boxes : /\ box'[b].live = box[b].live
                          /\ box'[b].files = IF b = turn[r].box THEN box[b].files \cup {a} ELSE box[b].files
      /\ UNCHANGED <<att, file, ws, drawn, job, sweeper, art, conv, passed, mishap>>
  BY MountFacts
<1>2. turn[r].box \in Boxes /\ Copies(turn[r].box)' = Copies(turn[r].box) \cup {a}
  <2>1. turn[r].box \in Boxes
    BY <1>1, MountingParts
  <2>2. box'[turn'[r].box].files = box[turn[r].box].files \cup {a}
    BY <1>1, <2>1
  <2> QED  BY <2>1, <2>2 DEF Copies
<1>3. a \notin turn[r].seen
  BY <1>1, MountingParts
<1>4. MountedIn(r, turn[r].box)'
  <2> SUFFICES ASSUME "cut" \notin mishap, box[turn[r].box].live
               PROVE  /\ Copies(turn[r].box)' \subseteq turn[r].local \cup {a}
                      /\ \A x \in (turn[r].local \cup {a}) \ Copies(turn[r].box)' : Revoked(x)
                      /\ \A x \in turn[r].seen \cap Copies(turn[r].box)' : x \in ws.mounted \/ InContainer(turn[r].box, x) \in DOMAIN job
    BY <1>1, <1>2 DEF MountedIn, Copies, Revoked
  <2> QED  BY <1>1, <1>2, <1>3, MountingParts
<1>5. ErasedCopies'
  <2> SUFFICES ASSUME NEW s \in Sweepers, sweeper[s].at = "erased", ~sweeper[s].gone
               PROVE  /\ \A x \in Files, b \in Boxes : sweeper[s].job = InContainer(b, x) => x \notin box'[b].files
                      /\ \A b \in Boxes : sweeper[s].job = Container(b) => ~box'[b].live
    BY <1>1 DEF ErasedCopies
  <2>1. /\ \A x \in Files, b \in Boxes : sweeper[s].job = InContainer(b, x) => x \notin box[b].files
        /\ \A b \in Boxes : sweeper[s].job = Container(b) => ~box[b].live
    BY DEF CopiesInv, ErasedCopies
  <2>2. sweeper[s].job \in DOMAIN job
    BY DEF CopiesInv, HeldRows
  <2>3. sweeper[s].job # InContainer(turn[r].box, a)
    BY <1>1, <1>3, <2>2, MountingParts
  <2>4. ASSUME NEW x \in Files, NEW b \in Boxes, sweeper[s].job = InContainer(b, x) PROVE x \notin box'[b].files
    <3>1. x \notin box[b].files /\ ~(b = turn[r].box /\ x = a)
      BY <2>1, <2>3, <2>4
    <3> QED  BY <1>1, <3>1
  <2>5. ASSUME NEW b \in Boxes, sweeper[s].job = Container(b) PROVE ~box'[b].live
    BY <1>1, <2>1, <2>5
  <2> QED  BY <2>4, <2>5
<1>6. turn[r].seen \cap turn[r].sel \subseteq turn'[r].local
  BY <1>1, MountingParts
<1> QED  BY <1>1, <1>4, <1>5, <1>6, MountingGoesOn

\* The row is written: what is in the container is what was selected, and the row says so.
LEMMA CommitCopies ==
    ASSUME WorkspaceRows, SoleRun, CopiesInv, NEW r \in Turns, EnsureCommit(r) PROVE CopiesInv'
<1>1. /\ turn[r].at = "mounting" /\ turn[r].local = turn[r].sel
      /\ turn'[r].at = "ready" /\ turn'[r].sel = turn[r].sel /\ turn'[r].box = turn[r].box
      /\ \A q \in Turns : q # r => turn'[q] = turn[q]
      /\ ws'.box = turn[r].box
      /\ ws'.mounted = IF turn[r].fresh \/ turn[r].local # turn[r].seen THEN turn[r].local ELSE ws.mounted
      /\ UNCHANGED <<att, file, box, drawn, job, sweeper, art, conv, passed, mishap>>
  BY CommitFacts
<1>2. AtWork(r)
  BY <1>1 DEF AtWork
<1>3. \A q \in Turns : q # r => RunInv(q)'
  BY <1>1, <1>2, OthersRest
<1>4. ws'.box <= drawn /\ turn[r].box \in Boxes
  BY <1>1, MountingParts
<1>5. NumberedBoxes' /\ HeldRows' /\ CopiesNamed' /\ ErasedCopies'
  BY <1>1, <1>4, NamesFrame
<1>6. PreparedInv(r)' /\ MountingInv(r)'
  BY <1>1 DEF PreparedInv, MountingInv
<1>7. ReadyInv(r)'
  BY <1>1, <1>4, MountingParts DEF ReadyInv, SeenBy, Copies, Revoked
<1>8. RestInv'
  <2> SUFFICES ASSUME "cut" \notin mishap, box[turn[r].box].live
               PROVE  /\ \A a \in Copies(turn[r].box) : a \in ws'.mounted \/ InContainer(turn[r].box, a) \in DOMAIN job
                      /\ \A a \in ws'.mounted \ Copies(turn[r].box) : Revoked(a)
    BY <1>1 DEF RestInv, RowOf, Copies, Revoked
  <2>1. /\ Copies(turn[r].box) \subseteq turn[r].local
        /\ \A a \in turn[r].local \ Copies(turn[r].box) : Revoked(a)
        /\ \A a \in turn[r].seen \cap Copies(turn[r].box) : a \in ws.mounted \/ InContainer(turn[r].box, a) \in DOMAIN job
    BY <1>1, MountingParts
  <2>2. CASE turn[r].fresh \/ turn[r].local # turn[r].seen
    BY <1>1, <2>1, <2>2
  <2>3. CASE ~(turn[r].fresh \/ turn[r].local # turn[r].seen)
    <3>1. ws.mounted \subseteq turn[r].local /\ ws'.mounted = ws.mounted
      BY <1>1, <2>3, MountingParts
    <3> QED  BY <2>1, <2>3, <3>1
  <2> QED  BY <2>2, <2>3
<1> QED  BY <1>3, <1>5, <1>6, <1>7, <1>8 DEF CopiesInv, RunInv

LEMMA ExecuteCopies ==
    ASSUME WorkspaceRows, SoleRun, CopiesInv, NEW r \in Turns, Execute(r) PROVE CopiesInv'
<1>1. /\ turn[r].at = "ready" /\ turn'[r].at = "executed" /\ turn'[r].sel = turn[r].sel /\ turn'[r].box = turn[r].box
      /\ \A q \in Turns : q # r => turn'[q] = turn[q]
      /\ \A b \in Boxes : box'[b].live = box[b].live /\ box'[b].files \cap Files = box[b].files \cap Files
      /\ UNCHANGED <<att, file, ws, drawn, job, sweeper, art, conv, passed, mishap>>
  BY ExecuteFacts
<1>2. AtWork(r)
  BY <1>1 DEF AtWork
<1>3. \A q \in Turns : q # r => RunInv(q)' /\ turn[q].at # "mounting"
  BY <1>1, <1>2, OthersRest
<1>4. NumberedBoxes' /\ HeldRows' /\ CopiesNamed'
  BY <1>1 DEF CopiesInv, NumberedBoxes, HeldRows, CopiesNamed, Named, Revoked
<1>5. ErasedCopies'
  <2>1. \A x \in Files, b \in Boxes : x \in box'[b].files <=> x \in box[b].files
    BY <1>1
  <2> QED  BY <1>1, <2>1 DEF CopiesInv, ErasedCopies
<1>6. PreparedInv(r)' /\ MountingInv(r)'
  BY <1>1 DEF PreparedInv, MountingInv
<1>7. ReadyInv(r)'
  <2>1. turn[r].box \in Boxes /\ SeenBy(r, turn[r].box)
    BY <1>1 DEF CopiesInv, RunInv, ReadyInv
  <2> QED  BY <1>1, <2>1 DEF ReadyInv, SeenBy, Copies, Revoked
<1>8. RestInv'
  <2>1. NotMounting
    BY <1>1, <1>3 DEF NotMounting
  <2>2. ws.box # 0 => RowOf(ws.box) /\ ws.box \in Boxes
    BY <2>1, CopyTypes DEF CopiesInv, RestInv
  <2> QED  BY <1>1, <2>2 DEF RestInv, RowOf, Copies, Revoked
<1> QED  BY <1>3, <1>4, <1>5, <1>6, <1>7, <1>8 DEF CopiesInv, RunInv

\* A run that ends: what it leaves half mounted is remembered as a mishap.
LEMMA EndCopies ==
    ASSUME WorkspaceRows, SoleRun, CopiesInv, NEW r \in Turns, Finish(r) \/ TurnFails(r) PROVE CopiesInv'
<1>1. /\ ws'.box = ws.box /\ ws'.mounted = ws.mounted /\ turn'[r].at \in {"done", "failed"}
      /\ \A q \in Turns : q # r => turn'[q] = turn[q]
      /\ turn[r].at \in {"prepared", "mounting", "ready", "executed"}
      /\ UNCHANGED <<att, box, drawn, job, sweeper>>
  BY FinishFacts, FailFacts DEF Finish, TurnFails
<1>2. "cut" \notin mishap' => "cut" \notin mishap /\ turn[r].at # "mounting"
  BY FinishFacts, FailFacts
<1>3. AtWork(r)
  BY <1>1 DEF AtWork
<1>4. \A q \in Turns : q # r => RunInv(q)' /\ turn[q].at # "mounting"
  BY <1>1, <1>3, OthersRest
<1>5. RunInv(r)'
  BY <1>1 DEF RunInv, PreparedInv, MountingInv, ReadyInv
<1>6. ws'.box <= drawn
  BY <1>1 DEF CopiesInv, NumberedBoxes
<1>7. NumberedBoxes' /\ HeldRows' /\ CopiesNamed' /\ ErasedCopies'
  BY <1>1, <1>6, NamesFrame
<1>8. RestInv'
  <2> SUFFICES ASSUME ws.box # 0, "cut" \notin mishap' PROVE RowOf(ws.box)'
    BY <1>1 DEF RestInv, RowOf
  <2>1. NotMounting
    BY <1>2, <1>4 DEF NotMounting
  <2>2. RowOf(ws.box)
    BY <2>1 DEF CopiesInv, RestInv
  <2> QED  BY <1>1, <1>2, <2>2 DEF RowOf, Copies, Revoked
<1> QED  BY <1>4, <1>5, <1>7, <1>8 DEF CopiesInv

LEMMA RunCopies ==
    ASSUME WorkspaceRows, SoleRun, CopiesInv, NEW r \in Turns,
           \/ \E S \in SUBSET Files \ {{}} : Prepare(r, S)
           \/ EnsureRead(r) \/ EnsureCommit(r) \/ Execute(r) \/ Finish(r) \/ TurnFails(r)
           \/ \E a \in Files : Unmount(r, a) \/ Mount(r, a)
    PROVE  CopiesInv'
BY PrepareCopies, ReadCopies, CommitCopies, ExecuteCopies, EndCopies, UnmountCopies, MountCopies

-----------------------------------------------------------------------------
(* The invariant. *)

LEMMA WorkspaceStart == WorkspaceInit => WorkspaceInv
<1> SUFFICES ASSUME WorkspaceInit PROVE WorkspaceInv
  OBVIOUS
<1>1. /\ \A s \in Sweepers : sweeper[s] = IdleSweeper
      /\ \A r \in Turns : turn[r].at = "new" /\ turn[r].sel = {} /\ art[r] = "none"
      /\ DOMAIN job = {} /\ ws.box = 0 /\ drawn = 0
      /\ \A a \in Files : att[a].status = "none" /\ att[a].swept = FALSE
  BY FreshTurn DEF WorkspaceInit, NoWorkspace
<1>2. WorkspaceRows
  <2>1. att \in [Files -> AttRow] /\ file \in [Files -> {"none", "there", "gone"}] /\ drawn \in 0..MaxBoxes
    BY ResourceTypes DEF WorkspaceInit, AttRow
  <2>2. ws \in WsRow
    BY ResourceTypes DEF WorkspaceInit, NoWorkspace, WsRow
  <2>3. box \in [Boxes -> BoxRow]
    BY DEF WorkspaceInit, BoxRow
  <2>4. sweeper \in [Sweepers -> SweeperRow] /\ turn \in [Turns -> TurnRow]
    BY IdleSweepers, FreshTurn DEF WorkspaceInit
  <2>5. art \in [Turns -> {"none", "available", "expired", "deleted"}]
    BY DEF WorkspaceInit
  <2> QED  BY <1>1, <2>1, <2>2, <2>3, <2>4, <2>5, IdleSweepers DEF WorkspaceRows
<1>3. OriginalsInv
  BY <1>1, IdleSweepers DEF OriginalsInv, Named
<1>4. SoleRun /\ OutputsInv
  BY <1>1 DEF SoleRun, OutputsInv, AtWork
<1>5. CopiesInv
  <2>1. NumberedBoxes /\ HeldRows /\ CopiesNamed /\ ErasedCopies
    BY <1>1, IdleSweepers DEF NumberedBoxes, HeldRows, CopiesNamed, ErasedCopies, Named
  <2>2. RestInv /\ \A r \in Turns : RunInv(r)
    BY <1>1 DEF RestInv, RunInv, PreparedInv, MountingInv, ReadyInv
  <2> QED  BY <2>1, <2>2 DEF CopiesInv
<1> QED  BY <1>2, <1>3, <1>4, <1>5 DEF WorkspaceInv

\* A removal, by its owner or by the sweep.
LEMMA RemovalKeeps ==
    ASSUME WorkspaceInv, NEW a \in Files, DeleteAttachment(a) \/ SweepAttachment(a) PROVE WorkspaceInv'
<1>1. WorkspaceRows /\ OriginalsInv /\ SoleRun /\ OutputsInv /\ CopiesInv
  BY DEF WorkspaceInv
<1>2. /\ \E status \in {"expired", "deleted"} : Revoke(a, status)
      /\ att[a].status # "none" /\ ("cut" \in mishap => "cut" \in mishap')
  BY DEF DeleteAttachment, SweepAttachment
<1>3. OriginalsInv' /\ CopiesInv'
  BY <1>1, <1>2, RemovalOriginals, RevokeCopies
<1> QED  BY <1>1, <1>3, RemovalRows, DeletionRuns, SweepRuns DEF WorkspaceInv

LEMMA RunKeeps ==
    ASSUME WorkspaceInv, NEW r \in Turns,
           \/ \E S \in SUBSET Files \ {{}} : Prepare(r, S)
           \/ EnsureRead(r) \/ EnsureCommit(r) \/ Execute(r) \/ Finish(r) \/ TurnFails(r)
           \/ \E a \in Files : Unmount(r, a) \/ Mount(r, a)
    PROVE  WorkspaceInv'
<1>1. WorkspaceRows /\ OriginalsInv /\ SoleRun /\ OutputsInv /\ CopiesInv
  BY DEF WorkspaceInv
<1>2. WorkspaceRows' /\ CopiesInv'
  BY <1>1, RunRows, RunCopies
<1>3. SoleRun' /\ OutputsInv'
  BY <1>1, StepRuns
<1>4. UNCHANGED <<att, file, job, sweeper>>
  BY DEF Prepare, EnsureRead, EnsureCommit, Execute, Finish, TurnFails, Unmount, Mount
<1>5. OriginalsInv'
  BY <1>1, <1>4, OriginalsFrame
<1> QED  BY <1>2, <1>3, <1>5 DEF WorkspaceInv

LEMMA OutboxKeeps ==
    ASSUME WorkspaceInv, NEW s \in Sweepers,
           (\E j \in DOMAIN job : Claim(s, j)) \/ Erase(s) \/ EraseError(s) \/ Settle(s) \/ SweeperCrash(s)
    PROVE  WorkspaceInv'
<1>1. WorkspaceRows /\ OriginalsInv /\ SoleRun /\ OutputsInv /\ CopiesInv
  BY DEF WorkspaceInv
<1>2. WorkspaceRows' /\ OriginalsInv' /\ CopiesInv'
  BY <1>1, OutboxRows, OutboxOriginals, EraseCopies, OutboxCopies
<1>3. UNCHANGED <<att, turn, art, mishap>>
  BY DEF Claim, Erase, EraseError, Settle, SweeperCrash
<1>4. SoleRun' /\ OutputsInv'
  BY <1>1, <1>3, RunsKept
<1> QED  BY <1>2, <1>4 DEF WorkspaceInv

LEMMA TimeKeeps ==
    ASSUME WorkspaceInv,
           \/ \E j \in DOMAIN job : LeaseLapse(j) \/ RetryDue(j)
           \/ WorkspaceIdle \/ (\E b \in Boxes : BoxExpires(b)) \/ (\E r \in Turns : ArtifactExpires(r))
           \/ \E x \in Files \cup {Conv} : PassActiveCheck(x)
    PROVE  WorkspaceInv'
<1>1. WorkspaceRows /\ OriginalsInv /\ SoleRun /\ OutputsInv /\ CopiesInv
  BY DEF WorkspaceInv
<1>2. WorkspaceRows' /\ CopiesInv' /\ UNCHANGED <<att, file, sweeper, turn, mishap>> /\ DOMAIN job' = DOMAIN job
  BY <1>1, TimeRows, TimeCopies
<1>3. OriginalsInv'
  BY <1>1, <1>2, OriginalsFrame
<1>4. \A r \in Turns : art'[r] = "available" => art[r] = "available"
  <2>1. art' = art \/ \E r \in Turns : art' = [art EXCEPT ![r] = "expired"]
    BY DEF LeaseLapse, RetryDue, WorkspaceIdle, BoxExpires, ArtifactExpires, PassActiveCheck
  <2> QED  BY <1>1, <2>1 DEF WorkspaceRows
<1>5. SoleRun' /\ OutputsInv'
  BY <1>1, <1>2, <1>4, RunsKept
<1> QED  BY <1>2, <1>3, <1>5 DEF WorkspaceInv

LEMMA WorkspaceStep == WorkspaceInv /\ [WorkspaceNext]_wvars => WorkspaceInv'
<1> SUFFICES ASSUME WorkspaceInv, [WorkspaceNext]_wvars PROVE WorkspaceInv'
  OBVIOUS
<1>1. WorkspaceRows /\ OriginalsInv /\ SoleRun /\ OutputsInv /\ CopiesInv
  BY DEF WorkspaceInv
<1>2. ASSUME NEW a \in Files,
             UploadFile(a) \/ UploadCommit(a) \/ UploadLost(a) \/ MarkExpired(a) \/ Late(a, "unused") \/ Late(a, "expired")
      PROVE  WorkspaceInv'
  BY <1>1, <1>2, UploadRows, UploadOriginals, UploadRuns, UploadCopies DEF WorkspaceInv
<1>3. ASSUME DeleteConversation PROVE WorkspaceInv'
  BY <1>1, <1>3, ConversationRows, ConversationOriginals, ConversationRuns, ConversationCopies DEF WorkspaceInv
<1>4. CASE UNCHANGED wvars
  BY <1>4 DEF wvars, WorkspaceInv, WorkspaceRows, OriginalsInv, SoleRun, AtWork, OutputsInv, CopiesInv, Named,
     NumberedBoxes, HeldRows, CopiesNamed, ErasedCopies, RestInv, NotMounting, RowOf, Copies, Revoked,
     RunInv, PreparedInv, MountingInv, MountedIn, ReadyInv, SeenBy
<1> QED  BY <1>2, <1>3, <1>4, RemovalKeeps, OutboxKeeps, TimeKeeps, RunKeeps DEF WorkspaceNext

LEMMA WorkspaceSafe == WorkspaceInv => ErasureSound
<1> SUFFICES ASSUME WorkspaceInv PROVE ErasureSound
  OBVIOUS
<1>1. FileErasureQueued
  BY DEF WorkspaceInv, OriginalsInv, FileErasureQueued, Revoked
<1>2. CopiesExact
  BY DEF WorkspaceInv, CopiesInv, RunInv, ReadyInv, SeenBy, Copies, CopiesExact
<1>3. DerivedRevoked
  BY DEF WorkspaceInv, OutputsInv, DerivedRevoked
<1> QED  BY <1>1, <1>2, <1>3 DEF ErasureSound

\* revoke_attachment, delete_conversation_tree, cleanup_once and _ensure_workspace: for any
\* number of attachments, runs, containers and overlapping sweeps, an original is queued for
\* erasure from its revocation on, a run executes on the copies it selected and nothing
\* derived from a removed file is served.
THEOREM ErasureIsSound == WorkspaceSpec => []ErasureSound
<1>1. WorkspaceInit => WorkspaceInv
  BY WorkspaceStart
<1>2. WorkspaceInv /\ [WorkspaceNext]_wvars => WorkspaceInv'
  BY WorkspaceStep
<1>3. WorkspaceInv => ErasureSound
  BY WorkspaceSafe
<1> QED  BY <1>1, <1>2, <1>3, PTL DEF WorkspaceSpec
=============================================================================

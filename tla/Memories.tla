------------------------------ MODULE Memories ------------------------------
(***************************************************************************)
(* The long-term memory of one user: my_agents/memory/service.py,          *)
(* policy.py, store_projection.py and runtime.py behind                    *)
(* my_agents/api/memories.py.                                              *)
(*                                                                         *)
(* The database governs; a Store (external, a semantic index) holds a      *)
(* projection of it that is written after the commit, as far as it         *)
(* succeeds.  A handler loads a row, checks it and updates by primary key  *)
(* the columns it has changed, so two handlers of one row overlap.         *)
(***************************************************************************)
EXTENDS Naturals, FiniteSets

CONSTANTS
    Memos,         \* memory rows
    Suggestions,   \* suggestion rows
    Requests,      \* API calls and recalls in flight
    Texts,         \* what a memory may say
    Sensitive,     \* the texts that match a sensitive pattern
    Preferences,   \* the texts that have the shape of a preference
    Blank          \* the text of a scrubbed row

ASSUME MemoriesAssumption == Sensitive \subseteq Texts /\ Preferences \subseteq Texts /\ Blank \notin Texts

Categories == {"stable_preference", "project_context", "document_derived_fact"}

VARIABLES
    enabled,   \* UserMemorySettingsModel.enabled
    memo,      \* UserMemoryModel rows
    sugg,      \* MemorySuggestionModel rows
    store,     \* the projected memories
    req,       \* requests in flight, with the row they have loaded
    recalled,  \* the memories of the last recall
    deleted    \* history: the memories that were ever deleted

uvars == <<enabled, memo, sugg, store, req, recalled, deleted>>

NoMemo == [status |-> "none", text |-> Blank, category |-> "project_context", sourced |-> FALSE, stale |-> FALSE]
NoSuggestion == [status |-> "none", text |-> Blank, category |-> "project_context", due |-> FALSE]
NoRequest == [op |-> "idle", at |-> "idle", row |-> NoMemo, of |-> Blank, found |-> {}]

MemoriesInit ==
    /\ enabled = FALSE
    /\ memo = [m \in Memos |-> NoMemo]
    /\ sugg = [s \in Suggestions |-> NoSuggestion]
    /\ store = {}
    /\ req = [c \in Requests |-> NoRequest]
    /\ recalled = {} /\ deleted = {}

\* The rows that may enter a provider's context, and that the Store should hold.
Eligible(m) == enabled /\ memo[m].status = "active" /\ ~memo[m].stale

End(c) == req' = [req EXCEPT ![c] = NoRequest]
Idle(c) == req[c].op = "idle"

-----------------------------------------------------------------------------
(* The policy. *)

\* Fault: a suggestion is not screened, since the user confirms it.
AllowedUnscreened(text, category, sourced, mode) ==
    /\ text \notin Sensitive \/ mode = "suggest_confirm"
    /\ category = "stable_preference" => text \in Preferences
    /\ category = "document_derived_fact" => sourced

\* evaluate_memory_write; every category may be stored automatically.
Allowed(text, category, sourced, mode) ==
    /\ text \notin Sensitive
    /\ category = "stable_preference" => text \in Preferences
    /\ category = "document_derived_fact" => sourced

-----------------------------------------------------------------------------
(* Settings and suggestions. *)

\* Pending suggestions whose time has come are expired and scrubbed by every
\* request of the user that touches memory.
Swept == [s \in Suggestions |->
            IF sugg[s].status = "pending" /\ sugg[s].due
            THEN [sugg[s] EXCEPT !.status = "expired", !.text = Blank] ELSE sugg[s]]

\* reconcile_memory_store(apply): what is missing is written, what is orphaned removed.
Reconciled(on) == {m \in Memos : on /\ memo[m].status = "active" /\ ~memo[m].stale}

\* patch_memory_settings: reconciling is best effort.
SetEnabled(on) ==
    /\ enabled' = on
    /\ sugg' = Swept
    /\ store' \in {store, Reconciled(on)}
    /\ UNCHANGED <<memo, req, recalled, deleted>>

\* The operator's script reconciles as well.
Reconcile ==
    /\ store' = Reconciled(enabled)
    /\ UNCHANGED <<enabled, memo, sugg, req, recalled, deleted>>

Suggest(s, text, category) ==
    /\ enabled /\ sugg[s].status = "none"
    /\ Allowed(text, category, FALSE, "suggest_confirm")
    /\ sugg' = [Swept EXCEPT ![s] = [status |-> "pending", text |-> text, category |-> category, due |-> FALSE]]
    /\ UNCHANGED <<enabled, memo, store, req, recalled, deleted>>

SuggestionDue(s) ==
    /\ sugg[s].status = "pending" /\ ~sugg[s].due
    /\ sugg' = [sugg EXCEPT ![s].due = TRUE]
    /\ UNCHANGED <<enabled, memo, store, req, recalled, deleted>>

\* confirm and reject load the suggestion while it is pending.
LoadSuggestion(c, op, s) ==
    /\ Idle(c) /\ op \in {"confirm", "reject"} /\ sugg[s].status = "pending"
    /\ req' = [req EXCEPT ![c] = [NoRequest EXCEPT !.op = op, !.at = "loaded", !.of = s,
                 !.row = [NoMemo EXCEPT !.text = sugg[s].text, !.category = sugg[s].category]]]
    /\ UNCHANGED <<enabled, memo, sugg, store, recalled, deleted>>

Decide(s, status) == sugg' = [sugg EXCEPT ![s].status = status, ![s].text = Blank]

RejectSuggestion(c) ==
    /\ req[c].op = "reject"
    /\ Decide(req[c].of, IF sugg[req[c].of].due THEN "expired" ELSE "rejected")
    /\ End(c)
    /\ UNCHANGED <<enabled, memo, store, recalled, deleted>>

\* The memory is made of what was loaded.
ConfirmSuggestion(c, m) ==
    /\ req[c].op = "confirm" /\ req[c].at = "loaded" /\ memo[m].status = "none"
    /\ IF sugg[req[c].of].due \/ ~enabled
       THEN /\ IF sugg[req[c].of].due THEN Decide(req[c].of, "expired") ELSE UNCHANGED sugg
            /\ End(c) /\ UNCHANGED memo
       ELSE /\ memo' = [memo EXCEPT ![m] = [req[c].row EXCEPT !.status = "active"]]
            /\ Decide(req[c].of, "confirmed")
            /\ req' = [req EXCEPT ![c].at = "project", ![c].of = m]
    /\ UNCHANGED <<enabled, store, recalled, deleted>>

-----------------------------------------------------------------------------
(* Memories. *)

\* store_explicit_memory, and auto_store_memory for the service's own callers.
StoreMemory(c, m, text, category, sourced, mode) ==
    /\ Idle(c) /\ enabled /\ memo[m].status = "none"
    /\ Allowed(text, category, sourced, mode)
    /\ memo' = [memo EXCEPT ![m] = [status |-> "active", text |-> text, category |-> category,
                                    sourced |-> sourced, stale |-> FALSE]]
    /\ sugg' = Swept
    /\ req' = [req EXCEPT ![c] = [NoRequest EXCEPT !.op = "create", !.at = "project", !.of = m]]
    /\ UNCHANGED <<enabled, store, recalled, deleted>>

\* deactivate and delete load the row, unless it is deleted.
LoadMemory(c, op, m) ==
    /\ Idle(c) /\ op \in {"deactivate", "delete"} /\ memo[m].status \in {"active", "inactive"}
    /\ req' = [req EXCEPT ![c] = [NoRequest EXCEPT !.op = op, !.at = "loaded", !.of = m, !.row = memo[m]]]
    /\ sugg' = Swept
    /\ UNCHANGED <<enabled, memo, store, recalled, deleted>>

\* Fault: the whole row is written back.
DeactivatedRow(m, row) == [row EXCEPT !.status = "inactive"]

\* The columns that changed are written: status and times.
Deactivated(m, row) == [memo[m] EXCEPT !.status = IF row.status = "inactive" THEN @ ELSE "inactive"]

Deactivate(c) ==
    /\ req[c].op = "deactivate" /\ req[c].at = "loaded"
    /\ memo' = [memo EXCEPT ![req[c].of] = Deactivated(req[c].of, req[c].row)]
    /\ req' = [req EXCEPT ![c].at = "unproject"]
    /\ UNCHANGED <<enabled, sugg, store, recalled, deleted>>

\* delete_memory scrubs the row.
Delete(c) ==
    /\ req[c].op = "delete" /\ req[c].at = "loaded"
    /\ memo' = [memo EXCEPT ![req[c].of].status = "deleted", ![req[c].of].text = Blank]
    /\ deleted' = deleted \cup {req[c].of}
    /\ req' = [req EXCEPT ![c].at = "unproject"]
    /\ UNCHANGED <<enabled, sugg, store, recalled>>

\* _project_best_effort and _delete_projection_best_effort.
Project(c) ==
    /\ req[c].at = "project"
    /\ store' \in {store, store \cup {req[c].of}}
    /\ End(c)
    /\ UNCHANGED <<enabled, memo, sugg, recalled, deleted>>

Unproject(c) ==
    /\ req[c].at = "unproject"
    /\ store' \in {store, store \ {req[c].of}}
    /\ End(c)
    /\ UNCHANGED <<enabled, memo, sugg, recalled, deleted>>

\* mark_document_memories_stale and mark_transcript_memories_stale, with the removal
\* of the source; the projection is not touched.
SourceRemoved ==
    /\ memo' = [m \in Memos |-> IF memo[m].status = "active" /\ memo[m].sourced
                                THEN [memo[m] EXCEPT !.stale = TRUE] ELSE memo[m]]
    /\ UNCHANGED <<enabled, sugg, store, req, recalled, deleted>>

-----------------------------------------------------------------------------
(* Recall. *)

\* SqlAlchemyMemoryRuntime.search: the Store proposes ...
Search(c) ==
    /\ Idle(c)
    /\ \E found \in SUBSET store :
         req' = [req EXCEPT ![c] = [NoRequest EXCEPT !.op = "recall", !.at = "found", !.found = found]]
    /\ UNCHANGED <<enabled, memo, sugg, store, recalled, deleted>>

\* Fault: what the Store proposes is delivered.
RevalidatedNot(found) == found

\* ... and active_memories_by_ids_for_context decides.
Revalidated(found) == {m \in found : Eligible(m)}

Recall(c) ==
    /\ req[c].op = "recall"
    /\ recalled' = Revalidated(req[c].found)
    /\ End(c)
    /\ UNCHANGED <<enabled, memo, sugg, store, deleted>>

\* Without a Store: active_memories_for_context.
RecallFromRows(c) ==
    /\ Idle(c)
    /\ \E S \in SUBSET Memos : recalled' = Revalidated(S)
    /\ sugg' = Swept
    /\ UNCHANGED <<enabled, memo, store, req, deleted>>

MemoriesNext ==
    \/ \E on \in BOOLEAN : SetEnabled(on)
    \/ Reconcile \/ SourceRemoved
    \/ \E s \in Suggestions :
         SuggestionDue(s) \/ \E t \in Texts, k \in Categories : Suggest(s, t, k)
    \/ \E c \in Requests :
         \/ \E s \in Suggestions, op \in {"confirm", "reject"} : LoadSuggestion(c, op, s)
         \/ \E m \in Memos :
              \/ ConfirmSuggestion(c, m)
              \/ \E op \in {"deactivate", "delete"} : LoadMemory(c, op, m)
              \/ \E t \in Texts, k \in Categories, sourced \in BOOLEAN, mode \in {"explicit", "auto_store"} :
                   StoreMemory(c, m, t, k, sourced, mode)
         \/ RejectSuggestion(c) \/ Deactivate(c) \/ Delete(c) \/ Project(c) \/ Unproject(c)
         \/ Search(c) \/ Recall(c) \/ RecallFromRows(c)

MemoriesSpec == MemoriesInit /\ [][MemoriesNext]_uvars

-----------------------------------------------------------------------------
(* Properties. *)

\* delete_memory: once a memory was deleted, its text does not come back into its
\* row, whatever handlers had loaded it before.
DeletedStaysScrubbed == \A m \in deleted : memo[m].text = Blank

\* evaluate_memory_write: whichever way a memory came about, at once or by a
\* suggestion confirmed later, its text passed the policy.
OnlyAllowedStored ==
    \A m \in Memos : memo[m].status = "active" =>
      /\ memo[m].text \notin Sensitive
      /\ memo[m].category = "stable_preference" => memo[m].text \in Preferences
      /\ memo[m].category = "document_derived_fact" => memo[m].sourced

\* active_memories_by_ids_for_context: whatever the Store still holds after failed,
\* late or lost projections, a recall delivers only memories that are active, not
\* stale, and of a user who has memory enabled.
RecallGoverned ==
    [][recalled' # recalled => \A m \in recalled' : Eligible(m) /\ memo[m].text # Blank]_uvars

\* A deleted memory stays scrubbed, and only what may be stored is.
MemoriesSound == DeletedStaysScrubbed /\ OnlyAllowedStored
=============================================================================

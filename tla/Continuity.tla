----------------------------- MODULE Continuity -----------------------------
(***************************************************************************)
(* The context of a turn: my_agents/conversations/continuity.py.  A turn   *)
(* is given the recent messages of its conversation and a summary of the   *)
(* older ones.  When the recent messages no longer fit, a prefix of them   *)
(* is summarized by a model on another thread and the summary row is       *)
(* replaced, while the run may be stopped, the transcript cut by a retry,  *)
(* and a source that earlier replies rest on removed.                      *)
(*                                                                         *)
(* A message is its id, role, size in tokens and the source its text is    *)
(* derived from.  An entry of a summary is the message it cites, with a    *)
(* note whether its text was withheld from the model.                      *)
(***************************************************************************)
EXTENDS Naturals, SequencesExt, FiniteSetsExt

CONSTANTS
    Builds,         \* executions of context_events, one for each run
    Sources,        \* attachments and documents that replies rest on
    Linked,         \* the attachments among them that a run was asked about
    NoSource,
    Sizes,          \* the sizes of messages
    Ceiling,        \* 64: recent messages delivered
    TailLimit,      \* 65: messages read
    ScanLimit,      \* 128: answered runs whose sources are checked
    SuffixCeiling,  \* 32: recent messages that are never summarized
    RecentBudget,   \* context_recent_tokens
    SuffixBudget,   \* 8000
    PrefixBudget,   \* 16000: what one summary reads
    Rounds,         \* 2: summaries per turn
    MaxMessages     \* bound: messages written

ASSUME ContinuityAssumption ==
    /\ {Ceiling, TailLimit, ScanLimit, SuffixCeiling, RecentBudget, SuffixBudget, PrefixBudget, Rounds, MaxMessages}
         \subseteq Nat
    /\ 0 < Ceiling /\ Ceiling < TailLimit /\ TailLimit <= ScanLimit /\ SuffixCeiling > 0
    /\ Sizes \subseteq Nat \ {0} /\ NoSource \notin Sources /\ Linked \subseteq Sources

VARIABLES
    msgs,     \* the transcript
    written,  \* messages written so far
    gone,     \* the sources removed, or no longer authorized
    summary,  \* the ConversationSummaryModel row
    build,    \* context_events in flight, with what it has read
    status    \* AgentRunModel.status of each build's run

cvars == <<msgs, written, gone, summary, build, status>>

NoRow == [covered |-> 0, entries |-> {}]
NoBuild == [at |-> "new", all |-> << >>, tail |-> << >>, was |-> NoRow, row |-> NoRow, masked |-> {}, gone |-> {},
            prefix |-> << >>, round |-> 0, sel |-> << >>, incomplete |-> FALSE]

Ids(s) == {s[i].id : i \in DOMAIN s}
Tokens(s) == FoldSeq(LAMBDA m, n : m.size + n, 0, s)
LastN(s, n) == SubSeq(s, Len(s) - n + 1, Len(s))
Cited(row) == {e.id : e \in row.entries}
Running == \E b \in Builds : status[b] = "running"

ContinuityInit ==
    /\ msgs = << >> /\ written = 0 /\ gone = {}
    /\ summary = NoRow
    /\ build = [b \in Builds |-> NoBuild]
    /\ status = [b \in Builds |-> "new"]

-----------------------------------------------------------------------------
(* Selection. *)

\* select_recent: the longest suffix within a budget and a ceiling, the latest
\* message whatever its size, not starting with a reply.
SelectRecent(s, budget, ceiling) ==
    LET fits == {k \in 1..Len(s) : k = 1 \/ (Tokens(LastN(s, k)) <= budget /\ k <= ceiling)}
        kept == IF s = << >> THEN s ELSE LastN(s, Max(fits))
        starts == {i \in DOMAIN kept : i = Len(kept) \/ kept[i].role = "user"}
    IN  IF kept = << >> THEN kept ELSE SubSeq(kept, Min(starts), Len(kept))

\* The messages after the one a summary covers; they come in the order of their ids.
AfterCovered(s, covered) ==
    LET after == {i \in DOMAIN s : s[i].id > covered}
    IN  IF after = {} THEN << >> ELSE SubSeq(s, Min(after), Len(s))

\* Fault: the user half of a completed turn is covered by itself.
WholeTurnsNot(s) == s

\* The user half of a turn whose reply is not covered waits with it.
WholeTurns(s) == IF s # << >> /\ s[Len(s)].role = "user" THEN Front(s) ELSE s

\* What the next summary covers: the oldest messages after the boundary up to the
\* first that is protected or does not fit; nothing when they start with a reply.
Prefix(s, covered, protected) ==
    LET read == LET after == AfterCovered(s, covered) IN SubSeq(after, 1, Min({Len(after), TailLimit}))
        ok(n) == /\ Ids(SubSeq(read, 1, n)) \cap protected = {}
                 /\ Tokens(SubSeq(read, 1, n)) <= PrefixBudget
                 /\ read[1].role = "user"
    IN  WholeTurns(SubSeq(read, 1, Max({0} \cup {n \in 1..Len(read) : ok(n)})))

\* The replies that come after a message.
Later(s, i) == {j \in DOMAIN s : j > i /\ s[j].role = "assistant"}

\* Fault: the replies that the summary cites are not looked at.
ScannedRecent(s, row) == {s[i].id : i \in {j \in DOMAIN s : Cardinality(Later(s, j)) < ScanLimit}}

\* The replies whose sources are looked at: the newest ones, and those that the
\* summary cites.
Scanned(s, row) == {s[i].id : i \in {j \in DOMAIN s : Cardinality(Later(s, j)) < ScanLimit}} \cup Cited(row)

\* hidden_source_message_ids: the replies that are known to rest on a lost source.  A
\* run's own attachments are looked up for every run, other sources for those scanned.
HiddenMessages(s, row, lost) ==
    {s[i].id : i \in {j \in DOMAIN s : /\ s[j].source \in lost
                                      /\ (s[j].source \in Linked \/ s[j].id \in Scanned(s, row))}}

\* Fault: an entry is kept once its row is written.
FilteredNot(entries, hidden) == entries

\* filtered_summary.
Filtered(entries, hidden) == {e \in entries : e.id \notin hidden}

TooLong(s) == Len(s) > Ceiling \/ Tokens(s) > RecentBudget

-----------------------------------------------------------------------------
(* The transcript. *)

Append1(role, size, source) ==
    /\ written < MaxMessages
    /\ written' = written + 1
    /\ msgs' = Append(msgs, [id |-> written + 1, role |-> role, size |-> size, source |-> source])

\* A turn is admitted: its message is stored and its run starts.
Ask(b, size) ==
    /\ ~Running /\ status[b] = "new"
    /\ Append1("user", size, NoSource)
    /\ status' = [status EXCEPT ![b] = "running"]
    /\ UNCHANGED <<gone, summary, build>>

\* The run that was given a context replies, from a source that was there when its
\* turn began and may have gone since.
Reply(b, size, source) ==
    /\ status[b] = "running" /\ build[b].at = "delivered"
    /\ source \notin build[b].gone
    /\ Append1("assistant", size, source)
    /\ status' = [status EXCEPT ![b] = "completed"]
    /\ UNCHANGED <<gone, summary, build>>

\* A stop, a failure or the reaper: the thread that builds the context goes on.
StopRun(b) ==
    /\ status[b] = "running"
    /\ status' = [status EXCEPT ![b] = "ended"]
    /\ UNCHANGED <<msgs, written, gone, summary, build>>

\* invalidate_summary(from_message).
Invalidated(from) == IF summary.covered # 0 /\ from > summary.covered THEN summary ELSE NoRow

\* prune_transcript, before a retry or an edit: the messages from one on go.
Prune(i) ==
    /\ ~Running /\ i \in DOMAIN msgs /\ msgs[i].role = "user"
    /\ summary' = Invalidated(msgs[i].id)
    /\ msgs' = SubSeq(msgs, 1, i - 1)
    /\ UNCHANGED <<written, gone, build, status>>

\* A document is deleted or its grant withdrawn; an attachment is deleted, which
\* drops the summary too.
RemoveSource(x, attachment) ==
    /\ x \notin gone /\ (x \in Linked => attachment)
    /\ gone' = gone \cup {x}
    /\ summary' = IF attachment THEN NoRow ELSE summary
    /\ UNCHANGED <<msgs, written, build, status>>

-----------------------------------------------------------------------------
(* context_events. *)

Recent(t) == AfterCovered(t.tail, t.row.covered)

\* The context is complete: what is delivered, and whether history is missing.
Delivered(t) ==
    LET recent == Recent(t)
        sel == SelectRecent(recent, RecentBudget, Ceiling)
    IN  [t EXCEPT !.at = "delivered", !.prefix = << >>, !.sel = sel,
                  !.incomplete = \/ recent # << >> /\ sel[1].id # recent[1].id
                                 \/ Len(t.tail) = TailLimit /\ t.row.covered = 0]

\* One round of compaction: the prefix is handed to the model, or the compaction
\* has failed because there is none.
Compact(t) ==
    LET protected == Ids(SelectRecent(t.tail, SuffixBudget, SuffixCeiling))
        prefix == Prefix(msgs, t.row.covered, protected)
    IN  IF prefix = << >> THEN Delivered(t)
        ELSE [t EXCEPT !.at = "summarizing", !.prefix = prefix, !.round = @ + 1]

\* Fault: no more messages are read than can be delivered.
TailToCeiling(s) == LastN(s, Min({Len(s), Ceiling}))

\* One message more is read than can be delivered.
Tail65(s) == LastN(s, Min({Len(s), TailLimit}))

\* The row is used if the message it covers still exists, and is dropped otherwise.
BeginContext(b) ==
    /\ status[b] = "running" /\ build[b].at = "new"
    /\ LET row == IF summary.covered \in Ids(msgs) THEN summary ELSE NoRow
           t == [NoBuild EXCEPT !.all = msgs, !.tail = Tail65(msgs),
                                !.was = row, !.row = row,
                                !.masked = HiddenMessages(msgs, row, gone), !.gone = gone]
       IN  /\ summary' = row
           /\ build' = [build EXCEPT ![b] = IF TooLong(Recent(t)) THEN Compact(t) ELSE Delivered(t)]
    /\ UNCHANGED <<msgs, written, gone, status>>

\* The model returns: it cites only messages it was shown; what it was shown of a
\* masked reply was withheld.
Summarized(t, cites) ==
    [covered |-> t.prefix[Len(t.prefix)].id,
     entries |-> {e \in Filtered(t.row.entries, t.masked) : e.id \in cites}
                   \cup {[id |-> i, withheld |-> i \in t.masked] : i \in cites \cap Ids(t.prefix)}]

Unchanged(b) == msgs # << >> /\ msgs[Len(msgs)].id = build[b].tail[Len(build[b].tail)].id /\ status[b] = "running"

\* The summary is written if the latest message is still the one the build started
\* with and the run still runs; a row that has gone since cannot be updated.
Summarize(b, cites) ==
    LET t == build[b]
        row == Summarized(t, cites)
        next == [t EXCEPT !.row = row, !.prefix = << >>]
    IN  /\ t.at = "summarizing" /\ Unchanged(b)
        /\ t.row.covered # 0 => summary.covered # 0
        /\ summary' = row
        /\ build' = [build EXCEPT ![b] =
             IF TooLong(Recent(next)) /\ t.round < Rounds THEN Compact(next) ELSE Delivered(next)]
        /\ UNCHANGED <<msgs, written, gone, status>>

\* Timeout, provider error, an unknown citation, a summary over its budget, or a
\* transcript or a run that changed: what there is is delivered.
SummarizeFails(b) ==
    /\ build[b].at = "summarizing"
    /\ build' = [build EXCEPT ![b] = Delivered(build[b])]
    /\ UNCHANGED <<msgs, written, gone, summary, status>>

\* The run is found to have ended while the model is at work: the recent messages are
\* returned as they are, without the summary and without the masks.
AbandonContext(b) ==
    /\ build[b].at = "summarizing" /\ status[b] # "running"
    /\ build' = [build EXCEPT ![b].at = "abandoned", ![b].prefix = << >>,
                              ![b].sel = SelectRecent(Recent(build[b]), RecentBudget, Ceiling)]
    /\ UNCHANGED <<msgs, written, gone, summary, status>>

ContinuityNext ==
    \/ \E b \in Builds :
         \/ \E n \in Sizes : Ask(b, n) \/ \E x \in Sources \cup {NoSource} : Reply(b, n, x)
         \/ StopRun(b) \/ BeginContext(b) \/ SummarizeFails(b) \/ AbandonContext(b)
         \/ \E cites \in SUBSET (Ids(build[b].prefix) \cup {e.id : e \in build[b].row.entries}) :
              Summarize(b, cites)
    \/ \E i \in 1..MaxMessages : Prune(i)
    \/ \E x \in Sources, attachment \in BOOLEAN : RemoveSource(x, attachment)

ContinuitySpec == ContinuityInit /\ [][ContinuityNext]_cvars

-----------------------------------------------------------------------------
(* Properties. *)

DeliveredTo(b) == build[b].at = "delivered"

\* context_events: a turn is given its own message, and every message of the
\* transcript it started from is delivered or is covered by the summary that is
\* delivered, or the turn is told that its history is incomplete.
HistoryHonest ==
    \A b \in Builds : DeliveredTo(b) =>
      LET t == build[b] IN
      /\ t.all[Len(t.all)].id \in Ids(t.sel)
      /\ t.incomplete \/ \A m \in Range(t.all) : m.id <= t.row.covered \/ m.id \in Ids(t.sel)

\* The replies that rest on a source removed before the turn of a build began.
Derived(t) == {m.id : m \in {x \in Range(t.all) : x.source \in t.gone}}

\* What hidden_source_message_ids cannot know of: a reply older than the answers it
\* scans, not on an attachment of its run, and not cited by the summary of the time.
OutOfScan(t, i) ==
    /\ i \notin Cited(t.was)
    /\ \E k \in DOMAIN t.all : /\ t.all[k].id = i /\ t.all[k].source \notin Linked
                              /\ Cardinality(Later(t.all, k)) >= ScanLimit

\* hidden_source_message_ids and filtered_summary: of a turn's text derived from a source
\* that was removed before it began, every message it is given is masked; no entry of the
\* summary it is given has any, nor was any handed to the model that wrote a summary
\* for it, except of replies that are out of the scan.
RemovedSourceWithheld ==
    \A b \in Builds : DeliveredTo(b) =>
      LET t == build[b] IN
      /\ \A m \in Range(t.sel) : m.id \in Derived(t) => m.id \in t.masked
      /\ \A e \in Filtered(t.row.entries, t.masked) : e.id \in Derived(t) => OutOfScan(t, e.id)
      /\ t.row # t.was => \A e \in t.row.entries : e.id \in Derived(t) => e.withheld \/ OutOfScan(t, e.id)

\* context_events: a boundary never separates a message of the user from its reply.
TurnsCoveredWhole ==
    \A i \in 1..(Len(msgs) - 1) :
      msgs[i].id = summary.covered => ~(msgs[i].role = "user" /\ msgs[i + 1].role = "assistant")

\* The context of a turn accounts for every message before it, covers turns whole, and
\* withholds what came from a removed source.
ContextSound == HistoryHonest /\ RemovedSourceWithheld /\ TurnsCoveredWhole
=============================================================================

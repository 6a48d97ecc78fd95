----------------------------- MODULE DirectRuns -----------------------------
(***************************************************************************)
(* The runs that a request executes itself, without a durable job:         *)
(* endpoints/runs.py, stream.py and replay.py and their shared lifecycle   *)
(* in run_lifecycle.py, interactions.py and transcripts.py under           *)
(* my_agents/api/conversations/.  One conversation; requests send a        *)
(* message, regenerate an answer or resume a waiting run, answer at once   *)
(* or stream, and each owns a database session.  Meanwhile the run may be  *)
(* stopped, swept as stale, paused for a document selection, or cut off by *)
(* a client that goes away, a process that dies or a row that is pruned.   *)
(*                                                                         *)
(* The agent graph is external: it emits updates, answer deltas and one    *)
(* result, or raises.  Runs are numbered in the order of their admission.  *)
(***************************************************************************)
EXTENDS Naturals, Sequences, SequencesExt, FiniteSetsExt

CONSTANTS
    Askers,     \* requests that execute runs
    Modes,      \* the endpoints they call
    MaxDeltas,  \* bound: deltas the graph streams to one request
    MaxPauses   \* bound: interrupts of one run

ASSUME DirectAssumption ==
    /\ Modes \subseteq {"sync", "stream", "syncreplay", "replay", "syncresume", "resume"}
    /\ MaxDeltas \in Nat /\ MaxPauses \in Nat

VARIABLES
    run,    \* AgentRunModel rows, in the order of their creation
    text,   \* the MessageModel rows of the conversation; at: created_at
    ask,    \* the requests in flight, with what each has read
    stop,   \* a cancel request between its read and its write
    sweep   \* a stale-run cleanup between its read and its write

tvars == <<run, text, ask, stop, sweep>>

Streams == {"stream", "replay", "resume"}
Replays == {"syncreplay", "replay"}
Resumes == {"syncresume", "resume"}
Contexts == {"answer", "clarify", "insufficient"}
ActiveRunStatuses == {"running", "waiting", "cancelling"}

NoAsk == [at |-> "idle", mode |-> "none", run |-> 0, pause |-> 0, found |-> "none", context |-> "none",
          invoked |-> FALSE, deltas |-> 0, item |-> "none", result |-> "none", stored |-> 0,
          target |-> 0, removed |-> {}, since |-> 0, wire |-> << >>]
NoStop == [run |-> 0, seen |-> "none"]

DirectInit ==
    /\ run = << >> /\ text = {}
    /\ ask = [q \in Askers |-> NoAsk]
    /\ stop = NoStop /\ sweep = << >>

Ids == DOMAIN run
There(r) == run[r].status # "gone"
IsActive(r) == run[r].status \in ActiveRunStatuses
IsRunCancelling(r) == run[r].status = "cancelling"

\* uq_agent_runs_active_conversation: a second active run is refused.
IndexAdmits(r) == \A o \in Ids \ {r} : ~IsActive(o)

Say(x, frames) == IF x.mode \in Streams THEN [x EXCEPT !.wire = @ \o frames] ELSE x
To(q, x) == ask' = [ask EXCEPT ![q] = x]

\* A request ends; what it has stored and sent is history.
End(q, x) == To(q, [NoAsk EXCEPT !.at = "done", !.mode = x.mode, !.run = x.run, !.stored = x.stored, !.wire = x.wire])

\* A status is written; ends other than a stop that finds it running clear the interaction.
Write(r, status) ==
    run' = [run EXCEPT ![r].status = status,
                       ![r].expiry = IF status \in {"completed", "failed"} THEN "none" ELSE @]

\* mark_run_cancelled, and the frame that tells the client.
MarkCancelled(q, x) ==
    /\ There(x.run)
    /\ Write(x.run, "cancelled")
    /\ End(q, Say(x, <<"cancelled">>))
    /\ UNCHANGED <<text, stop, sweep>>

-----------------------------------------------------------------------------
(* Admission *)

\* A message comes after all others.
Latest(id, r, prompt) ==
    [id |-> id, who |-> id[1], run |-> r, prompt |-> prompt, after |-> Len(run),
     at |-> 1 + Max({0} \cup {m.at : m \in text})]

Questions == {m \in text : m.who = "user"}
Answers == {m \in text : m.who = "assistant"}

\* What a replay removes: the answer it regenerates and all that followed when it was read.
Suffix(m) == {x.id : x \in {y \in text : y.at >= m.at}}

\* preceding_user_message: the prompt to answer again is the last before the answer.
Preceding(m) == {x \in Questions : x.at < m.at /\ \A y \in Questions : y.at < m.at => y.at <= x.at}

\* replay_context_for_request: the transcript is read before the run is admitted.
ReadReplay(q) ==
    /\ ask[q].at = "idle"
    /\ \A r \in Ids : ~IsActive(r)
    /\ \E mode \in Modes \cap Replays, m \in Answers : \E x \in Preceding(m) :
         To(q, [NoAsk EXCEPT !.at = "read", !.mode = mode, !.target = x.prompt, !.removed = Suffix(m),
                  !.since = IF m.run \in Ids /\ There(m.run) THEN m.run ELSE m.after + 1])
    /\ UNCHANGED <<run, text, stop, sweep>>

\* Whether the transcript a replay has read is out of date: a message was sent since, an
\* earlier replay is about to remove the prompt, or the answer is to another prompt, whose
\* replay never removed what lies between.
Overtaken(x) ==
    \E m \in Questions : m.prompt = x.target /\
        \/ \E y \in Questions : y.at > m.at /\ y.id \notin x.removed
        \/ \E o \in Askers : ask[o].at = "prune" /\ m.id \in ask[o].removed
        \/ \A y \in Answers : y.prompt # x.target

\* admit_run: the message, the run and its first events in one transaction.  (late:
\* history, a replay was overtaken.)
Admit(q) ==
    LET r == Len(run) + 1
        x == [ask[q] EXCEPT !.run = r, !.at = IF @ = "idle" THEN "start" ELSE "graph"]
    IN  /\ IndexAdmits(r)
        /\ \/ /\ ask[q].at = "read"
              /\ \E m \in Questions : m.prompt = x.target
              /\ text' = text /\ To(q, x)
              /\ run' = Append(run, [status |-> "running", prompt |-> x.target, pauses |-> 0,
                                     expiry |-> "none", aged |-> FALSE, late |-> Overtaken(x)])
           \/ /\ ask[q].at = "idle"
              /\ \E mode \in Modes \ (Replays \cup Resumes) : To(q, [x EXCEPT !.mode = mode])
              /\ text' = text \cup {Latest(<<"user", r, 0>>, r, r)}
              /\ run' = Append(run, [status |-> "running", prompt |-> r, pauses |-> 0,
                                     expiry |-> "none", aged |-> FALSE, late |-> FALSE])
        /\ UNCHANGED <<stop, sweep>>

\* prepare_conversation_run_resume reads the row: the interaction may have expired, or
\* belong to another version of the graph.
ReadResume(q) ==
    /\ ask[q].at = "idle"
    /\ \E mode \in Modes \cap Resumes, r \in Ids :
         /\ run[r].status = "waiting"
         /\ \E at \in IF run[r].expiry = "set" THEN {"claim", "reject"} ELSE {"expire"} :
              To(q, [NoAsk EXCEPT !.at = at, !.mode = mode, !.run = r, !.pause = run[r].pauses])
    /\ UNCHANGED <<run, text, stop, sweep>>

\* ... and ends the run it read, with 409: an expired one is cancelled whatever it has become
\* since (mark_run_cancelled), one of another version fails if it is active still
\* (persist_failed_run).
RefuseResume(q) ==
    LET x == ask[q]
        r == x.run
    IN  /\ x.at \in {"expire", "reject"}
        /\ CASE x.at = "expire" /\ There(r) -> run' = [run EXCEPT ![r].status = "cancelled", ![r].expiry = "none"]
             [] x.at = "reject" /\ IsActive(r) -> Write(r, "failed")
             [] OTHER -> run' = run
        /\ End(q, x)
        /\ UNCHANGED <<text, stop, sweep>>

\* Fault: the update does not repeat the conditions that were checked.
ClaimableAny(x) == There(x.run)

\* The conditions of the claiming UPDATE.
Claimable(x) == run[x.run].status = "waiting" /\ run[x.run].pauses = x.pause

\* prepare_conversation_run_resume, its claim; a refused request ends with 409.
ClaimResume(q) ==
    LET x == ask[q]
    IN  /\ x.at = "claim"
        /\ IF Claimable(x)
           THEN run' = [run EXCEPT ![x.run].status = "running"] /\ To(q, [x EXCEPT !.at = "graph"])
           ELSE run' = run /\ End(q, x)
        /\ UNCHANGED <<text, stop, sweep>>

-----------------------------------------------------------------------------
(* Execution *)

\* The context is built; a stream first announces the run and asks whether it was stopped.
Start(q) ==
    LET x == ask[q]
    IN  /\ x.at = "start"
        /\ IF x.mode = "stream" /\ There(x.run) /\ IsRunCancelling(x.run)
           THEN MarkCancelled(q, x)
           ELSE To(q, [x EXCEPT !.at = "graph"]) /\ UNCHANGED <<run, text, stop, sweep>>

\* Fault: the first context is recorded whenever an item carries one.
RecordsAlways(x, item, found) == item # "delta" /\ found # "none"

\* Whether an item brings the retrieval context that is not recorded yet.
Records(x, item, found) == item # "delta" /\ x.context = "none" /\ found # "none"

\* A replay asks for no selection, and a pause needs a selection that is offered.
MayPause(x) == x.mode \notin Replays /\ run[x.run].pauses < MaxPauses

\* stream_graph_items: updates carry what the graph has found, a delta only its text, and the
\* result ends the stream with a reply or an interrupt, or it raises.
Emits(x) ==
    [item : {"update"}, found : IF x.found = "none" THEN Contexts ELSE {x.found}, result : {"none"}]
    \cup [item : {"delta"}, found : {x.found}, result : {"none"}]
    \cup [item : {"result"}, found : IF x.found = "none" THEN Contexts \cup {"none"} ELSE {x.found},
          result : {"reply"} \cup (IF MayPause(x) THEN {"interrupt"} ELSE {})]

\* stream_resumed_graph_items: the result is the checkpoint's state, with a reply or without.
EmitsResumed(x) == Emits(x) \cup {[e EXCEPT !.result = "bare"] : e \in {f \in Emits(x) : f.result = "reply"}}

\* The graph emits an item; a context that it brings for the first time is recorded.
GraphItem(q) ==
    LET x == ask[q]
    IN  /\ x.at = "graph" /\ x.mode \in Streams
        /\ \E e \in IF x.mode = "resume" THEN EmitsResumed(x) ELSE Emits(x) :
             LET y == [x EXCEPT !.item = e.item, !.found = e.found, !.result = e.result]
             IN  /\ e.item = "update" => ~x.invoked
                 /\ e.item = "delta" => x.deltas < MaxDeltas
                 /\ Records(x, e.item, e.found) => There(x.run)
                 /\ To(q, IF Records(x, e.item, e.found)
                          THEN [Say(y, <<"retrieval">>) EXCEPT !.context = e.found, !.at = "recorded"]
                          ELSE [y EXCEPT !.at = "item"])
        /\ UNCHANGED <<run, text, stop, sweep>>

\* A stream asks after a new context whether the run was stopped.
Recorded(q) ==
    LET x == ask[q]
    IN  /\ x.at = "recorded"
        /\ IF x.mode = "stream" /\ There(x.run) /\ IsRunCancelling(x.run)
           THEN MarkCancelled(q, x)
           ELSE To(q, [x EXCEPT !.at = "item"]) /\ UNCHANGED <<run, text, stop, sweep>>

\* An answer may not come before its retrieval; only a stream's first phase may pause before it.
Premature(x) ==
    /\ x.mode # "resume" /\ x.context = "none" /\ x.item \in {"delta", "result"}
    /\ ~(x.mode = "stream" /\ x.result = "interrupt")

\* Whether an item makes the stream record GRAPH_INVOKED: an update does once the graph has
\* loaded memories, a result that is no answer does not.
Invokes(x, memories) ==
    /\ x.context # "none" /\ ~x.invoked
    /\ x.mode # "resume" =>
         /\ x.item = "update" => memories
         /\ x.item = "result" => x.context = "answer"

ItemInvokes(q) ==
    LET x == ask[q]
    IN  /\ x.at = "item" /\ ~Premature(x)
        /\ \E memories \in BOOLEAN :
             /\ Invokes(x, memories) => There(x.run)
             /\ To(q, IF Invokes(x, memories) THEN [Say(x, <<"invoked">>) EXCEPT !.invoked = TRUE, !.at = "deliver"]
                                              ELSE [x EXCEPT !.at = "deliver"])
        /\ UNCHANGED <<run, text, stop, sweep>>

\* Where a stream's handler of an item asks whether the run was stopped.
Asks(x) == x.mode = "stream" /\ x.item # "update" /\ (x.item = "result" => x.context = "answer")

\* A resumed stream asks at every item.
AsksResumed(x) == x.mode = "resume"

Deliver(q) ==
    LET x == ask[q]
    IN  /\ x.at = "deliver"
        /\ IF (Asks(x) \/ AsksResumed(x)) /\ There(x.run) /\ IsRunCancelling(x.run)
           THEN MarkCancelled(q, x)
           ELSE /\ To(q, CASE x.item = "delta" -> [Say(x, <<"delta">>) EXCEPT !.deltas = @ + 1, !.at = "graph"]
                           [] x.item = "result" -> [x EXCEPT !.at = "final"]
                           [] OTHER -> [x EXCEPT !.at = "graph"])
                /\ UNCHANGED <<run, text, stop, sweep>>

\* invoke_graph_runner_collecting_updates, or its counterpart for a resume: the updates are
\* merged and only the final state is seen.
Collects(x) ==
    [found : Contexts \cup {"none"},
     result : {"reply"} \cup (IF MayPause(x) THEN {"interrupt"} ELSE {}) \cup (IF x.mode \in Resumes THEN {"bare"} ELSE {})]

\* A request that does not stream records the context it is handed with the result.
GraphResult(q) ==
    LET x == ask[q]
    IN  /\ x.at = "graph" /\ x.mode \notin Streams
        /\ \E e \in Collects(x) :
             /\ e.found # "none" => There(x.run)
             /\ To(q, [x EXCEPT !.found = e.found, !.context = e.found, !.result = e.result, !.at = "final"])
        /\ UNCHANGED <<run, text, stop, sweep>>

-----------------------------------------------------------------------------
(* Finalization *)

\* Without a context only the first phase's interrupt can be finalized.
Unfinished(x) == x.found = "none" /\ ~(x.mode \notin Resumes /\ x.result = "interrupt")

\* What follows the result: a pause, a reply the service writes itself, or the graph's answer.
Outcome(x) ==
    CASE x.result = "interrupt" -> "pause"
      [] x.found \in {"insufficient", "clarify"} -> "commit"
      [] OTHER -> "answer"

\* A resumed run asks for no clarification and need not have a reply.
OutcomeResumed(x) ==
    CASE x.result = "interrupt" -> "pause"
      [] x.found = "insufficient" \/ x.result = "bare" -> "commit"
      [] OTHER -> "answer"

Final(q) ==
    LET x == ask[q]
    IN  /\ x.at = "final" /\ x.mode \notin Resumes /\ ~Unfinished(x)
        /\ To(q, [x EXCEPT !.at = Outcome(x)])
        /\ UNCHANGED <<run, text, stop, sweep>>

\* A resumed stream asks once more before it pauses again or answers.
FinalResumed(q) ==
    LET x == ask[q]
    IN  /\ x.at = "final" /\ x.mode \in Resumes /\ ~Unfinished(x)
        /\ IF x.mode = "resume" /\ There(x.run) /\ IsRunCancelling(x.run)
           THEN MarkCancelled(q, x)
           ELSE To(q, [x EXCEPT !.at = OutcomeResumed(x)]) /\ UNCHANGED <<run, text, stop, sweep>>

\* persist_waiting_document_selection: an earlier expiry of the run is kept.  (late: history,
\* the run had been ended.)
Pause(q) ==
    LET x == ask[q]
    IN  /\ x.at = "pause" /\ There(x.run) /\ IndexAdmits(x.run)
        /\ run' = [run EXCEPT ![x.run].status = "waiting", ![x.run].pauses = @ + 1,
                              ![x.run].expiry = IF @ = "none" THEN "set" ELSE @, ![x.run].late = @ \/ ~IsActive(x.run)]
        /\ IF x.mode \in Streams THEN To(q, [Say(x, <<"interrupted">>) EXCEPT !.at = "paused"]) ELSE End(q, x)
        /\ UNCHANGED <<text, stop, sweep>>

\* The answer is prepared; GRAPH_INVOKED is recorded if no item did it.
Answer(q) ==
    LET x == ask[q]
    IN  /\ x.at = "answer" /\ There(x.run)
        /\ To(q, [Say(x, IF x.invoked THEN << >> ELSE <<"invoked">>) EXCEPT !.invoked = TRUE, !.at = "fallback"])
        /\ UNCHANGED <<run, text, stop, sweep>>

\* An answer of which nothing was streamed is streamed whole; the regenerating stream never asks.
Fallback(q) ==
    LET x == ask[q]
    IN  /\ x.at = "fallback"
        /\ IF x.mode \in {"stream", "resume"} /\ x.deltas = 0 /\ There(x.run) /\ IsRunCancelling(x.run)
           THEN MarkCancelled(q, x)
           ELSE /\ To(q, [Say(x, IF x.deltas = 0 THEN <<"delta">> ELSE << >>)
                            EXCEPT !.at = IF x.mode \in {"replay", "syncresume"} THEN "commit" ELSE "asked"])
                /\ UNCHANGED <<run, text, stop, sweep>>

\* The last question before the answer is stored.
LastAsked(q) ==
    LET x == ask[q]
    IN  /\ x.at = "asked"
        /\ IF There(x.run) /\ IsRunCancelling(x.run)
           THEN MarkCancelled(q, x)
           ELSE To(q, [x EXCEPT !.at = "commit"]) /\ UNCHANGED <<run, text, stop, sweep>>

\* A resumed stream whose reply the service wrote sends it only when it is stored.
StreamsStored(x) == x.mode = "resume" /\ OutcomeResumed(x) = "commit"

\* persist_completed_run: the answer, the status and the event in one transaction, whatever
\* the status has become.  (late: history, the run had been ended.)
Commit(q) ==
    LET x == ask[q]
        r == x.run
    IN  /\ x.at = "commit" /\ There(r)
        /\ text' = text \cup {Latest(<<"assistant", r, x.pause>>, r, run[r].prompt)}
        /\ run' = [run EXCEPT ![r].status = "completed", ![r].expiry = "none", ![r].late = @ \/ ~IsActive(r)]
        /\ To(q, [Say(x, <<"composed">> \o IF StreamsStored(x) THEN <<"delta">> ELSE << >>)
                     EXCEPT !.stored = 1, !.at = IF x.mode \in Replays THEN "prune" ELSE "last"])
        /\ UNCHANGED <<stop, sweep>>

\* Fault: the messages to remove are looked up again when the new answer is stored.
PrunedAfresh(x) == {m.id : m \in {y \in Answers : y.prompt >= x.target}}

\* The messages a prune deletes are those the replay read.
Pruned(x) == x.removed

\* prune_conversation_from_message: the rows of the runs created since the original go too.
Prune(q) ==
    LET x == ask[q]
    IN  /\ x.at = "prune"
        /\ text' = {m \in text : m.id \notin Pruned(x)}
        /\ run' = [r \in Ids |-> IF r # x.run /\ (r >= x.since \/ \E m \in Answers : m.run = r /\ m.id \in x.removed)
                                 THEN [run[r] EXCEPT !.status = "gone"] ELSE run[r]]
        /\ To(q, [x EXCEPT !.at = "last"])
        /\ UNCHANGED <<stop, sweep>>

Complete(q) ==
    /\ ask[q].at = "last"
    /\ End(q, Say(ask[q], <<"completed">>))
    /\ UNCHANGED <<run, text, stop, sweep>>

\* The client of a paused stream has read it to its end.
EndPaused(q) ==
    /\ ask[q].at = "paused"
    /\ End(q, ask[q])
    /\ UNCHANGED <<run, text, stop, sweep>>

-----------------------------------------------------------------------------
(* Failures *)

Looping == {"graph", "recorded", "item", "deliver"}
Working == Looping \cup {"start", "final", "pause", "answer", "fallback", "asked", "commit", "prune", "last"}

\* Fault: a stream reports every error, as the resumed one does.
ReportsAlways(x) == There(x.run)

\* Whether a failure is reported to the client: the stream's outer handler reports only a run
\* it could fail (fail_active_run), the others every run that still has a row.
Reports(x) ==
    /\ There(x.run)
    /\ x.mode = "stream" /\ x.at \notin Looping => IsActive(x.run)

\* An error outside the graph is not handled by a resume that does not stream.
Handled(x) == x.mode # "syncresume" \/ x.at = "graph"

\* An exception reaches the handlers of the endpoint; persist_failed_run fails an active run.
Raise(q) ==
    LET x == ask[q]
        r == x.run
    IN  /\ x.at \in Working
        /\ IF IsActive(r) /\ Handled(x) THEN Write(r, "failed") ELSE run' = run
        /\ End(q, Say(x, IF Reports(x) THEN <<"failed">> ELSE << >>))
        /\ UNCHANGED <<text, stop, sweep>>

\* The client goes away while a stream is suspended (GeneratorExit): the first phase cancels
\* a run that does not wait, a replay fails it, and a resumed stream leaves it.
Disconnect(q) ==
    LET x == ask[q]
        r == x.run
    IN  /\ x.at \in {"start", "graph", "recorded", "deliver", "fallback", "asked", "paused", "prune", "last"}
        /\ x.mode \in Streams
        /\ run' = CASE x.mode = "stream" /\ run[r].status \in ActiveRunStatuses \ {"waiting"} ->
                         [run EXCEPT ![r].status = "cancelled"]
                    [] x.mode = "replay" /\ IsActive(r) -> [run EXCEPT ![r].status = "failed", ![r].expiry = "none"]
                    [] OTHER -> run
        /\ End(q, x)
        /\ UNCHANGED <<text, stop, sweep>>

\* The process dies.
Crash(q) ==
    /\ ask[q].at \in Working \cup {"read", "claim", "expire", "reject", "paused"}
    /\ End(q, ask[q])
    /\ UNCHANGED <<run, text, stop, sweep>>

-----------------------------------------------------------------------------
(* Others: the stop button, time, and the cleanup that requests begin with *)

\* cancel_run reads the row ...
StopRead ==
    /\ stop = NoStop
    /\ \E r \in Ids : run[r].status \in {"running", "waiting"} /\ stop' = [run |-> r, seen |-> run[r].status]
    /\ UNCHANGED <<run, text, ask, sweep>>

\* ... and writes what it read calls for, unless the row is gone or the index refuses it.
\* (late: history, a run that had ended meanwhile was reopened.)
StopWrite ==
    LET r == stop.run
    IN  /\ stop # NoStop /\ stop' = NoStop
        /\ run' = IF ~There(r) \/ (stop.seen = "running" /\ ~IndexAdmits(r)) THEN run
                  ELSE [run EXCEPT ![r].status = IF stop.seen = "waiting" THEN "cancelled" ELSE "cancelling",
                                   ![r].expiry = IF stop.seen = "waiting" THEN "none" ELSE @,
                                   ![r].late = @ \/ ~IsActive(r)]
        /\ UNCHANGED <<text, ask, sweep>>

\* active_run_stale_after_seconds pass since the run was created; its interaction expires.
Time ==
    /\ \E r \in Ids :
         \/ ~run[r].aged /\ IsActive(r) /\ run' = [run EXCEPT ![r].aged = TRUE]
         \/ run[r].expiry = "set" /\ IsActive(r) /\ run' = [run EXCEPT ![r].expiry = "past"]
    /\ UNCHANGED <<text, ask, stop, sweep>>

\* Fault: a run that is being stopped is left to its request.
StaleRunning(r) ==
    \/ run[r].status = "running" /\ run[r].aged
    \/ run[r].status = "waiting" /\ run[r].expiry = "past"

Stale(r) ==
    \/ run[r].status \in {"running", "cancelling"} /\ run[r].aged
    \/ run[r].status = "waiting" /\ run[r].expiry = "past"

\* cleanup_stale_active_runs reads the rows ...
SweepRead ==
    /\ sweep = << >>
    /\ \E r \in Ids : Stale(r) /\ sweep' = <<r, run[r].status>>
    /\ UNCHANGED <<run, text, ask, stop>>

\* ... and ends them: a stopped or expired run is cancelled, another failed.
SweepWrite ==
    LET r == sweep[1]
    IN  /\ sweep # << >> /\ sweep' = << >>
        /\ run' = IF ~There(r) THEN run
                  ELSE IF sweep[2] = "running" THEN [run EXCEPT ![r].status = "failed"]
                  ELSE [run EXCEPT ![r].status = "cancelled", ![r].expiry = "none"]
        /\ UNCHANGED <<text, ask, stop>>

Work(q) ==
    \/ Start(q) \/ GraphItem(q) \/ Recorded(q) \/ ItemInvokes(q) \/ Deliver(q) \/ GraphResult(q)
    \/ Final(q) \/ FinalResumed(q) \/ Pause(q) \/ Answer(q) \/ Fallback(q) \/ LastAsked(q) \/ Commit(q) \/ Prune(q) \/ Complete(q)
    \/ Raise(q)

DirectNext ==
    \/ \E q \in Askers :
         \/ ReadReplay(q) \/ Admit(q) \/ ReadResume(q) \/ RefuseResume(q) \/ ClaimResume(q)
         \/ Work(q)
         \/ EndPaused(q) \/ Disconnect(q) \/ Crash(q)
    \/ StopRead \/ StopWrite \/ Time \/ SweepRead \/ SweepWrite

DirectSpec == DirectInit /\ [][DirectNext]_tvars

-----------------------------------------------------------------------------
(* Properties *)

\* A run stores at most one answer, however often it is paused and resumed, whoever resumes
\* it and whatever its status is overwritten with: each resume claims the pause it has read.
OneAnswerPerRun ==
    \A r \in Ids : Cardinality({q \in Askers : ask[q].run = r /\ ask[q].stored = 1}) <= 1

\* The docstring of the replay endpoints: the old answer is pruned only after the new one is
\* stored.  A prompt of the transcript that any request has answered keeps an answer,
\* through failed, abandoned, repeated and overlapping replays, as long as no run goes on
\* after it was ended and no replay is admitted after it was overtaken.
AnswerKept ==
    (\A r \in Ids : ~run[r].late) =>
        \A q \in Askers : ask[q].stored = 1 =>
            LET p == run[ask[q].run].prompt
            IN  (\E m \in Questions : m.prompt = p) => \E m \in Answers : m.prompt = p

Count(w, f) == Cardinality({i \in DOMAIN w : w[i] = f})
Ends == {"completed", "failed", "cancelled", "interrupted"}

\* What one stream sends is in order: at most one retrieval and one graph invocation, the
\* answer only after both, and nothing after an end but the report of a late failure.
WireOrdered ==
    \A q \in Askers :
        LET w == ask[q].wire
        IN  /\ Count(w, "retrieval") <= 1 /\ Count(w, "invoked") <= 1
            /\ \A i \in DOMAIN w : w[i] = "delta" /\ ask[q].mode # "resume" =>
                 \E j, k \in 1 .. i : w[j] = "retrieval" /\ w[k] = "invoked"
            /\ \A i \in DOMAIN w : w[i] \in Ends => i = Len(w)

\* A stream tells its client the truth: a completed run has its answer stored, and a first
\* phase that reports a stop or a failure has stored none and will not, unless a stop that
\* had read the run before its end reopened it.
WireHonest ==
    \A q \in Askers : ask[q].wire # << >> =>
        LET w == ask[q].wire
        IN  /\ Last(w) = "completed" => ask[q].stored = 1
            /\ Last(w) = "cancelled" => ask[q].stored = 0
            /\ Last(w) = "failed" /\ ask[q].mode = "stream" => ask[q].stored = 0 \/ run[ask[q].run].late

\* A run answers its prompt once, and an answer is removed only by its regeneration.
AnswersSound == OneAnswerPerRun /\ AnswerKept

\* The stream of a run is in order, and its last event is what became of the run.
WireSound == WireOrdered /\ WireHonest
=============================================================================

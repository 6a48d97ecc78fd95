---------------------------- MODULE DurableRuns ----------------------------
(***************************************************************************)
(* Durable answer generation: admission of runs as jobs, claiming and      *)
(* leasing by answer workers, fenced execution, terminal delivery, stop,   *)
(* pause and resume, lost-work reconciliation.                             *)
(*                                                                         *)
(* Sources: conversations/durable_store.py, conversations/durable_runtime  *)
(* .py, answer_worker.py, api/conversations/endpoints/durable.py, and what *)
(* they call in endpoints/runs.py, endpoints/stream.py, run_lifecycle.py   *)
(* and interactions.py (all under my_agents/).                             *)
(*                                                                         *)
(* One action is one database transaction.  A transaction that first takes *)
(* the row lock of the job is atomic with respect to every other one that  *)
(* does; what the code reads in one transaction and uses in a later one is *)
(* kept in the state of the worker or of the request.                      *)
(***************************************************************************)
EXTENDS Integers, Sequences, FiniteSets

CONSTANTS
    Runs,              \* identities of agent_runs rows
    Jobs,              \* client request ids, hence identities of job rows
    Workers,           \* answer-worker processes
    Requests,          \* concurrent executions of the resume handler
    Conversations,
    None,              \* NULL
    LeaseTicks,        \* durable_run_lease_seconds, in clock ticks
    MaxFrames,         \* durable_run_max_frames
    DefaultMaxFrames,  \* append_frame's own default, used by every other emitter
    MaxTurns,          \* bound: interactions one run may ask for
    MaxCursor          \* bound: no progress frame beyond this cursor

ASSUME ConstantsAssumption ==
    /\ LeaseTicks \in Nat \ {0}
    /\ MaxFrames \in Nat \ {0}
    /\ DefaultMaxFrames \in Nat \ {0}
    /\ MaxTurns \in Nat
    /\ MaxCursor \in Nat
    /\ None \notin Runs \cup Jobs \cup Workers \cup Conversations

VARIABLES
    run,     \* agent_runs: status, conversation, interaction, stored reply
    job,     \* durable_run_jobs: ownership
    out,     \* durable_run_outputs and durable_run_frames
    worker,  \* the local state of each execute_job call
    req      \* the local state of each resume_durable call

vars == <<run, job, out, worker, req>>

-----------------------------------------------------------------------------
(* Statuses and events. *)

\* RunStatus values that occupy the conversation (ACTIVE_RUN_STATUSES).
Active == {"queued", "running", "waiting_for_input", "cancelling"}

\* durable_runtime.TERMINAL: a phase of the run has ended.
Terminal == {"completed", "failed", "cancelled", "waiting_for_input"}

RunStatus == Active \cup Terminal

\* Work somebody still has to finish.
Pending == {"queued", "running", "cancelling"}

Control == {"run_completed", "run_failed", "run_cancelled", "run_interrupted"}

\* answer_delta carries text; metadata stands for every activity event.
Progress == {"answer_delta", "metadata"}

Events == Control \cup Progress \cup {"run_resumed"}

Kinds == {"run", "replay", "resume"}

Failures == {"run_cancelled", "worker_lost", "run_failed"}

ASSUME NoneAssumption == None \notin Events \cup Failures

\* The control event that describes a terminal status (repair_terminal).
Expected(status) ==
    CASE status = "completed"         -> "run_completed"
      [] status = "failed"            -> "run_failed"
      [] status = "cancelled"         -> "run_cancelled"
      [] status = "waiting_for_input" -> "run_interrupted"

-----------------------------------------------------------------------------
(* Rows before they are inserted. *)

\* overwritten (history): a resume request ended the run on a stale read.
NoRun == [status |-> "absent", conv |-> None, turn |-> 0,
          deadline |-> "none", reply |-> FALSE, overwritten |-> FALSE]

NoJob == [status |-> "absent", kind |-> "run", run |-> None, token |-> None,
          ttl |-> 0, overdue |-> FALSE, turn |-> 0]

NoOutput == [cursor |-> 0, min |-> 0, frames |-> <<>>, terminal |-> None,
             tcursor |-> 0, partial |-> 0]

IdleWorker == [pc |-> "idle", job |-> None, due |-> None, failure |-> None]

IdleRequest == [pc |-> "idle", run |-> None, job |-> None, turn |-> 0,
                locked |-> {}]

Init ==
    /\ run = [r \in Runs |-> NoRun]
    /\ job = [j \in Jobs |-> NoJob]
    /\ out = [r \in Runs |-> NoOutput]
    /\ worker = [w \in Workers |-> IdleWorker]
    /\ req = [q \in Requests |-> IdleRequest]

-----------------------------------------------------------------------------
(* The delivery ledger. *)

\* cutoff = max(0, cursor - max_frames), applied only when it moves min_cursor up.
NewMin(o, max) ==
    LET cutoff == o.cursor + 1 - max
    IN  IF cutoff > o.min THEN cutoff ELSE o.min

\* Fault: min_cursor moves but the pruned rows stay.
NewFramesUnpruned(o, event, max) == Append(o.frames, event)

NewFrames(o, event, max) ==
    SubSeq(Append(o.frames, event), NewMin(o, max) - o.min + 1, o.cursor + 1 - o.min)

\* append_frame: next cursor, projection, terminal marker, pruning by count.
AppendFrame(o, event, max) ==
    LET cursor == o.cursor + 1
    IN  [cursor   |-> cursor,
         min      |-> NewMin(o, max),
         frames   |-> NewFrames(o, event, max),
         terminal |-> IF event \in Control THEN event
                      ELSE IF event = "run_resumed" THEN None ELSE o.terminal,
         tcursor  |-> IF event \in Control THEN cursor
                      ELSE IF event = "run_resumed" THEN 0 ELSE o.tcursor,
         partial  |-> IF event = "answer_delta" THEN o.partial + 1 ELSE o.partial]

\* emit: a control event equal to the stored terminal event is not appended again.
Emit(o, event, max) ==
    IF event \in Control /\ o.terminal = event THEN o ELSE AppendFrame(o, event, max)

\* Fault: terminal runs are left as they are.
NeverRepaired(ru, o) == o

\* repair_terminal: make the ledger end with the event the run's status calls for.
Repaired(ru, o) ==
    IF ru.status \in Terminal THEN Emit(o, Expected(ru.status), DefaultMaxFrames) ELSE o

-----------------------------------------------------------------------------
(* Ownership. *)

Live(j) == job[j].status \in {"queued", "running"}

JobsOf(r) == {j \in Jobs : job[j].run = r}

\* The row of j is locked by a resume transaction in flight (FOR UPDATE).
Locked(j) == \E q \in Requests : j \in req[q].locked

\* The predicate of every fenced write and of lease renewal.
Owns(w, j) ==
    /\ job[j].status = "running"
    /\ job[j].token = w
    /\ job[j].ttl > 0

\* Faults: the lease comparison is reversed, or queued jobs are forgotten.
LostWhileLeased(j) ==
    \/ job[j].status = "running" /\ job[j].ttl > 0
    \/ job[j].status = "queued" /\ job[j].overdue
LostRunningOnly(j) == job[j].status = "running" /\ job[j].ttl < 0

\* What reap_lost_jobs selects, and re-checks when it claims the row.
Lost(j) ==
    \/ job[j].status = "running" /\ job[j].ttl < 0
    \/ job[j].status = "queued" /\ job[j].overdue

\* Fault: completion is not tied to running.
MayBecomeFromCancelling(old, new) == old \in {"running", "cancelling", "queued"}

\* install_fence.before_flush: statuses a terminal transition may start from.
MayBecome(old, new) ==
    IF new \in {"completed", "waiting_for_input"}
    THEN old = "running"
    ELSE old \in {"running", "cancelling", "queued"}

Closed(jb) == [jb EXCEPT !.status = "done", !.token = None, !.ttl = 0]

\* The run ends and its interaction columns are cleared.
Ended(ru, status) == [ru EXCEPT !.status = status, !.deadline = "none"]

\* A question withdrawn by a request that read it earlier: the run may have been
\* resumed, and even have ended, since.
Withdrawn(ru, status) ==
    [Ended(ru, status) EXCEPT !.overwritten = @ \/ ru.status # "waiting_for_input"]

\* Fault: a stopping run keeps its status.
FailedRunUnlessStopping(ru) ==
    IF ru.status \in {"queued", "running"} THEN [ru EXCEPT !.status = "failed"] ELSE ru

\* fail_job on the run row: a stop already asked for wins over the failure.
FailedRun(ru) ==
    CASE ru.status \in {"queued", "running"} -> [ru EXCEPT !.status = "failed"]
      [] ru.status = "cancelling"            -> [ru EXCEPT !.status = "cancelled"]
      [] OTHER                               -> ru

-----------------------------------------------------------------------------
(* Admission. *)

\* The partial unique index on active runs, and assert_no_active_run.
ConversationFree(c) == \A r \in Runs : run[r].conv = c => run[r].status \notin Active

\* enqueue_job: a queued row nobody owns.
NewJob(r, kind, turn) ==
    [status |-> "queued", kind |-> kind, run |-> r, token |-> None, ttl |-> 0,
     overdue |-> FALSE, turn |-> turn]

\* admit_durable and replay_durable.  A request id that was used before returns
\* the existing receipt and changes nothing, so j is a fresh row.  A replay
\* regenerates a stored reply of the conversation.
AdmitRun(r, j, c, kind) ==
    /\ run[r].status = "absent"
    /\ job[j].status = "absent"
    /\ ConversationFree(c)
    /\ kind = "replay" => \E s \in Runs : run[s].conv = c /\ run[s].reply
    /\ run' = [run EXCEPT ![r] = [NoRun EXCEPT !.status = "queued", !.conv = c]]
    /\ job' = [job EXCEPT ![j] = NewJob(r, kind, 0)]
    /\ UNCHANGED <<out, worker, req>>

-----------------------------------------------------------------------------
(* Stop. *)

\* cancel_durable: locks the live jobs, then the run.
CancelRun(r) ==
    /\ \A j \in JobsOf(r) : Live(j) => ~Locked(j)
    /\ \/ /\ run[r].status \in {"queued", "waiting_for_input"}
          /\ run' = [run EXCEPT ![r] = Ended(@, "cancelled")]
          /\ job' = [j \in Jobs |-> IF job[j].run = r /\ job[j].status = "queued"
                                    THEN [job[j] EXCEPT !.status = "done"] ELSE job[j]]
          /\ out' = [out EXCEPT ![r] = Emit(@, "run_cancelled", DefaultMaxFrames)]
       \/ /\ run[r].status = "running"
          /\ run' = [run EXCEPT ![r].status = "cancelling"]
          /\ UNCHANGED <<job, out>>
    /\ UNCHANGED <<worker, req>>

-----------------------------------------------------------------------------
(* Resume.  The handler validates the waiting run and only later claims it; *)
(* the rows of the previous phase's running jobs stay locked in between.    *)

\* Fault: the previous phase's jobs are not locked.
NoPriorJobs(r) == {}

\* The running jobs of the previous phase, selected FOR UPDATE.
PriorJobs(r) == {p \in JobsOf(r) : job[p].status = "running"}

\* resume_durable up to the last check of prepare_conversation_run_resume.
\* same: whether this API process runs the graph version the run was made with.
ReadResume(q, r, j, turn, same) ==
    LET prior == PriorJobs(r)
    IN  /\ req[q].pc = "idle"
        /\ job[j].status = "absent"
        /\ \A p \in prior : ~Locked(p)
        /\ run[r].status = "waiting_for_input"
        /\ run[r].turn = turn
        /\ req' = [req EXCEPT ![q] =
                     [pc     |-> CASE run[r].deadline = "past" -> "expire"
                                   [] run[r].deadline # "past" /\ ~same -> "incompatible"
                                   [] OTHER -> "claim",
                      run    |-> r,
                      job    |-> j,
                      turn   |-> turn,
                      locked |-> prior]]
        /\ UNCHANGED <<run, job, out, worker>>

\* Fault: only the prior jobs whose lease is alive are closed.
ClosePriorLeased(q) ==
    [j \in Jobs |-> IF j \in req[q].locked /\ job[j].ttl > 0 THEN Closed(job[j]) ELSE job[j]]

\* Prior jobs are closed in the same transaction as the request's own write.
ClosePrior(q) == [j \in Jobs |-> IF j \in req[q].locked THEN Closed(job[j]) ELSE job[j]]

\* Fault: the compare-and-set forgets which question is answered.
StillWaitingForAnything(q) == run[req[q].run].status = "waiting_for_input"

\* The compare-and-set of prepare_conversation_run_resume.
StillWaiting(q) ==
    /\ run[req[q].run].status = "waiting_for_input"
    /\ run[req[q].run].turn = req[q].turn

\* Claim the waiting run, clear its terminal marker and queue the resume job.
ClaimResume(q) ==
    LET r == req[q].run
        j == req[q].job
    IN  /\ req[q].pc = "claim"
        /\ StillWaiting(q)
        /\ job[j].status = "absent"
        /\ run' = [run EXCEPT ![r].status = "queued"]
        /\ job' = [ClosePrior(q) EXCEPT ![j] = NewJob(r, "resume", req[q].turn)]
        /\ out' = [out EXCEPT ![r].terminal = None, ![r].tcursor = 0]
        /\ req' = [req EXCEPT ![q] = IdleRequest]
        /\ UNCHANGED worker

\* Expired interaction: mark_run_cancelled re-reads the row and overwrites any
\* status but cancelled; it commits without writing a frame.
ExpireResume(q) ==
    LET r == req[q].run
    IN  /\ req[q].pc = "expire"
        /\ run[r].status # "cancelled"
        /\ run' = [run EXCEPT ![r] = Withdrawn(@, "cancelled")]
        /\ job' = ClosePrior(q)
        /\ req' = [req EXCEPT ![q] = IdleRequest]
        /\ UNCHANGED <<out, worker>>

\* Incompatible graph version: persist_failed_run overwrites any active status.
RejectGraphVersion(q) ==
    LET r == req[q].run
    IN  /\ req[q].pc = "incompatible"
        /\ run[r].status \in Active
        /\ run' = [run EXCEPT ![r] = Withdrawn(@, "failed")]
        /\ job' = ClosePrior(q)
        /\ req' = [req EXCEPT ![q] = IdleRequest]
        /\ UNCHANGED <<out, worker>>

\* Any later refusal, lost compare-and-set, error or crash of the API process:
\* the transaction rolls back and releases its locks.
AbortResume(q) ==
    /\ req[q].pc # "idle"
    /\ req' = [req EXCEPT ![q] = IdleRequest]
    /\ UNCHANGED <<run, job, out, worker>>

-----------------------------------------------------------------------------
(* Answer workers: process_once, execute_job. *)

Fenced == {"resuming", "executing", "delivering"}

RunOf(w) == job[worker[w].job].run

\* claim_job: compare-and-set on a queued row, fresh token and lease.
ClaimJob(w, j) ==
    /\ worker[w].pc = "idle"
    /\ job[j].status = "queued"
    /\ job' = [job EXCEPT ![j].status = "running", ![j].token = w, ![j].ttl = LeaseTicks]
    /\ worker' = [worker EXCEPT ![w] = [IdleWorker EXCEPT !.pc = "claimed", !.job = j]]
    /\ UNCHANGED <<run, out, req>>

\* The pulse thread, for as long as execute_job runs.
RenewLease(w) ==
    LET j == worker[w].job
    IN  /\ worker[w].pc # "idle"
        /\ Owns(w, j)
        /\ ~Locked(j)
        /\ job' = [job EXCEPT ![j].ttl = LeaseTicks]
        /\ UNCHANGED <<run, out, worker, req>>

\* The unlocked read of the job row that opens execute_job.
CheckJob(w) ==
    LET j == worker[w].job
    IN  /\ worker[w].pc = "claimed"
        /\ worker' = [worker EXCEPT ![w].pc =
                        IF job[j].status = "running" /\ job[j].token = w
                        THEN "checked" ELSE "final"]
        /\ UNCHANGED <<run, job, out, req>>

\* Fault: the worker enters the graph without having moved the run to running.
EnterUnstarted(w) ==
    /\ worker[w].pc = "checked"
    /\ worker' = [worker EXCEPT ![w].pc = "executing"]
    /\ UNCHANGED <<run, job, out, req>>

\* The unfenced compare-and-set queued -> running; the fence is installed after it.
StartRun(w) ==
    LET r == RunOf(w)
    IN  /\ worker[w].pc = "checked"
        /\ \/ /\ run[r].status = "queued"
              /\ run' = [run EXCEPT ![r].status = "running"]
              /\ worker' = [worker EXCEPT ![w].pc =
                              IF job[worker[w].job].kind = "resume"
                              THEN "resuming" ELSE "executing"]
           \/ /\ run[r].status # "queued"
              /\ worker' = [worker EXCEPT ![w].pc = "final", ![w].failure = "run_cancelled"]
              /\ UNCHANGED run
        /\ UNCHANGED <<job, out, req>>

\* A fenced transaction of w: it owns the job and nobody holds the row.
Fence(w) == Owns(w, worker[w].job) /\ ~Locked(worker[w].job)

\* The first frame of a resumed phase.
EmitResumed(w) ==
    /\ worker[w].pc = "resuming"
    /\ Fence(w)
    /\ out' = [out EXCEPT ![RunOf(w)] = Emit(@, "run_resumed", MaxFrames)]
    /\ worker' = [worker EXCEPT ![w].pc = "executing"]
    /\ UNCHANGED <<run, job, req>>

\* Answer text and activity while the graph streams.  Between the commit that ends
\* the phase and its control event, the last batch of text is flushed, and a
\* completed run reports answer_composed.
EmitProgress(w, event) ==
    /\ worker[w].pc \in {"executing", "delivering"}
    /\ worker[w].pc = "delivering" /\ event = "metadata" => worker[w].due = "run_completed"
    /\ Fence(w)
    /\ out[RunOf(w)].cursor < MaxCursor
    /\ out' = [out EXCEPT ![RunOf(w)] = Emit(@, event, MaxFrames)]
    /\ UNCHANGED <<run, job, worker, req>>

\* A canonical commit that ends the phase; its control event is emitted later.
EndPhase(w, status) ==
    /\ worker[w].pc = "executing"
    /\ Fence(w)
    /\ MayBecome(run[RunOf(w)].status, status)
    /\ worker' = [worker EXCEPT ![w].pc = "delivering", ![w].due = Expected(status)]
    /\ UNCHANGED <<job, out, req>>

\* Fault: the reply is committed before the guarded transition.
CommitReplyFirst(w) ==
    /\ worker[w].pc = "executing"
    /\ Fence(w)
    /\ run[RunOf(w)].status = "running"
    /\ run' = [run EXCEPT ![RunOf(w)].reply = TRUE]
    /\ UNCHANGED <<job, out, worker, req>>

\* persist_completed_run: reply, citations, status (and a replay's pruning) commit together.
CompleteRun(w) ==
    /\ EndPhase(w, "completed")
    /\ run' = [run EXCEPT ![RunOf(w)] = [Ended(@, "completed") EXCEPT !.reply = TRUE]]

\* persist_waiting_document_selection: a later interaction keeps the first deadline.
InterruptRun(w) ==
    LET r == RunOf(w)
    IN  /\ EndPhase(w, "waiting_for_input")
        /\ job[worker[w].job].kind # "replay"
        /\ run[r].turn < MaxTurns
        /\ run' = [run EXCEPT ![r].status = "waiting_for_input",
                              ![r].turn = @ + 1,
                              ![r].deadline = IF @ = "none" THEN "ahead" ELSE @]

\* is_run_cancelling, then cancelled_sse_event; the replay stream never looks.
ObserveCancel(w) ==
    /\ EndPhase(w, "cancelled")
    /\ job[worker[w].job].kind # "replay"
    /\ run[RunOf(w)].status = "cancelling"
    /\ run' = [run EXCEPT ![RunOf(w)].status = "cancelled"]

\* A provider error caught by the stream: persist_failed_run.
FailRun(w) ==
    /\ EndPhase(w, "failed")
    /\ run' = [run EXCEPT ![RunOf(w)] = Ended(@, "failed")]

\* The same, for a run that is no longer active: nothing is written, but the
\* stream still reports run_failed.
FailEndedRun(w) ==
    /\ worker[w].pc = "executing"
    /\ run[RunOf(w)].status \notin Active
    /\ worker' = [worker EXCEPT ![w].pc = "delivering", ![w].due = "run_failed"]
    /\ UNCHANGED <<run, job, out, req>>

\* An error after the canonical commit, before its control event: the stream
\* reports run_failed for a completed run; a waiting run's failure is refused by
\* the fence (waiting_for_input is not a status that may become failed).
FailAfterCommit(w) ==
    /\ worker[w].pc = "delivering"
    /\ \/ /\ worker[w].due = "run_completed"
          /\ worker' = [worker EXCEPT ![w].due = "run_failed"]
       \/ /\ worker[w].due = "run_interrupted"
          /\ worker' = [worker EXCEPT ![w].pc = "final", ![w].failure = "worker_lost"]
    /\ UNCHANGED <<run, job, out, req>>

\* Fault: a late failure is reported as it comes.
NeverLate(w) == FALSE

\* run_failed arrives for a run whose saved outcome is another one.
LateFailure(w) ==
    /\ worker[w].due = "run_failed"
    /\ run[RunOf(w)].status \in {"completed", "waiting_for_input", "cancelled"}

\* Emit the control event of the committed outcome.  A late run_failed is replaced
\* by the event of the saved status.
Deliver(w) ==
    LET r == RunOf(w)
    IN  /\ worker[w].pc = "delivering"
        /\ Fence(w)
        /\ out' = [out EXCEPT ![r] = IF LateFailure(w) THEN Repaired(run[r], @)
                                     ELSE Emit(@, worker[w].due, MaxFrames)]
        /\ worker' = [worker EXCEPT ![w].pc = "final"]
        /\ UNCHANGED <<run, job, req>>

\* ExecutionStopped: ownership is lost, or the run left running before the
\* transition that completes or pauses it.
StopExecution(w) ==
    /\ worker[w].pc \in Fenced
    /\ ~Locked(worker[w].job)
    /\ \/ ~Owns(w, worker[w].job)
       \/ worker[w].pc = "executing" /\ run[RunOf(w)].status # "running"
    /\ worker' = [worker EXCEPT ![w].pc = "final", ![w].failure = "worker_lost"]
    /\ UNCHANGED <<run, job, out, req>>

\* Any other exception in execute_job: a failed statement, account or guest access
\* revoked, invalid event, output limit, execution that ends without a terminal state.
RaiseError(w) ==
    /\ worker[w].pc \in {"claimed", "checked"} \cup Fenced
    /\ worker' = [worker EXCEPT ![w].pc = "final", ![w].failure = "run_failed"]
    /\ UNCHANGED <<run, job, out, req>>

\* The finally block: an unfenced session that locks the job and compares the
\* token, but not the lease.
Finalize(w) ==
    LET j == worker[w].job
        r == job[j].run
    IN  /\ worker[w].pc = "final"
        /\ ~Locked(j)
        /\ IF job[j].status = "running" /\ job[j].token = w
           THEN LET ru == IF worker[w].failure # None THEN FailedRun(run[r]) ELSE run[r]
                IN  /\ run' = [run EXCEPT ![r] = ru]
                    /\ out' = [out EXCEPT ![r] = Repaired(ru, @)]
                    /\ job' = [job EXCEPT ![j] = Closed(@)]
           ELSE UNCHANGED <<run, out, job>>
        /\ worker' = [worker EXCEPT ![w] = IdleWorker]
        /\ UNCHANGED req

\* The process dies or loses its database at any point; a new one starts idle.
Crash(w) ==
    /\ worker[w].pc # "idle"
    /\ worker' = [worker EXCEPT ![w] = IdleWorker]
    /\ UNCHANGED <<run, job, out, req>>

-----------------------------------------------------------------------------
(* Reconciliation, by workers between jobs and by every durable read. *)

\* Fault: reconciliation does not look at waiting runs.
NeverTooLong(ru) == FALSE

WaitedTooLong(ru) == ru.status = "waiting_for_input" /\ ru.deadline = "past"

LostRuns == {r \in Runs : \E j \in JobsOf(r) : Lost(j)}

\* reap_lost_jobs: one transaction over all lost jobs, then all expired waits.
ReapedRun(r) ==
    LET ru == IF r \in LostRuns THEN FailedRun(run[r]) ELSE run[r]
    IN  IF WaitedTooLong(ru) THEN Ended(ru, "cancelled") ELSE ru

ReapedOut(r) ==
    LET ru == IF r \in LostRuns THEN FailedRun(run[r]) ELSE run[r]
        o  == IF r \in LostRuns THEN Repaired(ru, out[r]) ELSE out[r]
    IN  IF WaitedTooLong(ru) THEN Repaired(ReapedRun(r), o) ELSE o

ReapLostJobs ==
    /\ \/ \E j \in Jobs : Lost(j)
       \/ \E r \in Runs : WaitedTooLong(run[r])
    /\ \A j \in Jobs : Lost(j) => ~Locked(j)
    /\ run' = [r \in Runs |-> ReapedRun(r)]
    /\ out' = [r \in Runs |-> ReapedOut(r)]
    /\ job' = [j \in Jobs |-> IF Lost(j) THEN Closed(job[j]) ELSE job[j]]
    /\ UNCHANGED <<worker, req>>

\* A snapshot or a listener poll finds a terminal run without its control event.
RepairTerminal(r) ==
    /\ run[r].status \in Terminal
    /\ out[r].terminal # Expected(run[r].status)
    /\ out' = [out EXCEPT ![r] = Repaired(run[r], @)]
    /\ UNCHANGED <<run, job, worker, req>>

-----------------------------------------------------------------------------
(* Time.  ttl is lease_expires_at - now: owned while positive, lost while   *)
(* negative, neither at zero.                                               *)

LeaseTick(j) ==
    /\ job[j].status = "running"
    /\ job[j].ttl > -1
    /\ job' = [job EXCEPT ![j].ttl = @ - 1]
    /\ UNCHANGED <<run, out, worker, req>>

QueueTimeout(j) ==
    /\ job[j].status = "queued"
    /\ ~job[j].overdue
    /\ job' = [job EXCEPT ![j].overdue = TRUE]
    /\ UNCHANGED <<run, out, worker, req>>

InteractionDeadline(r) ==
    /\ run[r].deadline = "ahead"
    /\ run' = [run EXCEPT ![r].deadline = "past"]
    /\ UNCHANGED <<job, out, worker, req>>

-----------------------------------------------------------------------------
WorkerStep(w) ==
    \/ \E j \in Jobs : ClaimJob(w, j)
    \/ RenewLease(w)
    \/ CheckJob(w)
    \/ StartRun(w)
    \/ EmitResumed(w)
    \/ \E event \in Progress : EmitProgress(w, event)
    \/ CompleteRun(w)
    \/ InterruptRun(w)
    \/ ObserveCancel(w)
    \/ FailRun(w)
    \/ FailEndedRun(w)
    \/ FailAfterCommit(w)
    \/ Deliver(w)
    \/ StopExecution(w)
    \/ RaiseError(w)
    \/ Finalize(w)
    \/ Crash(w)

ResumeStep(q) ==
    \/ \E r \in Runs, j \in Jobs, turn \in 1..MaxTurns, same \in BOOLEAN :
          ReadResume(q, r, j, turn, same)
    \/ ClaimResume(q)
    \/ ExpireResume(q)
    \/ RejectGraphVersion(q)
    \/ AbortResume(q)

Next ==
    \/ \E r \in Runs, j \in Jobs, c \in Conversations, kind \in {"run", "replay"} :
          AdmitRun(r, j, c, kind)
    \/ \E r \in Runs : CancelRun(r)
    \/ \E q \in Requests : ResumeStep(q)
    \/ \E w \in Workers : WorkerStep(w)
    \/ ReapLostJobs
    \/ \E r \in Runs : RepairTerminal(r)
    \/ \E j \in Jobs : LeaseTick(j)
    \/ \E j \in Jobs : QueueTimeout(j)
    \/ \E r \in Runs : InteractionDeadline(r)

Spec == Init /\ [][Next]_vars

\* What the code's scheduling provides: a running worker keeps polling, its
\* generator comes to an end one way or another, requests end, clocks advance,
\* and somebody reconciles (every worker does, between jobs).  Nothing is
\* assumed of clients, of Stop, or of a worker that crashed.  The reaper is strongly
\* fair: it queues for the row locks it meets, which the database grants in order.
Advance(w) ==
    \/ CheckJob(w) \/ StartRun(w) \/ EmitResumed(w)
    \/ CompleteRun(w) \/ InterruptRun(w) \/ ObserveCancel(w) \/ FailRun(w)
    \/ Deliver(w) \/ StopExecution(w) \/ RaiseError(w) \/ Finalize(w)

Fairness ==
    /\ \A w \in Workers : WF_vars(Advance(w))
    /\ \A q \in Requests :
         WF_vars(ClaimResume(q) \/ ExpireResume(q) \/ RejectGraphVersion(q) \/ AbortResume(q))
    /\ \A j \in Jobs : WF_vars(LeaseTick(j)) /\ WF_vars(QueueTimeout(j))
    /\ \A r \in Runs : WF_vars(InteractionDeadline(r))
    /\ SF_vars(ReapLostJobs)

FairSpec == Spec /\ Fairness

-----------------------------------------------------------------------------
(* Properties. *)

RunType ==
    [status : RunStatus \cup {"absent"}, conv : Conversations \cup {None}, turn : Nat,
     deadline : {"none", "ahead", "past"}, reply : BOOLEAN, overwritten : BOOLEAN]

JobType ==
    [status : {"absent", "queued", "running", "done"}, kind : Kinds,
     run : Runs \cup {None}, token : Workers \cup {None}, ttl : Int,
     overdue : BOOLEAN, turn : Nat]

OutputType ==
    [cursor : Nat, min : Nat, frames : Seq(Events), terminal : Control \cup {None},
     tcursor : Nat, partial : Nat]

WorkerType ==
    [pc : {"idle", "claimed", "checked", "final"} \cup Fenced, job : Jobs \cup {None},
     due : Control \cup {None}, failure : Failures \cup {None}]

RequestType ==
    [pc : {"idle", "claim", "expire", "incompatible"}, run : Runs \cup {None},
     job : Jobs \cup {None}, turn : Nat, locked : SUBSET Jobs]

\* Every row, worker and request holds values of its columns' domains.
TypeOK ==
    /\ run \in [Runs -> RunType]
    /\ job \in [Jobs -> JobType]
    /\ out \in [Runs -> OutputType]
    /\ worker \in [Workers -> WorkerType]
    /\ req \in [Requests -> RequestType]

\* A run never has two jobs that are queued or running: a resume closes the
\* previous phase in the transaction that queues the next one.
OneLiveJob ==
    \A j, k \in Jobs : Live(j) /\ Live(k) /\ job[j].run = job[k].run => j = k

\* A run that shows queued, running or cancelling has a live job, so a worker or
\* the reaper can still end it and free its conversation.
NoStuckRun ==
    \A r \in Runs : run[r].status \in Pending => \E j \in JobsOf(r) : Live(j)

\* "Its worker may still be finishing delivery, but must never mutate the new
\* phase" (resume_durable): while a worker past the fence would still have its writes
\* accepted, its phase has started and no other phase of the run is queued or running.
FencedPhase ==
    \A w \in Workers :
        worker[w].pc \in Fenced /\ Owns(w, worker[w].job)
            => /\ run[RunOf(w)].status \notin {"absent", "queued"}
               /\ \A j \in JobsOf(RunOf(w)) : Live(j) => j = worker[w].job

\* One question is answered by at most one accepted resume, whatever the number
\* of concurrent or repeated requests.
AnsweredOnce ==
    \A j, k \in {i \in Jobs : job[i].kind = "resume"} :
        job[j].run = job[k].run /\ job[j].turn = job[k].turn => j = k

NoReplyWhenCancelled(r) == run[r].status = "cancelled" => ~run[r].reply

\* "A cancelled run adds no completed assistant message."
CancelledHasNoReply == \A r \in Runs : NoReplyWhenCancelled(r)

\* The stored close signal describes the run: a worker that reports an outcome
\* late can at worst leave the interruption of a question that was withdrawn.
TerminalTruthful(r) ==
    out[r].terminal # None =>
        \/ run[r].status \in Terminal /\ out[r].terminal = Expected(run[r].status)
        \/ out[r].terminal = "run_interrupted" /\ run[r].status \in {"cancelled", "failed"}

\* When the last job of a phase that completed or paused is closed, by its worker,
\* by the reaper or by a resume, the matching control event has been saved.
LedgerClosed(r) ==
    run[r].status \in {"completed", "waiting_for_input"} =>
        \/ \E j \in JobsOf(r) : Live(j)
        \/ out[r].terminal = Expected(run[r].status)

\* Retained frames are exactly the cursors above min_cursor, and the marker of
\* the last control event lies within the ledger.
LedgerContiguous ==
    \A r \in Runs :
        /\ Len(out[r].frames) = out[r].cursor - out[r].min
        /\ out[r].tcursor <= out[r].cursor
        /\ out[r].tcursor > out[r].min =>
              out[r].frames[out[r].tcursor - out[r].min] = out[r].terminal

\* "Completion and Stop compete through guarded database transitions": once Stop
\* was accepted the run ends cancelled or failed, and cancelled is for good.
StopWins ==
    [][\A r \in Runs :
         /\ run[r].status = "cancelling" =>
                run'[r].status \in {"cancelling", "cancelled", "failed"}
         /\ run[r].status = "cancelled" => run'[r].status = "cancelled"]_vars

\* Reconciliation never takes a job from a worker whose writes would still pass
\* the fence: no step closes a leased job that its owner has not finished, unless
\* the run is waiting for input.
NoLeaseStolen ==
    [][\A w \in Workers :
         LET j == worker[w].job
         IN  worker[w].pc \in Fenced /\ Owns(w, j) /\ job'[j].status = "done"
                => run[job[j].run].status \in {"waiting_for_input", "cancelled", "failed"}]_vars

\* What the run and its ledger record at the end is the same, and is what happened.
\* A run that a resume request ended on a stale read stays ended, whatever is still
\* delivered to it.
OutcomesSound ==
    /\ LedgerContiguous
    /\ \A r \in Runs :
         IF run[r].overwritten
         THEN run[r].status \in {"cancelled", "failed"}
         ELSE NoReplyWhenCancelled(r) /\ TerminalTruthful(r) /\ LedgerClosed(r)

\* A question is answered, stopped or withdrawn: waiting does not hold the
\* conversation for ever.
WaitEnds == \A r \in Runs : run[r].status = "waiting_for_input" ~> run[r].status # "waiting_for_input"

-----------------------------------------------------------------------------
(* Why ownership is safe: the facts about jobs, workers and resume requests *)
(* that every step preserves.                                               *)

\* A job row names an admitted run.
JobHasRun ==
    \A j \in Jobs : job[j].status # "absent" =>
        job[j].run \in Runs /\ run[job[j].run].status # "absent"

\* A queued job waits for a queued run, or for one that was ended meanwhile.
QueuedJob ==
    \A j \in Jobs : job[j].status = "queued" =>
        run[job[j].run].status \in {"queued", "cancelled", "failed"}

\* A busy worker works on a job that was claimed, and delivers a known event.
WorkerHasJob ==
    \A w \in Workers : worker[w].pc # "idle" =>
        /\ worker[w].job \in Jobs
        /\ job[worker[w].job].status \in {"running", "done"}
        /\ worker[w].pc = "delivering" => worker[w].due # None

\* Before it starts the run, a worker can only find it queued under its own job,
\* or ended: the unlocked check and the unfenced start cannot meet a later phase.
NotStarted ==
    \A w \in Workers : worker[w].pc \in {"claimed", "checked"} =>
        /\ run[RunOf(w)].status \in {"queued", "cancelled", "failed"}
        /\ run[RunOf(w)].status = "queued" =>
             job[worker[w].job].status = "running" /\ job[worker[w].job].token = w

Holds(w) == job[worker[w].job].status = "running" /\ job[worker[w].job].token = w

\* While its job is held, the run of a fenced worker has started, and has ended
\* once the worker is delivering, or finishing without a failure.
HeldPhase ==
    \A w \in Workers : worker[w].pc # "idle" /\ Holds(w) =>
        /\ worker[w].pc \in Fenced => run[RunOf(w)].status \notin {"absent", "queued"}
        /\ worker[w].pc = "delivering" => run[RunOf(w)].status \notin Pending
        /\ worker[w].pc = "final" /\ worker[w].failure = None =>
             run[RunOf(w)].status \notin Pending

\* Rows locked by a request are running jobs of its run, locked by it alone.
LockedRows ==
    /\ \A q \in Requests : req[q].pc # "idle" =>
         req[q].job \in Jobs /\ req[q].run \in Runs /\ run[req[q].run].status # "absent"
    /\ \A q \in Requests : \A j \in req[q].locked :
         req[q].pc # "idle" /\ job[j].status = "running" /\ job[j].run = req[q].run
    /\ \A p, q \in Requests : p # q => req[p].locked \cap req[q].locked = {}

\* A request whose question is still open has locked all running jobs of the run.
OpenQuestion ==
    \A q \in Requests : req[q].pc # "idle" =>
        /\ req[q].turn <= run[req[q].run].turn
        /\ StillWaiting(q) =>
             \A j \in Jobs : job[j].status = "running" /\ job[j].run = req[q].run
                => j \in req[q].locked

Inductive ==
    /\ JobHasRun /\ QueuedJob /\ WorkerHasJob /\ NotStarted /\ HeldPhase
    /\ LockedRows /\ OpenQuestion
    /\ OneLiveJob /\ NoStuckRun

-----------------------------------------------------------------------------
\* The durable protocol implements the lifecycle clients are promised.
Shown == [r \in Runs |-> run[r].status]

Lifecycle == INSTANCE RunLifecycle WITH status <- Shown

LifecycleSpec == Lifecycle!Spec

=============================================================================

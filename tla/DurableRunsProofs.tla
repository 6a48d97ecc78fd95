------------------------- MODULE DurableRunsProofs -------------------------
(***************************************************************************)
(* Proofs about DurableRuns and OutputStream for every number of runs,     *)
(* jobs, workers, concurrent resume requests, conversations and clients.   *)
(***************************************************************************)
EXTENDS OutputStream, FiniteSetTheorems, SequenceTheorems, TLAPS

\* The retained frames are the ones above min_cursor.
Retained(o) == o.min <= o.cursor /\ Len(o.frames) = o.cursor - o.min

Ledger == \A r \in Runs : Retained(out[r])

IInv == TypeOK /\ Ledger /\ Inductive

-----------------------------------------------------------------------------
(* The delivery ledger. *)

\* Appending one frame and dropping the ones up to a new cutoff.
LEMMA CutFrames ==
    ASSUME NEW S, NEW f \in Seq(S), NEW e \in S, NEW old \in Nat, NEW new \in Nat,
           NEW cursor \in Nat, old <= new, new <= cursor, Len(f) = cursor - old
    PROVE  /\ SubSeq(Append(f, e), new - old + 1, cursor + 1 - old) \in Seq(S)
           /\ Len(SubSeq(Append(f, e), new - old + 1, cursor + 1 - old)) = cursor + 1 - new
  <1> DEFINE m == new - old + 1
             n == cursor + 1 - old
             all == Append(f, e)
  <1>1. all \in Seq(S) /\ Len(all) = n
    OBVIOUS
  <1>2. m \in 1..n /\ n \in Nat /\ n - m + 1 = cursor + 1 - new /\ m \in Int
    OBVIOUS
  <1>3. \A i \in m..n : all[i] \in S
    <2> HIDE DEF m, n, all
    <2> QED
      BY <1>1, <1>2
  <1>4. SubSeq(all, m, n) \in Seq(S) /\ Len(SubSeq(all, m, n)) = n - m + 1
    <2> HIDE DEF m, n, all
    <2> QED
      BY <1>2, <1>3, SubSeqProperties
  <1> QED
    BY <1>2, <1>4

\* append_frame keeps the columns' domains and the frames contiguous, whatever
\* window size its caller passes.
LEMMA AppendFrameType ==
    ASSUME NEW o \in OutputType, Retained(o), NEW event \in Events, NEW max \in Nat \ {0}
    PROVE  AppendFrame(o, event, max) \in OutputType /\ Retained(AppendFrame(o, event, max))
  <1> DEFINE new == AppendFrame(o, event, max)
             min == NewMin(o, max)
             cut == NewFrames(o, event, max)
  <1>1. o.cursor \in Nat /\ o.min \in Nat /\ o.frames \in Seq(Events) /\ o.partial \in Nat
            /\ o.tcursor \in Nat /\ o.terminal \in Control \cup {None}
    BY DEF OutputType
  <1>2. o.min <= o.cursor /\ Len(o.frames) = o.cursor - o.min
    BY DEF Retained
  <1>3. min \in Nat /\ o.min <= min /\ min <= o.cursor
    BY <1>1, <1>2 DEF NewMin
  <1>4. cut \in Seq(Events) /\ Len(cut) = o.cursor + 1 - min
    <2> DEFINE f == o.frames
               old == o.min
               cursor == o.cursor
    <2>1. f \in Seq(Events) /\ old \in Nat /\ cursor \in Nat /\ min \in Nat
            /\ old <= min /\ min <= cursor /\ Len(f) = cursor - old
      BY <1>1, <1>2, <1>3
    <2>2. SubSeq(Append(f, event), min - old + 1, cursor + 1 - old) \in Seq(Events)
            /\ Len(SubSeq(Append(f, event), min - old + 1, cursor + 1 - old)) = cursor + 1 - min
      <3> HIDE DEF f, old, cursor, min
      <3> QED
        BY <2>1, CutFrames
    <2> QED
      BY <2>2 DEF NewFrames
  <1>5. new.cursor = o.cursor + 1 /\ new.min = min /\ new.frames = cut
    <2>1. new.cursor = o.cursor + 1
      BY DEF AppendFrame
    <2>2. new.min = min
      BY DEF AppendFrame
    <2>3. new.frames = cut
      BY DEF AppendFrame
    <2> QED
      BY <2>1, <2>2, <2>3
  <1>6. new.terminal \in Control \cup {None}
    BY <1>1 DEF AppendFrame
  <1>7. new.tcursor \in Nat /\ new.partial \in Nat
    BY <1>1 DEF AppendFrame
  <1>8. new = [cursor |-> new.cursor, min |-> new.min, frames |-> new.frames,
               terminal |-> new.terminal, tcursor |-> new.tcursor, partial |-> new.partial]
    BY DEF AppendFrame
  <1> HIDE DEF new, min, cut
  <1>9. new \in OutputType
    BY <1>1, <1>3, <1>4, <1>5, <1>6, <1>7, <1>8 DEF OutputType
  <1>10. Retained(new)
    BY <1>1, <1>3, <1>4, <1>5 DEF Retained
  <1> QED
    BY <1>9, <1>10 DEF new

\* emit keeps the ledger well-formed whether or not it appends.
LEMMA EmitType ==
    ASSUME NEW o \in OutputType, Retained(o), NEW event \in Events, NEW max \in Nat \ {0}
    PROVE  Emit(o, event, max) \in OutputType /\ Retained(Emit(o, event, max))
  BY AppendFrameType DEF Emit

\* repair_terminal keeps the ledger well-formed.
LEMMA RepairedType ==
    ASSUME NEW ru \in RunType, NEW o \in OutputType, Retained(o)
    PROVE  Repaired(ru, o) \in OutputType /\ Retained(Repaired(ru, o))
  <1>1. CASE ru.status \in Terminal
    <2>1. Expected(ru.status) \in Events
      BY <1>1 DEF Expected, Terminal, Events, Control
    <2>2. DefaultMaxFrames \in Nat \ {0}
      BY ConstantsAssumption
    <2> QED
      BY <1>1, <2>1, <2>2, EmitType DEF Repaired
  <1>2. CASE ru.status \notin Terminal
    BY <1>2 DEF Repaired
  <1> QED
    BY <1>1, <1>2

\* Replacing the output of one run by a well-formed one.
LEMMA OutputUpdate ==
    ASSUME out \in [Runs -> OutputType], Ledger, NEW r \in Runs,
           NEW o \in OutputType, Retained(o), out' = [out EXCEPT ![r] = o]
    PROVE  out' \in [Runs -> OutputType] /\ Ledger'
  BY DEF Ledger

-----------------------------------------------------------------------------
(* Steps that leave runs, jobs and requests alone. *)

\* The facts a busy worker's step needs.
LEMMA Busy ==
    ASSUME IInv, NEW w \in Workers, worker[w].pc # "idle"
    PROVE  /\ worker[w].job \in Jobs
           /\ job[worker[w].job].status \in {"running", "done"}
           /\ RunOf(w) \in Runs
           /\ run[RunOf(w)].status # "absent"
  BY DEF IInv, Inductive, WorkerHasJob, JobHasRun, RunOf

\* A step of one worker that leaves runs, jobs and requests alone preserves the
\* invariant if the worker's next position is one its run allows.
LEMMA LocalStep ==
    ASSUME IInv, NEW w \in Workers, NEW x \in WorkerType,
           UNCHANGED <<run, job, req>>,
           out' \in [Runs -> OutputType], Ledger',
           worker' = [worker EXCEPT ![w] = x],
           x.pc # "idle" => worker[w].pc # "idle" /\ x.job = worker[w].job,
           x.pc \in {"claimed", "checked"} => worker[w].pc \in {"claimed", "checked"},
           x.pc = "delivering" => x.due # None,
           x.pc \in Fenced /\ Holds(w) => run[RunOf(w)].status # "queued",
           x.pc = "delivering" /\ Holds(w) => run[RunOf(w)].status \notin Pending,
           x.pc = "final" /\ x.failure = None /\ Holds(w) => run[RunOf(w)].status \notin Pending
    PROVE  IInv'
  <1>1. TypeOK' /\ Ledger'
    BY DEF IInv, TypeOK
  <1>2. Inductive'
    <2> USE Busy DEF IInv, Inductive, TypeOK
    <2>1. JobHasRun' /\ QueuedJob' /\ LockedRows' /\ OneLiveJob' /\ NoStuckRun'
      BY DEF JobHasRun, QueuedJob, LockedRows, OneLiveJob, NoStuckRun, JobsOf, Live
    <2>2. OpenQuestion'
      BY DEF OpenQuestion, StillWaiting
    <2>3. WorkerHasJob'
      BY DEF WorkerHasJob
    <2>4. NotStarted'
      BY DEF NotStarted, RunOf
    <2>5. HeldPhase'
      BY DEF HeldPhase, Holds, RunOf
    <2> QED
      BY <2>1, <2>2, <2>3, <2>4, <2>5
  <1> QED
    BY <1>1, <1>2 DEF IInv

\* The unlocked ownership check.
LEMMA CheckJobInv ==
    ASSUME IInv, NEW w \in Workers, CheckJob(w)
    PROVE  IInv'
  <1> DEFINE x == [worker[w] EXCEPT !.pc = IF Holds(w) THEN "checked" ELSE "final"]
  <1>1. x \in WorkerType /\ worker[w] \in WorkerType /\ x.job = worker[w].job
    BY DEF IInv, TypeOK, WorkerType
  <1>2. worker' = [worker EXCEPT ![w] = x] /\ worker[w].pc = "claimed"
    BY DEF CheckJob, Holds, IInv, TypeOK
  <1>3. out' \in [Runs -> OutputType] /\ Ledger' /\ UNCHANGED <<run, job, req>>
    BY DEF CheckJob, IInv, TypeOK, Ledger
  <1>4. x.pc \notin Fenced /\ x.pc # "idle" /\ (x.pc = "final" => ~Holds(w))
    BY <1>1 DEF Fenced, WorkerType
  <1> HIDE DEF x
  <1> QED
    BY <1>1, <1>2, <1>3, <1>4, LocalStep DEF Fenced

\* Frames a worker emits into the ledger of its run.
LEMMA EmitStep ==
    ASSUME IInv, NEW r \in Runs, NEW event \in Events,
           out' = [out EXCEPT ![r] = Emit(@, event, MaxFrames)]
    PROVE  out' \in [Runs -> OutputType] /\ Ledger'
  <1> DEFINE o == Emit(out[r], event, MaxFrames)
  <1>1. MaxFrames \in Nat \ {0} /\ out[r] \in OutputType /\ Retained(out[r])
    BY ConstantsAssumption DEF IInv, TypeOK, Ledger
  <1>2. o \in OutputType /\ Retained(o)
    BY <1>1, EmitType
  <1>3. out' = [out EXCEPT ![r] = o]
    OBVIOUS
  <1> HIDE DEF o
  <1> QED
    BY <1>2, <1>3, OutputUpdate DEF IInv, TypeOK

\* The same for a repair.
LEMMA RepairStep ==
    ASSUME IInv, NEW r \in Runs, NEW ru \in RunType,
           out' = [out EXCEPT ![r] = Repaired(ru, @)]
    PROVE  out' \in [Runs -> OutputType] /\ Ledger'
  <1> DEFINE o == Repaired(ru, out[r])
  <1>1. out[r] \in OutputType /\ Retained(out[r])
    BY DEF IInv, TypeOK, Ledger
  <1>2. o \in OutputType /\ Retained(o)
    BY <1>1, RepairedType
  <1>3. out' = [out EXCEPT ![r] = o]
    OBVIOUS
  <1> HIDE DEF o
  <1> QED
    BY <1>2, <1>3, OutputUpdate DEF IInv, TypeOK

\* The first frame of a resumed phase.
LEMMA EmitResumedInv ==
    ASSUME IInv, NEW w \in Workers, EmitResumed(w)
    PROVE  IInv'
  <1> DEFINE x == [worker[w] EXCEPT !.pc = "executing"]
  <1>1. x \in WorkerType /\ x.job = worker[w].job /\ x.pc = "executing"
    BY DEF IInv, TypeOK, WorkerType, Fenced
  <1>2. worker' = [worker EXCEPT ![w] = x] /\ worker[w].pc = "resuming"
    BY DEF EmitResumed, IInv, TypeOK
  <1>3. out' \in [Runs -> OutputType] /\ Ledger'
    BY <1>2, Busy, EmitStep DEF EmitResumed, Events
  <1>4. Holds(w) => run[RunOf(w)].status # "queued"
    BY <1>2 DEF IInv, Inductive, HeldPhase, Fenced
  <1> HIDE DEF x
  <1> QED
    BY <1>1, <1>2, <1>3, <1>4, LocalStep DEF EmitResumed

\* Answer text and activity: only the ledger changes.
LEMMA EmitProgressInv ==
    ASSUME IInv, NEW w \in Workers, NEW event \in Progress, EmitProgress(w, event)
    PROVE  IInv'
  <1>1. worker[w].pc \in {"executing", "delivering"}
    BY DEF EmitProgress
  <1>2. out' \in [Runs -> OutputType] /\ Ledger'
    BY <1>1, Busy, EmitStep DEF EmitProgress, Events
  <1>3. worker[w] \in WorkerType /\ worker' = [worker EXCEPT ![w] = worker[w]]
    BY DEF EmitProgress, IInv, TypeOK
  <1>4. Holds(w) => /\ run[RunOf(w)].status # "queued"
                    /\ worker[w].pc = "delivering" => run[RunOf(w)].status \notin Pending
    BY <1>1 DEF IInv, Inductive, HeldPhase, Fenced
  <1>5. worker[w].pc = "delivering" => worker[w].due # None
    BY DEF IInv, Inductive, WorkerHasJob
  <1> QED
    BY <1>1, <1>2, <1>3, <1>4, <1>5, LocalStep DEF EmitProgress

\* A failure reported for a run that has ended.
LEMMA FailEndedRunInv ==
    ASSUME IInv, NEW w \in Workers, FailEndedRun(w)
    PROVE  IInv'
  <1> DEFINE x == [worker[w] EXCEPT !.pc = "delivering", !.due = "run_failed"]
  <1>1. x \in WorkerType /\ x.job = worker[w].job /\ x.pc = "delivering" /\ x.due # None
    BY NoneAssumption DEF IInv, TypeOK, WorkerType, Fenced, Control, Failures
  <1>2. worker' = [worker EXCEPT ![w] = x] /\ worker[w].pc = "executing"
    BY DEF FailEndedRun, IInv, TypeOK
  <1>3. out' \in [Runs -> OutputType] /\ Ledger' /\ UNCHANGED <<run, job, req>>
    BY DEF FailEndedRun, IInv, TypeOK, Ledger
  <1>4. run[RunOf(w)].status \notin Pending
    BY DEF FailEndedRun, Pending, Active
  <1> HIDE DEF x
  <1> QED
    BY <1>1, <1>2, <1>3, <1>4, LocalStep DEF Pending

\* An error between the commit and its control event.
LEMMA FailAfterCommitInv ==
    ASSUME IInv, NEW w \in Workers, FailAfterCommit(w)
    PROVE  IInv'
  <1>1. PICK x \in WorkerType :
            /\ worker' = [worker EXCEPT ![w] = x]
            /\ x.job = worker[w].job
            /\ \/ x.pc = "delivering" /\ x.due = "run_failed"
               \/ x.pc = "final" /\ x.failure = "worker_lost"
    <2>1. CASE worker[w].due = "run_completed"
      <3> DEFINE x == [worker[w] EXCEPT !.due = "run_failed"]
      <3>1. x \in WorkerType
        BY DEF IInv, TypeOK, WorkerType, Control
      <3>2. x.pc = "delivering" /\ x.due = "run_failed" /\ x.job = worker[w].job
        BY DEF IInv, TypeOK, WorkerType, FailAfterCommit
      <3>3. worker' = [worker EXCEPT ![w] = x]
        BY <2>1, NoneAssumption DEF FailAfterCommit, IInv, TypeOK
      <3> QED
        BY <3>1, <3>2, <3>3
    <2>2. CASE worker[w].due = "run_interrupted"
      <3> DEFINE x == [worker[w] EXCEPT !.pc = "final", !.failure = "worker_lost"]
      <3>1. x \in WorkerType
        BY DEF IInv, TypeOK, WorkerType, Failures
      <3>2. x.pc = "final" /\ x.failure = "worker_lost" /\ x.job = worker[w].job
        BY DEF IInv, TypeOK, WorkerType
      <3>3. worker' = [worker EXCEPT ![w] = x]
        BY <2>2 DEF FailAfterCommit, IInv, TypeOK
      <3> QED
        BY <3>1, <3>2, <3>3
    <2> QED
      BY <2>1, <2>2 DEF FailAfterCommit
  <1>2. worker[w].pc = "delivering" /\ UNCHANGED <<run, job, req>>
    BY DEF FailAfterCommit
  <1>3. out' \in [Runs -> OutputType] /\ Ledger'
    BY DEF FailAfterCommit, IInv, TypeOK, Ledger
  <1>4. Holds(w) => run[RunOf(w)].status \notin Pending
    BY <1>2 DEF IInv, Inductive, HeldPhase
  <1>5. None # "run_failed"
    BY NoneAssumption DEF Failures
  <1> QED
    BY <1>1, <1>2, <1>3, <1>4, <1>5, LocalStep DEF Pending

\* The control event of the committed outcome.
LEMMA DeliverInv ==
    ASSUME IInv, NEW w \in Workers, Deliver(w)
    PROVE  IInv'
  <1> DEFINE x == [worker[w] EXCEPT !.pc = "final"]
  <1>1. x \in WorkerType /\ x.job = worker[w].job /\ x.pc = "final"
    BY DEF IInv, TypeOK, WorkerType, Fenced
  <1>2. worker' = [worker EXCEPT ![w] = x] /\ worker[w].pc = "delivering"
    BY DEF Deliver, IInv, TypeOK
  <1>3. out' \in [Runs -> OutputType] /\ Ledger'
    <2>1. RunOf(w) \in Runs /\ run[RunOf(w)] \in RunType /\ worker[w].due \in Control
      BY <1>2, Busy DEF IInv, TypeOK, WorkerType, Inductive, WorkerHasJob
    <2>2. CASE out' = [out EXCEPT ![RunOf(w)] = Repaired(run[RunOf(w)], @)]
      BY <2>1, <2>2, RepairStep
    <2>3. CASE out' = [out EXCEPT ![RunOf(w)] = Emit(@, worker[w].due, MaxFrames)]
      BY <2>1, <2>3, EmitStep DEF Events
    <2> QED
      BY <2>2, <2>3 DEF Deliver
  <1>4. Holds(w) => run[RunOf(w)].status \notin Pending
    BY <1>2 DEF IInv, Inductive, HeldPhase
  <1> HIDE DEF x
  <1> QED
    BY <1>1, <1>2, <1>3, <1>4, LocalStep DEF Deliver, Fenced

\* A worker leaves execution with a failure recorded: by the loss of ownership, by
\* an exception, or because its run was no longer queued when it wanted to start it.
LEMMA LeaveWithFailure ==
    ASSUME IInv, NEW w \in Workers, NEW failure \in Failures, worker[w].pc # "idle",
           worker' = [worker EXCEPT ![w].pc = "final", ![w].failure = failure],
           UNCHANGED <<run, job, out, req>>
    PROVE  IInv'
  <1> DEFINE x == [worker[w] EXCEPT !.pc = "final", !.failure = failure]
  <1>1. x \in WorkerType
    BY DEF IInv, TypeOK, WorkerType
  <1>2. x.pc = "final" /\ x.failure = failure /\ x.job = worker[w].job /\ failure # None
    BY NoneAssumption DEF IInv, TypeOK, WorkerType
  <1>3. worker' = [worker EXCEPT ![w] = x]
    BY DEF IInv, TypeOK
  <1>4. out' \in [Runs -> OutputType] /\ Ledger'
    BY DEF IInv, TypeOK, Ledger
  <1> HIDE DEF x
  <1> QED
    BY <1>1, <1>2, <1>3, <1>4, LocalStep DEF Fenced

\* ExecutionStopped and every other exception of execute_job.
LEMMA StopExecutionInv ==
    ASSUME IInv, NEW w \in Workers, StopExecution(w) \/ RaiseError(w)
    PROVE  IInv'
  BY LeaveWithFailure DEF StopExecution, RaiseError, Fenced, Failures

\* The worker process dies; its job keeps its token.
LEMMA CrashInv ==
    ASSUME IInv, NEW w \in Workers, Crash(w)
    PROVE  IInv'
  <1>1. IdleWorker \in WorkerType /\ IdleWorker.pc = "idle"
    BY DEF IdleWorker, WorkerType
  <1>2. out' \in [Runs -> OutputType] /\ Ledger'
    BY DEF IInv, TypeOK, Ledger, Crash
  <1> QED
    BY <1>1, <1>2, LocalStep DEF Crash, Fenced

\* A reader repairs the ledger: nothing else changes.
LEMMA RepairTerminalInv ==
    ASSUME IInv, NEW r \in Runs, RepairTerminal(r)
    PROVE  IInv'
  <1>1. out' \in [Runs -> OutputType] /\ Ledger'
    BY RepairStep DEF RepairTerminal, IInv, TypeOK
  <1>2. Inductive'
    BY DEF IInv, Inductive, RepairTerminal, JobHasRun, QueuedJob, WorkerHasJob, NotStarted,
           HeldPhase, Holds, RunOf, LockedRows, OpenQuestion, StillWaiting, OneLiveJob,
           NoStuckRun, JobsOf, Live
  <1> QED
    BY <1>1, <1>2 DEF IInv, TypeOK, RepairTerminal

-----------------------------------------------------------------------------
(* Leases and clocks. *)

\* Ownership facts do not depend on a job's lease or queue timeout.
LEMMA ClockStep ==
    ASSUME IInv, NEW j \in Jobs, NEW x \in JobType,
           UNCHANGED <<run, out, worker, req>>, job' = [job EXCEPT ![j] = x],
           x.status = job[j].status, x.run = job[j].run, x.token = job[j].token
    PROVE  IInv'
  <1>1. TypeOK' /\ Ledger'
    BY DEF IInv, TypeOK, Ledger
  <1>2. \A k \in Jobs : /\ job'[k].status = job[k].status
                        /\ job'[k].run = job[k].run
                        /\ job'[k].token = job[k].token
    BY DEF IInv, TypeOK
  <1>3. Inductive'
    <2> USE <1>2 DEF IInv, Inductive, TypeOK
    <2>1. JobHasRun' /\ QueuedJob' /\ WorkerHasJob'
      BY DEF JobHasRun, QueuedJob, WorkerHasJob
    <2>2. LockedRows'
      BY DEF LockedRows, RequestType
    <2>3. OneLiveJob' /\ NoStuckRun'
      BY DEF OneLiveJob, NoStuckRun, JobsOf, Live
    <2>4. OpenQuestion'
      BY DEF OpenQuestion, StillWaiting
    <2>5. NotStarted'
      BY DEF NotStarted, RunOf, WorkerHasJob
    <2>6. HeldPhase'
      BY DEF HeldPhase, Holds, RunOf, WorkerHasJob
    <2> QED
      BY <2>1, <2>2, <2>3, <2>4, <2>5, <2>6
  <1> QED
    BY <1>1, <1>3 DEF IInv

\* The pulse thread and the passage of time.
LEMMA RenewLeaseInv ==
    ASSUME IInv, NEW w \in Workers, RenewLease(w)
    PROVE  IInv'
  <1> DEFINE j == worker[w].job
             x == [job[j] EXCEPT !.ttl = LeaseTicks]
  <1>1. j \in Jobs
    BY Busy DEF RenewLease
  <1>2. x \in JobType /\ x.status = job[j].status /\ x.run = job[j].run /\ x.token = job[j].token
    BY <1>1, ConstantsAssumption DEF IInv, TypeOK, JobType
  <1>3. job' = [job EXCEPT ![j] = x]
    BY <1>1 DEF RenewLease, IInv, TypeOK
  <1> HIDE DEF x
  <1> QED
    BY <1>1, <1>2, <1>3, ClockStep DEF RenewLease

\* A lease runs down; nobody's job changes hands.
LEMMA LeaseTickInv ==
    ASSUME IInv, NEW j \in Jobs, LeaseTick(j)
    PROVE  IInv'
  <1> DEFINE x == [job[j] EXCEPT !.ttl = @ - 1]
  <1>1. x \in JobType /\ x.status = job[j].status /\ x.run = job[j].run /\ x.token = job[j].token
    BY DEF IInv, TypeOK, JobType
  <1>2. job' = [job EXCEPT ![j] = x]
    BY DEF LeaseTick, IInv, TypeOK
  <1> HIDE DEF x
  <1> QED
    BY <1>1, <1>2, ClockStep DEF LeaseTick

\* A queued job becomes overdue.
LEMMA QueueTimeoutInv ==
    ASSUME IInv, NEW j \in Jobs, QueueTimeout(j)
    PROVE  IInv'
  <1> DEFINE x == [job[j] EXCEPT !.overdue = TRUE]
  <1>1. x \in JobType /\ x.status = job[j].status /\ x.run = job[j].run /\ x.token = job[j].token
    BY DEF IInv, TypeOK, JobType
  <1>2. job' = [job EXCEPT ![j] = x]
    BY DEF QueueTimeout, IInv, TypeOK
  <1> HIDE DEF x
  <1> QED
    BY <1>1, <1>2, ClockStep DEF QueueTimeout

\* The deadline of an interaction passes; only the run's deadline changes.
LEMMA InteractionDeadlineInv ==
    ASSUME IInv, NEW r \in Runs, InteractionDeadline(r)
    PROVE  IInv'
  <1>1. TypeOK' /\ Ledger'
    BY DEF IInv, TypeOK, RunType, Ledger, InteractionDeadline
  <1>2. \A s \in Runs : run'[s].status = run[s].status /\ run'[s].turn = run[s].turn
    BY DEF IInv, TypeOK, RunType, InteractionDeadline
  <1>3. UNCHANGED <<job, worker, req>>
    BY DEF InteractionDeadline
  <1>4. Inductive'
    <2> USE <1>2, <1>3 DEF IInv, Inductive, TypeOK
    <2>1. JobHasRun' /\ QueuedJob' /\ WorkerHasJob'
      BY DEF JobHasRun, QueuedJob, WorkerHasJob
    <2>2. LockedRows' /\ OneLiveJob' /\ NoStuckRun'
      BY DEF LockedRows, OneLiveJob, NoStuckRun, JobsOf, Live
    <2>3. OpenQuestion'
      BY DEF OpenQuestion, StillWaiting, LockedRows
    <2>4. NotStarted'
      BY DEF NotStarted, RunOf, WorkerHasJob, JobHasRun
    <2>5. HeldPhase'
      BY DEF HeldPhase, Holds, RunOf, WorkerHasJob, JobHasRun
    <2> QED
      BY <2>1, <2>2, <2>3, <2>4, <2>5
  <1> QED
    BY <1>1, <1>4 DEF IInv

-----------------------------------------------------------------------------
(* Execution. *)

\* The run of a job that is held by a worker past the start is shared with no
\* other live job, and no other worker holds it or waits to start it.
LEMMA SoleOwner ==
    ASSUME IInv, NEW w \in Workers, worker[w].pc # "idle", Holds(w)
    PROVE  /\ \A k \in Jobs : Live(k) /\ job[k].run = RunOf(w) => k = worker[w].job
           /\ \A v \in Workers : worker[v].pc # "idle" /\ Holds(v) /\ RunOf(v) = RunOf(w)
                => v = w
  <1>1. worker[w].job \in Jobs /\ Live(worker[w].job)
    BY Busy DEF Holds, Live
  <1>2. \A k \in Jobs : Live(k) /\ job[k].run = RunOf(w) => k = worker[w].job
    BY <1>1 DEF IInv, Inductive, OneLiveJob, RunOf
  <1>3. ASSUME NEW v \in Workers, worker[v].pc # "idle", Holds(v), RunOf(v) = RunOf(w)
        PROVE  v = w
    <2>1. worker[v].job \in Jobs /\ Live(worker[v].job)
      BY <1>3, Busy DEF Holds, Live
    <2>2. worker[v].job = worker[w].job
      BY <1>2, <1>3, <2>1 DEF RunOf
    <2> QED
      BY <1>3, <2>2 DEF Holds
  <1> QED
    BY <1>2, <1>3

\* claim_job turns a queued job into a leased one.
LEMMA ClaimJobInv ==
    ASSUME IInv, NEW w \in Workers, NEW j \in Jobs, ClaimJob(w, j)
    PROVE  IInv'
  <1> DEFINE x == [IdleWorker EXCEPT !.pc = "claimed", !.job = j]
             y == [job[j] EXCEPT !.status = "running", !.token = w, !.ttl = LeaseTicks]
  <1>1. x \in WorkerType /\ x.pc = "claimed" /\ x.job = j
    BY DEF IdleWorker, WorkerType
  <1>2. y \in JobType /\ y.status = "running" /\ y.token = w /\ y.run = job[j].run
    <2>1. job[j] \in JobType /\ LeaseTicks \in Int
      BY ConstantsAssumption DEF IInv, TypeOK
    <2>2. y \in JobType
      BY <2>1 DEF JobType
    <2>3. y.status = "running" /\ y.token = w /\ y.run = job[j].run
      BY <2>1 DEF JobType
    <2> QED
      BY <2>2, <2>3
  <1>3. job' = [job EXCEPT ![j] = y] /\ worker' = [worker EXCEPT ![w] = x]
    BY DEF ClaimJob, IInv, TypeOK
  <1>4. UNCHANGED <<run, out, req>> /\ job[j].status = "queued" /\ worker[w].pc = "idle"
    BY DEF ClaimJob
  <1> HIDE DEF x, y
  <1>5. TypeOK' /\ Ledger'
    BY <1>1, <1>2, <1>3, <1>4 DEF IInv, TypeOK, Ledger
  <1>6. \A v \in Workers : worker[v].pc # "idle" => worker[v].job \in Jobs \ {j}
    BY <1>4, Busy
  <1>7. Inductive'
    <2> USE <1>1, <1>2, <1>3, <1>4 DEF IInv, Inductive, TypeOK
    <2>1. JobHasRun' /\ QueuedJob'
      BY DEF JobHasRun, QueuedJob
    <2>2. WorkerHasJob'
      BY <1>6 DEF WorkerHasJob
    <2>3. LockedRows'
      BY DEF LockedRows, RequestType
    <2>4. OneLiveJob' /\ NoStuckRun'
      BY DEF OneLiveJob, NoStuckRun, JobsOf, Live
    <2>5. OpenQuestion'
      BY DEF OpenQuestion, StillWaiting, QueuedJob
    <2>6. NotStarted'
      BY <1>6 DEF NotStarted, RunOf, QueuedJob
    <2>7. HeldPhase'
      BY <1>6 DEF HeldPhase, Holds, RunOf, Fenced
    <2> QED
      BY <2>1, <2>2, <2>3, <2>4, <2>5, <2>6, <2>7
  <1> QED
    BY <1>5, <1>7 DEF IInv

\* A worker moves its run from one status to another under its own job: what the
\* start of a phase and the commits that end it have in common.
LEMMA PhaseStep ==
    ASSUME IInv, NEW w \in Workers, NEW x \in WorkerType, NEW ru \in RunType,
           worker[w].pc # "idle", Holds(w), run[RunOf(w)].status \in Pending,
           worker[w].pc \in {"claimed", "checked"} \/ run[RunOf(w)].status # "queued",
           UNCHANGED <<job, out, req>>,
           worker' = [worker EXCEPT ![w] = x],
           run' = [run EXCEPT ![RunOf(w)] = ru],
           x.job = worker[w].job, x.pc \in Fenced,
           x.pc = "delivering" => x.due # None /\ ru.status \notin Pending,
           ru.status \notin {"absent", "queued"},
           ru.turn >= run[RunOf(w)].turn,
           ru.status = "waiting_for_input" => ru.turn > run[RunOf(w)].turn
    PROVE  IInv'
  <1> DEFINE r == RunOf(w)
  <1>1. r \in Runs /\ worker[w].job \in Jobs /\ job[worker[w].job].run = r
            /\ job[worker[w].job].status = "running" /\ job[worker[w].job].token = w
    BY Busy DEF RunOf, Holds
  <1>2. /\ \A k \in Jobs : Live(k) /\ job[k].run = r => k = worker[w].job
        /\ \A v \in Workers : worker[v].pc # "idle" /\ Holds(v) /\ RunOf(v) = r => v = w
    BY SoleOwner
  <1>3. \A s \in Runs : s # r => run'[s] = run[s]
    BY DEF IInv, TypeOK
  <1>4. run'[r] = ru
    BY <1>1 DEF IInv, TypeOK
  <1>5. TypeOK' /\ Ledger'
    BY <1>1 DEF IInv, TypeOK, Ledger
  <1>6. x.pc \notin {"idle", "claimed", "checked", "final"}
    BY DEF Fenced
  <1>7. \A v \in Workers : v # w => worker'[v] = worker[v]
    BY DEF IInv, TypeOK
  <1>8. worker'[w] = x
    BY DEF IInv, TypeOK
  <1> HIDE DEF r
  <1>9. Inductive'
    <2> USE <1>1, <1>3, <1>4 DEF IInv, Inductive
    <2>1. JobHasRun'
      BY DEF JobHasRun
    <2>2. QueuedJob'
      BY <1>2 DEF QueuedJob, JobHasRun, Live
    <2>3. WorkerHasJob'
      BY <1>7, <1>8, <1>6 DEF WorkerHasJob
    <2>4. LockedRows' /\ OneLiveJob'
      BY DEF LockedRows, OneLiveJob, Live
    <2>5. NoStuckRun'
      BY DEF NoStuckRun, JobsOf, Live
    <2>6. OpenQuestion'
      <3>1. SUFFICES ASSUME NEW q \in Requests, req[q].pc # "idle"
                     PROVE  /\ req[q].turn <= run'[req[q].run].turn
                            /\ StillWaiting(q)' => StillWaiting(q)
        BY DEF OpenQuestion, StillWaiting
      <3>2. CASE req[q].run = r
        <4>1. req[q].turn <= run[r].turn /\ req[q].turn \in Nat /\ run[r].turn \in Nat
                /\ ru.turn \in Nat
          BY <3>1, <3>2 DEF OpenQuestion, TypeOK, RequestType, RunType
        <4>2. ru.turn >= run[r].turn /\ (ru.status = "waiting_for_input" => ru.turn > run[r].turn)
          BY DEF r
        <4> QED
          BY <3>2, <4>1, <4>2 DEF StillWaiting
      <3>3. CASE req[q].run # r
        <4>1. req[q].run \in Runs
          BY <3>1 DEF LockedRows
        <4> QED
          BY <3>1, <3>3, <4>1 DEF OpenQuestion, StillWaiting
      <3> QED
        BY <3>2, <3>3
    <2>7. NotStarted'
      <3>1. SUFFICES ASSUME NEW v \in Workers, worker'[v].pc \in {"claimed", "checked"}
                     PROVE  RunOf(v)' \in Runs \ {r} /\ worker'[v] = worker[v]
        BY <3>1 DEF NotStarted, RunOf
      <3>2. v # w /\ worker'[v] = worker[v]
        BY <1>6, <1>7, <1>8, <3>1
      <3>3. RunOf(v)' = RunOf(v) /\ RunOf(v) \in Runs
        BY <3>1, <3>2, Busy DEF RunOf
      <3>4. RunOf(v) # r
        <4> SUFFICES ASSUME RunOf(v) = r
                     PROVE  FALSE
          OBVIOUS
        <4>1. run[r].status = "queued" /\ Holds(v)
          BY <3>1, <3>2 DEF NotStarted, Pending, Holds, r
        <4> QED
          BY <1>2, <3>1, <3>2, <4>1
      <3> QED
        BY <3>2, <3>3, <3>4
    <2>8. HeldPhase'
      <3>1. SUFFICES ASSUME NEW v \in Workers, v # w, worker[v].pc # "idle", Holds(v)
                     PROVE  RunOf(v) \in Runs \ {r}
        BY <3>1, <1>6, <1>7, <1>8 DEF HeldPhase, Holds, RunOf, Fenced
      <3> QED
        BY <1>2, <3>1, Busy
    <2> QED
      BY <2>1, <2>2, <2>3, <2>4, <2>5, <2>6, <2>7, <2>8
  <1> QED
    BY <1>5, <1>9 DEF IInv

\* The unfenced compare-and-set that starts a phase.
LEMMA StartRunInv ==
    ASSUME IInv, NEW w \in Workers, StartRun(w)
    PROVE  IInv'
  <1>1. worker[w].pc = "checked" /\ UNCHANGED <<job, out, req>>
    BY DEF StartRun
  <1>2. RunOf(w) \in Runs /\ run[RunOf(w)] \in RunType /\ worker[w] \in WorkerType
    BY <1>1, Busy DEF IInv, TypeOK
  <1>3. CASE run[RunOf(w)].status = "queued"
    <2> DEFINE pc == IF job[worker[w].job].kind = "resume" THEN "resuming" ELSE "executing"
               x == [worker[w] EXCEPT !.pc = pc]
               ru == [run[RunOf(w)] EXCEPT !.status = "running"]
    <2>1. pc \in Fenced /\ pc # "delivering"
      BY DEF Fenced
    <2>2. worker' = [worker EXCEPT ![w] = x]
      BY <1>3 DEF StartRun, IInv, TypeOK
    <2> HIDE DEF pc
    <2>3. x \in WorkerType /\ x.pc = pc /\ x.job = worker[w].job
      BY <1>2, <2>1 DEF WorkerType, Fenced
    <2>4. ru \in RunType /\ ru.status = "running" /\ ru.turn = run[RunOf(w)].turn /\ ru.turn \in Nat
      BY <1>2 DEF RunType, RunStatus, Active
    <2>5. run' = [run EXCEPT ![RunOf(w)] = ru]
      BY <1>2, <1>3 DEF StartRun, IInv, TypeOK
    <2>6. Holds(w)
      BY <1>1, <1>3 DEF IInv, Inductive, NotStarted, Holds
    <2>7. ru.turn >= run[RunOf(w)].turn /\ ru.status \notin {"absent", "queued", "waiting_for_input"}
      BY <2>4
    <2>8. run[RunOf(w)].status \in Pending
      BY <1>3 DEF Pending
    <2> HIDE DEF x, ru
    <2> QED
      BY <1>1, <2>1, <2>2, <2>3, <2>4, <2>5, <2>6, <2>7, <2>8, PhaseStep
  <1>4. CASE run[RunOf(w)].status # "queued"
    BY <1>1, <1>4, LeaveWithFailure DEF StartRun, Failures
  <1> QED
    BY <1>3, <1>4

\* The facts the commits that end a phase share.
LEMMA EndPhaseStep ==
    ASSUME IInv, NEW w \in Workers,
           NEW status \in {"completed", "waiting_for_input", "cancelled", "failed"},
           NEW ru \in RunType, EndPhase(w, status),
           ru.status = status, ru.turn \in {run[RunOf(w)].turn, run[RunOf(w)].turn + 1},
           status = "waiting_for_input" => ru.turn = run[RunOf(w)].turn + 1,
           run' = [run EXCEPT ![RunOf(w)] = ru]
    PROVE  IInv'
  <1> DEFINE x == [worker[w] EXCEPT !.pc = "delivering", !.due = Expected(status)]
  <1>1. worker[w].pc = "executing" /\ Holds(w) /\ UNCHANGED <<job, out, req>>
    BY DEF EndPhase, Fence, Owns, Holds
  <1>2. run[RunOf(w)] \in RunType /\ run[RunOf(w)].turn \in Nat /\ worker[w] \in WorkerType
    BY <1>1, Busy DEF IInv, TypeOK, RunType
  <1>3. run[RunOf(w)].status \in Pending \ {"queued"}
    BY <1>1 DEF IInv, Inductive, HeldPhase, Fenced, EndPhase, MayBecome, Pending
  <1>4. Expected(status) \in Control /\ Expected(status) # None
    BY NoneAssumption DEF Expected, Control, Events
  <1>5. x \in WorkerType /\ x.pc = "delivering" /\ x.due = Expected(status)
            /\ x.job = worker[w].job
    BY <1>2, <1>4 DEF WorkerType, Fenced
  <1>6. worker' = [worker EXCEPT ![w] = x]
    BY DEF EndPhase, IInv, TypeOK
  <1>7. ru.turn >= run[RunOf(w)].turn
            /\ (ru.status = "waiting_for_input" => ru.turn > run[RunOf(w)].turn)
    BY <1>2
  <1> HIDE DEF x
  <1> QED
    BY <1>1, <1>3, <1>4, <1>5, <1>6, <1>7, PhaseStep DEF Pending, Fenced

\* The run row of an ended run.
LEMMA EndedType ==
    ASSUME NEW ru \in RunType, NEW status \in RunStatus
    PROVE  /\ Ended(ru, status) \in RunType
           /\ Ended(ru, status).status = status /\ Ended(ru, status).turn = ru.turn
  BY DEF Ended, RunType

LEMMA WithdrawnType ==
    ASSUME NEW ru \in RunType, NEW status \in RunStatus
    PROVE  /\ Withdrawn(ru, status) \in RunType
           /\ Withdrawn(ru, status).status = status /\ Withdrawn(ru, status).turn = ru.turn
           /\ Withdrawn(ru, status).reply = ru.reply
           /\ ru.overwritten => Withdrawn(ru, status).overwritten
           /\ ru.status # "waiting_for_input" => Withdrawn(ru, status).overwritten
  BY DEF Withdrawn, Ended, RunType

\* persist_completed_run.
LEMMA CompleteRunInv ==
    ASSUME IInv, NEW w \in Workers, CompleteRun(w)
    PROVE  IInv'
  <1> DEFINE end == Ended(run[RunOf(w)], "completed")
             ru == [end EXCEPT !.reply = TRUE]
  <1>1. RunOf(w) \in Runs /\ run[RunOf(w)] \in RunType
    BY Busy DEF CompleteRun, EndPhase, IInv, TypeOK
  <1>2. ru \in RunType /\ ru.status = "completed" /\ ru.turn = run[RunOf(w)].turn
    <2>1. end \in RunType /\ end.status = "completed" /\ end.turn = run[RunOf(w)].turn
      BY <1>1, EndedType DEF RunStatus, Terminal
    <2> HIDE DEF end
    <2> QED
      BY <2>1 DEF RunType
  <1>3. run' = [run EXCEPT ![RunOf(w)] = ru]
    BY <1>1 DEF CompleteRun, IInv, TypeOK
  <1> HIDE DEF ru, end
  <1> QED
    BY <1>2, <1>3, EndPhaseStep DEF CompleteRun

\* persist_waiting_document_selection.
LEMMA InterruptRunInv ==
    ASSUME IInv, NEW w \in Workers, InterruptRun(w)
    PROVE  IInv'
  <1> DEFINE old == run[RunOf(w)]
             deadline == IF old.deadline = "none" THEN "ahead" ELSE old.deadline
             turn == old.turn + 1
             ru == [old EXCEPT !.status = "waiting_for_input", !.turn = turn,
                               !.deadline = deadline]
  <1>1. RunOf(w) \in Runs /\ old \in RunType
    BY Busy DEF InterruptRun, EndPhase, IInv, TypeOK
  <1>2. run' = [run EXCEPT ![RunOf(w)] = ru]
    BY <1>1 DEF InterruptRun, IInv, TypeOK
  <1>3. deadline \in {"none", "ahead", "past"} /\ turn \in Nat
            /\ "waiting_for_input" \in RunStatus
    BY <1>1 DEF RunType, RunStatus, Active
  <1> HIDE DEF deadline, turn, old
  <1>4. ru \in RunType
    BY <1>1, <1>3 DEF RunType
  <1>5. ru.status = "waiting_for_input" /\ ru.turn = turn
    BY <1>1 DEF RunType
  <1> HIDE DEF ru
  <1> QED
    BY <1>2, <1>4, <1>5, EndPhaseStep DEF InterruptRun, turn, old

\* A stop that the stream observed, and a failure it caught.
LEMMA CancelOrFailInv ==
    ASSUME IInv, NEW w \in Workers, ObserveCancel(w) \/ FailRun(w)
    PROVE  IInv'
  <1>1. RunOf(w) \in Runs /\ run[RunOf(w)] \in RunType
    BY Busy DEF ObserveCancel, FailRun, EndPhase, IInv, TypeOK
  <1>2. CASE ObserveCancel(w)
    <2> DEFINE ru == [run[RunOf(w)] EXCEPT !.status = "cancelled"]
    <2>1. ru \in RunType /\ ru.status = "cancelled" /\ ru.turn = run[RunOf(w)].turn
      BY <1>1 DEF RunType, RunStatus, Terminal
    <2>2. run' = [run EXCEPT ![RunOf(w)] = ru]
      BY <1>1, <1>2 DEF ObserveCancel, IInv, TypeOK
    <2> HIDE DEF ru
    <2> QED
      BY <1>2, <2>1, <2>2, EndPhaseStep DEF ObserveCancel
  <1>3. CASE FailRun(w)
    <2> DEFINE ru == Ended(run[RunOf(w)], "failed")
    <2>1. ru \in RunType /\ ru.status = "failed" /\ ru.turn = run[RunOf(w)].turn
      BY <1>1, EndedType DEF RunStatus, Terminal
    <2>2. run' = [run EXCEPT ![RunOf(w)] = ru]
      BY <1>1, <1>3 DEF FailRun, IInv, TypeOK
    <2> HIDE DEF ru
    <2> QED
      BY <1>3, <2>1, <2>2, EndPhaseStep DEF FailRun
  <1> QED
    BY <1>2, <1>3

-----------------------------------------------------------------------------
(* Admission and Stop. *)

\* enqueue_job inserts a well-formed row.
LEMMA NewJobType ==
    ASSUME NEW r \in Runs, NEW kind \in Kinds, NEW turn \in Nat
    PROVE  /\ NewJob(r, kind, turn) \in JobType
           /\ NewJob(r, kind, turn).status = "queued" /\ NewJob(r, kind, turn).run = r
  <1>1. NewJob(r, kind, turn) \in JobType
    BY DEF NewJob, JobType
  <1>2. NewJob(r, kind, turn).status = "queued" /\ NewJob(r, kind, turn).run = r
    BY DEF NewJob
  <1> QED
    BY <1>1, <1>2

\* A job row that is closed keeps its run.
LEMMA CloseJobType ==
    ASSUME NEW x \in JobType
    PROVE  /\ Closed(x) \in JobType /\ [x EXCEPT !.status = "done"] \in JobType
           /\ Closed(x).status = "done" /\ Closed(x).run = x.run
  <1> DEFINE a == [x EXCEPT !.status = "done"]
             b == [a EXCEPT !.token = None]
             c == [b EXCEPT !.ttl = 0]
  <1>1. a \in JobType /\ a.status = "done" /\ a.run = x.run
    BY DEF JobType
  <1> HIDE DEF a
  <1>2. b \in JobType /\ b.status = "done" /\ b.run = x.run
    BY <1>1 DEF JobType
  <1> HIDE DEF b
  <1>3. c \in JobType /\ c.status = "done" /\ c.run = x.run
    BY <1>2 DEF JobType
  <1>4. c = Closed(x)
    BY DEF Closed, a, b
  <1> QED
    BY <1>1, <1>3, <1>4 DEF a

\* admit_durable and replay_durable: a fresh run and a fresh job.
LEMMA AdmitRunInv ==
    ASSUME IInv, NEW r \in Runs, NEW j \in Jobs, NEW c \in Conversations,
           NEW kind \in {"run", "replay"}, AdmitRun(r, j, c, kind)
    PROVE  IInv'
  <1> DEFINE ru == [NoRun EXCEPT !.status = "queued", !.conv = c]
             x == NewJob(r, kind, 0)
  <1>1. ru \in RunType /\ ru.status = "queued"
    BY DEF NoRun, RunType, RunStatus, Active
  <1>2. x \in JobType /\ x.status = "queued" /\ x.run = r
    BY NewJobType, kind \in Kinds, 0 \in Nat DEF Kinds
  <1>3. /\ run[r].status = "absent" /\ job[j].status = "absent"
        /\ run' = [run EXCEPT ![r] = ru] /\ job' = [job EXCEPT ![j] = x]
        /\ UNCHANGED <<out, worker, req>>
    BY DEF AdmitRun
  <1> HIDE DEF ru, x
  <1>4. TypeOK' /\ Ledger'
    BY <1>1, <1>2, <1>3 DEF IInv, TypeOK, Ledger
  <1>5. Inductive'
    <2> USE <1>1, <1>2, <1>3 DEF IInv, Inductive, TypeOK
    <2>1. \A k \in Jobs : job[k].status # "absent" => job[k].run \in Runs \ {r} /\ job'[k] = job[k]
      BY DEF JobHasRun
    <2>2. \A v \in Workers : worker[v].pc # "idle" =>
            worker[v].job \in Jobs \ {j} /\ RunOf(v) \in Runs \ {r}
      BY Busy
    <2>3. \A q \in Requests : req[q].pc # "idle" => req[q].run \in Runs \ {r}
      BY DEF LockedRows
    <2>4. JobHasRun' /\ QueuedJob'
      BY <2>1 DEF JobHasRun, QueuedJob
    <2>5. WorkerHasJob'
      BY <2>2 DEF WorkerHasJob
    <2>6. LockedRows'
      BY <2>3 DEF LockedRows, RequestType
    <2>7. OneLiveJob' /\ NoStuckRun'
      BY <2>1 DEF OneLiveJob, NoStuckRun, JobsOf, Live
    <2>8. OpenQuestion'
      BY <2>3 DEF OpenQuestion, StillWaiting
    <2>9. NotStarted'
      BY <2>2 DEF NotStarted, RunOf
    <2>10. HeldPhase'
      BY <2>2 DEF HeldPhase, Holds, RunOf
    <2> QED
      BY <2>4, <2>5, <2>6, <2>7, <2>8, <2>9, <2>10
  <1> QED
    BY <1>4, <1>5 DEF IInv

\* cancel_durable: a queued or waiting run ends at once and its queued jobs are
\* closed; a running one is only marked.
LEMMA CancelRunInv ==
    ASSUME IInv, NEW r \in Runs, CancelRun(r)
    PROVE  IInv'
  <1>1. CASE run[r].status = "running"
    <2>1. run' = [run EXCEPT ![r].status = "cancelling"] /\ UNCHANGED <<job, out, worker, req>>
      BY <1>1 DEF CancelRun
    <2>2. TypeOK' /\ Ledger'
      BY <2>1 DEF IInv, TypeOK, Ledger, RunType, RunStatus, Active
    <2>3. /\ run'[r].status = "cancelling" /\ run'[r].turn = run[r].turn
          /\ \A s \in Runs : s # r => run'[s] = run[s]
      BY <2>1 DEF IInv, TypeOK, RunType
    <2>4. Inductive'
      <3> USE <1>1, <2>1, <2>3 DEF IInv, Inductive
      <3>1. JobHasRun' /\ QueuedJob' /\ WorkerHasJob'
        BY DEF JobHasRun, QueuedJob, WorkerHasJob
      <3>2. LockedRows' /\ OneLiveJob' /\ NoStuckRun'
        BY DEF LockedRows, OneLiveJob, NoStuckRun, JobsOf, Live, Pending
      <3>3. OpenQuestion'
        BY DEF OpenQuestion, StillWaiting, LockedRows
      <3>4. NotStarted'
        BY Busy DEF NotStarted, RunOf
      <3>5. HeldPhase'
        BY Busy DEF HeldPhase, Holds, RunOf, Pending
      <3> QED
        BY <3>1, <3>2, <3>3, <3>4, <3>5
    <2> QED
      BY <2>2, <2>4 DEF IInv
  <1>2. CASE run[r].status \in {"queued", "waiting_for_input"}
    <2>1. /\ run' = [run EXCEPT ![r] = Ended(@, "cancelled")]
          /\ job' = [j \in Jobs |-> IF job[j].run = r /\ job[j].status = "queued"
                                    THEN [job[j] EXCEPT !.status = "done"] ELSE job[j]]
          /\ out' = [out EXCEPT ![r] = Emit(@, "run_cancelled", DefaultMaxFrames)]
          /\ UNCHANGED <<worker, req>>
      BY <1>2 DEF CancelRun
    <2>2. out' \in [Runs -> OutputType] /\ Ledger'
      <3> DEFINE o == Emit(out[r], "run_cancelled", DefaultMaxFrames)
      <3>1. out[r] \in OutputType /\ Retained(out[r]) /\ DefaultMaxFrames \in Nat \ {0}
                /\ "run_cancelled" \in Events
        BY ConstantsAssumption DEF IInv, TypeOK, Ledger, Events, Control
      <3>2. o \in OutputType /\ Retained(o)
        BY <3>1, EmitType
      <3>3. out' = [out EXCEPT ![r] = o]
        BY <2>1
      <3> HIDE DEF o
      <3> QED
        BY <3>2, <3>3, OutputUpdate DEF IInv, TypeOK
    <2>3. job' \in [Jobs -> JobType] /\ run' \in [Runs -> RunType]
      <3>1. job' \in [Jobs -> JobType]
        BY <2>1, CloseJobType DEF IInv, TypeOK
      <3>2. run' \in [Runs -> RunType]
        BY <2>1, EndedType DEF IInv, TypeOK, RunStatus, Terminal
      <3> QED
        BY <3>1, <3>2
    <2>4. /\ run'[r].status = "cancelled" /\ run'[r].turn = run[r].turn
          /\ \A s \in Runs : s # r => run'[s] = run[s]
      BY <2>1, EndedType DEF IInv, TypeOK, RunStatus, Terminal
    <2>5. \A j \in Jobs : /\ job'[j].run = job[j].run /\ job'[j].token = job[j].token
                          /\ job'[j].status = IF job[j].run = r /\ job[j].status = "queued"
                                              THEN "done" ELSE job[j].status
      BY <2>1 DEF IInv, TypeOK, JobType
    <2>6. UNCHANGED <<worker, req>>
      BY <2>1
    <2>7. Inductive'
      <3> USE <1>2, <2>4, <2>5, <2>6 DEF IInv, Inductive, TypeOK
      <3>1. JobHasRun' /\ QueuedJob' /\ WorkerHasJob'
        BY DEF JobHasRun, QueuedJob, WorkerHasJob
      <3>2. LockedRows'
        BY DEF LockedRows, RequestType
      <3>3. OneLiveJob' /\ NoStuckRun'
        BY DEF OneLiveJob, NoStuckRun, JobsOf, Live, Pending
      <3>4. OpenQuestion'
        BY DEF OpenQuestion, StillWaiting, LockedRows
      <3>5. NotStarted'
        BY Busy DEF NotStarted, RunOf
      <3>6. HeldPhase'
        BY Busy DEF HeldPhase, Holds, RunOf, Pending
      <3> QED
        BY <3>1, <3>2, <3>3, <3>4, <3>5, <3>6
    <2> QED
      BY <2>2, <2>3, <2>6, <2>7 DEF IInv, TypeOK
  <1> QED
    BY <1>1, <1>2 DEF CancelRun

-----------------------------------------------------------------------------
(* Resume. *)

\* The handler reads the waiting run and locks the running jobs of its phase.
LEMMA ReadResumeInv ==
    ASSUME IInv, NEW q \in Requests, NEW r \in Runs, NEW j \in Jobs, NEW turn \in 1..MaxTurns,
           NEW same \in BOOLEAN, ReadResume(q, r, j, turn, same)
    PROVE  IInv'
  <1> DEFINE prior == PriorJobs(r)
  <1>1. PICK pc \in {"claim", "expire", "incompatible"} :
            req' = [req EXCEPT ![q] =
                     [pc |-> pc, run |-> r, job |-> j, turn |-> turn, locked |-> prior]]
    <2>1. CASE run[r].deadline = "past"
      BY <2>1 DEF ReadResume
    <2>2. CASE run[r].deadline # "past" /\ ~same
      BY <2>2 DEF ReadResume
    <2>3. CASE run[r].deadline # "past" /\ same
      BY <2>3 DEF ReadResume
    <2> QED
      BY <2>1, <2>2, <2>3
  <1> DEFINE x == [pc |-> pc, run |-> r, job |-> j, turn |-> turn, locked |-> prior]
  <1>2. prior \subseteq Jobs /\ turn \in Nat
    BY ConstantsAssumption DEF JobsOf, PriorJobs
  <1>3. x.pc # "idle" /\ x.run = r /\ x.job = j /\ x.turn = turn /\ x.locked = prior
    OBVIOUS
  <1>4. x \in RequestType
    <2> HIDE DEF prior
    <2> QED
      BY <1>2 DEF RequestType
  <1>5. UNCHANGED <<run, job, out, worker>> /\ run[r].status = "waiting_for_input"
            /\ run[r].turn = turn /\ (\A p \in prior : ~Locked(p))
    BY DEF ReadResume
  <1>6. /\ \A p \in prior : job[p].run = r /\ job[p].status = "running"
        /\ \A p \in Jobs : job[p].run = r /\ job[p].status = "running" => p \in prior
    BY DEF JobsOf, PriorJobs
  <1>7. req' = [req EXCEPT ![q] = x]
    BY <1>1
  <1> HIDE DEF x, prior
  <1>8. TypeOK' /\ Ledger'
    BY <1>4, <1>5, <1>7 DEF IInv, TypeOK, Ledger
  <1>9. /\ req'[q] = x
        /\ \A p \in Requests : p # q => req'[p] = req[p]
    BY <1>7 DEF IInv, TypeOK
  <1>10. Inductive'
    <2> USE <1>3, <1>5, <1>9 DEF IInv, Inductive
    <2>1. JobHasRun' /\ QueuedJob' /\ WorkerHasJob' /\ OneLiveJob' /\ NoStuckRun'
      BY DEF JobHasRun, QueuedJob, WorkerHasJob, OneLiveJob, NoStuckRun, JobsOf, Live
    <2>2. NotStarted' /\ HeldPhase'
      BY DEF NotStarted, HeldPhase, Holds, RunOf
    <2>3. LockedRows'
      BY <1>2, <1>6 DEF LockedRows, Locked
    <2>4. OpenQuestion'
      BY <1>2, <1>6 DEF OpenQuestion, StillWaiting
    <2> QED
      BY <2>1, <2>2, <2>3, <2>4
  <1> QED
    BY <1>8, <1>10 DEF IInv

\* A request that ends idle and leaves rows alone releases its locks.
LEMMA AbortResumeInv ==
    ASSUME IInv, NEW q \in Requests, AbortResume(q)
    PROVE  IInv'
  <1>1. IdleRequest \in RequestType /\ IdleRequest.pc = "idle" /\ IdleRequest.locked = {}
    BY DEF IdleRequest, RequestType
  <1>2. TypeOK' /\ Ledger'
    BY <1>1 DEF AbortResume, IInv, TypeOK, Ledger
  <1>3. /\ req'[q] = IdleRequest /\ \A p \in Requests : p # q => req'[p] = req[p]
        /\ UNCHANGED <<run, job, out, worker>>
    BY DEF AbortResume, IInv, TypeOK
  <1>4. Inductive'
    <2> USE <1>1, <1>3 DEF IInv, Inductive
    <2>1. JobHasRun' /\ QueuedJob' /\ WorkerHasJob' /\ OneLiveJob' /\ NoStuckRun'
      BY DEF JobHasRun, QueuedJob, WorkerHasJob, OneLiveJob, NoStuckRun, JobsOf, Live
    <2>2. NotStarted' /\ HeldPhase'
      BY DEF NotStarted, HeldPhase, Holds, RunOf
    <2>3. LockedRows'
      BY DEF LockedRows
    <2>4. OpenQuestion'
      BY DEF OpenQuestion, StillWaiting
    <2> QED
      BY <2>1, <2>2, <2>3, <2>4
  <1> QED
    BY <1>2, <1>4 DEF IInv

\* What closing the locked jobs does to each row.
LEMMA ClosePriorRows ==
    ASSUME IInv, NEW q \in Requests
    PROVE  /\ ClosePrior(q) \in [Jobs -> JobType]
           /\ \A j \in req[q].locked :
                ClosePrior(q)[j].status = "done" /\ ClosePrior(q)[j].run = job[j].run
           /\ \A j \in Jobs \ req[q].locked : ClosePrior(q)[j] = job[j]
           /\ req[q].locked \subseteq Jobs
           /\ \A j \in req[q].locked : job[j].run = req[q].run
  <1>1. \A j \in Jobs : job[j] \in JobType
    BY DEF IInv, TypeOK
  <1>2. req[q].locked \subseteq Jobs /\ \A j \in req[q].locked : job[j].run = req[q].run
    BY DEF IInv, TypeOK, RequestType, Inductive, LockedRows
  <1>3. \A j \in Jobs : ClosePrior(q)[j] = IF j \in req[q].locked THEN Closed(job[j]) ELSE job[j]
    BY DEF ClosePrior
  <1>4. \A j \in Jobs : Closed(job[j]) \in JobType /\ Closed(job[j]).status = "done"
                            /\ Closed(job[j]).run = job[j].run
    BY <1>1, CloseJobType
  <1>5. ClosePrior(q) \in [Jobs -> JobType]
    BY <1>1, <1>4 DEF ClosePrior
  <1> QED
    BY <1>2, <1>3, <1>4, <1>5

\* An expired question, or one asked by another graph version: the run is ended
\* whatever its status is by now, and the locked jobs are closed.
LEMMA WithdrawInv ==
    ASSUME IInv, NEW q \in Requests, ExpireResume(q) \/ RejectGraphVersion(q)
    PROVE  IInv'
  <1> DEFINE r == req[q].run
             closed == ClosePrior(q)
  <1>1. PICK status \in {"cancelled", "failed"} : run' = [run EXCEPT ![r] = Withdrawn(@, status)]
    BY DEF ExpireResume, RejectGraphVersion
  <1>2. /\ req[q].pc # "idle" /\ job' = closed
        /\ req' = [req EXCEPT ![q] = IdleRequest] /\ UNCHANGED <<out, worker>>
    BY DEF ExpireResume, RejectGraphVersion
  <1>3. r \in Runs /\ run[r].status # "absent"
    BY <1>2 DEF IInv, Inductive, LockedRows
  <1>4. /\ closed \in [Jobs -> JobType]
        /\ \A j \in req[q].locked : closed[j].status = "done" /\ closed[j].run = job[j].run
        /\ \A j \in Jobs \ req[q].locked : closed[j] = job[j]
        /\ req[q].locked \subseteq Jobs
        /\ \A j \in req[q].locked : job[j].run = r /\ job[j].status = "running"
    BY ClosePriorRows DEF IInv, Inductive, LockedRows
  <1>5. /\ run'[r].status = status /\ run'[r].turn = run[r].turn
        /\ \A s \in Runs : s # r => run'[s] = run[s]
    BY <1>1, <1>3, WithdrawnType DEF IInv, TypeOK, RunStatus, Terminal
  <1>6. IdleRequest \in RequestType /\ IdleRequest.pc = "idle" /\ IdleRequest.locked = {}
    BY DEF IdleRequest, RequestType
  <1>7. req'[q] = IdleRequest /\ \A p \in Requests : p # q => req'[p] = req[p]
    BY <1>2 DEF IInv, TypeOK
  <1> HIDE DEF closed
  <1>8. TypeOK' /\ Ledger'
    <2>1. run' \in [Runs -> RunType]
      <3> DEFINE ru == Withdrawn(run[r], status)
      <3>1. ru \in RunType
        BY <1>3, WithdrawnType DEF IInv, TypeOK, RunStatus, Terminal
      <3>2. run' = [run EXCEPT ![r] = ru]
        BY <1>1
      <3> HIDE DEF ru
      <3> QED
        BY <3>1, <3>2 DEF IInv, TypeOK
    <2> QED
      BY <1>2, <1>4, <1>6, <2>1 DEF IInv, TypeOK, Ledger
  <1>9. \A j \in Jobs : job'[j].run = job[j].run
    BY <1>2, <1>4
  <1> HIDE DEF r
  <1>10. Inductive'
    <2> USE <1>2, <1>3, <1>4, <1>5, <1>9 DEF IInv, Inductive
    <2>1. JobHasRun' /\ QueuedJob'
      BY DEF JobHasRun, QueuedJob
    <2>2. WorkerHasJob'
      BY DEF WorkerHasJob
    <2>3. LockedRows'
      BY <1>6, <1>7 DEF LockedRows, TypeOK, RequestType
    <2>4. OneLiveJob'
      BY DEF OneLiveJob, Live
    <2>5. NoStuckRun'
      BY DEF NoStuckRun, JobsOf, Live, Pending
    <2>6. OpenQuestion'
      BY <1>6, <1>7 DEF OpenQuestion, StillWaiting, LockedRows
    <2>7. NotStarted'
      BY Busy DEF NotStarted, RunOf
    <2>8. HeldPhase'
      BY Busy DEF HeldPhase, Holds, RunOf, Pending
    <2> QED
      BY <2>1, <2>2, <2>3, <2>4, <2>5, <2>6, <2>7, <2>8
  <1> QED
    BY <1>8, <1>10 DEF IInv

\* An accepted answer: every running job of the waiting run is locked, hence
\* closed, and no job of it is queued, so the new job is its only live one.
LEMMA ClaimResumeInv ==
    ASSUME IInv, NEW q \in Requests, ClaimResume(q)
    PROVE  IInv'
  <1> DEFINE r == req[q].run
             j == req[q].job
             x == NewJob(r, "resume", req[q].turn)
             closed == ClosePrior(q)
  <1>1. /\ req[q].pc # "idle" /\ StillWaiting(q) /\ job[j].status = "absent"
        /\ run' = [run EXCEPT ![r].status = "queued"]
        /\ job' = [closed EXCEPT ![j] = x]
        /\ out' = [out EXCEPT ![r].terminal = None, ![r].tcursor = 0]
        /\ req' = [req EXCEPT ![q] = IdleRequest] /\ UNCHANGED worker
    BY DEF ClaimResume
  <1>2. r \in Runs /\ j \in Jobs /\ req[q].turn \in Nat /\ run[r].status = "waiting_for_input"
    BY <1>1 DEF IInv, TypeOK, RequestType, Inductive, LockedRows, StillWaiting
  <1>3. x \in JobType /\ x.status = "queued" /\ x.run = r
    BY <1>2, NewJobType DEF Kinds
  <1>4. /\ closed \in [Jobs -> JobType]
        /\ \A k \in req[q].locked : closed[k].status = "done" /\ closed[k].run = job[k].run
        /\ \A k \in Jobs \ req[q].locked : closed[k] = job[k]
        /\ req[q].locked \subseteq Jobs
        /\ \A k \in req[q].locked : job[k].run = r /\ job[k].status = "running"
    BY ClosePriorRows DEF IInv, Inductive, LockedRows
  <1>5. \A k \in Jobs : job[k].run = r /\ Live(k) => k \in req[q].locked
    BY <1>1, <1>2 DEF IInv, Inductive, OpenQuestion, QueuedJob, Live
  <1>6. IdleRequest \in RequestType /\ IdleRequest.pc = "idle" /\ IdleRequest.locked = {}
    BY DEF IdleRequest, RequestType
  <1>7. req'[q] = IdleRequest /\ \A p \in Requests : p # q => req'[p] = req[p]
    BY <1>1 DEF IInv, TypeOK
  <1>8. /\ run'[r].status = "queued" /\ run'[r].turn = run[r].turn
        /\ \A s \in Runs : s # r => run'[s] = run[s]
    BY <1>1, <1>2 DEF IInv, TypeOK, RunType
  <1> HIDE DEF closed, x
  <1>9. /\ job'[j] = x
        /\ \A k \in req[q].locked : job'[k].status = "done" /\ job'[k].run = job[k].run /\ k # j
        /\ \A k \in Jobs \ req[q].locked : k # j => job'[k] = job[k]
    BY <1>1, <1>2, <1>4
  <1>10. TypeOK' /\ Ledger'
    <2>1. run' \in [Runs -> RunType]
      <3> DEFINE y == [run[r] EXCEPT !.status = "queued"]
      <3>1. run \in [Runs -> RunType] /\ run[r] \in RunType
        BY <1>2 DEF IInv, TypeOK
      <3>2. y \in RunType
        BY <3>1 DEF RunType, RunStatus, Active
      <3>3. run' = [run EXCEPT ![r] = y]
        BY <1>1
      <3> HIDE DEF y, r
      <3> QED
        BY <3>1, <3>2, <3>3
    <2>2. job' \in [Jobs -> JobType] /\ req' \in [Requests -> RequestType]
      BY <1>1, <1>3, <1>4, <1>6 DEF IInv, TypeOK
    <2>3. out' \in [Runs -> OutputType] /\ Ledger'
      <3> DEFINE a == [out[r] EXCEPT !.terminal = None]
                 b == [a EXCEPT !.tcursor = 0]
      <3>1. a \in OutputType /\ Retained(a)
        BY <1>2 DEF IInv, TypeOK, Ledger, OutputType, Retained
      <3>2. b \in OutputType /\ Retained(b)
        <4> HIDE DEF a
        <4> QED
          BY <3>1 DEF OutputType, Retained
      <3>3. out' = [out EXCEPT ![r] = b]
        BY <1>1, <1>2 DEF IInv, TypeOK
      <3> HIDE DEF b
      <3> QED
        BY <1>2, <3>2, <3>3, OutputUpdate DEF IInv, TypeOK
    <2> QED
      BY <1>1, <2>1, <2>2, <2>3 DEF IInv, TypeOK
  <1> HIDE DEF r, j
  <1>11. Inductive'
    <2> USE <1>1, <1>2, <1>3, <1>4, <1>5, <1>8, <1>9 DEF IInv, Inductive
    <2>1. JobHasRun' /\ QueuedJob'
      BY DEF JobHasRun, QueuedJob, Live
    <2>2. WorkerHasJob'
      BY DEF WorkerHasJob
    <2>3. LockedRows'
      BY <1>6, <1>7 DEF LockedRows, TypeOK, RequestType
    <2>4. OneLiveJob'
      BY DEF OneLiveJob, Live
    <2>5. NoStuckRun'
      BY DEF NoStuckRun, JobsOf, Live
    <2>6. OpenQuestion'
      BY <1>6, <1>7 DEF OpenQuestion, StillWaiting, LockedRows
    <2>7. NotStarted'
      BY Busy DEF NotStarted, RunOf
    <2>8. HeldPhase'
      BY Busy DEF HeldPhase, Holds, RunOf, Live
    <2> QED
      BY <2>1, <2>2, <2>3, <2>4, <2>5, <2>6, <2>7, <2>8
  <1> QED
    BY <1>10, <1>11 DEF IInv

-----------------------------------------------------------------------------
(* The end of an execution, and reconciliation. *)

\* fail_job on the run row.
LEMMA FailedRunType ==
    ASSUME NEW ru \in RunType
    PROVE  /\ FailedRun(ru) \in RunType /\ FailedRun(ru).turn = ru.turn
           /\ FailedRun(ru).status = CASE ru.status \in {"queued", "running"} -> "failed"
                                       [] ru.status = "cancelling" -> "cancelled"
                                       [] OTHER -> ru.status
  <1>1. CASE ru.status \in {"queued", "running"}
    BY <1>1 DEF FailedRun, RunType, RunStatus, Terminal
  <1>2. CASE ru.status = "cancelling"
    BY <1>2 DEF FailedRun, RunType, RunStatus, Terminal
  <1>3. CASE ru.status \notin {"queued", "running", "cancelling"}
    BY <1>3 DEF FailedRun
  <1> QED
    BY <1>1, <1>2, <1>3

\* The finally block of execute_job: with a failure the run cannot stay pending,
\* and without one it was not pending (HeldPhase), so its job may be closed.
LEMMA FinalizeInv ==
    ASSUME IInv, NEW w \in Workers, Finalize(w)
    PROVE  IInv'
  <1> DEFINE j == worker[w].job
             r == job[j].run
             ru == IF worker[w].failure # None THEN FailedRun(run[r]) ELSE run[r]
  <1>1. worker[w].pc = "final" /\ ~Locked(j) /\ j \in Jobs /\ r \in Runs /\ RunOf(w) = r
    BY Busy DEF Finalize, RunOf
  <1>2. IdleWorker \in WorkerType /\ IdleWorker.pc = "idle"
    BY DEF IdleWorker, WorkerType
  <1>3. worker' = [worker EXCEPT ![w] = IdleWorker] /\ UNCHANGED req
    BY DEF Finalize
  <1>4. CASE ~Holds(w)
    <2>1. UNCHANGED <<run, out, job>>
      BY <1>4 DEF Finalize, Holds
    <2>2. out' \in [Runs -> OutputType] /\ Ledger'
      BY <2>1 DEF IInv, TypeOK, Ledger
    <2> QED
      BY <1>2, <1>3, <2>1, <2>2, LocalStep DEF Fenced
  <1>5. CASE Holds(w)
    <2>1. /\ run' = [run EXCEPT ![r] = ru]
          /\ out' = [out EXCEPT ![r] = Repaired(ru, @)]
          /\ job' = [job EXCEPT ![j] = Closed(@)]
      BY <1>5 DEF Finalize, Holds
    <2>2. /\ ru \in RunType /\ ru.turn = run[r].turn
          /\ ru.status \in {run[r].status, "failed", "cancelled"} /\ ru.status \notin Pending
      <3>1. run[r] \in RunType
        BY <1>1 DEF IInv, TypeOK
      <3>2. worker[w].failure = None => run[r].status \notin Pending
        BY <1>1, <1>5 DEF IInv, Inductive, HeldPhase
      <3> QED
        BY <3>1, <3>2, FailedRunType DEF Pending
    <2> HIDE DEF ru
    <2>3. out' \in [Runs -> OutputType] /\ Ledger'
      BY <1>1, <2>1, <2>2, RepairStep
    <2>4. /\ job'[j].status = "done" /\ job'[j].run = r
          /\ \A k \in Jobs : k # j => job'[k] = job[k]
          /\ job' \in [Jobs -> JobType]
      BY <1>1, <2>1, CloseJobType DEF IInv, TypeOK
    <2>5. run'[r] = ru /\ \A s \in Runs : s # r => run'[s] = run[s]
      BY <1>1, <2>1 DEF IInv, TypeOK
    <2>6. run[r].status # "absent"
      BY <1>1, Busy
    <2>7. worker'[w] = IdleWorker /\ \A v \in Workers : v # w => worker'[v] = worker[v]
      BY <1>3 DEF IInv, TypeOK
    <2>8. job[j].token = w /\ job[j].status = "running"
      BY <1>5 DEF Holds
    <2>9. TypeOK' /\ Ledger'
      BY <1>2, <1>3, <2>1, <2>2, <2>3, <2>4 DEF IInv, TypeOK
    <2>10. \A q \in Requests : j \notin req[q].locked
      BY <1>1 DEF Locked
    <2> HIDE DEF j, r
    <2>11. Inductive'
      <3> USE <1>1, <1>2, <1>3, <2>2, <2>4, <2>5, <2>6, <2>7 DEF IInv, Inductive
      <3>1. JobHasRun' /\ QueuedJob'
        BY DEF JobHasRun, QueuedJob
      <3>2. WorkerHasJob'
        BY DEF WorkerHasJob
      <3>3. LockedRows'
        BY <2>10 DEF LockedRows, TypeOK, RequestType
      <3>4. OneLiveJob'
        BY DEF OneLiveJob, Live
      <3>5. NoStuckRun'
        BY DEF NoStuckRun, JobsOf, Live, j, r
      <3>6. OpenQuestion'
        BY DEF OpenQuestion, StillWaiting, LockedRows, j, r
      <3>. HIDE DEF IInv, Inductive
      <3>9. ASSUME NEW v \in Workers, worker'[v].pc # "idle"
            PROVE  /\ worker'[v] = worker[v] /\ worker[v].pc # "idle"
                   /\ RunOf(v)' = RunOf(v) /\ RunOf(v) \in Runs
                   /\ RunOf(v) # r => job'[worker[v].job] = job[worker[v].job]
                   /\ Holds(v)' => Holds(v)
        <4>1. v # w /\ worker'[v] = worker[v] /\ worker[v].pc # "idle"
          BY <3>9
        <4>2. worker[v].job \in Jobs /\ RunOf(v) \in Runs
          BY <4>1, Busy
        <4>3. job[j].run = r
          BY DEF r
        <4> QED
          BY <4>1, <4>2, <4>3 DEF RunOf, Holds
      <3>7. NotStarted'
        <4>1. SUFFICES ASSUME NEW v \in Workers, worker'[v].pc \in {"claimed", "checked"}
                       PROVE  /\ run'[RunOf(v)].status \in {"queued", "cancelled", "failed"}
                              /\ run'[RunOf(v)].status = "queued" =>
                                   job'[worker[v].job].status = "running"
                                     /\ job'[worker[v].job].token = v
          BY <3>9 DEF NotStarted
        <4>2. /\ run[RunOf(v)].status \in {"queued", "cancelled", "failed"}
              /\ run[RunOf(v)].status = "queued" =>
                   job[worker[v].job].status = "running" /\ job[worker[v].job].token = v
          BY <3>9, <4>1 DEF IInv, Inductive, NotStarted
        <4> QED
          BY <3>9, <4>1, <4>2 DEF Pending
      <3>8. HeldPhase'
        <4>1. SUFFICES ASSUME NEW v \in Workers, worker'[v].pc # "idle", Holds(v)'
                       PROVE  run'[RunOf(v)].status \in {run[RunOf(v)].status, "failed", "cancelled"}
                                /\ worker'[v] = worker[v] /\ Holds(v) /\ RunOf(v)' = RunOf(v)
          BY <4>1 DEF HeldPhase, Pending, IInv, Inductive
        <4> QED
          BY <3>9, <4>1
      <3> QED
        BY <3>1, <3>2, <3>3, <3>4, <3>5, <3>6, <3>7, <3>8 DEF Inductive
    <2> QED
      BY <2>9, <2>11 DEF IInv
  <1> QED
    BY <1>4, <1>5

\* What reconciliation does to the run and output of each run.
LEMMA ReapedRows ==
    ASSUME IInv, NEW r \in Runs
    PROVE  /\ ReapedRun(r) \in RunType /\ ReapedRun(r).turn = run[r].turn
           /\ ReapedRun(r).status \in {run[r].status, "failed", "cancelled"}
           /\ ReapedRun(r).status = "absent" => run[r].status = "absent"
           /\ run[r].status = "absent" => ReapedRun(r).status = "absent"
           /\ r \in LostRuns => ReapedRun(r).status \notin Pending
           /\ ReapedOut(r) \in OutputType /\ Retained(ReapedOut(r))
  <1> DEFINE ru == IF r \in LostRuns THEN FailedRun(run[r]) ELSE run[r]
             o == IF r \in LostRuns THEN Repaired(ru, out[r]) ELSE out[r]
             end == Ended(ru, "cancelled")
  <1>1. run[r] \in RunType /\ out[r] \in OutputType /\ Retained(out[r])
    BY DEF IInv, TypeOK, Ledger
  <1>2. /\ ru \in RunType /\ ru.turn = run[r].turn
        /\ ru.status \in {run[r].status, "failed", "cancelled"}
        /\ run[r].status = "absent" => ru.status = "absent"
        /\ r \in LostRuns => ru.status \notin Pending
    BY <1>1, FailedRunType DEF Pending
  <1>3. ReapedRun(r) = IF WaitedTooLong(ru) THEN end ELSE ru
    BY DEF ReapedRun
  <1>4. ReapedOut(r) = IF WaitedTooLong(ru) THEN Repaired(ReapedRun(r), o) ELSE o
    BY DEF ReapedOut
  <1>5. o \in OutputType /\ Retained(o)
    <2> HIDE DEF ru
    <2> QED
      BY <1>1, <1>2, RepairedType
  <1> HIDE DEF ru, o
  <1>6. end \in RunType /\ end.status = "cancelled" /\ end.turn = ru.turn
    BY <1>2, EndedType DEF RunStatus, Terminal
  <1>7. WaitedTooLong(ru) => ru.status = "waiting_for_input"
    BY DEF WaitedTooLong
  <1> HIDE DEF end
  <1>8. ReapedRun(r) \in RunType
    BY <1>2, <1>3, <1>6
  <1>9. ReapedOut(r) \in OutputType /\ Retained(ReapedOut(r))
    BY <1>4, <1>5, <1>8, RepairedType
  <1> QED
    BY <1>2, <1>3, <1>6, <1>7, <1>8, <1>9 DEF Pending

\* reap_lost_jobs closes lost jobs and ends their runs; a run none of whose jobs
\* is lost keeps its live job.
LEMMA ReapLostJobsInv ==
    ASSUME IInv, ReapLostJobs
    PROVE  IInv'
  <1>1. /\ \A r \in Runs : run'[r] = ReapedRun(r) /\ out'[r] = ReapedOut(r)
        /\ \A j \in Jobs : job'[j] = IF Lost(j) THEN Closed(job[j]) ELSE job[j]
        /\ UNCHANGED <<worker, req>>
        /\ \A j \in Jobs : Lost(j) => ~Locked(j)
    BY DEF ReapLostJobs
  <1>2. \A j \in Jobs : job[j] \in JobType
    BY DEF IInv, TypeOK
  <1>3. \A j \in Jobs : Lost(j) => /\ job'[j] \in JobType /\ job'[j].status = "done"
                                   /\ job'[j].run = job[j].run
                                   /\ Live(j)
    <2>1. \A j \in Jobs : Lost(j) => Live(j)
      BY DEF Lost, Live
    <2>2. \A j \in Jobs : Lost(j) => job'[j] = Closed(job[j])
      BY <1>1
    <2>3. \A j \in Jobs : /\ Closed(job[j]) \in JobType /\ Closed(job[j]).status = "done"
                          /\ Closed(job[j]).run = job[j].run
      BY <1>2, CloseJobType
    <2> QED
      BY <2>1, <2>2, <2>3
  <1>4. \A j \in Jobs : ~Lost(j) => job'[j] = job[j]
    BY <1>1
  <1>5. TypeOK' /\ Ledger'
    <2>1. run' \in [Runs -> RunType]
      BY ReapedRows DEF ReapLostJobs
    <2>2. out' \in [Runs -> OutputType] /\ Ledger'
      BY <1>1, ReapedRows DEF ReapLostJobs, Ledger
    <2>3. job' \in [Jobs -> JobType]
      BY <1>2, CloseJobType DEF ReapLostJobs
    <2> QED
      BY <1>1, <2>1, <2>2, <2>3 DEF IInv, TypeOK
  <1>6. \A r \in Runs :
          /\ run'[r].turn = run[r].turn
          /\ run'[r].status \in {run[r].status, "failed", "cancelled"}
          /\ run'[r].status = "absent" <=> run[r].status = "absent"
          /\ r \in LostRuns => run'[r].status \notin Pending
    BY <1>1, ReapedRows
  <1>7. \A j \in Jobs : Lost(j) => job[j].run \in LostRuns /\ job[j].run \in Runs
    BY <1>3 DEF LostRuns, JobsOf, IInv, Inductive, JobHasRun, Live
  <1>8. Inductive'
    <2>0. \A j \in Jobs : /\ job'[j].run = job[j].run
                          /\ job'[j].status \in {job[j].status, "done"}
                          /\ job'[j].status # "absent" => job[j].status # "absent"
      <3> TAKE j \in Jobs
      <3>1. CASE Lost(j)
        <4>1. job[j].status # "absent"
          BY <1>3, <3>1 DEF Live
        <4> QED
          BY <1>3, <3>1, <4>1
      <3>2. CASE ~Lost(j)
        BY <1>4, <3>2
      <3> QED
        BY <3>1, <3>2
    <2> USE <1>1, <1>3, <1>4, <1>6, <1>7 DEF IInv, Inductive
    <2>1. JobHasRun' /\ QueuedJob'
      <3>1. JobHasRun'
        BY <2>0 DEF JobHasRun
      <3>2. QueuedJob'
        BY <2>0 DEF JobHasRun, QueuedJob
      <3> QED
        BY <3>1, <3>2
    <2>2. WorkerHasJob'
      BY DEF WorkerHasJob
    <2>3. LockedRows'
      BY DEF LockedRows, TypeOK, RequestType, Locked
    <2>4. OneLiveJob'
      BY DEF OneLiveJob, Live
    <2>5. NoStuckRun'
      BY DEF NoStuckRun, JobsOf, Live, Pending
    <2>6. OpenQuestion'
      BY DEF OpenQuestion, StillWaiting, LockedRows
    <2>7. NotStarted'
      BY Busy DEF NotStarted, RunOf, Pending
    <2>8. HeldPhase'
      BY Busy DEF HeldPhase, Holds, RunOf, Pending
    <2> QED
      BY <2>1, <2>2, <2>3, <2>4, <2>5, <2>6, <2>7, <2>8
  <1> QED
    BY <1>5, <1>8 DEF IInv

-----------------------------------------------------------------------------
(* The invariant and its consequences. *)

\* Before anything was admitted every part holds.
LEMMA InitInv == Init => IInv
  <1> SUFFICES ASSUME Init
               PROVE  IInv
    OBVIOUS
  <1>1. NoRun \in RunType /\ NoRun.status = "absent"
    BY DEF NoRun, RunType
  <1>2. NoJob \in JobType /\ NoJob.status = "absent"
    BY DEF NoJob, JobType, Kinds
  <1>3. NoOutput \in OutputType /\ Retained(NoOutput)
    BY DEF NoOutput, OutputType, Retained
  <1>4. IdleWorker \in WorkerType /\ IdleWorker.pc = "idle"
    BY DEF IdleWorker, WorkerType
  <1>5. IdleRequest \in RequestType /\ IdleRequest.pc = "idle" /\ IdleRequest.locked = {}
    BY DEF IdleRequest, RequestType
  <1>6. TypeOK /\ Ledger
    BY <1>1, <1>2, <1>3, <1>4, <1>5 DEF Init, TypeOK, Ledger
  <1>7. Inductive
    BY <1>1, <1>2, <1>4, <1>5 DEF Init, Inductive, JobHasRun, QueuedJob, WorkerHasJob, NotStarted,
         HeldPhase, LockedRows, OpenQuestion, OneLiveJob, NoStuckRun, Live, Pending
  <1> QED
    BY <1>6, <1>7 DEF IInv

\* Every step of Next preserves it.
LEMMA NextInv == IInv /\ [Next]_vars => IInv'
  <1> SUFFICES ASSUME IInv, [Next]_vars
               PROVE  IInv'
    OBVIOUS
  <1>1. ASSUME NEW r \in Runs, NEW j \in Jobs, NEW c \in Conversations,
               NEW kind \in {"run", "replay"}, AdmitRun(r, j, c, kind)
        PROVE  IInv'
    BY <1>1, AdmitRunInv
  <1>2. ASSUME NEW r \in Runs, CancelRun(r) \/ RepairTerminal(r) \/ InteractionDeadline(r)
        PROVE  IInv'
    BY <1>2, CancelRunInv, RepairTerminalInv, InteractionDeadlineInv
  <1>3. ASSUME NEW q \in Requests, ResumeStep(q)
        PROVE  IInv'
    BY <1>3, ReadResumeInv, ClaimResumeInv, WithdrawInv, AbortResumeInv DEF ResumeStep
  <1>4. ASSUME NEW w \in Workers, WorkerStep(w)
        PROVE  IInv'
    BY <1>4, ClaimJobInv, RenewLeaseInv, CheckJobInv, StartRunInv, EmitResumedInv,
       EmitProgressInv, CompleteRunInv, InterruptRunInv, CancelOrFailInv, FailEndedRunInv,
       FailAfterCommitInv, DeliverInv, StopExecutionInv, FinalizeInv, CrashInv
       DEF WorkerStep
  <1>5. ASSUME NEW j \in Jobs, LeaseTick(j) \/ QueueTimeout(j)
        PROVE  IInv'
    BY <1>5, LeaseTickInv, QueueTimeoutInv
  <1>6. CASE UNCHANGED vars
    BY <1>6 DEF vars, IInv, TypeOK, Ledger, Inductive, JobHasRun, QueuedJob, WorkerHasJob,
         NotStarted, HeldPhase, Holds, RunOf, LockedRows, OpenQuestion, StillWaiting,
         OneLiveJob, NoStuckRun, JobsOf, Live
  <1> QED
    BY <1>1, <1>2, <1>3, <1>4, <1>5, <1>6, ReapLostJobsInv DEF Next

\* The inductive invariant holds of every reachable state: columns keep their
\* domains, retained frames are contiguous, and ownership of runs is safe.
THEOREM Invariance == Spec => []IInv
  BY InitInv, NextInv, PTL DEF Spec

\* Every row, worker and request keeps its domain, for any number of them.
THEOREM TypeCorrect == Spec => []TypeOK
  <1>1. IInv => TypeOK
    BY DEF IInv
  <1> QED
    BY <1>1, Invariance, PTL

\* No interleaving of resumes, claims, crashes and reconciliation gives a run two
\* queued or running jobs.
THEOREM SingleOwner == Spec => []OneLiveJob
  <1>1. IInv => OneLiveJob
    BY DEF IInv, Inductive
  <1> QED
    BY <1>1, Invariance, PTL

\* A run that shows queued, running or cancelling always has a job through which
\* a worker or the reaper can end it.
THEOREM NeverStuck == Spec => []NoStuckRun
  <1>1. IInv => NoStuckRun
    BY DEF IInv, Inductive
  <1> QED
    BY <1>1, Invariance, PTL

\* While a worker's fenced writes would be accepted, its phase has started, and the run
\* has no other queued or running job: no later phase was admitted under it.
THEOREM FenceProtectsPhase == Spec => []FencedPhase
  <1>1. IInv => FencedPhase
    <2> SUFFICES ASSUME IInv, NEW w \in Workers, worker[w].pc \in Fenced,
                        Owns(w, worker[w].job)
                 PROVE  /\ run[RunOf(w)].status \notin {"absent", "queued"}
                        /\ \A j \in JobsOf(RunOf(w)) : Live(j) => j = worker[w].job
      BY DEF FencedPhase
    <2>1. Holds(w) /\ worker[w].pc # "idle"
      BY DEF Owns, Holds, Fenced
    <2>2. run[RunOf(w)].status \notin {"absent", "queued"}
      BY <2>1 DEF IInv, Inductive, HeldPhase
    <2>3. worker[w].job \in Jobs /\ Live(worker[w].job)
      BY <2>1, Busy DEF Owns, Live
    <2>4. \A j \in JobsOf(RunOf(w)) : Live(j) => j = worker[w].job
      BY <2>3 DEF IInv, Inductive, OneLiveJob, JobsOf, RunOf
    <2> QED
      BY <2>2, <2>4
  <1> QED
    BY <1>1, Invariance, PTL

\* A stop that was accepted is never undone: from cancelling a run only moves to
\* cancelled or failed, and cancelled is final, whoever takes the step.  (What may
\* happen to a completed or a failed run is LifecycleRefined's.)
THEOREM StopIsFinal == Spec => StopWins
  <1> DEFINE Kept(r) ==
        /\ run[r].status = "cancelling" => run'[r].status \in {"cancelling", "cancelled", "failed"}
        /\ run[r].status = "cancelled" => run'[r].status = "cancelled"
  <1>1. ASSUME IInv, [Next]_vars, NEW r \in Runs
        PROVE  Kept(r)
    <2> USE <1>1
    <2>1. run[r] \in RunType
      BY DEF IInv, TypeOK
    <2>2. CASE UNCHANGED run
      BY <2>2
    <2>3. ASSUME NEW s \in Runs, NEW ru \in RunType, run' = [run EXCEPT ![s] = ru],
                 run[s].status = "cancelling" => ru.status \in {"cancelling", "cancelled", "failed"},
                 run[s].status = "cancelled" => ru.status = "cancelled"
          PROVE  Kept(r)
      BY <2>3 DEF IInv, TypeOK
    <2>4. ASSUME NEW s \in Runs, NEW status \in RunStatus,
                 \/ run' = [run EXCEPT ![s].status = status]
                 \/ run' = [run EXCEPT ![s] = Ended(@, status)]
                 \/ run' = [run EXCEPT ![s] = Withdrawn(@, status)],
                 run[s].status = "cancelling" => status \in {"cancelling", "cancelled", "failed"},
                 run[s].status = "cancelled" => status = "cancelled"
          PROVE  Kept(r)
      <3> DEFINE ru == [run[s] EXCEPT !.status = status]
                 end == Ended(run[s], status)
                 withdrawn == Withdrawn(run[s], status)
      <3>1. ru \in RunType /\ ru.status = status
        BY DEF IInv, TypeOK, RunType
      <3>2. end \in RunType /\ end.status = status
        BY EndedType DEF IInv, TypeOK
      <3>3. withdrawn \in RunType /\ withdrawn.status = status
        BY WithdrawnType DEF IInv, TypeOK
      <3>4. \/ run' = [run EXCEPT ![s] = ru] \/ run' = [run EXCEPT ![s] = end]
            \/ run' = [run EXCEPT ![s] = withdrawn]
        BY <2>4 DEF IInv, TypeOK
      <3> HIDE DEF ru, end, withdrawn
      <3> QED
        BY <2>3, <2>4, <3>1, <3>2, <3>3, <3>4
    <2>5. ASSUME NEW s \in Runs, NEW j \in Jobs, NEW c \in Conversations,
                 NEW kind \in {"run", "replay"}, AdmitRun(s, j, c, kind)
          PROVE  Kept(r)
      <3> DEFINE ru == [NoRun EXCEPT !.status = "queued", !.conv = c]
      <3>1. ru \in RunType
        BY DEF NoRun, RunType, RunStatus, Active
      <3>2. run' = [run EXCEPT ![s] = ru] /\ run[s].status = "absent"
        BY <2>5 DEF AdmitRun
      <3> HIDE DEF ru
      <3> QED
        BY <2>3, <3>1, <3>2
    <2>6. ASSUME NEW s \in Runs, CancelRun(s) \/ RepairTerminal(s) \/ InteractionDeadline(s)
          PROVE  Kept(r)
      <3>1. CASE CancelRun(s)
        BY <2>4, <3>1 DEF CancelRun, RunStatus, Active, Terminal
      <3>2. CASE RepairTerminal(s)
        BY <2>2, <3>2 DEF RepairTerminal
      <3>3. CASE InteractionDeadline(s)
        BY <3>3 DEF InteractionDeadline, IInv, TypeOK, RunType
      <3> QED
        BY <2>6, <3>1, <3>2, <3>3
    <2>7. ASSUME NEW q \in Requests, ResumeStep(q)
          PROVE  Kept(r)
      <3>1. CASE \E s \in Runs, j \in Jobs, turn \in 1..MaxTurns, same \in BOOLEAN :
                    ReadResume(q, s, j, turn, same)
        BY <2>2, <3>1 DEF ReadResume
      <3>2. CASE AbortResume(q)
        BY <2>2, <3>2 DEF AbortResume
      <3>3. CASE ClaimResume(q) \/ ExpireResume(q) \/ RejectGraphVersion(q)
        <4>1. req[q].run \in Runs
          BY <3>3 DEF ClaimResume, ExpireResume, RejectGraphVersion, IInv, Inductive, LockedRows
        <4> QED
          BY <2>4, <3>3, <4>1 DEF ClaimResume, ExpireResume, RejectGraphVersion, StillWaiting,
               RunStatus, Active, Terminal
      <3> QED
        BY <2>7, <3>1, <3>2, <3>3 DEF ResumeStep
    <2>8. ASSUME NEW w \in Workers, WorkerStep(w)
          PROVE  Kept(r)
      <3>1. worker[w].pc # "idle" => RunOf(w) \in Runs
        BY Busy
      <3>2. CASE StartRun(w)
        BY <2>2, <2>4, <3>1, <3>2 DEF StartRun, RunStatus, Active
      <3>3. CASE ObserveCancel(w) \/ FailRun(w)
        BY <2>4, <3>1, <3>3 DEF ObserveCancel, FailRun, EndPhase, MayBecome, RunStatus, Terminal
      <3>4. CASE CompleteRun(w) \/ InterruptRun(w)
        <4>1. RunOf(w) \in Runs /\ run[RunOf(w)].status = "running"
          BY <3>1, <3>4 DEF CompleteRun, InterruptRun, EndPhase, MayBecome
        <4>2. \A s \in Runs : s # RunOf(w) => run'[s] = run[s]
          BY <3>4 DEF CompleteRun, InterruptRun, IInv, TypeOK
        <4> QED
          BY <4>1, <4>2
      <3>5. CASE Finalize(w)
        <4> DEFINE s == job[worker[w].job].run
        <4>1. s \in Runs /\ run[s] \in RunType
          BY <3>1, <3>5 DEF Finalize, RunOf, IInv, TypeOK
        <4>2. CASE run' = [run EXCEPT ![s] = FailedRun(run[s])]
          BY <2>3, <4>1, <4>2, FailedRunType
        <4>3. CASE run' = [run EXCEPT ![s] = run[s]]
          BY <2>3, <4>1, <4>3
        <4> QED
          BY <2>2, <3>5, <4>2, <4>3 DEF Finalize
      <3>6. CASE UNCHANGED run
        BY <2>2, <3>6
      <3> QED
        BY <2>8, <3>2, <3>3, <3>4, <3>5, <3>6 DEF WorkerStep, ClaimJob, RenewLease, CheckJob,
             EmitResumed, EmitProgress, FailEndedRun, FailAfterCommit, Deliver, StopExecution,
             RaiseError, Crash
    <2>9. CASE ReapLostJobs
      <3> DEFINE ru == IF r \in LostRuns THEN FailedRun(run[r]) ELSE run[r]
      <3>1. run'[r] = IF WaitedTooLong(ru) THEN Ended(ru, "cancelled") ELSE ru
        BY <2>9 DEF ReapLostJobs, ReapedRun
      <3>2. /\ run[r].status = "cancelling" => ru.status \in {"cancelling", "cancelled"}
            /\ run[r].status = "cancelled" => ru.status = "cancelled"
        BY <2>1, FailedRunType
      <3> HIDE DEF ru
      <3> QED
        BY <3>1, <3>2 DEF WaitedTooLong
    <2> QED
      BY <2>2, <2>5, <2>6, <2>7, <2>8, <2>9 DEF Next, vars, LeaseTick, QueueTimeout
  <1>2. IInv /\ [Next]_vars => [\A r \in Runs : Kept(r)]_vars
    BY <1>1
  <1> QED
    BY <1>2, Invariance, PTL DEF Spec, StopWins

-----------------------------------------------------------------------------
(* One answer for each question. *)

\* What no step changes of a job row once it is inserted.
JobKept(j) ==
    /\ job'[j].kind = job[j].kind /\ job'[j].run = job[j].run /\ job'[j].turn = job[j].turn
    /\ job'[j].status = "absent" <=> job[j].status = "absent"

\* A run that exists asks its next question or keeps the number of the last one.
TurnMoves(r) ==
    run[r].status # "absent" =>
        \/ run'[r].turn > run[r].turn
        \/ run'[r].turn = run[r].turn
              /\ (run'[r].status = "waiting_for_input" => run[r].status = "waiting_for_input")

\* The job of an answered question stays, and its question is not asked again.
AnswersKept ==
    \A j \in Jobs : job[j].kind = "resume" =>
        /\ job[j].status # "absent"
        /\ job[j].turn <= run[job[j].run].turn
        /\ run[job[j].run].status = "waiting_for_input" => job[j].turn < run[job[j].run].turn

AnswersInv == AnswersKept /\ AnsweredOnce

\* Closing a row keeps its identity.
LEMMA ClosedKept ==
    ASSUME NEW x \in JobType
    PROVE  /\ Closed(x).kind = x.kind /\ Closed(x).run = x.run /\ Closed(x).turn = x.turn
           /\ Closed(x).status = "done"
  BY DEF Closed, JobType

LEMMA ClosePriorKept ==
    ASSUME IInv, NEW q \in Requests, req[q].pc # "idle", NEW j \in Jobs
    PROVE  /\ ClosePrior(q)[j].kind = job[j].kind /\ ClosePrior(q)[j].run = job[j].run
           /\ ClosePrior(q)[j].turn = job[j].turn
           /\ ClosePrior(q)[j].status = "absent" <=> job[j].status = "absent"
  <1>1. job[j] \in JobType
    BY DEF IInv, TypeOK
  <1>2. CASE j \in req[q].locked
    BY <1>1, <1>2, ClosedKept DEF ClosePrior, IInv, Inductive, LockedRows
  <1>3. CASE j \notin req[q].locked
    BY <1>3 DEF ClosePrior
  <1> QED
    BY <1>2, <1>3

\* Only admission and an accepted resume insert jobs.
LEMMA JobsKept ==
    ASSUME IInv, [Next]_vars
    PROVE  \/ \A j \in Jobs : JobKept(j)
           \/ \E r \in Runs, j \in Jobs, c \in Conversations, kind \in {"run", "replay"} : AdmitRun(r, j, c, kind)
           \/ \E q \in Requests : ClaimResume(q)
  <1> USE DEF JobKept
  <1>0. job \in [Jobs -> JobType]
    BY DEF IInv, TypeOK
  <1>1. CASE UNCHANGED job
    BY <1>1
  <1>2. ASSUME NEW r \in Runs, CancelRun(r)
        PROVE  \A j \in Jobs : JobKept(j)
    <2>1. SUFFICES ASSUME NEW j \in Jobs, job'[j] = [job[j] EXCEPT !.status = "done"], job[j].status = "queued"
                   PROVE  JobKept(j)
      BY <1>2 DEF CancelRun
    <2>2. job[j] \in JobType
      BY <1>0
    <2> QED
      BY <2>1, <2>2 DEF JobType
  <1>3. ASSUME NEW q \in Requests, ExpireResume(q) \/ RejectGraphVersion(q)
        PROVE  \A j \in Jobs : JobKept(j)
    <2>1. req[q].pc # "idle" /\ job' = ClosePrior(q)
      BY <1>3 DEF ExpireResume, RejectGraphVersion
    <2> QED
      BY <2>1, ClosePriorKept
  <1>4. ASSUME NEW w \in Workers, NEW j \in Jobs, ClaimJob(w, j)
        PROVE  \A k \in Jobs : JobKept(k)
    <2> SUFFICES ASSUME NEW k \in Jobs PROVE JobKept(k)
      OBVIOUS
    <2>1. job[j] \in JobType /\ job[k] \in JobType
      BY <1>0
    <2>2. CASE k # j
      BY <1>4, <2>2, <1>0 DEF ClaimJob
    <2>3. CASE k = j
      BY <1>4, <2>1, <2>3, <1>0 DEF ClaimJob, JobType
    <2> QED
      BY <2>2, <2>3
  <1>5. ASSUME NEW w \in Workers, RenewLease(w)
        PROVE  \A k \in Jobs : JobKept(k)
    <2> SUFFICES ASSUME NEW k \in Jobs PROVE JobKept(k)
      OBVIOUS
    <2>1. worker[w].job \in Jobs
      BY <1>5, Busy DEF RenewLease
    <2> QED
      BY <1>5, <2>1, <1>0 DEF RenewLease, JobType
  <1>6. ASSUME NEW w \in Workers, Finalize(w)
        PROVE  \A k \in Jobs : JobKept(k)
    <2> DEFINE j == worker[w].job
    <2>1. j \in Jobs /\ (UNCHANGED job \/ (job' = [job EXCEPT ![j] = Closed(job[j])] /\ job[j].status = "running"))
      BY <1>6, Busy DEF Finalize
    <2>2. \A k \in Jobs : k # j => job'[k] = job[k]
      BY <2>1, <1>0
    <2>3. UNCHANGED job \/ (job'[j] = Closed(job[j]) /\ job[j].status = "running")
      BY <2>1, <1>0
    <2>4. job[j] \in JobType
      BY <2>1, <1>0
    <2> HIDE DEF j
    <2> QED
      BY <2>2, <2>3, <2>4, ClosedKept
  <1>7. ASSUME NEW j \in Jobs, LeaseTick(j) \/ QueueTimeout(j)
        PROVE  \A k \in Jobs : JobKept(k)
    <2> SUFFICES ASSUME NEW k \in Jobs PROVE JobKept(k)
      OBVIOUS
    <2>1. job[j] \in JobType /\ job[k] \in JobType
      BY <1>0
    <2>2. CASE k # j
      BY <1>7, <2>2, <1>0 DEF LeaseTick, QueueTimeout
    <2>3. CASE LeaseTick(j) /\ k = j
      BY <2>1, <2>3, <1>0 DEF LeaseTick, JobType
    <2>4. CASE QueueTimeout(j) /\ k = j
      BY <2>1, <2>4, <1>0 DEF QueueTimeout, JobType
    <2> QED
      BY <1>7, <2>2, <2>3, <2>4
  <1>8. CASE ReapLostJobs
    <2> SUFFICES ASSUME NEW k \in Jobs PROVE JobKept(k)
      OBVIOUS
    <2>1. job[k] \in JobType /\ job'[k] = (IF Lost(k) THEN Closed(job[k]) ELSE job[k])
      BY <1>0, <1>8 DEF ReapLostJobs
    <2>2. Lost(k) => job[k].status # "absent"
      BY DEF Lost
    <2> QED
      BY <2>1, <2>2, ClosedKept
  <1>9. ASSUME NEW q \in Requests, ResumeStep(q)
        PROVE  (\A j \in Jobs : JobKept(j)) \/ ClaimResume(q)
    BY <1>1, <1>3, <1>9 DEF ResumeStep, ReadResume, AbortResume
  <1>10. ASSUME NEW w \in Workers, WorkerStep(w)
         PROVE  \A j \in Jobs : JobKept(j)
    <2>1. CASE UNCHANGED job
      BY <2>1
    <2> QED
      BY <2>1, <1>4, <1>5, <1>6, <1>10 DEF WorkerStep, CheckJob, StartRun, EmitResumed, EmitProgress, CompleteRun,
           InterruptRun, ObserveCancel, FailRun, EndPhase, FailEndedRun, FailAfterCommit, Deliver, StopExecution,
           RaiseError, Crash
  <1> HIDE DEF JobKept
  <1> QED
    BY <1>1, <1>2, <1>7, <1>8, <1>9, <1>10 DEF Next, vars, RepairTerminal, InteractionDeadline

\* The row of one run is replaced.
LEMMA RunReplaced ==
    ASSUME IInv, NEW s \in Runs, NEW ru, run' = [run EXCEPT ![s] = ru]
    PROVE  run'[s] = ru /\ \A r \in Runs : r # s => run'[r] = run[r]
  BY DEF IInv, TypeOK

\* A row whose status changes keeps the rest.
LEMMA StatusSet ==
    ASSUME NEW ru \in RunType, NEW status
    PROVE  /\ [ru EXCEPT !.status = status].status = status /\ [ru EXCEPT !.status = status].turn = ru.turn
           /\ [ru EXCEPT !.status = status].reply = ru.reply /\ [ru EXCEPT !.status = status].conv = ru.conv
           /\ Ended(ru, status).status = status /\ Ended(ru, status).turn = ru.turn
           /\ Ended(ru, status).reply = ru.reply /\ Ended(ru, status).conv = ru.conv
           /\ [ru EXCEPT !.status = status].overwritten = ru.overwritten
           /\ Ended(ru, status).overwritten = ru.overwritten
  BY DEF Ended, RunType

LEMMA FailedKept ==
    ASSUME NEW ru \in RunType
    PROVE  /\ FailedRun(ru).turn = ru.turn /\ FailedRun(ru).reply = ru.reply
           /\ FailedRun(ru).overwritten = ru.overwritten
           /\ FailedRun(ru).status = CASE ru.status \in {"queued", "running"} -> "failed"
                                       [] ru.status = "cancelling" -> "cancelled"
                                       [] OTHER -> ru.status
           /\ FailedRun(ru) \in RunType
  <1>1. CASE ru.status \in {"queued", "running"}
    BY <1>1, FailedRunType, StatusSet DEF FailedRun
  <1>2. CASE ru.status = "cancelling"
    BY <1>2, FailedRunType, StatusSet DEF FailedRun
  <1>3. CASE ru.status \notin {"queued", "running", "cancelling"}
    BY <1>3, FailedRunType DEF FailedRun
  <1> QED
    BY <1>1, <1>2, <1>3

-----------------------------------------------------------------------------
(* What each step does to the runs. *)

\* Only the status of r changes, and perhaps its deadline; a run is overwritten for
\* good, and only by a withdrawal.
Becomes(r, status) ==
    /\ run'[r].status = status /\ run'[r].turn = run[r].turn /\ run'[r].reply = run[r].reply
    /\ run[r].overwritten => run'[r].overwritten
    /\ run'[r].overwritten => run[r].overwritten \/ status \in {"cancelled", "failed"}
    /\ \A s \in Runs : s # r => run'[s] = run[s]

FailedStatus(status) ==
    CASE status \in {"queued", "running"} -> "failed" [] status = "cancelling" -> "cancelled" [] OTHER -> status

LEMMA RowBecomes ==
    ASSUME IInv, NEW r \in Runs, NEW status,
           \/ run' = [run EXCEPT ![r].status = status]
           \/ run' = [run EXCEPT ![r] = Ended(@, status)]
           \/ run' = [run EXCEPT ![r] = Withdrawn(@, status)] /\ status \in {"cancelled", "failed"}
    PROVE  Becomes(r, status)
  <1>1. run[r] \in RunType
    BY DEF IInv, TypeOK
  <1>2. PICK ru : run' = [run EXCEPT ![r] = ru] /\ ru.status = status /\ ru.turn = run[r].turn
                  /\ ru.reply = run[r].reply /\ (run[r].overwritten => ru.overwritten)
                  /\ (ru.overwritten => run[r].overwritten \/ status \in {"cancelled", "failed"})
    <2> DEFINE a == [run[r] EXCEPT !.status = status]
               b == Ended(run[r], status)
               c == Withdrawn(run[r], status)
    <2>1. a.status = status /\ a.turn = run[r].turn /\ a.reply = run[r].reply /\ a.overwritten = run[r].overwritten
      BY <1>1, StatusSet
    <2>2. b.status = status /\ b.turn = run[r].turn /\ b.reply = run[r].reply /\ b.overwritten = run[r].overwritten
      BY <1>1, StatusSet
    <2>3. status \in {"cancelled", "failed"} =>
            /\ c.status = status /\ c.turn = run[r].turn /\ c.reply = run[r].reply
            /\ run[r].overwritten => c.overwritten
      BY <1>1, WithdrawnType DEF RunStatus, Terminal
    <2>4. \/ run' = [run EXCEPT ![r] = a] \/ run' = [run EXCEPT ![r] = b]
          \/ run' = [run EXCEPT ![r] = c] /\ status \in {"cancelled", "failed"}
      OBVIOUS
    <2> HIDE DEF a, b, c
    <2> QED
      BY <2>1, <2>2, <2>3, <2>4
  <1> QED
    BY <1>2, RunReplaced DEF Becomes

\* Handlers of the API.
LEMMA ApiRows ==
    ASSUME IInv
    PROVE  /\ \A r \in Runs, j \in Jobs, c \in Conversations, kind \in {"run", "replay"} :
                AdmitRun(r, j, c, kind) =>
                   /\ run[r].status = "absent" /\ run'[r].status = "queued" /\ ~run'[r].reply /\ run'[r].turn = 0
                   /\ ~run'[r].overwritten
                   /\ \A s \in Runs : s # r => run'[s] = run[s]
           /\ \A r \in Runs : CancelRun(r) =>
                \/ run[r].status \in {"queued", "waiting_for_input"} /\ Becomes(r, "cancelled")
                \/ run[r].status = "running" /\ Becomes(r, "cancelling")
           /\ \A q \in Requests : ClaimResume(q) =>
                /\ req[q].run \in Runs /\ run[req[q].run].status = "waiting_for_input"
                /\ run[req[q].run].turn = req[q].turn /\ Becomes(req[q].run, "queued")
           /\ \A q \in Requests : ExpireResume(q) =>
                /\ req[q].run \in Runs /\ run[req[q].run].status # "cancelled" /\ Becomes(req[q].run, "cancelled")
                /\ run[req[q].run].status = "waiting_for_input" \/ run'[req[q].run].overwritten
           /\ \A q \in Requests : RejectGraphVersion(q) =>
                /\ req[q].run \in Runs /\ run[req[q].run].status \in Active /\ Becomes(req[q].run, "failed")
                /\ run[req[q].run].status = "waiting_for_input" \/ run'[req[q].run].overwritten
           /\ \A r \in Runs : InteractionDeadline(r) => Becomes(r, run[r].status)
  <1>1. ASSUME NEW r \in Runs, NEW j \in Jobs, NEW c \in Conversations, NEW kind \in {"run", "replay"},
               AdmitRun(r, j, c, kind)
        PROVE  /\ run[r].status = "absent" /\ run'[r].status = "queued" /\ ~run'[r].reply /\ run'[r].turn = 0
               /\ ~run'[r].overwritten
               /\ \A s \in Runs : s # r => run'[s] = run[s]
    <2> DEFINE ru == [NoRun EXCEPT !.status = "queued", !.conv = c]
    <2>1. ru.status = "queued" /\ ~ru.reply /\ ru.turn = 0 /\ ~ru.overwritten
      BY DEF NoRun
    <2>2. run' = [run EXCEPT ![r] = ru] /\ run[r].status = "absent"
      BY <1>1 DEF AdmitRun
    <2> HIDE DEF ru
    <2> QED
      BY <2>1, <2>2, RunReplaced
  <1>2. ASSUME NEW q \in Requests, req[q].pc # "idle"
        PROVE  req[q].run \in Runs
    BY <1>2 DEF IInv, Inductive, LockedRows
  <1>3. ASSUME NEW r \in Runs, CancelRun(r)
        PROVE  \/ run[r].status \in {"queued", "waiting_for_input"} /\ Becomes(r, "cancelled")
               \/ run[r].status = "running" /\ Becomes(r, "cancelling")
    BY <1>3, RowBecomes DEF CancelRun
  <1>4. ASSUME NEW q \in Requests, ClaimResume(q)
        PROVE  /\ req[q].run \in Runs /\ run[req[q].run].status = "waiting_for_input"
               /\ run[req[q].run].turn = req[q].turn /\ Becomes(req[q].run, "queued")
    BY <1>2, <1>4, RowBecomes DEF ClaimResume, StillWaiting
  <1>5. ASSUME NEW r \in Runs, NEW status \in {"cancelled", "failed"}, run' = [run EXCEPT ![r] = Withdrawn(@, status)]
        PROVE  run[r].status = "waiting_for_input" \/ run'[r].overwritten
    <2> DEFINE ru == Withdrawn(run[r], status)
    <2>1. run[r].status = "waiting_for_input" \/ ru.overwritten
      BY WithdrawnType DEF IInv, TypeOK, RunStatus, Terminal
    <2>2. run' = [run EXCEPT ![r] = ru]
      BY <1>5
    <2> HIDE DEF ru
    <2> QED
      BY <2>1, <2>2, RunReplaced
  <1>6. ASSUME NEW q \in Requests, ExpireResume(q)
        PROVE  /\ req[q].run \in Runs /\ run[req[q].run].status # "cancelled" /\ Becomes(req[q].run, "cancelled")
               /\ run[req[q].run].status = "waiting_for_input" \/ run'[req[q].run].overwritten
    BY <1>2, <1>5, <1>6, RowBecomes DEF ExpireResume
  <1>7. ASSUME NEW q \in Requests, RejectGraphVersion(q)
        PROVE  /\ req[q].run \in Runs /\ run[req[q].run].status \in Active /\ Becomes(req[q].run, "failed")
               /\ run[req[q].run].status = "waiting_for_input" \/ run'[req[q].run].overwritten
    BY <1>2, <1>5, <1>7, RowBecomes DEF RejectGraphVersion
  <1>8. ASSUME NEW r \in Runs, InteractionDeadline(r)
        PROVE  Becomes(r, run[r].status)
    <2> DEFINE ru == [run[r] EXCEPT !.deadline = "past"]
    <2>1. run[r] \in RunType
      BY DEF IInv, TypeOK
    <2>2. ru.status = run[r].status /\ ru.turn = run[r].turn /\ ru.reply = run[r].reply
          /\ ru.overwritten = run[r].overwritten
      BY <2>1 DEF RunType
    <2>3. run' = [run EXCEPT ![r] = ru]
      BY <1>8 DEF InteractionDeadline
    <2> HIDE DEF ru
    <2> QED
      BY <2>2, <2>3, RunReplaced DEF Becomes
  <1> QED
    BY <1>1, <1>3, <1>4, <1>6, <1>7, <1>8

\* Steps of workers.
LEMMA WorkerRows ==
    ASSUME IInv, NEW w \in Workers
    PROVE  /\ StartRun(w) =>
                \/ RunOf(w) \in Runs /\ run[RunOf(w)].status = "queued" /\ Becomes(RunOf(w), "running")
                \/ UNCHANGED run
           /\ CompleteRun(w) =>
                /\ RunOf(w) \in Runs /\ run[RunOf(w)].status = "running"
                /\ run'[RunOf(w)].status = "completed" /\ run'[RunOf(w)].turn = run[RunOf(w)].turn
                /\ run'[RunOf(w)].overwritten = run[RunOf(w)].overwritten
                /\ \A s \in Runs : s # RunOf(w) => run'[s] = run[s]
           /\ InterruptRun(w) =>
                /\ RunOf(w) \in Runs /\ run[RunOf(w)].status = "running"
                /\ run'[RunOf(w)].status = "waiting_for_input" /\ run'[RunOf(w)].turn = run[RunOf(w)].turn + 1
                /\ run'[RunOf(w)].reply = run[RunOf(w)].reply
                /\ run'[RunOf(w)].overwritten = run[RunOf(w)].overwritten
                /\ \A s \in Runs : s # RunOf(w) => run'[s] = run[s]
           /\ ObserveCancel(w) =>
                RunOf(w) \in Runs /\ run[RunOf(w)].status = "cancelling" /\ Becomes(RunOf(w), "cancelled")
           /\ FailRun(w) =>
                /\ RunOf(w) \in Runs /\ run[RunOf(w)].status \in {"running", "cancelling"}
                /\ Becomes(RunOf(w), "failed")
           /\ Finalize(w) =>
                \/ UNCHANGED run
                \/ RunOf(w) \in Runs /\ Holds(w) /\ Becomes(RunOf(w), FailedStatus(run[RunOf(w)].status))
  <1> DEFINE r == RunOf(w)
  <1>0. worker[w].pc # "idle" => r \in Runs /\ run[r] \in RunType
    BY Busy DEF IInv, TypeOK
  <1>1. StartRun(w) => \/ r \in Runs /\ run[r].status = "queued" /\ Becomes(r, "running")
                       \/ UNCHANGED run
    <2> SUFFICES ASSUME StartRun(w), run[r].status = "queued", run' = [run EXCEPT ![r].status = "running"]
                 PROVE  r \in Runs /\ Becomes(r, "running")
      BY DEF StartRun
    <2>1. r \in Runs
      BY <1>0 DEF StartRun
    <2> HIDE DEF r
    <2> QED
      BY <2>1, RowBecomes
  <1>2. CompleteRun(w) =>
                /\ r \in Runs /\ run[r].status = "running"
                /\ run'[r].status = "completed" /\ run'[r].turn = run[r].turn
                /\ run'[r].overwritten = run[r].overwritten
                /\ \A s \in Runs : s # r => run'[s] = run[s]
    <2> SUFFICES ASSUME CompleteRun(w)
                 PROVE  /\ r \in Runs /\ run[r].status = "running"
                        /\ run'[r].status = "completed" /\ run'[r].turn = run[r].turn
                /\ run'[r].overwritten = run[r].overwritten
                        /\ \A s \in Runs : s # r => run'[s] = run[s]
      OBVIOUS
    <2> DEFINE ru == [Ended(run[r], "completed") EXCEPT !.reply = TRUE]
    <2>1. r \in Runs /\ run[r].status = "running" /\ run[r] \in RunType
      BY <1>0 DEF CompleteRun, EndPhase, MayBecome
    <2>2. run' = [run EXCEPT ![r] = ru]
      BY DEF CompleteRun
    <2>3. ru.status = "completed" /\ ru.turn = run[r].turn /\ ru.overwritten = run[r].overwritten
      BY <2>1 DEF Ended, RunType
    <2> HIDE DEF r, ru
    <2> QED
      BY <2>1, <2>2, <2>3, RunReplaced
  <1>3. InterruptRun(w) =>
                /\ r \in Runs /\ run[r].status = "running"
                /\ run'[r].status = "waiting_for_input" /\ run'[r].turn = run[r].turn + 1
                /\ run'[r].reply = run[r].reply
                /\ run'[r].overwritten = run[r].overwritten
                /\ \A s \in Runs : s # r => run'[s] = run[s]
    <2> SUFFICES ASSUME InterruptRun(w)
                 PROVE  /\ r \in Runs /\ run[r].status = "running"
                        /\ run'[r].status = "waiting_for_input" /\ run'[r].turn = run[r].turn + 1
                        /\ run'[r].reply = run[r].reply
                /\ run'[r].overwritten = run[r].overwritten
                        /\ \A s \in Runs : s # r => run'[s] = run[s]
      OBVIOUS
    <2> DEFINE d == IF run[r].deadline = "none" THEN "ahead" ELSE run[r].deadline
               ru == [run[r] EXCEPT !.status = "waiting_for_input", !.turn = @ + 1, !.deadline = d]
    <2>1. r \in Runs /\ run[r].status = "running" /\ run[r] \in RunType
      BY <1>0 DEF InterruptRun, EndPhase, MayBecome
    <2>2. run' = [run EXCEPT ![r] = ru]
      BY <2>1 DEF InterruptRun, IInv, TypeOK
    <2>3. ru.status = "waiting_for_input" /\ ru.turn = run[r].turn + 1 /\ ru.reply = run[r].reply
          /\ ru.overwritten = run[r].overwritten
      BY <2>1 DEF RunType
    <2> HIDE DEF r, ru
    <2> QED
      BY <2>1, <2>2, <2>3, RunReplaced
  <1>4. ObserveCancel(w) => r \in Runs /\ run[r].status = "cancelling" /\ Becomes(r, "cancelled")
    <2> SUFFICES ASSUME ObserveCancel(w)
                 PROVE  r \in Runs /\ run[r].status = "cancelling" /\ Becomes(r, "cancelled")
      OBVIOUS
    <2>1. r \in Runs /\ run[r].status = "cancelling" /\ run' = [run EXCEPT ![r].status = "cancelled"]
      BY <1>0 DEF ObserveCancel, EndPhase
    <2> HIDE DEF r
    <2> QED
      BY <2>1, RowBecomes
  <1>5. FailRun(w) => r \in Runs /\ run[r].status \in {"running", "cancelling"} /\ Becomes(r, "failed")
    <2> SUFFICES ASSUME FailRun(w)
                 PROVE  r \in Runs /\ run[r].status \in {"running", "cancelling"} /\ Becomes(r, "failed")
      OBVIOUS
    <2>1. r \in Runs /\ run[r].status \in {"running", "cancelling", "queued"} /\ run' = [run EXCEPT ![r] = Ended(@, "failed")]
      BY <1>0 DEF FailRun, EndPhase, MayBecome
    <2>2. run[r].status # "queued"
      BY DEF FailRun, EndPhase, Fence, Owns, IInv, Inductive, HeldPhase, Holds, Fenced
    <2> HIDE DEF r
    <2> QED
      BY <2>1, <2>2, RowBecomes
  <1>6. Finalize(w) => \/ UNCHANGED run
                       \/ r \in Runs /\ Holds(w) /\ Becomes(r, FailedStatus(run[r].status))
    <2> SUFFICES ASSUME Finalize(w), ~UNCHANGED run
                 PROVE  r \in Runs /\ Holds(w) /\ Becomes(r, FailedStatus(run[r].status))
      OBVIOUS
    <2>1. r \in Runs /\ run[r] \in RunType /\ Holds(w)
      BY <1>0 DEF Finalize, Holds
    <2>2. run' = [run EXCEPT ![r] = FailedRun(run[r])] \/ run' = [run EXCEPT ![r] = run[r]]
      BY DEF Finalize, RunOf
    <2>3. run' = [run EXCEPT ![r] = FailedRun(run[r])]
      BY <2>1, <2>2 DEF IInv, TypeOK
    <2> HIDE DEF r
    <2>4. run'[r] = FailedRun(run[r]) /\ \A s \in Runs : s # r => run'[s] = run[s]
      BY <2>1, <2>3, RunReplaced
    <2> QED
      BY <2>1, <2>4, FailedKept DEF Becomes, FailedStatus
  <1> QED
    BY <1>1, <1>2, <1>3, <1>4, <1>5, <1>6

\* Reconciliation.
LEMMA ReapedStatus ==
    ASSUME IInv, ReapLostJobs, NEW r \in Runs
    PROVE  /\ run'[r].turn = run[r].turn /\ run'[r].reply = run[r].reply
           /\ run'[r].overwritten = run[r].overwritten
           /\ \/ run'[r].status = run[r].status
              \/ r \in LostRuns /\ run'[r].status = FailedStatus(run[r].status)
              \/ run[r].status = "waiting_for_input" /\ run'[r].status = "cancelled"
           /\ r \in LostRuns /\ run[r].status # "waiting_for_input" => run'[r].status = FailedStatus(run[r].status)
           /\ r \notin LostRuns /\ run[r].status # "waiting_for_input" => run'[r] = run[r]
  <1> DEFINE ru == IF r \in LostRuns THEN FailedRun(run[r]) ELSE run[r]
  <1>1. run[r] \in RunType
    BY DEF IInv, TypeOK
  <1>2. run'[r] = IF WaitedTooLong(ru) THEN Ended(ru, "cancelled") ELSE ru
    BY DEF ReapLostJobs, ReapedRun
  <1>3. /\ ru \in RunType /\ ru.turn = run[r].turn /\ ru.reply = run[r].reply /\ ru.overwritten = run[r].overwritten
        /\ r \in LostRuns => ru.status = FailedStatus(run[r].status)
        /\ r \notin LostRuns => ru = run[r]
    BY <1>1, FailedKept DEF FailedStatus
  <1>4. /\ Ended(ru, "cancelled").status = "cancelled" /\ Ended(ru, "cancelled").turn = ru.turn
        /\ Ended(ru, "cancelled").reply = ru.reply /\ Ended(ru, "cancelled").overwritten = ru.overwritten
    BY <1>3, StatusSet
  <1>5. FailedStatus(run[r].status) = "waiting_for_input" => run[r].status = "waiting_for_input"
    BY DEF FailedStatus
  <1> HIDE DEF ru
  <1> QED
    BY <1>2, <1>3, <1>4, <1>5 DEF WaitedTooLong

\* The steps that change no run.
LEMMA RunsAlone ==
    ASSUME IInv, [Next]_vars
    PROVE  \/ UNCHANGED run
           \/ \E r \in Runs, j \in Jobs, c \in Conversations, kind \in {"run", "replay"} : AdmitRun(r, j, c, kind)
           \/ \E r \in Runs : CancelRun(r) \/ InteractionDeadline(r)
           \/ \E q \in Requests : ClaimResume(q) \/ ExpireResume(q) \/ RejectGraphVersion(q)
           \/ \E w \in Workers : \/ StartRun(w) \/ CompleteRun(w) \/ InterruptRun(w) \/ ObserveCancel(w)
                                 \/ FailRun(w) \/ Finalize(w)
           \/ ReapLostJobs
  <1>1. ASSUME NEW q \in Requests, ResumeStep(q)
        PROVE  UNCHANGED run \/ ClaimResume(q) \/ ExpireResume(q) \/ RejectGraphVersion(q)
    BY <1>1 DEF ResumeStep, ReadResume, AbortResume
  <1>2. ASSUME NEW w \in Workers, WorkerStep(w)
        PROVE  \/ UNCHANGED run \/ StartRun(w) \/ CompleteRun(w) \/ InterruptRun(w) \/ ObserveCancel(w)
               \/ FailRun(w) \/ Finalize(w)
    BY <1>2 DEF WorkerStep, ClaimJob, RenewLease, CheckJob, EmitResumed, EmitProgress, FailEndedRun, FailAfterCommit,
         Deliver, StopExecution, RaiseError, Crash
  <1>3. ASSUME NEW j \in Jobs, LeaseTick(j) \/ QueueTimeout(j) PROVE UNCHANGED run
    BY <1>3 DEF LeaseTick, QueueTimeout
  <1>4. ASSUME NEW r \in Runs, RepairTerminal(r) PROVE UNCHANGED run
    BY <1>4 DEF RepairTerminal
  <1>5. UNCHANGED vars => UNCHANGED run
    BY DEF vars
  <1> QED
    BY <1>1, <1>2, <1>3, <1>4, <1>5 DEF Next

LEMMA TurnsMove ==
    ASSUME IInv, [Next]_vars, NEW r \in Runs PROVE TurnMoves(r)
  <1>0. run[r].turn \in Nat
    BY DEF IInv, TypeOK, RunType
  <1>1. CASE UNCHANGED run
    BY <1>1 DEF TurnMoves
  <1>2. ASSUME NEW s \in Runs, NEW status, Becomes(s, status),
               status = "waiting_for_input" => run[s].status = "waiting_for_input"
        PROVE  TurnMoves(r)
    BY <1>2 DEF TurnMoves, Becomes
  <1>3. ASSUME NEW s \in Runs, NEW j \in Jobs, NEW c \in Conversations, NEW kind \in {"run", "replay"},
               AdmitRun(s, j, c, kind)
        PROVE  TurnMoves(r)
    BY <1>3, ApiRows DEF TurnMoves
  <1>4. ASSUME NEW s \in Runs, CancelRun(s) \/ InteractionDeadline(s) PROVE TurnMoves(r)
    BY <1>2, <1>4, ApiRows
  <1>5. ASSUME NEW q \in Requests, ClaimResume(q) \/ ExpireResume(q) \/ RejectGraphVersion(q) PROVE TurnMoves(r)
    BY <1>2, <1>5, ApiRows
  <1>6. ASSUME NEW w \in Workers, CompleteRun(w) \/ InterruptRun(w) PROVE TurnMoves(r)
    BY <1>0, <1>6, WorkerRows DEF TurnMoves
  <1>7. ASSUME NEW w \in Workers, StartRun(w) \/ ObserveCancel(w) \/ FailRun(w) \/ Finalize(w)
        PROVE  TurnMoves(r)
    BY <1>1, <1>2, <1>7, WorkerRows DEF FailedStatus
  <1>8. CASE ReapLostJobs
    BY <1>8, ReapedStatus DEF TurnMoves, FailedStatus
  <1> QED
    BY <1>1, <1>3, <1>4, <1>5, <1>6, <1>7, <1>8, RunsAlone

LEMMA AnswersInitially == Init => AnswersInv
  BY DEF Init, NoJob, AnswersInv, AnswersKept, AnsweredOnce

LEMMA AnswersNext ==
    ASSUME IInv, AnswersInv, [Next]_vars PROVE AnswersInv'
  <1>0. /\ \A r \in Runs : TurnMoves(r)
        /\ \A j \in Jobs : job[j].kind = "resume" => job[j].run \in Runs /\ run[job[j].run].status # "absent"
        /\ \A j \in Jobs : job[j].turn \in Nat
        /\ \A r \in Runs : run[r].turn \in Nat /\ run'[r].turn \in Nat
    <2>1. IInv'
      BY NextInv
    <2> QED
      BY <2>1, TurnsMove DEF AnswersInv, AnswersKept, IInv, Inductive, JobHasRun, TypeOK, JobType, RunType
  <1>1. CASE \A j \in Jobs : JobKept(j)
    <2>1. AnsweredOnce'
      BY <1>1 DEF JobKept, AnswersInv, AnsweredOnce
    <2>2. AnswersKept'
      BY <1>0, <1>1 DEF JobKept, TurnMoves, AnswersInv, AnswersKept
    <2> QED
      BY <2>1, <2>2 DEF AnswersInv
  <1>2. ASSUME NEW r \in Runs, NEW i \in Jobs, NEW c \in Conversations, NEW kind \in {"run", "replay"},
               AdmitRun(r, i, c, kind)
        PROVE  AnswersInv'
    <2>1. /\ job' = [job EXCEPT ![i] = NewJob(r, kind, 0)] /\ NewJob(r, kind, 0).kind # "resume"
      BY <1>2 DEF AdmitRun, NewJob
    <2>2. job'[i].kind # "resume" /\ \A j \in Jobs : j # i => job'[j] = job[j]
      BY <2>1 DEF IInv, TypeOK
    <2>3. AnsweredOnce'
      BY <2>2 DEF AnswersInv, AnsweredOnce
    <2>4. AnswersKept'
      BY <1>0, <2>2 DEF TurnMoves, AnswersInv, AnswersKept
    <2> QED
      BY <2>3, <2>4 DEF AnswersInv
  <1>3. ASSUME NEW q \in Requests, ClaimResume(q)
        PROVE  AnswersInv'
    <2> DEFINE r == req[q].run
               i == req[q].job
               new == NewJob(r, "resume", req[q].turn)
    <2>1. /\ i \in Jobs /\ r \in Runs /\ req[q].pc # "idle"
      BY <1>3 DEF ClaimResume, IInv, Inductive, LockedRows
    <2>2. /\ run[r].status = "waiting_for_input" /\ run[r].turn = req[q].turn /\ Becomes(r, "queued")
      BY <1>3, ApiRows
    <2>3. new.kind = "resume" /\ new.run = r /\ new.turn = req[q].turn /\ new.status = "queued"
      BY DEF NewJob
    <2>4. job' = [ClosePrior(q) EXCEPT ![i] = new] /\ ClosePrior(q) \in [Jobs -> JobType]
      BY <1>3, ClosePriorRows DEF ClaimResume
    <2> HIDE DEF new
    <2>5. job'[i] = new /\ \A j \in Jobs : j # i => job'[j] = ClosePrior(q)[j]
      BY <2>1, <2>4
    <2>6. \A j \in Jobs : j # i => JobKept(j)
      BY <2>1, <2>5, ClosePriorKept DEF JobKept
    <2>7. \A j \in Jobs : job[j].kind = "resume" /\ job[j].run = r => job[j].turn < req[q].turn
      BY <2>2 DEF AnswersInv, AnswersKept
    <2>8. AnsweredOnce'
      <3> SUFFICES ASSUME NEW j \in Jobs, NEW k \in Jobs, job'[j].kind = "resume", job'[k].kind = "resume",
                          job'[j].run = job'[k].run, job'[j].turn = job'[k].turn, j # k
                   PROVE  FALSE
        BY DEF AnsweredOnce
      <3>1. CASE j # i /\ k # i
        BY <2>6, <3>1 DEF JobKept, AnswersInv, AnsweredOnce
      <3>2. CASE j = i
        BY <1>0, <2>3, <2>5, <2>6, <2>7, <3>2 DEF JobKept
      <3>3. CASE k = i
        BY <1>0, <2>3, <2>5, <2>6, <2>7, <3>3 DEF JobKept
      <3> QED
        BY <3>1, <3>2, <3>3
    <2>9. AnswersKept'
      <3> SUFFICES ASSUME NEW j \in Jobs, job'[j].kind = "resume"
                   PROVE  /\ job'[j].status # "absent"
                          /\ job'[j].turn <= run'[job'[j].run].turn
                          /\ run'[job'[j].run].status = "waiting_for_input" => job'[j].turn < run'[job'[j].run].turn
        BY DEF AnswersKept
      <3>1. CASE j # i
        BY <1>0, <2>6, <3>1 DEF JobKept, TurnMoves, AnswersInv, AnswersKept
      <3>2. CASE j = i
        BY <1>0, <2>1, <2>2, <2>3, <2>5, <3>2 DEF Becomes
      <3> QED
        BY <3>1, <3>2
    <2> QED
      BY <2>8, <2>9 DEF AnswersInv
  <1> QED
    BY <1>1, <1>2, <1>3, JobsKept

\* A question is answered by at most one resume, for any number of concurrent and
\* repeated requests (the compare-and-set of prepare_conversation_run_resume).
THEOREM AnswersAreUnique == Spec => []AnsweredOnce
  <1>1. AnswersInv /\ IInv /\ [Next]_vars => AnswersInv'
    BY AnswersNext
  <1>2. AnswersInv => AnsweredOnce
    BY DEF AnswersInv
  <1> QED
    BY <1>1, <1>2, AnswersInitially, Invariance, PTL DEF Spec

-----------------------------------------------------------------------------
(* Leased jobs are not taken away. *)

\* While a request holds the rows of the previous phase, nobody else moves the run
\* but to withdraw its question.
LockedWaits ==
    \A q \in Requests : req[q].locked # {} =>
        run[req[q].run].status \in {"waiting_for_input", "cancelled", "failed"}


LEMMA LockedWaitsNext ==
    ASSUME IInv, LockedWaits, [Next]_vars PROVE LockedWaits'
  <1> DEFINE NotAhead == {"waiting_for_input", "cancelled", "failed"}
  <1>0. /\ \A q \in Requests : req[q].locked # {} => req[q].run \in Runs /\ run[req[q].run].status # "absent"
        /\ IdleRequest.locked = {}
    BY DEF IInv, Inductive, LockedRows, IdleRequest
  <1>1. ASSUME NEW q \in Requests, req' = [req EXCEPT ![q] = IdleRequest],
               \A p \in Requests : p # q /\ req[p].locked # {} => run'[req[p].run].status \in NotAhead
        PROVE  LockedWaits'
    <2>1. req'[q].locked = {} /\ \A p \in Requests : p # q => req'[p] = req[p]
      BY <1>0, <1>1 DEF IInv, TypeOK
    <2> QED
      BY <1>1, <2>1 DEF LockedWaits
  <1>2. ASSUME UNCHANGED req, \A p \in Requests : req[p].locked # {} => run'[req[p].run].status \in NotAhead
        PROVE  LockedWaits'
    BY <1>2 DEF LockedWaits
  <1>3. ASSUME NEW r \in Runs, NEW status, Becomes(r, status), UNCHANGED req,
               status \in NotAhead \/ (\A p \in Requests : req[p].locked # {} => req[p].run # r)
        PROVE  LockedWaits'
    BY <1>0, <1>2, <1>3 DEF Becomes, LockedWaits
  <1>4. ASSUME NEW q \in Requests, ResumeStep(q)
        PROVE  LockedWaits'
    <2>1. CASE \E r \in Runs, j \in Jobs, turn \in 1..MaxTurns, same \in BOOLEAN : ReadResume(q, r, j, turn, same)
      <3>1. PICK r \in Runs, j \in Jobs, turn \in 1..MaxTurns, same \in BOOLEAN : ReadResume(q, r, j, turn, same)
        BY <2>1
      <3>2. UNCHANGED run /\ run[r].status = "waiting_for_input"
        BY <3>1 DEF ReadResume
      <3>3. req'[q].run = r /\ \A p \in Requests : p # q => req'[p] = req[p]
        BY <3>1 DEF ReadResume, IInv, TypeOK
      <3> QED
        BY <3>2, <3>3 DEF LockedWaits
    <2>2. CASE ClaimResume(q)
      <3>1. /\ req[q].run \in Runs /\ run[req[q].run].status = "waiting_for_input"
            /\ run[req[q].run].turn = req[q].turn /\ Becomes(req[q].run, "queued")
        BY <2>2, ApiRows
      <3>2. req' = [req EXCEPT ![q] = IdleRequest] /\ req[q].pc # "idle" /\ StillWaiting(q)
        BY <2>2 DEF ClaimResume
      <3>3. \A p \in Requests : p # q /\ req[p].locked # {} => req[p].run # req[q].run
        <4> SUFFICES ASSUME NEW p \in Requests, p # q, req[p].run = req[q].run, NEW j \in req[p].locked PROVE FALSE
          OBVIOUS
        <4>1. j \in Jobs /\ job[j].status = "running" /\ job[j].run = req[q].run
          BY DEF IInv, Inductive, LockedRows, TypeOK, RequestType
        <4>2. j \in req[q].locked
          BY <3>2, <4>1 DEF IInv, Inductive, OpenQuestion
        <4> QED
          BY <4>2 DEF IInv, Inductive, LockedRows
      <3>4. \A p \in Requests : p # q /\ req[p].locked # {} => run'[req[p].run].status \in NotAhead
        BY <1>0, <3>1, <3>3 DEF Becomes, LockedWaits
      <3> QED
        BY <1>1, <3>2, <3>4
    <2>3. CASE ExpireResume(q) \/ RejectGraphVersion(q)
      <3>1. PICK status \in {"cancelled", "failed"} : Becomes(req[q].run, status) /\ req[q].run \in Runs
        BY <2>3, ApiRows
      <3>2. req' = [req EXCEPT ![q] = IdleRequest]
        BY <2>3 DEF ExpireResume, RejectGraphVersion
      <3>3. \A p \in Requests : p # q /\ req[p].locked # {} => run'[req[p].run].status \in NotAhead
        BY <1>0, <3>1 DEF Becomes, LockedWaits
      <3> QED
        BY <1>1, <3>2, <3>3
    <2>4. CASE AbortResume(q)
      BY <1>1, <2>4 DEF AbortResume, LockedWaits
    <2> QED
      BY <1>4, <2>1, <2>2, <2>3, <2>4 DEF ResumeStep
  <1>5. ASSUME NEW w \in Workers, WorkerStep(w)
        PROVE  LockedWaits'
    <2>0. UNCHANGED req
      BY <1>5 DEF WorkerStep, ClaimJob, RenewLease, CheckJob, StartRun, EmitResumed, EmitProgress, CompleteRun,
           InterruptRun, ObserveCancel, FailRun, EndPhase, FailEndedRun, FailAfterCommit, Deliver, StopExecution,
           RaiseError, Finalize, Crash
    <2>1. CASE UNCHANGED run
      BY <2>0, <2>1 DEF LockedWaits
    <2>2. CASE StartRun(w)
      BY <1>3, <2>0, <2>1, <2>2, WorkerRows DEF LockedWaits
    <2>3. CASE CompleteRun(w) \/ InterruptRun(w)
      <3>1. /\ RunOf(w) \in Runs /\ run[RunOf(w)].status = "running"
            /\ \A s \in Runs : s # RunOf(w) => run'[s] = run[s]
        BY <2>3, WorkerRows
      <3> QED
        BY <1>0, <1>2, <2>0, <3>1 DEF LockedWaits
    <2>4. CASE ObserveCancel(w) \/ FailRun(w)
      BY <1>3, <2>0, <2>4, WorkerRows
    <2>5. CASE Finalize(w)
      <3>1. UNCHANGED run \/ (RunOf(w) \in Runs /\ Becomes(RunOf(w), FailedStatus(run[RunOf(w)].status)))
        BY <2>5, WorkerRows
      <3>2. CASE RunOf(w) \in Runs /\ Becomes(RunOf(w), FailedStatus(run[RunOf(w)].status))
        <4>1. FailedStatus(run[RunOf(w)].status) \in NotAhead \/ run[RunOf(w)].status \notin NotAhead
          BY DEF FailedStatus
        <4> QED
          BY <1>3, <2>0, <3>2, <4>1 DEF LockedWaits
      <3> QED
        BY <2>1, <3>1, <3>2
    <2> QED
      BY <1>5, <2>1, <2>2, <2>3, <2>4, <2>5 DEF WorkerStep, ClaimJob, RenewLease, CheckJob, EmitResumed, EmitProgress,
           FailEndedRun, FailAfterCommit, Deliver, StopExecution, RaiseError, Crash
  <1>6. CASE ReapLostJobs
    <2>1. UNCHANGED req
      BY <1>6 DEF ReapLostJobs
    <2>2. \A r \in Runs : run[r].status \in NotAhead => run'[r].status \in NotAhead
      BY <1>6, ReapedStatus DEF FailedStatus
    <2> QED
      BY <1>0, <1>2, <2>1, <2>2 DEF LockedWaits
  <1>7. ASSUME NEW r \in Runs, NEW j \in Jobs, NEW c \in Conversations, NEW kind \in {"run", "replay"},
               AdmitRun(r, j, c, kind)
        PROVE  LockedWaits'
    <2>1. UNCHANGED req
      BY <1>7 DEF AdmitRun
    <2> QED
      BY <1>0, <1>2, <1>7, <2>1, ApiRows DEF LockedWaits
  <1>8. ASSUME NEW r \in Runs, CancelRun(r) \/ InteractionDeadline(r) PROVE LockedWaits'
    <2>1. UNCHANGED req
      BY <1>8 DEF CancelRun, InteractionDeadline
    <2> QED
      BY <1>3, <1>8, <2>1, ApiRows DEF LockedWaits
  <1>9. CASE UNCHANGED <<run, req>>
    BY <1>9 DEF LockedWaits
  <1> HIDE DEF NotAhead
  <1> QED
    BY <1>4, <1>5, <1>6, <1>7, <1>8, <1>9 DEF Next, vars, RepairTerminal, LeaseTick, QueueTimeout

\* No step closes the job of a worker that still passes the fence, but for a run that
\* waits for input or was ended: reconciliation takes only lapsed leases, a worker
\* closes only its own job, and a resume only jobs of a phase that is over.
THEOREM LeasesAreKept == Spec => NoLeaseStolen
  <1> DEFINE Kept(w) ==
        LET j == worker[w].job
        IN  worker[w].pc \in Fenced /\ Owns(w, j) /\ job'[j].status = "done"
               => run[job[j].run].status \in {"waiting_for_input", "cancelled", "failed"}
  <1>1. ASSUME IInv, LockedWaits, [Next]_vars, NEW w \in Workers
        PROVE  Kept(w)
    <2> DEFINE j == worker[w].job
    <2> SUFFICES ASSUME worker[w].pc \in Fenced, Owns(w, j), job'[j].status = "done"
                 PROVE  run[job[j].run].status \in {"waiting_for_input", "cancelled", "failed"}
      OBVIOUS
    <2>1. j \in Jobs /\ job[j].status = "running" /\ job[j].token = w /\ job[j].ttl > 0
      BY <1>1, Busy DEF Owns, Fenced
    <2>2. job \in [Jobs -> JobType]
      BY <1>1 DEF IInv, TypeOK
    <2> HIDE DEF j
    <2>3. ASSUME NEW q \in Requests, j \in req[q].locked
          PROVE  run[job[j].run].status \in {"waiting_for_input", "cancelled", "failed"}
      BY <1>1, <2>3 DEF LockedWaits, IInv, Inductive, LockedRows
    <2>4. ASSUME NEW q \in Requests, ResumeStep(q)
          PROVE  run[job[j].run].status \in {"waiting_for_input", "cancelled", "failed"}
      <3>1. CASE UNCHANGED job
        BY <2>1, <3>1
      <3>2. CASE ExpireResume(q) \/ RejectGraphVersion(q)
        BY <1>1, <2>1, <2>3, <3>2, ClosePriorRows DEF ExpireResume, RejectGraphVersion
      <3>3. CASE ClaimResume(q)
        <4>1. /\ req[q].job \in Jobs /\ job[req[q].job].status = "absent"
              /\ job' = [ClosePrior(q) EXCEPT ![req[q].job] = NewJob(req[q].run, "resume", req[q].turn)]
          BY <1>1, <3>3 DEF ClaimResume, IInv, Inductive, LockedRows
        <4>2. job'[j] = ClosePrior(q)[j]
          BY <1>1, <2>1, <4>1, ClosePriorRows
        <4> QED
          BY <1>1, <2>1, <2>3, <4>2, ClosePriorRows
      <3> QED
        BY <2>4, <3>1, <3>2, <3>3 DEF ResumeStep, ReadResume, AbortResume
    <2>5. ASSUME NEW v \in Workers, WorkerStep(v)
          PROVE  FALSE
      <3>1. CASE UNCHANGED job
        BY <2>1, <3>1
      <3>2. CASE Finalize(v)
        <4>1. CASE worker[v].job = j /\ job[j].token = v
          BY <2>1, <3>2, <4>1 DEF Finalize, Fenced
        <4>2. CASE worker[v].job # j
          BY <1>1, <2>1, <2>2, <3>2, <4>2 DEF Finalize
        <4>3. CASE worker[v].job = j /\ job[j].token # v
          BY <2>1, <3>2, <4>3 DEF Finalize
        <4> QED
          BY <4>1, <4>2, <4>3
      <3>3. ASSUME NEW k \in Jobs, ClaimJob(v, k) PROVE FALSE
        <4>1. k # j
          BY <2>1, <3>3 DEF ClaimJob
        <4> QED
          BY <2>1, <2>2, <3>3, <4>1 DEF ClaimJob
      <3>4. CASE RenewLease(v)
        <4>1. job'[j].status = job[j].status
          BY <1>1, <2>1, <2>2, <3>4, Busy DEF RenewLease, JobType
        <4> QED
          BY <2>1, <4>1
      <3> QED
        BY <2>5, <3>1, <3>2, <3>3, <3>4 DEF WorkerStep, CheckJob, StartRun, EmitResumed, EmitProgress, CompleteRun,
           InterruptRun, ObserveCancel, FailRun, EndPhase, FailEndedRun, FailAfterCommit, Deliver, StopExecution,
           RaiseError, Crash
    <2>6. CASE ReapLostJobs
      BY <2>1, <2>2, <2>6 DEF ReapLostJobs, Lost, JobType
    <2>7. ASSUME NEW k \in Jobs, LeaseTick(k) \/ QueueTimeout(k) PROVE FALSE
      <3>1. job'[j].status = job[j].status
        BY <2>1, <2>2, <2>7 DEF LeaseTick, QueueTimeout, JobType
      <3> QED
        BY <2>1, <3>1
    <2>8. ASSUME NEW r \in Runs, CancelRun(r) PROVE FALSE
      BY <2>1, <2>8 DEF CancelRun
    <2>9. ASSUME NEW r \in Runs, NEW k \in Jobs, NEW c \in Conversations, NEW kind \in {"run", "replay"},
                 AdmitRun(r, k, c, kind)
          PROVE  FALSE
      <3>1. k # j
        BY <2>1, <2>9 DEF AdmitRun
      <3> QED
        BY <2>1, <2>2, <2>9, <3>1 DEF AdmitRun
    <2>10. UNCHANGED job => FALSE
      BY <2>1
    <2> QED
      BY <1>1, <2>4, <2>5, <2>6, <2>7, <2>8, <2>9, <2>10 DEF Next, vars, RepairTerminal, InteractionDeadline
  <1>2. LockedWaits /\ IInv /\ [Next]_vars => LockedWaits'
    BY LockedWaitsNext
  <1>3. Init => LockedWaits
    BY DEF Init, IdleRequest, LockedWaits
  <1>4. IInv /\ LockedWaits /\ [Next]_vars => [\A w \in Workers : Kept(w)]_vars
    BY <1>1
  <1> QED
    BY <1>2, <1>3, <1>4, Invariance, PTL DEF Spec, NoLeaseStolen

-----------------------------------------------------------------------------
(* The abstract lifecycle, with any number of resume requests in flight. *)

\* A resume request withdraws a question it read earlier, and the run has left
\* waiting_for_input since.
LateWithdrawal ==
    \E q \in Requests :
        /\ ExpireResume(q) \/ RejectGraphVersion(q)
        /\ run[req[q].run].status # "waiting_for_input"

\* With any number of resume requests in flight, a run makes the moves clients are
\* promised, except for the withdrawals that come late.
LifecycleMoves == Lifecycle!Init /\ [][Lifecycle!Next \/ LateWithdrawal]_Shown

\* A change of one status is a move of the lifecycle.
LEMMA IsMove ==
    ASSUME NEW r \in Runs, NEW from, NEW to, run[r].status \in from, run'[r].status = to,
           \A s \in Runs : s # r => run'[s] = run[s]
    PROVE  Lifecycle!Move(r, from, to)
  <1>1. Shown' = [Shown EXCEPT ![r] = to]
    BY DEF Shown
  <1> QED
    BY <1>1 DEF Lifecycle!Move, Shown

LEMMA LifecycleStep ==
    ASSUME IInv, IInv', [Next]_vars
    PROVE  Lifecycle!Next \/ LateWithdrawal \/ UNCHANGED Shown
  <1> USE DEF Lifecycle!Next
  <1>1. ASSUME UNCHANGED run PROVE UNCHANGED Shown
    BY <1>1 DEF Shown
  <1>2. ASSUME NEW r \in Runs, NEW j \in Jobs, NEW c \in Conversations, NEW kind \in {"run", "replay"},
               AdmitRun(r, j, c, kind)
        PROVE  Lifecycle!Next
    <2>1. Lifecycle!Move(r, {"absent"}, "queued")
      BY <1>2, ApiRows, IsMove
    <2> QED
      BY <2>1 DEF Lifecycle!Admit
  <1>3. ASSUME NEW r \in Runs, CancelRun(r)
        PROVE  Lifecycle!Next
    <2>1. \/ Lifecycle!Move(r, {"queued", "waiting_for_input"}, "cancelled")
          \/ Lifecycle!Move(r, {"running"}, "cancelling")
      BY <1>3, ApiRows, IsMove DEF Becomes
    <2> QED
      BY <2>1 DEF Lifecycle!Stop
  <1>4. ASSUME NEW r \in Runs, InteractionDeadline(r)
        PROVE  UNCHANGED Shown
    BY <1>4, ApiRows DEF Becomes, Shown
  <1>5. ASSUME NEW q \in Requests, ClaimResume(q)
        PROVE  Lifecycle!Next
    <2>1. req[q].run \in Runs /\ Lifecycle!Move(req[q].run, {"waiting_for_input"}, "queued")
      BY <1>5, ApiRows, IsMove DEF Becomes
    <2> QED
      BY <2>1 DEF Lifecycle!Resume
  <1>6. ASSUME NEW q \in Requests, ExpireResume(q) \/ RejectGraphVersion(q)
        PROVE  Lifecycle!Next \/ LateWithdrawal
    <2>1. PICK to \in {"cancelled", "failed"} :
             req[q].run \in Runs /\ run[req[q].run].status \notin {"cancelled"} /\ Becomes(req[q].run, to)
      BY <1>6, ApiRows DEF Active
    <2>2. CASE run[req[q].run].status # "waiting_for_input"
      BY <1>6, <2>2 DEF LateWithdrawal
    <2>3. CASE run[req[q].run].status = "waiting_for_input"
      <3>1. Lifecycle!Move(req[q].run, {"waiting_for_input"}, to)
        BY <2>1, <2>3, IsMove DEF Becomes
      <3> QED
        BY <2>1, <3>1 DEF Lifecycle!Withdraw
    <2> QED
      BY <2>2, <2>3
  <1>7. ASSUME NEW w \in Workers, \/ StartRun(w) \/ CompleteRun(w) \/ InterruptRun(w) \/ ObserveCancel(w)
                                  \/ FailRun(w)
        PROVE  Lifecycle!Next \/ UNCHANGED Shown
    <2>1. CASE StartRun(w)
      <3>1. UNCHANGED run \/ (RunOf(w) \in Runs /\ Lifecycle!Move(RunOf(w), {"queued"}, "running"))
        BY <2>1, WorkerRows, IsMove DEF Becomes
      <3> QED
        BY <1>1, <3>1 DEF Lifecycle!Start
    <2>2. CASE CompleteRun(w)
      <3>1. RunOf(w) \in Runs /\ Lifecycle!Move(RunOf(w), {"running"}, "completed")
        BY <2>2, WorkerRows, IsMove
      <3> QED
        BY <3>1 DEF Lifecycle!Complete, Lifecycle!End
    <2>3. CASE InterruptRun(w)
      <3>1. RunOf(w) \in Runs /\ Lifecycle!Move(RunOf(w), {"running"}, "waiting_for_input")
        BY <2>3, WorkerRows, IsMove
      <3> QED
        BY <3>1 DEF Lifecycle!Ask, Lifecycle!End
    <2>4. CASE ObserveCancel(w)
      <3>1. RunOf(w) \in Runs /\ Lifecycle!Move(RunOf(w), {"cancelling"}, "cancelled")
        BY <2>4, WorkerRows, IsMove DEF Becomes
      <3> QED
        BY <3>1 DEF Lifecycle!ConfirmStop, Lifecycle!End
    <2>5. CASE FailRun(w)
      <3>1. RunOf(w) \in Runs /\ Lifecycle!Move(RunOf(w), Lifecycle!Unfinished, "failed")
        BY <2>5, WorkerRows, IsMove DEF Becomes, Lifecycle!Unfinished
      <3> QED
        BY <3>1 DEF Lifecycle!Fail, Lifecycle!End
    <2> QED
      BY <1>7, <2>1, <2>2, <2>3, <2>4, <2>5
  <1>8. ASSUME NEW w \in Workers, Finalize(w)
        PROVE  Lifecycle!Next \/ UNCHANGED Shown
    <2> DEFINE r == RunOf(w)
    <2>1. UNCHANGED run \/ (r \in Runs /\ Becomes(r, FailedStatus(run[r].status)))
      BY <1>8, WorkerRows
    <2> HIDE DEF r
    <2>2. CASE r \in Runs /\ Becomes(r, FailedStatus(run[r].status))
      <3>1. CASE run[r].status \in {"queued", "running"}
        <4>1. Lifecycle!Move(r, Lifecycle!Unfinished, "failed")
          BY <2>2, <3>1, IsMove DEF Becomes, FailedStatus, Lifecycle!Unfinished
        <4> QED
          BY <2>2, <4>1 DEF Lifecycle!Fail, Lifecycle!End
      <3>2. CASE run[r].status = "cancelling"
        <4>1. Lifecycle!Move(r, {"cancelling"}, "cancelled")
          BY <2>2, <3>2, IsMove DEF Becomes, FailedStatus
        <4> QED
          BY <2>2, <4>1 DEF Lifecycle!ConfirmStop, Lifecycle!End
      <3>3. CASE run[r].status \notin {"queued", "running", "cancelling"}
        BY <2>2, <3>3 DEF Becomes, FailedStatus, Shown
      <3> QED
        BY <3>1, <3>2, <3>3
    <2> QED
      BY <1>1, <2>1, <2>2
  <1>9. CASE ReapLostJobs
    <2>1. CASE Shown' = Shown
      BY <2>1
    <2>2. CASE Shown' # Shown
      <3>1. Shown' \in [Runs -> {"absent", "queued", "running", "waiting_for_input",
                                 "cancelling", "completed", "failed", "cancelled"}]
        BY DEF Shown, IInv, TypeOK, RunType, RunStatus, Active, Terminal
      <3>2. \A r \in Runs : run'[r].status # run[r].status =>
              \/ run[r].status \in Lifecycle!Unfinished /\ run'[r].status = "failed"
              \/ run[r].status \in {"cancelling", "waiting_for_input"} /\ run'[r].status = "cancelled"
        <4> SUFFICES ASSUME NEW r \in Runs, run'[r].status # run[r].status
                     PROVE  \/ run[r].status \in Lifecycle!Unfinished /\ run'[r].status = "failed"
                            \/ run[r].status \in {"cancelling", "waiting_for_input"} /\ run'[r].status = "cancelled"
          OBVIOUS
        <4> QED
          BY <1>9, ReapedStatus DEF FailedStatus, Lifecycle!Unfinished
      <3>3. Lifecycle!Reconcile
        BY <2>2, <3>1, <3>2 DEF Lifecycle!Reconcile, Shown
      <3> QED
        BY <3>3
    <2> QED
      BY <2>1, <2>2
  <1> HIDE DEF Lifecycle!Next
  <1> QED
    BY <1>1, <1>2, <1>3, <1>4, <1>5, <1>6, <1>7, <1>8, <1>9, RunsAlone

\* Whatever workers, stops, crashes and reapers do, and with any number of resume
\* requests in flight, a client sees a run move only as the lifecycle allows, except
\* where a request withdraws a question that was settled since it read it.
THEOREM LifecycleRefined == Spec => LifecycleMoves
  <1>1. Init => Lifecycle!Init
    BY DEF Init, NoRun, Lifecycle!Init, Shown
  <1>2. IInv /\ IInv' /\ [Next]_vars => [Lifecycle!Next \/ LateWithdrawal]_Shown
    BY LifecycleStep
  <1> QED
    BY <1>1, <1>2, Invariance, PTL DEF Spec, LifecycleMoves

-----------------------------------------------------------------------------
(* The ledger: what an appended frame and a repair leave behind. *)

\* The marker of the last control event points into the ledger, at that event.
Marked(o) ==
    /\ o.tcursor <= o.cursor
    /\ o.tcursor > o.min => o.frames[o.tcursor - o.min] = o.terminal

\* A frame kept by pruning is where it was, counted from the new cutoff.
LEMMA CutFrameAt ==
    ASSUME NEW S, NEW f \in Seq(S), NEW e \in S, NEW old \in Nat, NEW new \in Nat,
           NEW cursor \in Nat, old <= new, new <= cursor, Len(f) = cursor - old,
           NEW k \in new + 1 .. cursor + 1
    PROVE  SubSeq(Append(f, e), new - old + 1, cursor + 1 - old)[k - new] =
               IF k = cursor + 1 THEN e ELSE f[k - old]
  <1> DEFINE m == new - old + 1
             n == cursor + 1 - old
             all == Append(f, e)
             i == k - new
  <1>1. all \in Seq(S) /\ Len(all) = n
    OBVIOUS
  <1>2. m \in 1..n /\ n \in Nat /\ m \in Int /\ i \in 1..(n - m + 1) /\ m + i - 1 = k - old
    OBVIOUS
  <1>3. \A x \in m..n : all[x] \in S
    <2> HIDE DEF m, n, all
    <2> QED
      BY <1>1, <1>2
  <1>4. SubSeq(all, m, n)[i] = all[m + i - 1]
    <2>1. m \in Int /\ n \in Int /\ i \in 1..(n - m + 1)
      BY <1>2
    <2> HIDE DEF m, n, all, i
    <2>2. \A x \in 1..(n - m + 1) : SubSeq(all, m, n)[x] = all[m + x - 1]
      BY <2>1, <1>3, SubSeqProperties
    <2> QED
      BY <2>1, <2>2
  <1>5. all[k - old] = IF k = cursor + 1 THEN e ELSE f[k - old]
    OBVIOUS
  <1> QED
    BY <1>2, <1>4, <1>5

\* What the frame of cursor k is after an append, and where the append puts it.
FrameAt(f, e, old, cursor, k) == IF k = cursor + 1 THEN e ELSE f[k - old]

FramesCut(f, e, old, new, cursor) == SubSeq(Append(f, e), new - old + 1, cursor + 1 - old)

LEMMA CutEventAt ==
    ASSUME NEW f \in Seq(Events), NEW e \in Events, NEW old \in Nat, NEW new \in Nat,
           NEW cursor \in Nat, old <= new, new <= cursor, Len(f) = cursor - old,
           NEW k \in new + 1 .. cursor + 1
    PROVE  FramesCut(f, e, old, new, cursor)[k - new] = FrameAt(f, e, old, cursor, k)
<1>1. SubSeq(Append(f, e), new - old + 1, cursor + 1 - old)[k - new] = IF k = cursor + 1 THEN e ELSE f[k - old]
  BY CutFrameAt
<1> QED  BY <1>1 DEF FramesCut, FrameAt

LEMMA NewFrameAt ==
    ASSUME NEW o \in OutputType, Retained(o), NEW event \in Events, NEW max \in Nat \ {0},
           NEW i \in NewMin(o, max) + 1 .. o.cursor + 1
    PROVE  NewFrames(o, event, max)[i - NewMin(o, max)] =
               IF i = o.cursor + 1 THEN event ELSE o.frames[i - o.min]
<1> DEFINE f == o.frames
           old == o.min
           cursor == o.cursor
           min == NewMin(o, max)
<1>1. f \in Seq(Events) /\ old \in Nat /\ cursor \in Nat /\ old <= cursor /\ Len(f) = cursor - old
  BY DEF OutputType, Retained
<1>2. min \in Nat /\ old <= min /\ min <= cursor
  BY <1>1 DEF NewMin
<1>3. NewFrames(o, event, max) = FramesCut(f, event, old, min, cursor)
  BY DEF NewFrames, FramesCut
<1>4. i \in min + 1 .. cursor + 1
  OBVIOUS
<1> HIDE DEF f, old, cursor, min
<1>5. FramesCut(f, event, old, min, cursor)[i - min] = FrameAt(f, event, old, cursor, i)
  BY <1>1, <1>2, <1>4, CutEventAt
<1> QED  BY <1>3, <1>5 DEF FrameAt, f, old, cursor, min

LEMMA AppendFrameMarked ==
    ASSUME NEW o \in OutputType, Retained(o), Marked(o), NEW event \in Events, NEW max \in Nat \ {0}
    PROVE  Marked(AppendFrame(o, event, max))
  <1> DEFINE new == AppendFrame(o, event, max)
             min == NewMin(o, max)
             cut == NewFrames(o, event, max)
             f == o.frames
             old == o.min
             cursor == o.cursor
             k == o.tcursor
  <1>1. cursor \in Nat /\ old \in Nat /\ f \in Seq(Events) /\ k \in Nat
    BY DEF OutputType
  <1>2. old <= cursor /\ Len(f) = cursor - old
    BY DEF Retained
  <1>3. min \in Nat /\ old <= min /\ min <= cursor
    BY <1>1, <1>2 DEF NewMin
  <1>4. new.cursor = cursor + 1 /\ new.min = min /\ new.frames = cut
    BY DEF AppendFrame
  <1>5. ASSUME NEW i \in min + 1 .. cursor + 1
        PROVE  cut[i - min] = IF i = cursor + 1 THEN event ELSE f[i - old]
    BY <1>5, NewFrameAt
  <1>6. k <= cursor /\ (k > old => f[k - old] = o.terminal)
    BY DEF Marked
  <1>7. \/ new.tcursor = cursor + 1 /\ new.terminal = event
        \/ new.tcursor = 0
        \/ new.tcursor = k /\ new.terminal = o.terminal
    BY DEF AppendFrame
  <1> HIDE DEF new, min, f, old, cursor, k, cut
  <1>8. cut[(cursor + 1) - min] = event
    <2> DEFINE i == cursor + 1
    <2>1. i \in min + 1 .. cursor + 1 /\ i = cursor + 1
      BY <1>1, <1>3
    <2> HIDE DEF i
    <2>2. cut[i - min] = event
      BY <2>1, <1>5
    <2> QED
      BY <2>2 DEF i
  <1>9. k > min => cut[k - min] = o.terminal
    <2> SUFFICES ASSUME k > min PROVE cut[k - min] = o.terminal
      OBVIOUS
    <2>1. k \in min + 1 .. cursor + 1 /\ k # cursor + 1 /\ k > old
      BY <1>1, <1>3, <1>6
    <2> QED
      BY <2>1, <1>5, <1>6
  <1>10. new.tcursor <= new.cursor
    BY <1>1, <1>4, <1>6, <1>7
  <1>11. new.tcursor > new.min => new.frames[new.tcursor - new.min] = new.terminal
    BY <1>1, <1>3, <1>4, <1>7, <1>8, <1>9
  <1>12. Marked(new)
    BY <1>10, <1>11 DEF Marked
  <1> QED
    BY <1>12 DEF new

LEMMA EmitMarked ==
    ASSUME NEW o \in OutputType, Retained(o), Marked(o), NEW event \in Events, NEW max \in Nat \ {0}
    PROVE  Marked(Emit(o, event, max))
  BY AppendFrameMarked DEF Emit

LEMMA RepairedMarked ==
    ASSUME NEW ru \in RunType, NEW o \in OutputType, Retained(o), Marked(o)
    PROVE  Marked(Repaired(ru, o))
  <1>1. CASE ru.status \in Terminal
    <2>1. Expected(ru.status) \in Events /\ DefaultMaxFrames \in Nat \ {0}
      BY <1>1, ConstantsAssumption DEF Expected, Terminal, Events, Control
    <2> QED
      BY <1>1, <2>1, EmitMarked DEF Repaired
  <1>2. CASE ru.status \notin Terminal
    BY <1>2 DEF Repaired
  <1> QED
    BY <1>1, <1>2

\* What the stored close signal becomes.
LEMMA EmitTerminal ==
    ASSUME NEW o \in OutputType, NEW event \in Events, NEW max
    PROVE  /\ event \in Control => Emit(o, event, max).terminal = event
           /\ event \in Progress => Emit(o, event, max).terminal = o.terminal
           /\ event = "run_resumed" => Emit(o, event, max).terminal = None
  BY DEF Emit, AppendFrame, Control, Progress

LEMMA RepairedTerminal ==
    ASSUME NEW ru \in RunType, NEW o \in OutputType
    PROVE  Repaired(ru, o).terminal = IF ru.status \in Terminal THEN Expected(ru.status) ELSE o.terminal
  <1>1. ru.status \in Terminal => Expected(ru.status) \in Control /\ Expected(ru.status) \in Events
    BY DEF Terminal, Expected, Control, Events
  <1> QED
    BY <1>1, EmitTerminal DEF Repaired

\* The ledger of one run is replaced.
LEMMA OutReplaced ==
    ASSUME IInv, NEW s \in Runs, NEW o, out' = [out EXCEPT ![s] = o]
    PROVE  out'[s] = o /\ \A r \in Runs : r # s => out'[r] = out[r]
  BY DEF IInv, TypeOK

\* What reconciliation writes for one run: nothing, or the close signal of its new status.
LEMMA ReapedLedger ==
    ASSUME IInv, IInv', ReapLostJobs, NEW r \in Runs
    PROVE  /\ \/ run'[r] = run[r] /\ out'[r] = out[r] /\ r \notin LostRuns
              \/ out'[r].terminal = IF run'[r].status \in Terminal THEN Expected(run'[r].status) ELSE out[r].terminal
           /\ Marked(out[r]) => Marked(out'[r])
  <1> DEFINE ru == IF r \in LostRuns THEN FailedRun(run[r]) ELSE run[r]
             o == IF r \in LostRuns THEN Repaired(ru, out[r]) ELSE out[r]
             new == run'[r]
  <1>1. run[r] \in RunType /\ out[r] \in OutputType /\ Retained(out[r]) /\ new \in RunType
    BY DEF IInv, TypeOK, Ledger
  <1>2. ru \in RunType
    BY <1>1, FailedKept
  <1>3. /\ new = IF WaitedTooLong(ru) THEN Ended(ru, "cancelled") ELSE ru
        /\ out'[r] = IF WaitedTooLong(ru) THEN Repaired(new, o) ELSE o
    <2>1. run'[r] = ReapedRun(r) /\ out'[r] = ReapedOut(r)
      BY DEF ReapLostJobs
    <2> QED
      BY <2>1 DEF ReapedRun, ReapedOut
  <1>4. /\ Ended(ru, "cancelled").status = "cancelled"
    BY <1>2, StatusSet
  <1> HIDE DEF ru
  <1>5. o \in OutputType /\ Retained(o) /\ (Marked(out[r]) => Marked(o))
    BY <1>1, <1>2, RepairedType, RepairedMarked
  <1>6. r \in LostRuns => o.terminal = IF ru.status \in Terminal THEN Expected(ru.status) ELSE out[r].terminal
    BY <1>1, <1>2, RepairedTerminal
  <1>7. r \notin LostRuns => ru = run[r] /\ o = out[r]
    BY DEF ru
  <1> HIDE DEF o, new
  <1>8. CASE WaitedTooLong(ru)
    <2>1. new.status = "cancelled" /\ "cancelled" \in Terminal
      BY <1>3, <1>4, <1>8 DEF Terminal
    <2>2. out'[r] = Repaired(new, o)
      BY <1>3, <1>8
    <2>3. out'[r].terminal = Expected("cancelled") /\ (Marked(o) => Marked(out'[r]))
      BY <1>1, <1>5, <2>1, <2>2, RepairedTerminal, RepairedMarked
    <2> QED
      BY <1>5, <2>1, <2>3 DEF new
  <1>9. CASE ~WaitedTooLong(ru)
    <2>1. new = ru /\ out'[r] = o
      BY <1>3, <1>9
    <2> QED
      BY <1>5, <1>6, <1>7, <2>1 DEF new
  <1> QED
    BY <1>8, <1>9

\* What each other step writes to the ledger of one run; the rest keep theirs.
LEMMA LedgerWrites ==
    ASSUME IInv, [Next]_vars
    PROVE  \/ UNCHANGED out
           \/ ReapLostJobs
           \/ \E q \in Requests : ClaimResume(q)
           \/ \E r \in Runs : CancelRun(r) /\ out' = [out EXCEPT ![r] = Emit(@, "run_cancelled", DefaultMaxFrames)]
           \/ \E w \in Workers, event \in Events :
                out' = [out EXCEPT ![RunOf(w)] = Emit(@, event, MaxFrames)] /\ worker[w].pc # "idle"
           \/ \E w \in Workers : Finalize(w)
           \/ \E w \in Workers : worker[w].pc # "idle" /\ out' = [out EXCEPT ![RunOf(w)] = Repaired(run[RunOf(w)], @)]
           \/ \E r \in Runs : out' = [out EXCEPT ![r] = Repaired(run[r], @)]
  <1>1. ASSUME NEW q \in Requests, ResumeStep(q)
        PROVE  UNCHANGED out \/ ClaimResume(q)
    BY <1>1 DEF ResumeStep, ReadResume, ExpireResume, RejectGraphVersion, AbortResume
  <1>2. ASSUME NEW r \in Runs, CancelRun(r)
        PROVE  UNCHANGED out \/ out' = [out EXCEPT ![r] = Emit(@, "run_cancelled", DefaultMaxFrames)]
    BY <1>2 DEF CancelRun
  <1>3. ASSUME NEW w \in Workers, WorkerStep(w)
        PROVE  \/ UNCHANGED out
               \/ Finalize(w)
               \/ \E event \in Events :
                     out' = [out EXCEPT ![RunOf(w)] = Emit(@, event, MaxFrames)] /\ worker[w].pc # "idle"
               \/ worker[w].pc # "idle" /\ out' = [out EXCEPT ![RunOf(w)] = Repaired(run[RunOf(w)], @)]
    <2>1. CASE EmitResumed(w)
      BY <2>1 DEF EmitResumed, Events
    <2>2. ASSUME NEW event \in Progress, EmitProgress(w, event)
          PROVE  out' = [out EXCEPT ![RunOf(w)] = Emit(@, event, MaxFrames)] /\ worker[w].pc # "idle" /\ event \in Events
      BY <2>2 DEF EmitProgress, Events
    <2>3. CASE Deliver(w)
      <3>1. worker[w].due \in Events
        BY <2>3 DEF Deliver, IInv, TypeOK, WorkerType, Inductive, WorkerHasJob, Events
      <3>2. CASE LateFailure(w)
        BY <2>3, <3>2 DEF Deliver
      <3>3. CASE ~LateFailure(w)
        BY <2>3, <3>1, <3>3 DEF Deliver
      <3> QED
        BY <3>2, <3>3
    <2> QED
      BY <1>3, <2>1, <2>2, <2>3 DEF WorkerStep, ClaimJob, RenewLease, CheckJob, StartRun, CompleteRun, InterruptRun,
           ObserveCancel, FailRun, EndPhase, FailEndedRun, FailAfterCommit, StopExecution, RaiseError, Crash
  <1>4. ASSUME NEW r \in Runs, RepairTerminal(r)
        PROVE  out' = [out EXCEPT ![r] = Repaired(run[r], @)]
    BY <1>4 DEF RepairTerminal
  <1>5. \/ UNCHANGED out \/ ReapLostJobs
        \/ \E r \in Runs : CancelRun(r) \/ RepairTerminal(r)
        \/ \E q \in Requests : ResumeStep(q)
        \/ \E w \in Workers : WorkerStep(w)
    BY DEF Next, vars, AdmitRun, LeaseTick, QueueTimeout, InteractionDeadline
  <1> QED
    BY <1>1, <1>2, <1>3, <1>4, <1>5

LedgerMarked == \A r \in Runs : Marked(out[r])

LEMMA LedgerMarkedNext ==
    ASSUME IInv, IInv', LedgerMarked, [Next]_vars PROVE LedgerMarked'
  <1>0. /\ \A r \in Runs : out[r] \in OutputType /\ Retained(out[r]) /\ Marked(out[r]) /\ run[r] \in RunType
        /\ MaxFrames \in Nat \ {0} /\ DefaultMaxFrames \in Nat \ {0} /\ "run_cancelled" \in Events
    BY ConstantsAssumption DEF IInv, TypeOK, Ledger, LedgerMarked, Events, Control
  <1>1. ASSUME NEW s \in Runs, NEW o, Marked(o), out' = [out EXCEPT ![s] = o]
        PROVE  LedgerMarked'
    BY <1>0, <1>1, OutReplaced DEF LedgerMarked
  <1>2. CASE UNCHANGED out
    BY <1>2 DEF LedgerMarked
  <1>3. CASE ReapLostJobs
    BY <1>0, <1>3, ReapedLedger DEF LedgerMarked
  <1>4. ASSUME NEW q \in Requests, ClaimResume(q)
        PROVE  LedgerMarked'
    <2> DEFINE r == req[q].run
               o == [out[r] EXCEPT !.terminal = None, !.tcursor = 0]
    <2>1. r \in Runs
      BY <1>4 DEF ClaimResume, IInv, Inductive, LockedRows
    <2>2. out' = [out EXCEPT ![r] = o]
      BY <1>4, <2>1 DEF ClaimResume, IInv, TypeOK
    <2>3. o.tcursor = 0 /\ o.cursor \in Nat /\ o.min \in Nat
      BY <1>0, <2>1 DEF OutputType
    <2>4. Marked(o)
      <3> HIDE DEF o
      <3> QED
        BY <2>3 DEF Marked
    <2> HIDE DEF o, r
    <2> QED
      BY <1>1, <2>1, <2>2, <2>4
  <1>5. ASSUME NEW r \in Runs, NEW event \in Events, NEW max \in Nat \ {0},
               out' = [out EXCEPT ![r] = Emit(@, event, max)]
        PROVE  LedgerMarked'
    <2> DEFINE o == Emit(out[r], event, max)
    <2>1. Marked(o) /\ out' = [out EXCEPT ![r] = o]
      BY <1>0, <1>5, EmitMarked
    <2> HIDE DEF o
    <2> QED
      BY <1>1, <2>1
  <1>6. ASSUME NEW r \in Runs, NEW ru \in RunType, out' = [out EXCEPT ![r] = Repaired(ru, @)]
        PROVE  LedgerMarked'
    <2> DEFINE o == Repaired(ru, out[r])
    <2>1. Marked(o) /\ out' = [out EXCEPT ![r] = o]
      BY <1>0, <1>6, RepairedMarked
    <2> HIDE DEF o
    <2> QED
      BY <1>1, <2>1
  <1>7. ASSUME NEW w \in Workers, Finalize(w)
        PROVE  LedgerMarked'
    <2>1. RunOf(w) \in Runs
      BY <1>7, Busy DEF Finalize
    <2>2. UNCHANGED out \/ \E ru \in RunType : out' = [out EXCEPT ![RunOf(w)] = Repaired(ru, @)]
      <3>1. run[RunOf(w)] \in RunType /\ FailedRun(run[RunOf(w)]) \in RunType
        BY <1>0, <2>1, FailedKept
      <3> QED
        BY <1>7, <3>1 DEF Finalize, RunOf
    <2> QED
      BY <1>2, <1>6, <2>1, <2>2
  <1>8. \A w \in Workers : worker[w].pc # "idle" => RunOf(w) \in Runs
    BY Busy
  <1> QED
    BY <1>0, <1>2, <1>3, <1>4, <1>5, <1>6, <1>7, <1>8, LedgerWrites

\* The retained frames are exactly the cursors above min_cursor, and the terminal
\* marker is at its control event, whatever window sizes the emitters pass.
THEOREM LedgerIsContiguous == Spec => []LedgerContiguous
  <1>1. Init => LedgerMarked
    BY DEF Init, NoOutput, LedgerMarked, Marked
  <1>2. IInv /\ IInv' /\ LedgerMarked /\ [Next]_vars => LedgerMarked'
    BY LedgerMarkedNext
  <1>3. IInv /\ LedgerMarked => LedgerContiguous
    BY DEF IInv, Ledger, Retained, LedgerMarked, Marked, LedgerContiguous
  <1> QED
    BY <1>1, <1>2, <1>3, Invariance, PTL DEF Spec

-----------------------------------------------------------------------------
(* Outcomes: of every run, except one that a resume request overwrote. *)

\* A control event may be stored for a run of that status.
Truthful(status, terminal) ==
    terminal # None =>
        \/ status \in Terminal /\ terminal = Expected(status)
        \/ terminal = "run_interrupted" /\ status \in {"cancelled", "failed"}

\* What a run, its live job and its ledger say of its outcome.
OutcomeSound(r) ==
    /\ run[r].reply => run[r].status = "completed"
    /\ Truthful(run[r].status, out[r].terminal)
    /\ run[r].status \in {"completed", "waiting_for_input"} =>
          (\E j \in JobsOf(r) : Live(j)) \/ out[r].terminal = Expected(run[r].status)

\* What a worker that holds its job has yet to report still describes the run.
\* (A failure it reports late is replaced by the saved outcome.)
DueSound ==
    \A w \in Workers : worker[w].pc = "delivering" /\ Holds(w) /\ ~run[RunOf(w)].overwritten =>
        /\ worker[w].due = "run_completed" => run[RunOf(w)].status = "completed"
        /\ worker[w].due = "run_cancelled" => run[RunOf(w)].status = "cancelled"
        /\ worker[w].due = "run_interrupted" =>
              run[RunOf(w)].status \in {"waiting_for_input", "cancelled", "failed"}

\* A run that was overwritten is over.
OverwrittenEnded == \A r \in Runs : run[r].overwritten => run[r].status \in {"cancelled", "failed"}

OutcomesInv == OverwrittenEnded /\ DueSound /\ \A r \in Runs : ~run[r].overwritten => OutcomeSound(r)

\* A job row that exists keeps its run; a running one was running under the same
\* token, or has just been claimed.
LEMMA RunKept ==
    ASSUME IInv, [Next]_vars, NEW j \in Jobs, job[j].status # "absent"
    PROVE  job'[j].run = job[j].run
  <1>1. CASE \A k \in Jobs : JobKept(k)
    BY <1>1 DEF JobKept
  <1>2. ASSUME NEW r \in Runs, NEW k \in Jobs, NEW c \in Conversations, NEW kind \in {"run", "replay"},
               AdmitRun(r, k, c, kind)
        PROVE  job'[j].run = job[j].run
    BY <1>2 DEF AdmitRun, IInv, TypeOK
  <1>3. ASSUME NEW q \in Requests, ClaimResume(q)
        PROVE  job'[j].run = job[j].run
    <2>1. req[q].pc # "idle" /\ req[q].job # j
      BY <1>3 DEF ClaimResume
    <2>2. ClosePrior(q) \in [Jobs -> JobType]
      BY ClosePriorRows
    <2>3. job'[j] = ClosePrior(q)[j]
      BY <1>3, <2>1, <2>2 DEF ClaimResume
    <2> QED
      BY <2>1, <2>3, ClosePriorKept
  <1> QED
    BY <1>1, <1>2, <1>3, JobsKept

LEMMA TokenKept ==
    ASSUME IInv, [Next]_vars, NEW j \in Jobs, job'[j].status = "running"
    PROVE  \/ job[j].status = "running" /\ job'[j].token = job[j].token
           \/ \E v \in Workers : ClaimJob(v, j)
  <1> DEFINE Kept == job[j].status = "running" /\ job'[j].token = job[j].token
  <1>0. job[j] \in JobType /\ job \in [Jobs -> JobType]
    BY DEF IInv, TypeOK
  <1>1. ASSUME job'[j] = job[j] PROVE Kept
    BY <1>1
  <1>2. ASSUME NEW r \in Runs, NEW k \in Jobs, NEW c \in Conversations, NEW kind \in {"run", "replay"},
               AdmitRun(r, k, c, kind)
        PROVE  Kept
    <2>1. NewJob(r, kind, 0).status # "running"
      BY DEF NewJob
    <2> QED
      BY <1>0, <1>1, <1>2, <2>1 DEF AdmitRun
  <1>3. ASSUME NEW r \in Runs, CancelRun(r)
        PROVE  Kept
    <2>1. job'[j] = job[j] \/ job'[j] = [job[j] EXCEPT !.status = "done"]
      BY <1>3 DEF CancelRun
    <2> QED
      BY <1>0, <1>1, <2>1 DEF JobType
  <1>4. ASSUME NEW q \in Requests
        PROVE  ClosePrior(q)[j] = job[j] \/ ClosePrior(q)[j].status = "done"
    BY <1>0, ClosedKept DEF ClosePrior
  <1>5. ASSUME NEW q \in Requests, ResumeStep(q)
        PROVE  Kept
    <2>1. CASE ClaimResume(q)
      <3>1. NewJob(req[q].run, "resume", req[q].turn).status # "running"
        BY DEF NewJob
      <3>2. ClosePrior(q) \in [Jobs -> JobType]
        BY ClosePriorRows
      <3>3. job'[j] = ClosePrior(q)[j]
        BY <2>1, <3>1, <3>2 DEF ClaimResume
      <3> QED
        BY <1>1, <1>4, <3>3
    <2>2. CASE ExpireResume(q) \/ RejectGraphVersion(q)
      BY <1>1, <1>4, <2>2 DEF ExpireResume, RejectGraphVersion
    <2> QED
      BY <1>1, <1>5, <2>1, <2>2 DEF ResumeStep, ReadResume, AbortResume
  <1>6. ASSUME NEW w \in Workers, WorkerStep(w)
        PROVE  Kept \/ ClaimJob(w, j)
    <2>1. ASSUME NEW k \in Jobs, ClaimJob(w, k)
          PROVE  Kept \/ ClaimJob(w, j)
      BY <1>0, <1>1, <2>1 DEF ClaimJob
    <2>2. CASE RenewLease(w)
      <3>1. worker[w].job \in Jobs
        BY <2>2, Busy DEF RenewLease
      <3> QED
        BY <1>0, <1>1, <2>2, <3>1 DEF RenewLease, JobType
    <2>3. CASE Finalize(w)
      <3>1. worker[w].job \in Jobs
        BY <2>3, Busy DEF Finalize
      <3>2. UNCHANGED job \/ job' = [job EXCEPT ![worker[w].job] = Closed(@)]
        BY <2>3 DEF Finalize
      <3>3. job'[j] = job[j] \/ job'[j] = Closed(job[j])
        BY <1>0, <3>1, <3>2
      <3> QED
        BY <1>0, <1>1, <3>3, ClosedKept
    <2> QED
      BY <1>1, <1>6, <2>1, <2>2, <2>3 DEF WorkerStep, CheckJob, StartRun, EmitResumed, EmitProgress, CompleteRun,
           InterruptRun, ObserveCancel, FailRun, EndPhase, FailEndedRun, FailAfterCommit, Deliver, StopExecution,
           RaiseError, Crash
  <1>7. ASSUME ReapLostJobs PROVE Kept
    <2>1. job'[j] = job[j] \/ job'[j] = Closed(job[j])
      BY <1>7 DEF ReapLostJobs
    <2> QED
      BY <1>0, <1>1, <2>1, ClosedKept
  <1>8. ASSUME NEW k \in Jobs, LeaseTick(k) \/ QueueTimeout(k)
        PROVE  Kept
    <2>1. CASE k # j
      BY <1>0, <1>1, <1>8, <2>1 DEF LeaseTick, QueueTimeout
    <2>2. CASE LeaseTick(j)
      BY <1>0, <2>2 DEF LeaseTick, JobType
    <2>3. CASE QueueTimeout(j)
      BY <1>0, <2>3 DEF QueueTimeout, JobType
    <2> QED
      BY <1>8, <2>1, <2>2, <2>3
  <1> HIDE DEF Kept
  <1>9. Kept \/ \E v \in Workers : ClaimJob(v, j)
    BY <1>1, <1>2, <1>3, <1>5, <1>6, <1>7, <1>8 DEF Next, vars, RepairTerminal, InteractionDeadline
  <1> QED
    BY <1>9 DEF Kept

\* A run that ended has ended for good, and a question is answered or withdrawn,
\* unless a resume request overwrote what happened.
LEMMA EndsKept ==
    ASSUME IInv, [Next]_vars, NEW r \in Runs, ~run'[r].overwritten
    PROVE  /\ run[r].status \in {"completed", "cancelled", "failed"} => run'[r].status = run[r].status
           /\ run[r].status = "waiting_for_input" =>
                 run'[r].status \in {"waiting_for_input", "queued", "cancelled", "failed"}
  <1> DEFINE Good == /\ run[r].status \in {"completed", "cancelled", "failed"} => run'[r].status = run[r].status
                     /\ run[r].status = "waiting_for_input" =>
                           run'[r].status \in {"waiting_for_input", "queued", "cancelled", "failed"}
  <1>1. ASSUME UNCHANGED run PROVE Good
    BY <1>1
  <1>2. ASSUME NEW s \in Runs, NEW status, Becomes(s, status),
               \/ run[s].status \notin {"completed", "cancelled", "failed", "waiting_for_input"}
               \/ run[s].status = "waiting_for_input" /\ status \in {"queued", "cancelled", "failed"}
               \/ run[s].status = status
        PROVE  Good
    BY <1>2 DEF Becomes
  <1>3. ASSUME NEW s \in Runs, NEW j \in Jobs, NEW c \in Conversations, NEW kind \in {"run", "replay"},
               AdmitRun(s, j, c, kind)
        PROVE  Good
    BY <1>3, ApiRows
  <1>4. ASSUME NEW s \in Runs, CancelRun(s) \/ InteractionDeadline(s) PROVE Good
    BY <1>2, <1>4, ApiRows
  <1>5. ASSUME NEW q \in Requests, ClaimResume(q) \/ ExpireResume(q) \/ RejectGraphVersion(q) PROVE Good
    <2>1. CASE ClaimResume(q)
      BY <1>2, <2>1, ApiRows
    <2>2. CASE ExpireResume(q) \/ RejectGraphVersion(q)
      <3>1. CASE req[q].run = r
        <4>1. run[r].status = "waiting_for_input"
          BY <2>2, <3>1, ApiRows
        <4> QED
          BY <1>2, <2>2, <3>1, <4>1, ApiRows
      <3>2. CASE req[q].run # r
        BY <2>2, <3>2, ApiRows DEF Becomes
      <3> QED
        BY <3>1, <3>2
    <2> QED
      BY <1>5, <2>1, <2>2
  <1>6. ASSUME NEW w \in Workers, CompleteRun(w) \/ InterruptRun(w) PROVE Good
    BY <1>6, WorkerRows
  <1>7. ASSUME NEW w \in Workers, StartRun(w) \/ ObserveCancel(w) \/ FailRun(w) PROVE Good
    BY <1>1, <1>2, <1>7, WorkerRows
  <1>8. ASSUME NEW w \in Workers, Finalize(w) PROVE Good
    <2>1. \/ run[RunOf(w)].status \in {"queued", "running", "cancelling"}
          \/ FailedStatus(run[RunOf(w)].status) = run[RunOf(w)].status
      BY DEF FailedStatus
    <2> QED
      BY <1>1, <1>2, <1>8, <2>1, WorkerRows
  <1>9. ASSUME ReapLostJobs PROVE Good
    BY <1>9, ReapedStatus DEF FailedStatus
  <1> HIDE DEF Good
  <1>10. Good
    BY <1>1, <1>3, <1>4, <1>5, <1>6, <1>7, <1>8, <1>9, RunsAlone
  <1> QED
    BY <1>10 DEF Good

\* What was overwritten stays so, and is over.
LEMMA OverwrittenNext ==
    ASSUME IInv, OverwrittenEnded, [Next]_vars
    PROVE  OverwrittenEnded' /\ \A r \in Runs : run[r].overwritten => run'[r].overwritten
  <1> SUFFICES ASSUME NEW r \in Runs
               PROVE  /\ run[r].overwritten => run'[r].overwritten
                      /\ run'[r].overwritten => run'[r].status \in {"cancelled", "failed"}
    BY DEF OverwrittenEnded
  <1> DEFINE Good == /\ run[r].overwritten => run'[r].overwritten
                     /\ run'[r].overwritten => run'[r].status \in {"cancelled", "failed"}
  <1>0. run[r].overwritten => run[r].status \in {"cancelled", "failed"}
    BY DEF OverwrittenEnded
  <1>1. ASSUME run'[r] = run[r] PROVE Good
    BY <1>0, <1>1
  <1>2. ASSUME NEW s \in Runs, NEW status, Becomes(s, status),
               \/ status \in {"cancelled", "failed"}
               \/ run[s].status \notin {"cancelled", "failed"}
               \/ status = run[s].status
        PROVE  Good
    BY <1>0, <1>1, <1>2 DEF Becomes
  <1>3. ASSUME NEW s \in Runs, NEW j \in Jobs, NEW c \in Conversations, NEW kind \in {"run", "replay"},
               AdmitRun(s, j, c, kind)
        PROVE  Good
    BY <1>0, <1>1, <1>3, ApiRows
  <1>4. ASSUME NEW s \in Runs, CancelRun(s) \/ InteractionDeadline(s) PROVE Good
    BY <1>2, <1>4, ApiRows
  <1>5. ASSUME NEW q \in Requests, ClaimResume(q) \/ ExpireResume(q) \/ RejectGraphVersion(q) PROVE Good
    BY <1>2, <1>5, ApiRows
  <1>6. ASSUME NEW w \in Workers, CompleteRun(w) \/ InterruptRun(w) PROVE Good
    BY <1>0, <1>1, <1>6, WorkerRows
  <1>7. ASSUME NEW w \in Workers, StartRun(w) \/ ObserveCancel(w) \/ FailRun(w) PROVE Good
    BY <1>1, <1>2, <1>7, WorkerRows
  <1>8. ASSUME NEW w \in Workers, Finalize(w) PROVE Good
    <2>1. \/ FailedStatus(run[RunOf(w)].status) \in {"cancelled", "failed"}
          \/ FailedStatus(run[RunOf(w)].status) = run[RunOf(w)].status
      BY DEF FailedStatus
    <2> QED
      BY <1>1, <1>2, <1>8, <2>1, WorkerRows
  <1>9. ASSUME ReapLostJobs PROVE Good
    BY <1>0, <1>9, ReapedStatus DEF FailedStatus
  <1>10. ASSUME UNCHANGED run PROVE Good
    BY <1>1, <1>10
  <1> HIDE DEF Good
  <1>11. Good
    BY <1>3, <1>4, <1>5, <1>6, <1>7, <1>8, <1>9, <1>10, RunsAlone
  <1> QED
    BY <1>11 DEF Good

\* A worker that starts to deliver has just ended its phase, or reports a failure.
LEMMA Delivers ==
    ASSUME IInv, [Next]_vars, NEW w \in Workers
    PROVE  \/ worker'[w] = worker[w]
           \/ worker'[w].pc # "delivering"
           \/ worker'[w].due = "run_failed"
           \/ worker'[w].job = worker[w].job
              /\ \E status \in {"completed", "waiting_for_input", "cancelled", "failed"} :
                    worker'[w].due = Expected(status) /\ run'[RunOf(w)].status = status /\ UNCHANGED job
  <1>0. worker \in [Workers -> WorkerType]
    BY DEF IInv, TypeOK
  <1>1. ASSUME NEW v \in Workers, NEW x, worker' = [worker EXCEPT ![v] = x], x.pc # "delivering" \/ x.due = "run_failed"
        PROVE  \/ worker'[w] = worker[w]
               \/ worker'[w].pc # "delivering"
               \/ worker'[w].due = "run_failed"
    BY <1>0, <1>1
  <1>2. ASSUME NEW v \in Workers,
               \/ \E j \in Jobs : ClaimJob(v, j)
               \/ CheckJob(v) \/ StartRun(v) \/ EmitResumed(v) \/ FailEndedRun(v) \/ FailAfterCommit(v)
               \/ Deliver(v) \/ StopExecution(v) \/ RaiseError(v) \/ Finalize(v) \/ Crash(v)
        PROVE  \/ worker'[w] = worker[w]
               \/ worker'[w].pc # "delivering"
               \/ worker'[w].due = "run_failed"
    <2>0. worker[v] \in WorkerType
      BY <1>0
    <2>1. \E x : worker' = [worker EXCEPT ![v] = x] /\ (x.pc # "delivering" \/ x.due = "run_failed")
      <3>1. ASSUME NEW j \in Jobs, ClaimJob(v, j)
            PROVE  worker' = [worker EXCEPT ![v] = [IdleWorker EXCEPT !.pc = "claimed", !.job = j]]
                   /\ [IdleWorker EXCEPT !.pc = "claimed", !.job = j].pc # "delivering"
        BY <3>1 DEF ClaimJob, IdleWorker
      <3>2. ASSUME NEW pc, pc # "delivering", worker' = [worker EXCEPT ![v].pc = pc]
            PROVE  worker' = [worker EXCEPT ![v] = [worker[v] EXCEPT !.pc = pc]]
                   /\ [worker[v] EXCEPT !.pc = pc].pc # "delivering"
        BY <2>0, <3>2 DEF WorkerType
      <3>3. ASSUME NEW f, worker' = [worker EXCEPT ![v].pc = "final", ![v].failure = f]
            PROVE  worker' = [worker EXCEPT ![v] = [worker[v] EXCEPT !.pc = "final", !.failure = f]]
                   /\ [worker[v] EXCEPT !.pc = "final", !.failure = f].pc # "delivering"
        BY <1>0, <2>0, <3>3 DEF WorkerType
      <3>4. ASSUME worker' = [worker EXCEPT ![v].pc = "delivering", ![v].due = "run_failed"]
            PROVE  worker' = [worker EXCEPT ![v] = [worker[v] EXCEPT !.pc = "delivering", !.due = "run_failed"]]
                   /\ [worker[v] EXCEPT !.pc = "delivering", !.due = "run_failed"].due = "run_failed"
        BY <1>0, <2>0, <3>4 DEF WorkerType
      <3>5. ASSUME worker' = [worker EXCEPT ![v].due = "run_failed"]
            PROVE  worker' = [worker EXCEPT ![v] = [worker[v] EXCEPT !.due = "run_failed"]]
                   /\ [worker[v] EXCEPT !.due = "run_failed"].due = "run_failed"
        BY <2>0, <3>5 DEF WorkerType
      <3>6. ASSUME worker' = [worker EXCEPT ![v] = IdleWorker] PROVE IdleWorker.pc # "delivering"
        BY DEF IdleWorker
      <3>7. CASE CheckJob(v) \/ EmitResumed(v) \/ Deliver(v)
        <4>1. \E pc : pc # "delivering" /\ worker' = [worker EXCEPT ![v].pc = pc]
          BY <3>7 DEF CheckJob, EmitResumed, Deliver
        <4> QED
          BY <3>2, <4>1
      <3>8. CASE StartRun(v)
        <4>1. \/ \E pc : pc # "delivering" /\ worker' = [worker EXCEPT ![v].pc = pc]
              \/ worker' = [worker EXCEPT ![v].pc = "final", ![v].failure = "run_cancelled"]
          BY <3>8 DEF StartRun
        <4> QED
          BY <3>2, <3>3, <4>1
      <3>9. CASE FailEndedRun(v) \/ FailAfterCommit(v)
        <4>1. \/ worker' = [worker EXCEPT ![v].pc = "delivering", ![v].due = "run_failed"]
              \/ worker' = [worker EXCEPT ![v].due = "run_failed"]
              \/ worker' = [worker EXCEPT ![v].pc = "final", ![v].failure = "worker_lost"]
          BY <3>9 DEF FailEndedRun, FailAfterCommit
        <4> QED
          BY <3>3, <3>4, <3>5, <4>1
      <3>10. CASE StopExecution(v) \/ RaiseError(v)
        <4>1. \E f : worker' = [worker EXCEPT ![v].pc = "final", ![v].failure = f]
          BY <3>10 DEF StopExecution, RaiseError
        <4> QED
          BY <3>3, <4>1
      <3>11. CASE Finalize(v) \/ Crash(v)
        BY <3>6, <3>11 DEF Finalize, Crash
      <3> QED
        BY <1>2, <3>1, <3>7, <3>8, <3>9, <3>10, <3>11
    <2> QED
      BY <1>1, <2>1
  <1>3. ASSUME NEW v \in Workers, NEW status \in {"completed", "waiting_for_input", "cancelled", "failed"},
               EndPhase(v, status), run'[RunOf(v)].status = status
        PROVE  \/ worker'[w] = worker[w]
               \/ worker'[w].job = worker[w].job
                  /\ worker'[w].due = Expected(status) /\ run'[RunOf(w)].status = status /\ UNCHANGED job
    <2>1. /\ worker' = [worker EXCEPT ![v].pc = "delivering", ![v].due = Expected(status)] /\ UNCHANGED job
      BY <1>3 DEF EndPhase
    <2>2. CASE v # w
      BY <1>0, <2>1, <2>2
    <2>3. CASE v = w
      <3>1. worker[w] \in WorkerType
        BY <1>0
      <3> QED
        BY <1>0, <1>3, <2>1, <2>3, <3>1 DEF WorkerType
    <2> QED
      BY <2>2, <2>3
  <1>4. ASSUME NEW v \in Workers, CompleteRun(v) \/ InterruptRun(v) \/ ObserveCancel(v) \/ FailRun(v)
        PROVE  \E status \in {"completed", "waiting_for_input", "cancelled", "failed"} :
                  EndPhase(v, status) /\ run'[RunOf(v)].status = status
    BY <1>4, WorkerRows DEF CompleteRun, InterruptRun, ObserveCancel, FailRun, Becomes
  <1>5. \/ UNCHANGED worker
        \/ \E v \in Workers :
             \/ \E j \in Jobs : ClaimJob(v, j)
             \/ CheckJob(v) \/ StartRun(v) \/ EmitResumed(v) \/ FailEndedRun(v) \/ FailAfterCommit(v)
             \/ Deliver(v) \/ StopExecution(v) \/ RaiseError(v) \/ Finalize(v) \/ Crash(v)
             \/ CompleteRun(v) \/ InterruptRun(v) \/ ObserveCancel(v) \/ FailRun(v)
    <2>1. ASSUME NEW q \in Requests, ResumeStep(q) PROVE UNCHANGED worker
      BY <2>1 DEF ResumeStep, ReadResume, ClaimResume, ExpireResume, RejectGraphVersion, AbortResume
    <2>2. ASSUME NEW v \in Workers, RenewLease(v) \/ \E e \in Progress : EmitProgress(v, e) PROVE UNCHANGED worker
      BY <2>2 DEF RenewLease, EmitProgress
    <2>3. UNCHANGED worker \/ (\E q \in Requests : ResumeStep(q)) \/ (\E v \in Workers : WorkerStep(v))
      BY DEF Next, vars, AdmitRun, CancelRun, ReapLostJobs, RepairTerminal, LeaseTick, QueueTimeout,
             InteractionDeadline
    <2> QED
      BY <2>1, <2>2, <2>3 DEF WorkerStep
  <1> QED
    BY <1>2, <1>3, <1>4, <1>5

LEMMA DueSoundNext ==
    ASSUME IInv, IInv', OverwrittenEnded, DueSound, [Next]_vars PROVE DueSound'
  <1> SUFFICES ASSUME NEW w \in Workers, worker'[w].pc = "delivering", Holds(w)', ~run'[RunOf(w)'].overwritten
               PROVE  /\ worker'[w].due = "run_completed" => run'[RunOf(w)'].status = "completed"
                      /\ worker'[w].due = "run_cancelled" => run'[RunOf(w)'].status = "cancelled"
                      /\ worker'[w].due = "run_interrupted" =>
                            run'[RunOf(w)'].status \in {"waiting_for_input", "cancelled", "failed"}
    BY DEF DueSound
  <1>1. CASE worker'[w] = worker[w]
    <2> DEFINE j == worker[w].job
               r == RunOf(w)
    <2>1. j \in Jobs /\ r \in Runs
      BY <1>1, Busy
    <2>2. job'[j].status = "running" /\ job'[j].token = w
      BY <1>1 DEF Holds
    <2>3. ASSUME NEW v \in Workers, ClaimJob(v, j) PROVE FALSE
      <3>1. job'[j].token = v
        BY <2>1, <2>3 DEF ClaimJob, IInv, TypeOK, JobType
      <3>2. worker'[v].pc = "claimed"
        BY <2>3 DEF ClaimJob, IInv, TypeOK, IdleWorker
      <3> QED
        BY <2>2, <3>1, <3>2
    <2>4. Holds(w)
      BY <2>1, <2>2, <2>3, TokenKept DEF Holds
    <2>5. job'[j].run = r
      BY <2>1, <2>4, RunKept DEF Holds, RunOf
    <2>6. RunOf(w)' = r
      BY <1>1, <2>5 DEF RunOf
    <2>7. run'[r].status \notin Pending
      BY <2>6 DEF IInv, Inductive, HeldPhase
    <2>8. /\ worker[w].due = "run_completed" => run[r].status = "completed"
          /\ worker[w].due = "run_cancelled" => run[r].status = "cancelled"
          /\ worker[w].due = "run_interrupted" => run[r].status \in {"waiting_for_input", "cancelled", "failed"}
      <3>1. ~run[r].overwritten
        BY <2>1, <2>6, OverwrittenNext
      <3> QED
        BY <1>1, <2>4, <3>1 DEF DueSound
    <2>9. /\ run[r].status \in {"completed", "cancelled", "failed"} => run'[r].status = run[r].status
          /\ run[r].status = "waiting_for_input" =>
                 run'[r].status \in {"waiting_for_input", "queued", "cancelled", "failed"}
      BY <2>1, <2>6, EndsKept
    <2> HIDE DEF j, r
    <2> QED
      BY <1>1, <2>6, <2>7, <2>8, <2>9 DEF Pending
  <1>2. CASE worker'[w].due = "run_failed"
    BY <1>2
  <1>3. ASSUME NEW status \in {"completed", "waiting_for_input", "cancelled", "failed"},
               worker'[w].job = worker[w].job, worker'[w].due = Expected(status),
               run'[RunOf(w)].status = status, UNCHANGED job
        PROVE  /\ worker'[w].due = "run_completed" => run'[RunOf(w)'].status = "completed"
               /\ worker'[w].due = "run_cancelled" => run'[RunOf(w)'].status = "cancelled"
               /\ worker'[w].due = "run_interrupted" =>
                     run'[RunOf(w)'].status \in {"waiting_for_input", "cancelled", "failed"}
    <2>1. RunOf(w)' = RunOf(w)
      BY <1>3 DEF RunOf
    <2> QED
      BY <1>3, <2>1 DEF Expected
  <1> QED
    BY <1>1, <1>2, <1>3, Delivers

\* A step leaves the outcome of r and its live jobs alone.
Still(r) ==
    /\ run'[r].status = run[r].status /\ run'[r].reply = run[r].reply
    /\ out'[r].terminal = out[r].terminal
    /\ \A j \in Jobs : job[j].run = r /\ Live(j) => job'[j].run = r /\ Live(j)'

LEMMA OutcomeStill ==
    ASSUME NEW r \in Runs, OutcomeSound(r), Still(r) PROVE OutcomeSound(r)'
  <1>1. (\E j \in JobsOf(r) : Live(j)) => \E j \in JobsOf(r)' : Live(j)'
    BY DEF Still, JobsOf
  <1> QED
    BY <1>1 DEF Still, OutcomeSound

\* Stop.
LEMMA CancelOutcome ==
    ASSUME IInv, NEW s \in Runs, CancelRun(s), NEW r \in Runs, OutcomeSound(r) PROVE OutcomeSound(r)'
  <1>0. out[s] \in OutputType /\ run[s] \in RunType /\ job \in [Jobs -> JobType]
    BY DEF IInv, TypeOK
  <1>1. CASE run[s].status = "running"
    <2>1. Becomes(s, "cancelling") /\ UNCHANGED <<job, out>>
      BY <1>1, ApiRows DEF CancelRun
    <2>2. CASE r # s
      BY <2>1, <2>2, OutcomeStill DEF Still, Becomes, Live
    <2>3. CASE r = s
      BY <1>1, <2>1, <2>3 DEF OutcomeSound, Truthful, Becomes, Terminal
    <2> QED
      BY <2>2, <2>3
  <1>2. CASE run[s].status # "running"
    <2>1. /\ run[s].status \in {"queued", "waiting_for_input"} /\ Becomes(s, "cancelled")
          /\ out' = [out EXCEPT ![s] = Emit(@, "run_cancelled", DefaultMaxFrames)]
          /\ \A j \in Jobs : job[j].run # s => job'[j] = job[j]
      BY <1>2, ApiRows DEF CancelRun
    <2>2. CASE r # s
      <3>1. out'[r] = out[r] /\ run'[r] = run[r]
        BY <2>1, <2>2 DEF Becomes, IInv, TypeOK
      <3> QED
        BY <2>1, <2>2, <3>1, OutcomeStill DEF Still, Live
    <2>3. CASE r = s
      <3> DEFINE o == Emit(out[s], "run_cancelled", DefaultMaxFrames)
      <3>1. o.terminal = "run_cancelled"
        <4>1. "run_cancelled" \in Control /\ "run_cancelled" \in Events
          BY DEF Control, Events
        <4> DEFINE ledger == out[s]
        <4>2. ledger \in OutputType
          BY <1>0
        <4> HIDE DEF ledger
        <4>3. Emit(ledger, "run_cancelled", DefaultMaxFrames).terminal = "run_cancelled"
          BY <4>1, <4>2, EmitTerminal
        <4> QED
          BY <4>3 DEF ledger
      <3>2. out' = [out EXCEPT ![s] = o]
        BY <2>1
      <3> HIDE DEF o
      <3>3. out'[s].terminal = "run_cancelled"
        BY <3>1, <3>2, OutReplaced
      <3>4. run'[s].status = "cancelled" /\ ~run[s].reply /\ run'[s].reply = run[s].reply
        BY <2>1, <2>3 DEF Becomes, OutcomeSound
      <3> QED
        BY <2>3, <3>3, <3>4 DEF OutcomeSound, Truthful, Terminal, Expected
    <2> QED
      BY <2>2, <2>3
  <1> QED
    BY <1>1, <1>2

\* Accepted and refused resumes.
LEMMA ResumeOutcome ==
    ASSUME IInv, NEW q \in Requests, ClaimResume(q) \/ ExpireResume(q) \/ RejectGraphVersion(q),
           NEW r \in Runs, OutcomeSound(r), ~run'[r].overwritten
    PROVE  OutcomeSound(r)'
  <1> DEFINE s == req[q].run
             i == req[q].job
  <1>1. s \in Runs /\ req[q].pc # "idle" /\ req[q].locked \subseteq Jobs
        /\ ClosePrior(q) \in [Jobs -> JobType]
        /\ (\A j \in Jobs \ req[q].locked : ClosePrior(q)[j] = job[j])
        /\ (\A j \in req[q].locked : job[j].run = s)
    BY ClosePriorRows DEF ClaimResume, ExpireResume, RejectGraphVersion, IInv, Inductive, LockedRows
  <1>2. r = s => run[s].status = "waiting_for_input"
    BY ApiRows
  <1>3. \A j \in Jobs : job[j].run # s /\ Live(j) => job'[j] = job[j]
    <2> SUFFICES ASSUME NEW j \in Jobs, job[j].run # s, Live(j) PROVE job'[j] = job[j]
      OBVIOUS
    <2>1. ClosePrior(q)[j] = job[j]
      BY <1>1
    <2>2. CASE ExpireResume(q) \/ RejectGraphVersion(q)
      BY <2>1, <2>2 DEF ExpireResume, RejectGraphVersion
    <2>3. CASE ClaimResume(q)
      <3>1. j # i
        BY <2>3 DEF ClaimResume, Live
      <3>2. job'[j] = ClosePrior(q)[j]
        BY <1>1, <2>3, <3>1 DEF ClaimResume
      <3> QED
        BY <2>1, <3>2
    <2> QED
      BY <2>2, <2>3
  <1>4. \E status \in {"queued", "cancelled", "failed"} :
            Becomes(s, status) /\ (status = "queued" => ClaimResume(q)) /\ (status # "queued" => UNCHANGED out)
    <2>1. CASE ClaimResume(q)
      BY <2>1, ApiRows
    <2>2. CASE ExpireResume(q)
      BY <2>2, ApiRows DEF ExpireResume
    <2>3. CASE RejectGraphVersion(q)
      BY <2>3, ApiRows DEF RejectGraphVersion
    <2> QED
      BY <2>1, <2>2, <2>3
  <1>5. ClaimResume(q) => out'[s].terminal = None /\ \A t \in Runs : t # s => out'[t] = out[t]
    <2> SUFFICES ASSUME ClaimResume(q) PROVE out'[s].terminal = None /\ \A t \in Runs : t # s => out'[t] = out[t]
      OBVIOUS
    <2> DEFINE o == [out[s] EXCEPT !.terminal = None, !.tcursor = 0]
    <2>1. out' = [out EXCEPT ![s] = o] /\ out[s] \in OutputType
      BY <1>1 DEF ClaimResume, IInv, TypeOK
    <2>2. o.terminal = None
      BY <2>1 DEF OutputType
    <2> HIDE DEF o, s
    <2> QED
      BY <1>1, <2>1, <2>2, OutReplaced
  <1> HIDE DEF s, i
  <1>6. CASE r # s
    <2>1. run'[r] = run[r] /\ out'[r] = out[r]
      BY <1>4, <1>5, <1>6 DEF Becomes
    <2> QED
      BY <1>3, <1>6, <2>1, OutcomeStill DEF Still, Live
  <1>7. CASE r = s
    <2>1. ~run[r].reply /\ (out[r].terminal # None => out[r].terminal = "run_interrupted")
      BY <1>2, <1>7 DEF OutcomeSound, Truthful, Expected
    <2>2. run'[r].reply = run[r].reply
      BY <1>4, <1>7 DEF Becomes
    <2>3. CASE run'[r].status = "queued"
      BY <1>4, <1>5, <1>7, <2>1, <2>2, <2>3 DEF Becomes, OutcomeSound, Truthful
    <2>4. CASE run'[r].status \in {"cancelled", "failed"}
      <3>1. out'[r] = out[r]
        BY <1>4, <1>7, <2>4 DEF Becomes
      <3> QED
        BY <2>1, <2>2, <2>4, <3>1 DEF OutcomeSound, Truthful
    <2> QED
      BY <1>4, <1>7, <2>3, <2>4 DEF Becomes
  <1> QED
    BY <1>6, <1>7

\* The commits of a worker that holds its job.
LEMMA PhaseOutcome ==
    ASSUME IInv, NEW w \in Workers, NEW r \in Runs, OutcomeSound(r),
           StartRun(w) \/ CompleteRun(w) \/ InterruptRun(w) \/ ObserveCancel(w) \/ FailRun(w)
    PROVE  OutcomeSound(r)'
  <1> DEFINE s == RunOf(w)
  <1>1. UNCHANGED <<job, out>>
    BY DEF StartRun, CompleteRun, InterruptRun, ObserveCancel, FailRun, EndPhase
  <1>2. s \in Runs /\ worker[w].job \in Jobs /\ worker[w].job \in JobsOf(s)
    BY Busy DEF StartRun, CompleteRun, InterruptRun, ObserveCancel, FailRun, EndPhase, JobsOf, RunOf
  <1>3. CompleteRun(w) \/ InterruptRun(w) => Live(worker[w].job)
    BY DEF CompleteRun, InterruptRun, EndPhase, Fence, Owns, Live
  <1>4. \/ UNCHANGED run
        \/ /\ run[s].status \in Pending /\ \A t \in Runs : t # s => run'[t] = run[t]
           /\ \/ run'[s].status = "completed" /\ CompleteRun(w)
              \/ run'[s].status = "waiting_for_input" /\ InterruptRun(w) /\ run'[s].reply = run[s].reply
              \/ run'[s].status \in {"running", "cancelled", "failed"} /\ run'[s].reply = run[s].reply
    BY WorkerRows DEF Becomes, Pending
  <1>6. CASE UNCHANGED run \/ r # s
    <2>1. run'[r] = run[r]
      BY <1>4, <1>6
    <2> QED
      BY <1>1, <2>1, OutcomeStill DEF Still, Live
  <1>7. CASE ~UNCHANGED run /\ r = s
    <2>1. ~run[r].reply /\ out'[r].terminal = None
      BY <1>1, <1>4, <1>7 DEF OutcomeSound, Truthful, Pending, Terminal
    <2>2. run'[r].status \in {"completed", "waiting_for_input"} => \E j \in JobsOf(r)' : Live(j)'
      <3>1. run'[r].status \in {"completed", "waiting_for_input"} => Live(worker[w].job)
        BY <1>3, <1>4, <1>7
      <3> QED
        BY <1>1, <1>2, <1>7, <3>1 DEF JobsOf, Live
    <2>3. run'[r].reply => run'[r].status = "completed"
      BY <1>4, <1>7, <2>1
    <2> QED
      BY <2>1, <2>2, <2>3 DEF OutcomeSound, Truthful
  <1> QED
    BY <1>6, <1>7

\* A fenced transaction that writes the ledger of its run and no row.
LEMMA FencedWrite ==
    ASSUME IInv, NEW w \in Workers, worker[w].pc # "idle", Fence(w), UNCHANGED <<run, job>>,
           NEW o, out' = [out EXCEPT ![RunOf(w)] = o], NEW r \in Runs, OutcomeSound(r),
           r = RunOf(w) => Truthful(run[r].status, o.terminal)
    PROVE  OutcomeSound(r)'
  <1>1. RunOf(w) \in Runs /\ worker[w].job \in JobsOf(RunOf(w)) /\ Live(worker[w].job)
    BY Busy DEF Fence, Owns, Live, JobsOf, RunOf
  <1>2. out'[RunOf(w)] = o /\ \A s \in Runs : s # RunOf(w) => out'[s] = out[s]
    BY <1>1, OutReplaced
  <1>3. CASE r # RunOf(w)
    BY <1>2, <1>3, OutcomeStill DEF Still, Live
  <1>4. CASE r = RunOf(w)
    <2>1. \E j \in JobsOf(r)' : Live(j)'
      BY <1>1, <1>4 DEF JobsOf, Live
    <2> QED
      BY <1>2, <1>4, <2>1 DEF OutcomeSound
  <1> QED
    BY <1>3, <1>4

LEMMA EmitOutcome ==
    ASSUME IInv, NEW w \in Workers, NEW r \in Runs, OutcomeSound(r),
           EmitResumed(w) \/ \E event \in Progress : EmitProgress(w, event)
    PROVE  OutcomeSound(r)'
  <1>1. PICK event \in Progress \cup {"run_resumed"} :
           /\ worker[w].pc # "idle" /\ Fence(w) /\ UNCHANGED <<run, job>>
           /\ out' = [out EXCEPT ![RunOf(w)] = Emit(@, event, MaxFrames)]
    BY DEF EmitResumed, EmitProgress
  <1> DEFINE o == Emit(out[RunOf(w)], event, MaxFrames)
  <1>2. out[RunOf(w)] \in OutputType /\ event \in Events
    BY <1>1, Busy DEF IInv, TypeOK, Events
  <1>3. o.terminal = None \/ o.terminal = out[RunOf(w)].terminal
    BY <1>2, EmitTerminal
  <1>4. r = RunOf(w) => Truthful(run[r].status, o.terminal)
    BY <1>3 DEF OutcomeSound, Truthful
  <1>5. out' = [out EXCEPT ![RunOf(w)] = o]
    BY <1>1
  <1> HIDE DEF o
  <1> QED
    BY <1>1, <1>4, <1>5, FencedWrite

\* The delivered event is the one the run's status calls for.
LEMMA DeliverOutcome ==
    ASSUME IInv, DueSound, NEW w \in Workers, NEW r \in Runs, OutcomeSound(r), ~run[r].overwritten, Deliver(w)
    PROVE  OutcomeSound(r)'
  <1> DEFINE s == RunOf(w)
             o == IF LateFailure(w) THEN Repaired(run[s], out[s]) ELSE Emit(out[s], worker[w].due, MaxFrames)
  <1>1. /\ s \in Runs /\ out[s] \in OutputType /\ run[s] \in RunType
        /\ worker[w].pc = "delivering" /\ Fence(w) /\ UNCHANGED <<run, job>>
    BY Busy DEF Deliver, IInv, TypeOK
  <1>2. out' = [out EXCEPT ![s] = o]
    BY DEF Deliver
  <1>3. Holds(w)
    BY <1>1 DEF Fence, Owns, Holds
  <1>4. run[s].status \in Terminal
    BY <1>1, <1>3, Busy DEF IInv, Inductive, HeldPhase, TypeOK, RunType, RunStatus, Active, Pending, Terminal
  <1>5. ASSUME r = s PROVE Truthful(run[r].status, o.terminal)
    <2>1. CASE LateFailure(w)
      BY <1>1, <1>4, <1>5, <2>1, RepairedTerminal DEF Truthful
    <2>2. CASE ~LateFailure(w)
      <3>1. worker[w].due \in Control
        BY <1>1 DEF IInv, TypeOK, WorkerType, Inductive, WorkerHasJob
      <3>2. o.terminal = worker[w].due
        BY <1>1, <2>2, <3>1, EmitTerminal DEF Events
      <3>3. worker[w].due = "run_failed" => run[s].status = "failed"
        BY <1>4, <2>2 DEF LateFailure, Terminal
      <3>4. /\ worker[w].due = "run_completed" => run[s].status = "completed"
            /\ worker[w].due = "run_cancelled" => run[s].status = "cancelled"
            /\ worker[w].due = "run_interrupted" => run[s].status \in {"waiting_for_input", "cancelled", "failed"}
        BY <1>1, <1>3, <1>5 DEF DueSound
      <3> HIDE DEF s, o
      <3> QED
        BY <1>4, <1>5, <3>1, <3>2, <3>3, <3>4 DEF Truthful, Expected, Control
    <2> QED
      BY <2>1, <2>2
  <1>6. worker[w].pc # "idle"
    BY <1>1
  <1> HIDE DEF o
  <1> QED
    BY <1>1, <1>2, <1>5, <1>6, FencedWrite

\* The end of execute_job repairs what it closes.
LEMMA FinalizeOutcome ==
    ASSUME IInv, NEW w \in Workers, NEW r \in Runs, OutcomeSound(r), Finalize(w)
    PROVE  OutcomeSound(r)'
  <1> DEFINE j == worker[w].job
             s == RunOf(w)
             ru == IF worker[w].failure # None THEN FailedRun(run[s]) ELSE run[s]
             o == Repaired(ru, out[s])
  <1>1. worker[w].pc = "final" /\ j \in Jobs /\ s \in Runs /\ run[s].status # "absent" /\ run[s] \in RunType
        /\ out[s] \in OutputType
    BY Busy DEF Finalize, IInv, TypeOK
  <1>2. CASE ~Holds(w)
    BY <1>2, OutcomeStill DEF Finalize, Holds, Still, Live
  <1>3. CASE Holds(w)
    <2>1. run' = [run EXCEPT ![s] = ru] /\ out' = [out EXCEPT ![s] = o] /\ job' = [job EXCEPT ![j] = Closed(@)]
      BY <1>3 DEF Finalize, Holds, RunOf
    <2>2. ru \in RunType /\ ru.reply = run[s].reply
      BY <1>1, FailedKept
    <2>3. ru.status \in Terminal /\ (run[s].status = "completed" => ru.status = "completed")
      <3>1. run[s].status \in Active \cup Terminal
        BY <1>1 DEF RunType, RunStatus
      <3>2. CASE worker[w].failure # None
        BY <1>1, <3>1, <3>2, FailedKept DEF Active, Terminal
      <3>3. CASE worker[w].failure = None
        <4>1. run[s].status \notin Pending
          BY <1>1, <1>3, <3>3 DEF IInv, Inductive, HeldPhase
        <4> QED
          BY <3>1, <3>3, <4>1 DEF Pending, Active, Terminal
      <3> QED
        BY <3>2, <3>3
    <2>4. o.terminal = Expected(ru.status)
      BY <1>1, <2>2, <2>3, RepairedTerminal
    <2> HIDE DEF ru, o
    <2>5. /\ run'[s] = ru /\ out'[s] = o
          /\ \A t \in Runs : t # s => run'[t] = run[t] /\ out'[t] = out[t]
      <3> HIDE DEF s
      <3>1. run'[s] = ru /\ \A t \in Runs : t # s => run'[t] = run[t]
        BY <1>1, <2>1, RunReplaced
      <3>2. out'[s] = o /\ \A t \in Runs : t # s => out'[t] = out[t]
        BY <1>1, <2>1, OutReplaced
      <3> QED
        BY <3>1, <3>2
    <2>6. CASE r = s
      BY <2>2, <2>3, <2>4, <2>5, <2>6 DEF OutcomeSound, Truthful
    <2>7. CASE r # s
      <3>1. \A k \in Jobs : job[k].run = r => job'[k] = job[k]
        BY <1>1, <2>1, <2>7 DEF RunOf, IInv, TypeOK
      <3> QED
        BY <2>5, <2>7, <3>1, OutcomeStill DEF Still, Live
    <2> QED
      BY <2>6, <2>7
  <1> QED
    BY <1>2, <1>3

\* Reconciliation repairs what it closes.
LEMMA ReapOutcome ==
    ASSUME IInv, IInv', NEW r \in Runs, OutcomeSound(r), ReapLostJobs
    PROVE  OutcomeSound(r)'
  <1>1. CASE run'[r] = run[r] /\ out'[r] = out[r] /\ r \notin LostRuns
    <2>1. \A j \in Jobs : job[j].run = r => job'[j] = job[j]
      BY <1>1 DEF ReapLostJobs, LostRuns, JobsOf
    <2> QED
      BY <1>1, <2>1, OutcomeStill DEF Still, Live
  <1>2. CASE /\ out'[r].terminal = IF run'[r].status \in Terminal THEN Expected(run'[r].status) ELSE out[r].terminal
             /\ ~(run'[r] = run[r] /\ out'[r] = out[r] /\ r \notin LostRuns)
    <2>1. run'[r].reply = run[r].reply
      BY ReapedStatus
    <2>2. run[r].reply => run'[r].status = "completed"
      <3> SUFFICES ASSUME run[r].reply PROVE run'[r].status = "completed"
        OBVIOUS
      <3>1. run[r].status = "completed" /\ FailedStatus("completed") = "completed"
        BY DEF OutcomeSound, FailedStatus
      <3> QED
        BY <3>1, ReapedStatus
    <2>3. CASE run'[r].status \in Terminal
      BY <1>2, <2>1, <2>2, <2>3 DEF OutcomeSound, Truthful
    <2>4. CASE run'[r].status \notin Terminal
      <3>1. out'[r].terminal = out[r].terminal
        BY <1>2, <2>4
      <3>2. run[r].status \notin Terminal
        <4>1. run[r].status \in Terminal => FailedStatus(run[r].status) = run[r].status
          BY DEF FailedStatus, Terminal
        <4> QED
          BY <2>4, <4>1, ReapedStatus DEF Terminal
      <3>3. out[r].terminal = None
        BY <3>2 DEF OutcomeSound, Truthful, Terminal
      <3>4. run'[r].status \notin {"completed", "waiting_for_input"}
        BY <2>4 DEF Terminal
      <3> QED
        BY <2>1, <2>2, <3>1, <3>3, <3>4 DEF OutcomeSound, Truthful
    <2> QED
      BY <2>3, <2>4
  <1> QED
    BY <1>1, <1>2, ReapedLedger

\* Admission, repair by a reader, and steps that touch neither runs nor ledgers.
LEMMA RestOutcome ==
    ASSUME IInv, NEW r \in Runs, OutcomeSound(r)
    PROVE  /\ \A s \in Runs, j \in Jobs, c \in Conversations, kind \in {"run", "replay"} :
                 AdmitRun(s, j, c, kind) => OutcomeSound(r)'
           /\ \A s \in Runs : RepairTerminal(s) \/ InteractionDeadline(s) => OutcomeSound(r)'
           /\ UNCHANGED <<run, out>> /\ (\A j \in Jobs : job'[j].run = job[j].run /\ (Live(j) => Live(j)'))
                 => OutcomeSound(r)'
  <1>1. ASSUME NEW s \in Runs, NEW j \in Jobs, NEW c \in Conversations, NEW kind \in {"run", "replay"},
               AdmitRun(s, j, c, kind)
        PROVE  OutcomeSound(r)'
    <2>1. /\ UNCHANGED out /\ \A k \in Jobs : Live(k) => job'[k] = job[k]
      BY <1>1 DEF AdmitRun, Live, IInv, TypeOK
    <2>2. CASE r # s
      BY <1>1, <2>1, <2>2, ApiRows, OutcomeStill DEF Still, Live
    <2>3. CASE r = s
      <3>1. run[r].status = "absent" /\ run'[r].status = "queued" /\ ~run'[r].reply
        BY <1>1, <2>3, ApiRows
      <3>2. out[r].terminal = None
        BY <3>1 DEF OutcomeSound, Truthful, Terminal
      <3> QED
        BY <2>1, <3>1, <3>2 DEF OutcomeSound, Truthful
    <2> QED
      BY <2>2, <2>3
  <1>2. ASSUME NEW s \in Runs, RepairTerminal(s)
        PROVE  OutcomeSound(r)'
    <2> DEFINE o == Repaired(run[s], out[s])
    <2>1. /\ UNCHANGED <<run, job>> /\ out' = [out EXCEPT ![s] = o] /\ run[s].status \in Terminal
      BY <1>2 DEF RepairTerminal
    <2>2. o.terminal = Expected(run[s].status)
      BY <2>1, RepairedTerminal DEF IInv, TypeOK
    <2> HIDE DEF o
    <2>3. out'[s] = o /\ \A t \in Runs : t # s => out'[t] = out[t]
      BY <2>1, OutReplaced
    <2>4. CASE r # s
      BY <2>1, <2>3, <2>4, OutcomeStill DEF Still, Live
    <2>5. CASE r = s
      BY <2>1, <2>2, <2>3, <2>5 DEF OutcomeSound, Truthful
    <2> QED
      BY <2>4, <2>5
  <1>3. ASSUME NEW s \in Runs, InteractionDeadline(s)
        PROVE  OutcomeSound(r)'
    <2>1. UNCHANGED <<job, out>> /\ run'[r].status = run[r].status /\ run'[r].reply = run[r].reply
      BY <1>3, ApiRows DEF InteractionDeadline, Becomes
    <2> QED
      BY <2>1, OutcomeStill DEF Still, Live
  <1>4. ASSUME UNCHANGED <<run, out>>, \A j \in Jobs : job'[j].run = job[j].run /\ (Live(j) => Live(j)')
        PROVE  OutcomeSound(r)'
    BY <1>4, OutcomeStill DEF Still
  <1> QED
    BY <1>1, <1>2, <1>3, <1>4

LEMMA OutcomesNext ==
    ASSUME IInv, IInv', OutcomesInv, [Next]_vars PROVE OutcomesInv'
  <1> USE DEF OutcomesInv
  <1>1. OverwrittenEnded' /\ DueSound'
    BY OverwrittenNext, DueSoundNext
  <1>2. SUFFICES ASSUME NEW r \in Runs, ~run'[r].overwritten PROVE OutcomeSound(r)'
    BY <1>1
  <1>3. OutcomeSound(r) /\ ~run[r].overwritten
    BY <1>2, OverwrittenNext
  <1>4. ASSUME UNCHANGED <<run, out>>, \A j \in Jobs : job'[j].run = job[j].run /\ (Live(j) => Live(j)')
        PROVE  OutcomeSound(r)'
    BY <1>3, <1>4, RestOutcome
  <1>5. ASSUME UNCHANGED <<run, out, job>> PROVE OutcomeSound(r)'
    BY <1>4, <1>5 DEF Live
  <1>6. ASSUME NEW j \in Jobs, LeaseTick(j) \/ QueueTimeout(j) PROVE OutcomeSound(r)'
    <2>1. \A k \in Jobs : job'[k].run = job[k].run /\ job'[k].status = job[k].status
      <3> SUFFICES ASSUME NEW k \in Jobs PROVE job'[k].run = job[k].run /\ job'[k].status = job[k].status
        OBVIOUS
      <3>1. job[j] \in JobType /\ job \in [Jobs -> JobType]
        BY DEF IInv, TypeOK
      <3>2. CASE k # j
        BY <1>6, <3>1, <3>2 DEF LeaseTick, QueueTimeout
      <3>3. CASE LeaseTick(j) /\ k = j
        BY <3>1, <3>3 DEF LeaseTick, JobType
      <3>4. CASE QueueTimeout(j) /\ k = j
        BY <3>1, <3>4 DEF QueueTimeout, JobType
      <3> QED
        BY <1>6, <3>2, <3>3, <3>4
    <2> QED
      BY <1>4, <1>6, <2>1 DEF LeaseTick, QueueTimeout, Live
  <1>7. ASSUME NEW w \in Workers, WorkerStep(w) PROVE OutcomeSound(r)'
    <2>1. ASSUME NEW j \in Jobs, ClaimJob(w, j) PROVE OutcomeSound(r)'
      <3>1. /\ UNCHANGED <<run, out>> /\ job' = [job EXCEPT ![j].status = "running", ![j].token = w, ![j].ttl = LeaseTicks]
            /\ job[j] \in JobType /\ job \in [Jobs -> JobType]
        BY <2>1 DEF ClaimJob, IInv, TypeOK
      <3>2. \A k \in Jobs : job'[k].run = job[k].run /\ (Live(k) => Live(k)')
        BY <3>1 DEF Live, JobType
      <3> QED
        BY <1>4, <3>1, <3>2
    <2>2. CASE RenewLease(w)
      <3>1. /\ UNCHANGED <<run, out>> /\ job' = [job EXCEPT ![worker[w].job].ttl = LeaseTicks]
            /\ job \in [Jobs -> JobType] /\ worker[w].job \in Jobs
        BY <2>2, Busy DEF RenewLease, IInv, TypeOK
      <3>2. \A k \in Jobs : job'[k].run = job[k].run /\ (Live(k) => Live(k)')
        BY <3>1 DEF Live, JobType
      <3> QED
        BY <1>4, <3>1, <3>2
    <2>3. CASE EmitResumed(w) \/ \E event \in Progress : EmitProgress(w, event)
      BY <1>3, <2>3, EmitOutcome
    <2>4. CASE StartRun(w) \/ CompleteRun(w) \/ InterruptRun(w) \/ ObserveCancel(w) \/ FailRun(w)
      BY <1>3, <2>4, PhaseOutcome
    <2>5. CASE Deliver(w)
      BY <1>3, <2>5, DeliverOutcome
    <2>6. CASE Finalize(w)
      BY <1>3, <2>6, FinalizeOutcome
    <2>7. CASE CheckJob(w) \/ FailEndedRun(w) \/ FailAfterCommit(w) \/ StopExecution(w) \/ RaiseError(w) \/ Crash(w)
      BY <1>5, <2>7 DEF CheckJob, FailEndedRun, FailAfterCommit, StopExecution, RaiseError, Crash
    <2> QED
      BY <1>7, <2>1, <2>2, <2>3, <2>4, <2>5, <2>6, <2>7 DEF WorkerStep
  <1>8. ASSUME NEW q \in Requests, ResumeStep(q) PROVE OutcomeSound(r)'
    <2>1. CASE ClaimResume(q) \/ ExpireResume(q) \/ RejectGraphVersion(q)
      BY <1>2, <1>3, <2>1, ResumeOutcome
    <2> QED
      BY <1>5, <1>8, <2>1 DEF ResumeStep, ReadResume, AbortResume
  <1>9. ASSUME NEW s \in Runs, CancelRun(s) PROVE OutcomeSound(r)'
    BY <1>3, <1>9, CancelOutcome
  <1>10. CASE ReapLostJobs
    BY <1>3, <1>10, ReapOutcome
  <1>11. ASSUME NEW s \in Runs, RepairTerminal(s) \/ InteractionDeadline(s) PROVE OutcomeSound(r)'
    BY <1>3, <1>11, RestOutcome
  <1>12. ASSUME NEW s \in Runs, NEW j \in Jobs, NEW c \in Conversations, NEW kind \in {"run", "replay"},
                AdmitRun(s, j, c, kind)
         PROVE  OutcomeSound(r)'
    BY <1>3, <1>12, RestOutcome
  <1>13. CASE UNCHANGED vars
    BY <1>5, <1>13 DEF vars
  <1> QED
    BY <1>6, <1>7, <1>8, <1>9, <1>10, <1>11, <1>12, <1>13 DEF Next

\* For any number of runs, jobs, workers and resume requests, with crashes, lost
\* leases, stops and late reports: a cancelled run has no reply, the stored close
\* signal describes the run, a phase that completed or paused is never left without its
\* control event, and the ledger is contiguous.  A run that a resume request ended on a
\* stale read is the exception: of it, only that it is over.
THEOREM OutcomesAreSound == Spec => []OutcomesSound
  <1>1. Init => OutcomesInv
    BY DEF Init, NoRun, NoOutput, IdleWorker, OutcomesInv, OverwrittenEnded, DueSound, OutcomeSound, Truthful
  <1>2. IInv /\ IInv' /\ OutcomesInv /\ [Next]_vars => OutcomesInv'
    BY OutcomesNext
  <1>3. OutcomesInv /\ LedgerContiguous => OutcomesSound
    BY DEF OutcomesInv, OverwrittenEnded, OutcomeSound, Truthful, OutcomesSound, NoReplyWhenCancelled,
           TerminalTruthful, LedgerClosed
  <1> QED
    BY <1>1, <1>2, <1>3, LedgerIsContiguous, Invariance, PTL DEF Spec

-----------------------------------------------------------------------------
(* The clients that follow a run: what a client has shown is what was       *)
(* written.                                                                *)

\* The cursors at which an answer delta is retained after a cursor, and how many they are.
DeltasAt(o, p, q) == {k \in (p + 1)..q : o.frames[k - o.min] = "answer_delta"}
After(o, p) == Cardinality(DeltasAt(o, p, o.cursor))

\* A ledger that was written to: whoever held a cursor that is still retained misses
\* as many deltas more as were added to the partial reply.
Grown(o, n) ==
    /\ o.cursor <= n.cursor /\ o.min <= n.min
    /\ \A p \in Nat : n.min <= p /\ p <= o.cursor => After(n, p) + o.partial = After(o, p) + n.partial

-----------------------------------------------------------------------------
(* Counting deltas. *)

LEMMA DeltasFinite ==
    ASSUME NEW o, NEW p \in Int, NEW q \in Int
    PROVE  IsFiniteSet(DeltasAt(o, p, q)) /\ Cardinality(DeltasAt(o, p, q)) \in Nat
<1>1. IsFiniteSet((p + 1)..q)
  BY FS_Interval
<1>2. DeltasAt(o, p, q) \in SUBSET ((p + 1)..q)
  BY DEF DeltasAt
<1>3. IsFiniteSet(DeltasAt(o, p, q))
  BY <1>1, <1>2, FS_Subset
<1> QED  BY <1>3, FS_CardinalityType

\* What is retained after a cursor is what lies up to a later one and what lies after that.
LEMMA DeltasSplit ==
    ASSUME NEW o, NEW p \in Int, NEW q \in Int, NEW e \in Int, p <= q, q <= e
    PROVE  Cardinality(DeltasAt(o, p, e)) = Cardinality(DeltasAt(o, p, q)) + Cardinality(DeltasAt(o, q, e))
<1>1. DeltasAt(o, p, e) = DeltasAt(o, p, q) \cup DeltasAt(o, q, e) /\ DeltasAt(o, p, q) \cap DeltasAt(o, q, e) = {}
  BY DEF DeltasAt
<1>2. Cardinality({}) = 0
  BY FS_EmptySet
<1>3. /\ IsFiniteSet(DeltasAt(o, p, q)) /\ IsFiniteSet(DeltasAt(o, q, e))
      /\ Cardinality(DeltasAt(o, p, q)) \in Nat /\ Cardinality(DeltasAt(o, q, e)) \in Nat
  BY DeltasFinite
<1>4. Cardinality(DeltasAt(o, p, q) \cup DeltasAt(o, q, e)) =
        Cardinality(DeltasAt(o, p, q)) + Cardinality(DeltasAt(o, q, e)) - Cardinality(DeltasAt(o, p, q) \cap DeltasAt(o, q, e))
  BY <1>3, FS_Union
<1> QED  BY <1>1, <1>2, <1>3, <1>4

LEMMA DeltasType == ASSUME NEW s \in Seq(Events) PROVE Deltas(s) \in Nat
<1>1. DOMAIN s = 1..Len(s) /\ Len(s) \in Int /\ 1 \in Int
  OBVIOUS
<1>2. IsFiniteSet(DOMAIN s)
  BY <1>1, FS_Interval
<1>3. {i \in DOMAIN s : s[i] = "answer_delta"} \in SUBSET DOMAIN s
  OBVIOUS
<1>4. IsFiniteSet({i \in DOMAIN s : s[i] = "answer_delta"})
  BY <1>2, <1>3, FS_Subset
<1> QED  BY <1>4, FS_CardinalityType DEF Deltas

\* A sequence that holds the frames of some cursors holds their deltas.
LEMMA DeltasShift ==
    ASSUME NEW o, o.min \in Nat, NEW p \in Nat, NEW s \in Seq(Events), \A i \in 1..Len(s) : s[i] = o.frames[p + i - o.min]
    PROVE  Deltas(s) = Cardinality(DeltasAt(o, p, p + Len(s)))
<1> DEFINE I == {i \in DOMAIN s : s[i] = "answer_delta"}
           K == DeltasAt(o, p, p + Len(s))
<1>1. DOMAIN s = 1..Len(s) /\ Len(s) \in Nat /\ o.min \in Nat
  OBVIOUS
<1>2. \A k : k \in K <=> k \in (p + 1)..(p + Len(s)) /\ o.frames[k - o.min] = "answer_delta"
  BY DEF DeltasAt
<1>3. \A i : i \in I <=> i \in 1..Len(s) /\ s[i] = "answer_delta"
  BY <1>1
<1> HIDE DEF I, K
<1>4. ASSUME NEW k \in K PROVE k \in Int /\ k - p \in I
  <2>1. k \in Int /\ k - p \in 1..Len(s) /\ p + (k - p) - o.min = k - o.min
    BY <1>1, <1>2
  <2>2. s[k - p] = o.frames[p + (k - p) - o.min]
    BY <2>1
  <2>3. o.frames[k - o.min] = "answer_delta"
    BY <1>2
  <2>4. s[k - p] = "answer_delta"
    BY <2>1, <2>2, <2>3
  <2> QED  BY <1>3, <2>1, <2>4
<1>5. ASSUME NEW i \in I PROVE i \in Int /\ p + i \in K /\ (p + i) - p = i
  <2>1. i \in 1..Len(s) /\ s[i] = "answer_delta"
    BY <1>3
  <2>2. i \in Int /\ p + i \in (p + 1)..(p + Len(s)) /\ (p + i) - p = i
    BY <1>1, <2>1
  <2>3. o.frames[(p + i) - o.min] = "answer_delta"
    BY <2>1
  <2> QED  BY <1>2, <2>2, <2>3
<1> DEFINE f == [k \in K |-> k - p]
<1>6. f \in [K -> I] /\ \A k \in K : f[k] = k - p
  BY <1>4
<1> HIDE DEF f
<1>7. f \in Bijection(K, I)
  <2>1. ASSUME NEW a \in K, NEW b \in K, f[a] = f[b] PROVE a = b
    <3>1. a - p = b - p /\ a \in Int /\ b \in Int
      BY <1>4, <1>6, <2>1
    <3> QED  BY <3>1
  <2>2. \A i \in I : \E k \in K : f[k] = i
    BY <1>5, <1>6
  <2>3. f \in Injection(K, I)
    BY <1>6, <2>1 DEF Injection, IsInjective
  <2>4. f \in Surjection(K, I)
    BY <1>6, <2>2 DEF Surjection
  <2> QED  BY <2>3, <2>4 DEF Bijection
<1>8. IsFiniteSet(K) /\ ExistsBijection(K, I)
  BY <1>1, <1>7, DeltasFinite DEF K, ExistsBijection
<1> QED  BY <1>8, FS_Bijection DEF Deltas, I, K

LEMMA Within ==
    ASSUME NEW S, NEW s \in Seq(S), NEW m \in Int, NEW n \in Int, m >= 1, n <= Len(s)
    PROVE  \A i \in m..n : s[i] \in S
<1> SUFFICES ASSUME NEW i \in m..n PROVE s[i] \in S
  OBVIOUS
<1>1. i \in 1..Len(s)
  OBVIOUS
<1> QED  BY <1>1, ElementOfSeq

\* The frames retained after a cursor.
LEMMA Remaining ==
    ASSUME NEW o \in OutputType, Retained(o), NEW p \in Nat, o.min <= p, p <= o.cursor
    PROVE  Deltas(SubSeq(o.frames, p - o.min + 1, Len(o.frames))) = After(o, p)
<1>1. o.cursor \in Nat /\ o.min \in Nat /\ o.frames \in Seq(Events) /\ Len(o.frames) = o.cursor - o.min
  BY DEF OutputType, Retained
<1> DEFINE m == p - o.min + 1
           n == Len(o.frames)
           s == SubSeq(o.frames, m, n)
<1>2. m \in Int /\ n \in Int /\ m >= 1 /\ n - m + 1 = o.cursor - p
  BY <1>1
<1>3. \A i \in m..n : o.frames[i] \in Events
  <2> DEFINE f == o.frames
  <2>1. f \in Seq(Events) /\ n \in Int /\ n <= Len(f)
    BY <1>1, <1>2
  <2> HIDE DEF f, m, n
  <2>2. \A i \in m..n : f[i] \in Events
    BY <1>2, <2>1, Within
  <2> QED  BY <2>2 DEF f
<1>4. s \in Seq(Events) /\ Len(s) = o.cursor - p /\ \A i \in 1..(n - m + 1) : s[i] = o.frames[m + i - 1]
  <2>1. s \in Seq(Events) /\ Len(s) = (IF m <= n THEN n - m + 1 ELSE 0) /\ \A i \in 1..(n - m + 1) : s[i] = o.frames[m + i - 1]
    <3> HIDE DEF m, n
    <3> QED  BY <1>2, <1>3, SubSeqProperties
  <2>2. o.cursor - p \in Nat
    BY <1>1
  <2> HIDE DEF m, n, s
  <2>3. Len(s) = o.cursor - p
    BY <1>2, <2>1, <2>2
  <2> QED  BY <2>1, <2>3
<1>5. \A i \in 1..Len(s) : s[i] = o.frames[p + i - o.min]
  <2>1. m = p - o.min + 1
    OBVIOUS
  <2> HIDE DEF m, n, s
  <2> SUFFICES ASSUME NEW i \in 1..Len(s) PROVE s[i] = o.frames[p + i - o.min]
    OBVIOUS
  <2>2. Len(s) = n - m + 1 /\ i \in 1..(n - m + 1)
    BY <1>2, <1>4
  <2>3. m + i - 1 = p + i - o.min
    BY <1>1, <2>1, <2>2
  <2>4. s[i] = o.frames[m + i - 1]
    BY <1>4, <2>2, Zenon
  <2> QED  BY <2>3, <2>4
<1>6. p + Len(s) = o.cursor
  BY <1>1, <1>4
<1> HIDE DEF s
<1>7. Deltas(s) = Cardinality(DeltasAt(o, p, p + Len(s)))
  BY <1>1, <1>4, <1>5, DeltasShift
<1> QED  BY <1>6, <1>7 DEF s, After

\* A prefix of a page.
LEMMA PrefixDeltas ==
    ASSUME NEW s \in Seq(Events), NEW k \in Int, k <= Len(s)
    PROVE  /\ SubSeq(s, 1, k) \in Seq(Events) /\ Deltas(SubSeq(s, 1, k)) \in Nat
           /\ k >= 0 => Len(SubSeq(s, 1, k)) = k /\ \A i \in 1..k : SubSeq(s, 1, k)[i] = s[i]
<1>1. \A i \in 1..k : s[i] \in Events
  OBVIOUS
<1>2. /\ SubSeq(s, 1, k) \in Seq(Events) /\ Len(SubSeq(s, 1, k)) = IF 1 <= k THEN k - 1 + 1 ELSE 0
      /\ \A i \in 1..(k - 1 + 1) : SubSeq(s, 1, k)[i] = s[1 + i - 1]
  BY <1>1, SubSeqProperties
<1> HIDE DEF Deltas
<1>3. k >= 0 => Len(SubSeq(s, 1, k)) = k /\ \A i \in 1..k : SubSeq(s, 1, k)[i] = s[i]
  BY <1>2
<1> QED  BY <1>2, <1>3, DeltasType

-----------------------------------------------------------------------------
(* The ledger grows. *)

LEMMA AfterType == ASSUME NEW o \in OutputType, NEW p \in Nat PROVE After(o, p) \in Nat
<1>1. o.cursor \in Int /\ p \in Int
  BY DEF OutputType
<1> QED  BY <1>1, DeltasFinite DEF After

\* A frame more: whoever is not overtaken by the pruning misses it, and no other.
LEMMA AppendGrown ==
    ASSUME NEW o \in OutputType, Retained(o), NEW event \in Events, NEW max \in Nat \ {0}
    PROVE  Grown(o, AppendFrame(o, event, max))
<1> DEFINE f == o.frames
           old == o.min
           cursor == o.cursor
           min == NewMin(o, max)
           cut == NewFrames(o, event, max)
<1>1. f \in Seq(Events) /\ old \in Nat /\ cursor \in Nat /\ old <= cursor /\ Len(f) = cursor - old /\ o.partial \in Nat
  BY DEF OutputType, Retained
<1>2. min \in Nat /\ old <= min /\ min <= cursor
  BY <1>1 DEF NewMin
<1>3. PICK n : n = AppendFrame(o, event, max)
  OBVIOUS
<1>4. /\ n.cursor = cursor + 1 /\ n.min = min /\ n.frames = cut
      /\ n.partial = IF event = "answer_delta" THEN o.partial + 1 ELSE o.partial
  BY <1>3 DEF AppendFrame
<1>5. ASSUME NEW i \in min + 1 .. cursor + 1 PROVE cut[i - min] = IF i = cursor + 1 THEN event ELSE f[i - old]
  BY <1>5, NewFrameAt
<1>6. ASSUME NEW p \in Nat, min <= p, p <= cursor PROVE After(n, p) + o.partial = After(o, p) + n.partial
  <2> DEFINE A == DeltasAt(o, p, cursor)
             B == DeltasAt(n, p, cursor + 1)
  <2>1. \A k : k \in A <=> k \in (p + 1)..cursor /\ f[k - old] = "answer_delta"
    BY DEF DeltasAt
  <2>2. \A k : k \in B <=> k \in (p + 1)..(cursor + 1) /\ cut[k - min] = "answer_delta"
    BY <1>4 DEF DeltasAt
  <2>3. After(o, p) = Cardinality(A) /\ After(n, p) = Cardinality(B)
    BY <1>4 DEF After
  <2>4. IsFiniteSet(A) /\ Cardinality(A) \in Nat
    BY <1>1, DeltasFinite
  <2> HIDE DEF A, B, min, f, old, cursor, cut
  <2>5. \A k \in (p + 1)..(cursor + 1) : k \in min + 1 .. cursor + 1
    BY <1>1, <1>2, <1>6
  <2>6. \A k : k \in B <=> k \in (p + 1)..(cursor + 1) /\ (IF k = cursor + 1 THEN event ELSE f[k - old]) = "answer_delta"
    BY <1>5, <2>2, <2>5
  <2>7. \A k : k \in (p + 1)..(cursor + 1) <=> k \in (p + 1)..cursor \/ k = cursor + 1
    BY <1>1, <1>6
  <2>8. cursor + 1 \notin (p + 1)..cursor
    BY <1>1
  <2>9. cursor + 1 \notin A
    BY <2>1, <2>8
  <2>10. CASE event = "answer_delta"
    <3>1. B = A \cup {cursor + 1}
      BY <2>1, <2>6, <2>7, <2>8, <2>10
    <3>2. Cardinality(B) = Cardinality(A) + 1
      BY <2>4, <2>9, <3>1, FS_AddElement
    <3> QED  BY <1>1, <1>4, <2>3, <2>4, <2>10, <3>2
  <2>11. CASE event # "answer_delta"
    <3>1. B = A
      BY <2>1, <2>6, <2>7, <2>8, <2>11
    <3> QED  BY <1>4, <2>3, <2>11, <3>1
  <2> QED  BY <2>10, <2>11
<1> QED  BY <1>1, <1>2, <1>3, <1>4, <1>6 DEF Grown

LEMMA SameGrown == ASSUME NEW o \in OutputType PROVE Grown(o, o)
BY DEF Grown, OutputType

LEMMA EmitGrown ==
    ASSUME NEW o \in OutputType, Retained(o), NEW event \in Events, NEW max \in Nat \ {0}
    PROVE  Grown(o, Emit(o, event, max))
BY AppendGrown, SameGrown DEF Emit

LEMMA RepairedGrown ==
    ASSUME NEW ru \in RunType, NEW o \in OutputType, Retained(o) PROVE Grown(o, Repaired(ru, o))
<1>1. CASE ru.status \in Terminal
  <2>1. Expected(ru.status) \in Events /\ DefaultMaxFrames \in Nat \ {0}
    BY <1>1, ConstantsAssumption DEF Expected, Terminal, Events, Control
  <2> QED  BY <1>1, <2>1, EmitGrown DEF Repaired
<1>2. CASE ru.status \notin Terminal
  BY <1>2, SameGrown DEF Repaired
<1> QED  BY <1>1, <1>2

LEMMA GrownTwice ==
    ASSUME NEW o \in OutputType, NEW m \in OutputType, NEW n \in OutputType, Grown(o, m), Grown(m, n) PROVE Grown(o, n)
<1>1. /\ {o.cursor, m.cursor, n.cursor, o.min, m.min, n.min, o.partial, m.partial, n.partial} \subseteq Nat
      /\ o.cursor <= m.cursor /\ m.cursor <= n.cursor /\ o.min <= m.min /\ m.min <= n.min
  BY DEF OutputType, Grown
<1>2. ASSUME NEW p \in Nat, n.min <= p, p <= o.cursor PROVE After(n, p) + o.partial = After(o, p) + n.partial
  <2>1. m.min <= p /\ p <= m.cursor
    BY <1>1, <1>2
  <2>2. After(m, p) + o.partial = After(o, p) + m.partial /\ After(n, p) + m.partial = After(m, p) + n.partial
    BY <1>2, <2>1 DEF Grown
  <2>3. After(o, p) \in Nat /\ After(m, p) \in Nat /\ After(n, p) \in Nat
    BY AfterType
  <2> QED  BY <1>1, <2>2, <2>3
<1> QED  BY <1>1, <1>2 DEF Grown

\* Every step of the durable protocol lets every ledger grow.
LEMMA OutGrows == ASSUME IInv, IInv', [Next]_vars, NEW r \in Runs PROVE Grown(out[r], out'[r])
<1>0. /\ \A s \in Runs : out[s] \in OutputType /\ Retained(out[s]) /\ run[s] \in RunType
      /\ MaxFrames \in Nat \ {0} /\ DefaultMaxFrames \in Nat \ {0} /\ "run_cancelled" \in Events
  BY ConstantsAssumption DEF IInv, TypeOK, Ledger, Events, Control
<1>1. ASSUME NEW s \in Runs, NEW o, Grown(out[s], o), out' = [out EXCEPT ![s] = o] PROVE Grown(out[r], out'[r])
  BY <1>0, <1>1, OutReplaced, SameGrown
<1>2. CASE UNCHANGED out
  BY <1>0, <1>2, SameGrown
<1>3. CASE ReapLostJobs
  <2> DEFINE ru == IF r \in LostRuns THEN FailedRun(run[r]) ELSE run[r]
             o == IF r \in LostRuns THEN Repaired(ru, out[r]) ELSE out[r]
             new == run'[r]
  <2>1. ru \in RunType /\ new \in RunType
    BY <1>0, FailedKept DEF IInv, TypeOK
  <2>2. out'[r] = IF WaitedTooLong(ru) THEN Repaired(new, o) ELSE o
    <3>1. run'[r] = ReapedRun(r) /\ out'[r] = ReapedOut(r)
      BY <1>3 DEF ReapLostJobs
    <3> QED  BY <3>1 DEF ReapedRun, ReapedOut
  <2> HIDE DEF ru, new
  <2>3. o \in OutputType /\ Retained(o) /\ Grown(out[r], o)
    BY <1>0, <2>1, RepairedType, RepairedGrown, SameGrown
  <2> HIDE DEF o
  <2>4. Repaired(new, o) \in OutputType /\ Grown(o, Repaired(new, o))
    BY <2>1, <2>3, RepairedType, RepairedGrown
  <2>5. Grown(out[r], Repaired(new, o))
    BY <1>0, <2>3, <2>4, GrownTwice
  <2> QED  BY <2>2, <2>3, <2>5
<1>4. ASSUME NEW q \in Requests, ClaimResume(q) PROVE Grown(out[r], out'[r])
  <2> DEFINE s == req[q].run
             o == [out[s] EXCEPT !.terminal = None, !.tcursor = 0]
  <2>1. s \in Runs
    BY <1>4 DEF ClaimResume, IInv, Inductive, LockedRows
  <2>2. out' = [out EXCEPT ![s] = o]
    BY <1>4, <2>1 DEF ClaimResume, IInv, TypeOK
  <2>3. o.cursor = out[s].cursor /\ o.min = out[s].min /\ o.frames = out[s].frames /\ o.partial = out[s].partial
    BY <1>0, <2>1 DEF OutputType
  <2> HIDE DEF o
  <2>4. Grown(out[s], o)
    <3>1. \A p \in Nat : After(o, p) = After(out[s], p)
      BY <2>3 DEF After, DeltasAt
    <3>2. out[s].cursor \in Nat /\ out[s].min \in Nat
      BY <1>0, <2>1 DEF OutputType
    <3> QED  BY <2>3, <3>1, <3>2 DEF Grown
  <2> QED  BY <1>1, <2>1, <2>2, <2>4
<1>5. ASSUME NEW s \in Runs, NEW event \in Events, NEW max \in Nat \ {0}, out' = [out EXCEPT ![s] = Emit(@, event, max)]
      PROVE  Grown(out[r], out'[r])
  <2> DEFINE o == Emit(out[s], event, max)
  <2>1. Grown(out[s], o) /\ out' = [out EXCEPT ![s] = o]
    BY <1>0, <1>5, EmitGrown
  <2> HIDE DEF o
  <2> QED  BY <1>1, <2>1
<1>6. ASSUME NEW s \in Runs, NEW ru \in RunType, out' = [out EXCEPT ![s] = Repaired(ru, @)] PROVE Grown(out[r], out'[r])
  <2> DEFINE o == Repaired(ru, out[s])
  <2>1. Grown(out[s], o) /\ out' = [out EXCEPT ![s] = o]
    BY <1>0, <1>6, RepairedGrown
  <2> HIDE DEF o
  <2> QED  BY <1>1, <2>1
<1>7. ASSUME NEW w \in Workers, Finalize(w) PROVE Grown(out[r], out'[r])
  <2>1. RunOf(w) \in Runs
    BY <1>7, Busy DEF Finalize
  <2>2. UNCHANGED out \/ \E ru \in RunType : out' = [out EXCEPT ![RunOf(w)] = Repaired(ru, @)]
    <3>1. run[RunOf(w)] \in RunType /\ FailedRun(run[RunOf(w)]) \in RunType
      BY <1>0, <2>1, FailedKept
    <3> QED  BY <1>7, <3>1 DEF Finalize, RunOf
  <2> QED  BY <1>2, <1>6, <2>1, <2>2
<1>8. \A w \in Workers : worker[w].pc # "idle" => RunOf(w) \in Runs
  BY Busy
<1> QED  BY <1>0, <1>2, <1>3, <1>4, <1>5, <1>6, <1>7, <1>8, LedgerWrites

-----------------------------------------------------------------------------
(* What a client holds. *)

ClientRow ==
    [pc : Listening \cup {"off", "away", "closed", "expired"}, run : Runs \cup {None},
     pos : Nat, text : Nat, status : RunStatus \cup {"absent"}, from : Nat,
     page : Seq(Events), closedBy : Control \cup {None}, skipped : BOOLEAN]

\* What was shown and what is retained after the cursor make up the partial reply.
Caught(cl, o) == ~cl.skipped /\ cl.pos >= o.min => cl.text + After(o, cl.pos) = o.partial

\* The same for every prefix of a page that was read and not yet delivered.
PageCaught(cl, o) ==
    ~cl.skipped /\ cl.from = cl.pos =>
        \A k \in 0..Len(cl.page) :
            cl.from + k >= o.min => cl.text + Deltas(SubSeq(cl.page, 1, k)) + After(o, cl.from + k) = o.partial

\* The page in hand reaches no further than the ledger.
PageRead(cl, o) ==
    cl.pc = "close" => cl.from >= cl.pos /\ cl.from + Len(cl.page) <= o.cursor /\ PageCaught(cl, o)

Outcomes == {"run_completed", "run_failed", "run_cancelled"}

\* How a stream closed is how the run ended, unless that was overwritten.
Told(cl, runs) ==
    \/ runs[cl.run].overwritten
    \/ runs[cl.run].status \in {"completed", "failed", "cancelled"} /\ cl.closedBy = Expected(runs[cl.run].status)

\* A client row against the run and the ledger it follows.
Follows(cl, runs, outs) ==
    /\ cl \in ClientRow
    /\ cl.pc = "off" => cl.run = None /\ cl.pos = 0 /\ cl.text = 0 /\ ~cl.skipped /\ cl.closedBy = None
    /\ cl.pc # "off" => cl.run \in Runs
    /\ cl.run # None => cl.pos <= outs[cl.run].cursor /\ Caught(cl, outs[cl.run]) /\ PageRead(cl, outs[cl.run])
    /\ cl.closedBy \in Outcomes => cl.run \in Runs /\ Told(cl, runs)

\* While nothing was pruned, the ledger holds every delta of the partial reply.
Whole(o) == o.min = 0 => After(o, 0) = o.partial

StreamInv ==
    /\ client \in [Clients -> ClientRow]
    /\ \A c \in Clients : Follows(client[c], run, out)
    /\ \A r \in Runs : Whole(out[r])

LEMMA Balance ==
    ASSUME NEW t \in Nat, NEW a \in Nat, NEW x \in Nat, NEW b \in Nat, NEW y \in Nat, t + a = x, b + x = a + y
    PROVE  t + b = y
OBVIOUS

\* What a client holds stays right while the ledger grows.
LEMMA CaughtGrown ==
    ASSUME NEW cl \in ClientRow, NEW o \in OutputType, NEW n \in OutputType, Grown(o, n),
           cl.pos <= o.cursor, Caught(cl, o), PageRead(cl, o)
    PROVE  cl.pos <= n.cursor /\ Caught(cl, n) /\ PageRead(cl, n)
<1>1. /\ {cl.pos, cl.text, cl.from} \subseteq Nat /\ cl.page \in Seq(Events)
      /\ {o.cursor, o.min, o.partial, n.cursor, n.min, n.partial} \subseteq Nat
      /\ o.cursor <= n.cursor /\ o.min <= n.min
  BY DEF ClientRow, OutputType, Grown
<1>2. ASSUME NEW p \in Nat, n.min <= p, p <= o.cursor
      PROVE  After(n, p) + o.partial = After(o, p) + n.partial /\ After(n, p) \in Nat /\ After(o, p) \in Nat
  BY <1>2, AfterType DEF Grown
<1>3. Caught(cl, n)
  <2> SUFFICES ASSUME ~cl.skipped, cl.pos >= n.min PROVE cl.text + After(n, cl.pos) = n.partial
    BY DEF Caught
  <2>1. cl.text + After(o, cl.pos) = o.partial
    BY <1>1 DEF Caught
  <2>2. After(n, cl.pos) + o.partial = After(o, cl.pos) + n.partial /\ After(n, cl.pos) \in Nat /\ After(o, cl.pos) \in Nat
    BY <1>1, <1>2
  <2>3. cl.text \in Nat /\ o.partial \in Nat /\ n.partial \in Nat
    BY <1>1
  <2> QED  BY <2>1, <2>2, <2>3, Balance
<1>4. ASSUME cl.pc = "close" PROVE PageCaught(cl, n)
  <2> SUFFICES ASSUME ~cl.skipped, cl.from = cl.pos, NEW k \in 0..Len(cl.page), cl.from + k >= n.min
               PROVE  cl.text + Deltas(SubSeq(cl.page, 1, k)) + After(n, cl.from + k) = n.partial
    BY DEF PageCaught
  <2> DEFINE p == cl.from + k
             d == Deltas(SubSeq(cl.page, 1, k))
  <2>1. p \in Nat /\ p <= o.cursor /\ p >= o.min /\ p >= n.min
    BY <1>1, <1>4 DEF PageRead
  <2>2. cl.text + d + After(o, p) = o.partial
    BY <1>4, <2>1 DEF PageRead, PageCaught
  <2>3. d \in Nat
    BY <1>1, PrefixDeltas
  <2> HIDE DEF p, d
  <2>4. After(n, p) + o.partial = After(o, p) + n.partial /\ After(n, p) \in Nat /\ After(o, p) \in Nat
    BY <1>2, <2>1
  <2>5. cl.text + d \in Nat /\ o.partial \in Nat /\ n.partial \in Nat
    BY <1>1, <2>3
  <2>6. cl.text + d + After(n, p) = n.partial
    BY <2>2, <2>4, <2>5, Balance
  <2> QED  BY <2>6 DEF p, d
<1> QED  BY <1>1, <1>3, <1>4 DEF PageRead

\* A step of the durable protocol, the clients looking on.
LEMMA ProtocolStep ==
    ASSUME IInv, IInv', OverwrittenEnded, StreamInv, [Next]_vars, UNCHANGED client
    PROVE  StreamInv'
<1>1. \A r \in Runs : out[r] \in OutputType /\ out'[r] \in OutputType /\ Grown(out[r], out'[r])
  BY OutGrows DEF IInv, TypeOK
<1>2. ASSUME NEW c \in Clients PROVE Follows(client[c], run', out')
  <2> DEFINE cl == client[c]
  <2>1. Follows(cl, run, out)
    BY DEF StreamInv
  <2>2. cl.run # None => cl.run \in Runs
    BY <2>1 DEF Follows
  <2> HIDE DEF cl
  <2>3. ASSUME cl.run # None
        PROVE  cl.pos <= out'[cl.run].cursor /\ Caught(cl, out'[cl.run]) /\ PageRead(cl, out'[cl.run])
    BY <1>1, <2>1, <2>2, <2>3, CaughtGrown DEF Follows
  <2>4. ASSUME cl.closedBy \in Outcomes PROVE cl.run \in Runs /\ Told(cl, run')
    <3>1. cl.run \in Runs /\ Told(cl, run)
      BY <2>1, <2>4 DEF Follows
    <3>2. CASE run'[cl.run].overwritten
      BY <3>1, <3>2 DEF Told
    <3>3. CASE ~run'[cl.run].overwritten
      <4>1. ~run[cl.run].overwritten
        BY <3>1, <3>3, OverwrittenNext
      <4> QED  BY <3>1, <3>3, <4>1, EndsKept DEF Told
    <3> QED  BY <3>1, <3>2, <3>3
  <2> QED  BY <2>1, <2>3, <2>4 DEF Follows, cl
<1>3. ASSUME NEW r \in Runs PROVE Whole(out'[r])
  <2> DEFINE o == out[r]
             n == out'[r]
  <2>1. o \in OutputType /\ n \in OutputType /\ Grown(o, n) /\ Whole(o)
    BY <1>1 DEF StreamInv
  <2> HIDE DEF o, n
  <2>2. {o.cursor, o.min, o.partial, n.cursor, n.min, n.partial} \subseteq Nat /\ After(o, 0) \in Nat /\ After(n, 0) \in Nat
    BY <2>1, AfterType DEF OutputType
  <2> SUFFICES ASSUME n.min = 0 PROVE After(n, 0) = n.partial
    BY DEF Whole, n
  <2>3. o.min = 0 /\ After(n, 0) + o.partial = After(o, 0) + n.partial
    BY <2>1, <2>2 DEF Grown
  <2> QED  BY <2>1, <2>2, <2>3 DEF Whole
<1> QED  BY <1>2, <1>3 DEF StreamInv

-----------------------------------------------------------------------------
(* The steps of a client, the ledger unchanged. *)

LEMMA ClientMoves ==
    ASSUME StreamInv, NEW c \in Clients, NEW x, Follows(x, run, out), client' = [client EXCEPT ![c] = x], UNCHANGED vars
    PROVE  StreamInv'
<1>1. UNCHANGED <<run, out>>
  BY DEF vars
<1>2. x \in ClientRow
  BY DEF Follows
<1>3. client' \in [Clients -> ClientRow]
  BY <1>2 DEF StreamInv
<1>4. ASSUME NEW d \in Clients PROVE Follows(client'[d], run, out)
  BY DEF StreamInv
<1> QED  BY <1>1, <1>3, <1>4 DEF StreamInv

\* The row of a client, and the ledger it reads.
LEMMA RowFacts ==
    ASSUME IInv, StreamInv, NEW c \in Clients
    PROVE  /\ client[c] \in ClientRow /\ Follows(client[c], run, out) /\ client \in [Clients -> ClientRow]
           /\ client[c].pc # "off" => client[c].run \in Runs /\ client[c].run # None
                                      /\ out[client[c].run] \in OutputType /\ Retained(out[client[c].run])
BY ConstantsAssumption DEF IInv, TypeOK, Ledger, StreamInv, Follows

\* Giving up the poll in hand keeps cursor and text.
LEMMA PollEnds ==
    ASSUME IInv, StreamInv, NEW c \in Clients, client[c].pc # "off", NEW pc \in {"poll", "away", "closed", "expired"}
    PROVE  Follows(EndPoll(client[c], pc), run, out)
<1> DEFINE cl == client[c]
           x == EndPoll(cl, pc)
<1>1. cl \in ClientRow /\ Follows(cl, run, out) /\ cl.run \in Runs
  BY RowFacts
<1>2. <<>> \in Seq(Events)
  OBVIOUS
<1> HIDE DEF cl
<1>3. /\ x \in ClientRow /\ x.pc = pc /\ x.run = cl.run /\ x.pos = cl.pos /\ x.text = cl.text
      /\ x.closedBy = cl.closedBy /\ x.skipped = cl.skipped
  BY <1>1, <1>2 DEF EndPoll, ClientRow, Listening
<1> HIDE DEF x
<1>4. Follows(x, run, out)
  BY <1>1, <1>3 DEF Follows, Told, Caught, PageRead
<1> QED  BY <1>4 DEF x, cl

\* The snapshot gives the partial reply and the cursor it was read at.
LEMMA SnapshotFollows ==
    ASSUME IInv, StreamInv, NEW c \in Clients, NEW r \in Runs, TakeSnapshot(c, r) PROVE StreamInv'
<1> DEFINE o == out[r]
           x == FromSnapshot(r)
<1>1. o \in OutputType /\ o.cursor \in Nat /\ o.partial \in Nat
  BY DEF IInv, TypeOK, OutputType
<1>2. <<>> \in Seq(Events)
  OBVIOUS
<1>3. After(o, o.cursor) = 0
  <2>1. DeltasAt(o, o.cursor, o.cursor) = {}
    BY <1>1 DEF DeltasAt
  <2> QED  BY <2>1, FS_EmptySet DEF After
<1>4. /\ x \in ClientRow /\ x.pc = "poll" /\ x.run = r /\ x.pos = o.cursor /\ x.text = o.partial
      /\ x.closedBy = None /\ ~x.skipped
  BY <1>1, <1>2 DEF FromSnapshot, NoClient, ClientRow, Listening
<1>5. client' = [client EXCEPT ![c] = x] /\ UNCHANGED vars
  BY DEF TakeSnapshot
<1> HIDE DEF x
<1>6. Follows(x, run, out)
  BY <1>1, <1>3, <1>4, NoneAssumption DEF Follows, Caught, PageRead, Outcomes, Events, Control
<1> QED  BY <1>5, <1>6, ClientMoves

\* A client comes back with its cursor, or starts from the first frame.
LEMMA SubscribeFollows ==
    ASSUME IInv, StreamInv, NEW c \in Clients, NEW r \in Runs, Subscribe(c, r) PROVE StreamInv'
<1> DEFINE cl == client[c]
           o == out[r]
           pc == IF cl.pos < o.min THEN "expired" ELSE "poll"
           x == [cl EXCEPT !.pc = pc, !.run = r, !.closedBy = None]
<1>1. cl \in ClientRow /\ Follows(cl, run, out) /\ client \in [Clients -> ClientRow]
  BY RowFacts
<1>2. o \in OutputType /\ o.cursor \in Nat /\ o.min \in Nat /\ Retained(o) /\ Whole(o)
  BY DEF IInv, TypeOK, Ledger, OutputType, StreamInv
<1>3. \/ cl.pc \in {"away", "closed"} /\ cl.run = r
      \/ cl.pc = "off"
  BY DEF Subscribe
<1>4. client' = [client EXCEPT ![c] = x] /\ UNCHANGED vars
  BY <1>1 DEF Subscribe
<1>5. cl.pos <= o.cursor /\ Caught(cl, o)
  <2>1. CASE cl.pc = "off"
    <3>1. cl.pos = 0 /\ cl.text = 0 /\ After(o, 0) \in Nat
      BY <1>1, <1>2, <2>1, AfterType DEF Follows
    <3> HIDE DEF cl, o
    <3>2. cl.pos >= o.min => After(o, cl.pos) = o.partial
      BY <1>2, <3>1 DEF Whole
    <3> QED  BY <1>2, <3>1, <3>2 DEF Caught
  <2>2. CASE cl.pc \in {"away", "closed"} /\ cl.run = r
    <3>1. cl.run # None
      BY <2>2, ConstantsAssumption
    <3> QED  BY <1>1, <2>2, <3>1 DEF Follows
  <2> QED  BY <1>3, <2>1, <2>2
<1> HIDE DEF cl
<1>6. /\ x \in ClientRow /\ x.pc \in {"expired", "poll"} /\ x.run = r /\ x.pos = cl.pos /\ x.text = cl.text
      /\ x.closedBy = None /\ x.skipped = cl.skipped
  BY <1>1 DEF ClientRow, Listening
<1> HIDE DEF x
<1>7. Follows(x, run, out)
  BY <1>5, <1>6, NoneAssumption DEF Follows, Caught, PageRead, Outcomes, Events, Control
<1> QED  BY <1>4, <1>7, ClientMoves

\* Reading the status, or passing the check of the cursor, moves nothing else.
LEMMA WaitFollows ==
    ASSUME IInv, StreamInv, NEW c \in Clients, PollStatus(c) \/ PollValidate(c) \/ Disconnect(c) PROVE StreamInv'
<1> DEFINE cl == client[c]
<1>1. cl \in ClientRow /\ Follows(cl, run, out) /\ client \in [Clients -> ClientRow]
  BY RowFacts
<1>2. cl.pc \in Listening /\ cl.pc # "off" /\ cl.run \in Runs /\ run[cl.run] \in RunType /\ UNCHANGED vars
  BY RowFacts DEF PollStatus, PollValidate, Disconnect, Listening, IInv, TypeOK
<1>3. ASSUME NEW pc \in Listening \ {"close"}, NEW status \in RunStatus \cup {"absent"},
             client' = [client EXCEPT ![c] = [cl EXCEPT !.pc = pc, !.status = status]]
      PROVE  StreamInv'
  <2> DEFINE x == [cl EXCEPT !.pc = pc, !.status = status]
  <2>1. client' = [client EXCEPT ![c] = x]
    BY <1>3
  <2> HIDE DEF cl
  <2>2. /\ x \in ClientRow /\ x.pc = pc /\ x.run = cl.run /\ x.pos = cl.pos /\ x.text = cl.text
        /\ x.closedBy = cl.closedBy /\ x.skipped = cl.skipped
    BY <1>1, <1>3 DEF ClientRow
  <2> HIDE DEF x
  <2>3. Follows(x, run, out)
    BY <1>1, <1>2, <1>3, <2>2 DEF Follows, Told, Caught, PageRead, Listening
  <2> QED  BY <1>2, <2>1, <2>3, ClientMoves
<1>4. ASSUME NEW pc \in {"poll", "away", "closed", "expired"}, client' = [client EXCEPT ![c] = EndPoll(cl, pc)] PROVE StreamInv'
  <2>1. Follows(EndPoll(cl, pc), run, out)
    BY <1>2, PollEnds
  <2> QED  BY <1>2, <1>4, <2>1, ClientMoves
<1>5. CASE PollStatus(c)
  <2>1. client' = [client EXCEPT ![c] = [cl EXCEPT !.pc = "validate", !.status = run[cl.run].status]]
    BY <1>1, <1>5 DEF PollStatus
  <2>2. run[cl.run].status \in RunStatus \cup {"absent"}
    BY <1>2 DEF RunType
  <2> QED  BY <1>3, <2>1, <2>2 DEF Listening
<1>6. CASE Disconnect(c)
  BY <1>4, <1>6 DEF Disconnect
<1>7. CASE PollValidate(c)
  <2>1. CASE cl.pos < out[cl.run].min
    <3>1. client' = [client EXCEPT ![c] = EndPoll(cl, "expired")]
      BY <1>1, <1>7, <2>1 DEF PollValidate
    <3> QED  BY <1>4, <3>1
  <2>2. CASE ~(cl.pos < out[cl.run].min)
    <3>1. client' = [client EXCEPT ![c] = [cl EXCEPT !.pc = "list"]]
      BY <1>1, <1>7, <2>2 DEF PollValidate
    <3>2. [cl EXCEPT !.pc = "list"] = [cl EXCEPT !.pc = "list", !.status = cl.status] /\ cl.status \in RunStatus \cup {"absent"}
      BY <1>1 DEF ClientRow
    <3> QED  BY <1>3, <3>1, <3>2 DEF Listening
  <2> QED  BY <2>1, <2>2
<1> QED  BY <1>5, <1>6, <1>7

\* list_frames returns the frames right after the cursor, or after the pruned ones.
LEMMA PageIs ==
    ASSUME NEW o \in OutputType, Retained(o), NEW pos \in Nat, pos <= o.cursor
    PROVE  LET from == IF pos > o.min THEN pos ELSE o.min
               page == FramesAfter(o, pos)
           IN  /\ from \in Nat /\ from >= pos /\ from >= o.min
               /\ page \in Seq(Events) /\ from + Len(page) <= o.cursor
               /\ \A i \in 1..Len(page) : page[i] = o.frames[from + i - o.min]
<1>1. o.cursor \in Nat /\ o.min \in Nat /\ o.frames \in Seq(Events) /\ Len(o.frames) = o.cursor - o.min /\ o.min <= o.cursor
  BY DEF OutputType, Retained
<1> DEFINE from == IF pos > o.min THEN pos ELSE o.min
           skip == IF pos > o.min THEN pos - o.min ELSE 0
           m == skip + 1
           n == IF skip + PageSize < Len(o.frames) THEN skip + PageSize ELSE Len(o.frames)
           page == FramesAfter(o, pos)
<1>2. from \in Nat /\ from >= pos /\ from >= o.min /\ from <= o.cursor /\ skip \in Nat /\ skip = from - o.min
  BY <1>1
<1>3. m = skip + 1 /\ m \in Nat /\ n \in Nat /\ n <= Len(o.frames) /\ m >= 1 /\ skip <= n
  BY <1>1, <1>2, PageAssumption
<1>4. page = SubSeq(o.frames, m, n)
  BY DEF FramesAfter
<1> HIDE DEF from, skip, m, n, page
<1>5. \A i \in m..n : o.frames[i] \in Events
  <2> DEFINE f == o.frames
  <2>1. f \in Seq(Events) /\ m \in Int /\ n \in Int /\ m >= 1 /\ n <= Len(f)
    BY <1>1, <1>3
  <2> HIDE DEF f
  <2>2. \A i \in m..n : f[i] \in Events
    BY <2>1, Within
  <2> QED  BY <2>2 DEF f
<1>6. /\ page \in Seq(Events) /\ Len(page) = (IF m <= n THEN n - m + 1 ELSE 0)
      /\ \A i \in 1..(n - m + 1) : page[i] = o.frames[m + i - 1]
  BY <1>3, <1>4, <1>5, SubSeqProperties
<1>7. Len(page) = n - skip /\ n - skip \in Nat
  <2>1. n - skip \in Nat /\ (m <= n => n - m + 1 = n - skip) /\ (~(m <= n) => n - skip = 0)
    BY <1>2, <1>3
  <2> QED  BY <1>6, <2>1
<1>8. from + Len(page) <= o.cursor
  <2>1. n \in Nat /\ n <= o.cursor - o.min /\ from = skip + o.min /\ skip \in Nat
    BY <1>1, <1>2, <1>3
  <2>2. from + (n - skip) <= o.cursor
    BY <1>1, <2>1
  <2> QED  BY <1>7, <2>2
<1>9. ASSUME NEW i \in 1..Len(page) PROVE page[i] = o.frames[from + i - o.min]
  <2>1. n - m + 1 = n - skip /\ i \in Int /\ m + i - 1 = skip + i
    BY <1>2, <1>3
  <2>2. i \in 1..(n - m + 1)
    BY <1>7, <2>1
  <2>3. page[i] = o.frames[m + i - 1]
    BY <1>6, <2>2, Zenon
  <2>4. skip + i = from + i - o.min
    BY <1>1, <1>2, <2>1
  <2> QED  BY <2>1, <2>3, <2>4
<1>10. /\ from \in Nat /\ from >= pos /\ from >= o.min
       /\ page \in Seq(Events) /\ from + Len(page) <= o.cursor
       /\ \A i \in 1..Len(page) : page[i] = o.frames[from + i - o.min]
  BY <1>2, <1>6, <1>8, <1>9
<1> QED  BY <1>10 DEF from, page

\* Reading the page.
LEMMA FramesFollow ==
    ASSUME IInv, StreamInv, NEW c \in Clients, PollFrames(c) PROVE StreamInv'
<1> DEFINE cl == client[c]
           o == out[cl.run]
           from == IF cl.pos > o.min THEN cl.pos ELSE o.min
           page == FramesAfter(o, cl.pos)
           x == [cl EXCEPT !.pc = "close", !.page = page, !.from = from]
<1>1. cl.pc = "list" /\ UNCHANGED vars
  BY DEF PollFrames
<1>2. /\ cl \in ClientRow /\ Follows(cl, run, out) /\ client \in [Clients -> ClientRow] /\ cl.run \in Runs /\ cl.run # None
      /\ o \in OutputType /\ Retained(o)
  BY <1>1, RowFacts
<1>3. client' = [client EXCEPT ![c] = x]
  BY <1>2 DEF PollFrames
<1>4. cl.pos \in Nat /\ cl.text \in Nat /\ cl.pos <= o.cursor /\ Caught(cl, o)
  BY <1>2 DEF ClientRow, Follows
<1>5. /\ from \in Nat /\ from >= cl.pos /\ from >= o.min
      /\ page \in Seq(Events) /\ from + Len(page) <= o.cursor
      /\ \A i \in 1..Len(page) : page[i] = o.frames[from + i - o.min]
  BY <1>2, <1>4, PageIs
<1>6. o.min \in Nat /\ o.cursor \in Nat /\ o.partial \in Nat
  BY <1>2 DEF OutputType
<1> HIDE DEF cl, o, from, page
<1>7. /\ x \in ClientRow /\ x.pc = "close" /\ x.run = cl.run /\ x.pos = cl.pos /\ x.text = cl.text
      /\ x.from = from /\ x.page = page /\ x.closedBy = cl.closedBy /\ x.skipped = cl.skipped
  BY <1>2, <1>5 DEF ClientRow, Listening
<1> HIDE DEF x
<1>8. PageCaught(x, o)
  <2> SUFFICES ASSUME ~cl.skipped, from = cl.pos, NEW k \in 0..Len(page), from + k >= o.min
               PROVE  cl.text + Deltas(SubSeq(page, 1, k)) + After(o, from + k) = o.partial
    BY <1>7 DEF PageCaught
  <2> DEFINE s == SubSeq(page, 1, k)
  <2>1. k \in Int /\ k >= 0 /\ k <= Len(page) /\ from \in Nat /\ from + k \in Nat /\ from + k <= o.cursor
    BY <1>5, <1>6
  <2>2. s \in Seq(Events) /\ Deltas(s) \in Nat /\ Len(s) = k /\ \A i \in 1..k : s[i] = page[i]
    BY <1>5, <2>1, PrefixDeltas
  <2> HIDE DEF s
  <2>3. \A i \in 1..Len(s) : s[i] = o.frames[from + i - o.min]
    <3> SUFFICES ASSUME NEW i \in 1..Len(s) PROVE s[i] = o.frames[from + i - o.min]
      OBVIOUS
    <3>1. i \in 1..k /\ i \in 1..Len(page)
      BY <1>5, <2>1, <2>2
    <3> QED  BY <1>5, <2>2, <3>1
  <2>4. Deltas(s) = Cardinality(DeltasAt(o, from, from + k))
    BY <1>5, <1>6, <2>2, <2>3, DeltasShift
  <2>5. After(o, from) = Cardinality(DeltasAt(o, from, from + k)) + After(o, from + k)
    <3>1. from \in Int /\ from + k \in Int /\ o.cursor \in Int /\ from <= from + k /\ from + k <= o.cursor
      BY <1>6, <2>1
    <3> QED  BY <3>1, DeltasSplit DEF After
  <2>6. cl.text + After(o, from) = o.partial
    BY <1>4, <1>5 DEF Caught
  <2>7. After(o, from + k) \in Nat
    BY <1>2, <2>1, AfterType DEF o
  <2> DEFINE a == After(o, from + k)
             d == Deltas(s)
  <2>8. a \in Nat /\ d \in Nat /\ cl.text + (d + a) = o.partial
    BY <2>2, <2>4, <2>5, <2>6, <2>7
  <2> HIDE DEF a, d
  <2>9. cl.text + d + a = o.partial
    BY <1>4, <2>8
  <2> QED  BY <2>9 DEF a, d, s
<1>9. Follows(x, run, out)
  <2>1. Caught(x, o)
    BY <1>4, <1>7 DEF Caught
  <2>2. PageRead(x, o) /\ x.pos <= o.cursor
    BY <1>4, <1>5, <1>7, <1>8 DEF PageRead
  <2> QED  BY <1>2, <1>7, <2>1, <2>2 DEF Follows, Told, o
<1> QED  BY <1>1, <1>3, <1>9, ClientMoves DEF cl

\* How far a delivery gets: to the end of the page, or to the event that closes the stream.
LEMMA DeliveryIs ==
    ASSUME IInv, StreamInv, NEW c \in Clients, client[c].pc = "close"
    PROVE  LET cl == client[c]
               o  == out[cl.run]
               d  == Deliverable(c)
           IN  /\ d.last \in Nat /\ d.last <= o.cursor /\ d.deltas \in Nat
               /\ d.deltas = Deltas(SubSeq(cl.page, 1, d.last - cl.from))
               /\ cl.from = cl.pos => d.last - cl.from \in 0..Len(cl.page)
               /\ d.event \in {o.terminal, None}
<1> DEFINE cl == client[c]
           o == out[cl.run]
           from == cl.from
           len == Len(cl.page)
           reached == IF cl.page = <<>> THEN cl.pos ELSE from + len
           end == IF cl.status \in Terminal /\ o.terminal # None THEN o.tcursor ELSE 0
           within == end > from /\ end <= reached
           last == IF within THEN end ELSE reached
           event == IF within \/ (end # 0 /\ end <= reached) THEN o.terminal ELSE None
           d == Deliverable(c)
<1>1. d = [last |-> last, deltas |-> Deltas(SubSeq(cl.page, 1, last - from)), event |-> event]
  BY DEF Deliverable
<1>2. d.last = last /\ d.deltas = Deltas(SubSeq(cl.page, 1, last - from)) /\ d.event = event
  BY <1>1
<1>3. cl \in ClientRow /\ Follows(cl, run, out) /\ cl.run \in Runs /\ cl.run # None /\ o \in OutputType
  BY RowFacts
<1>4. /\ {cl.pos, from, end, o.cursor} \subseteq Nat /\ cl.page \in Seq(Events) /\ len \in Nat
      /\ cl.pos <= o.cursor /\ from >= cl.pos /\ from + len <= o.cursor
  BY <1>3 DEF ClientRow, OutputType, Follows, PageRead
<1>5. cl.page = <<>> => len = 0
  OBVIOUS
<1> HIDE DEF cl, o, from, len, end
<1>6. reached \in Nat /\ reached <= o.cursor /\ reached <= from + len /\ (from = cl.pos => reached = from + len)
  BY <1>4, <1>5
<1> HIDE DEF reached
<1>7. last \in Nat /\ last <= reached /\ last - from \in Int /\ last - from <= len /\ last <= o.cursor
  BY <1>4, <1>6
<1>8. from = cl.pos => last - from \in 0..len
  BY <1>4, <1>6
<1> HIDE DEF last
<1>9. Deltas(SubSeq(cl.page, 1, last - from)) \in Nat
  BY <1>4, <1>7, PrefixDeltas DEF len
<1>10. event \in {o.terminal, None}
  OBVIOUS
<1> HIDE DEF event, d
<1>11. /\ d.last \in Nat /\ d.last <= o.cursor /\ d.deltas \in Nat
       /\ d.deltas = Deltas(SubSeq(cl.page, 1, d.last - from))
       /\ from = cl.pos => d.last - from \in 0..len
       /\ d.event \in {o.terminal, None}
  BY <1>2, <1>7, <1>8, <1>9, <1>10
<1> QED  BY <1>11 DEF cl, o, from, len, d

\* Delivering the page: the text grows by the deltas that went out, the cursor to where they end.
LEMMA DeliverFollows ==
    ASSUME IInv, StreamInv, \A r \in Runs : ~run[r].overwritten => OutcomeSound(r), NEW c \in Clients, PollDeliver(c) PROVE StreamInv'
<1> DEFINE cl == client[c]
           o == out[cl.run]
           d == Deliverable(c)
           pc == IF d.event = None THEN "poll" ELSE "closed"
           y == EndPoll(cl, pc)
           x == [y EXCEPT !.pos = d.last, !.text = @ + d.deltas, !.closedBy = d.event,
                          !.skipped = @ \/ cl.from > cl.pos]
<1>1. cl.pc = "close" /\ UNCHANGED vars
  BY DEF PollDeliver
<1>2. /\ cl \in ClientRow /\ Follows(cl, run, out) /\ client \in [Clients -> ClientRow] /\ cl.run \in Runs /\ cl.run # None
      /\ o \in OutputType
  BY <1>1, RowFacts
<1>3. client' = [client EXCEPT ![c] = x]
  BY <1>2 DEF PollDeliver, Delivered
<1>4. /\ d.last \in Nat /\ d.last <= o.cursor /\ d.deltas \in Nat
      /\ d.deltas = Deltas(SubSeq(cl.page, 1, d.last - cl.from))
      /\ cl.from = cl.pos => d.last - cl.from \in 0..Len(cl.page)
      /\ d.event \in {o.terminal, None}
  BY <1>1, DeliveryIs
<1>5. /\ cl.pos \in Nat /\ cl.text \in Nat /\ cl.from \in Nat /\ cl.skipped \in BOOLEAN /\ cl.from >= cl.pos
      /\ o.min \in Nat /\ o.partial \in Nat /\ o.terminal \in Control \cup {None} /\ PageCaught(cl, o)
  BY <1>1, <1>2 DEF ClientRow, OutputType, Follows, PageRead
<1>6. run[cl.run].overwritten \/ Truthful(run[cl.run].status, o.terminal)
  BY <1>2 DEF OutcomeSound
<1> HIDE DEF cl, o, d
<1>7. /\ y.text = cl.text /\ y.run = cl.run /\ y.skipped = cl.skipped /\ y.pc = pc /\ y \in ClientRow
  <2>1. <<>> \in Seq(Events)
    OBVIOUS
  <2> QED  BY <1>2, <2>1 DEF EndPoll, ClientRow, Listening
<1> HIDE DEF y
<1>8. cl.text + d.deltas \in Nat /\ d.event \in Control \cup {None} /\ (cl.skipped \/ cl.from > cl.pos) \in BOOLEAN
  BY <1>4, <1>5
<1>9. /\ x \in ClientRow /\ x.pc = pc /\ x.run = cl.run /\ x.pos = d.last /\ x.text = cl.text + d.deltas
      /\ x.closedBy = d.event /\ x.skipped = (cl.skipped \/ cl.from > cl.pos)
  BY <1>4, <1>7, <1>8 DEF ClientRow
<1>10. x.pc \in {"poll", "closed"}
  BY <1>9
<1> HIDE DEF x, pc
<1>11. Caught(x, o)
  <2> SUFFICES ASSUME ~x.skipped, x.pos >= o.min PROVE x.text + After(o, x.pos) = o.partial
    BY DEF Caught
  <2>1. ~cl.skipped /\ cl.from = cl.pos
    <3>1. ~(cl.skipped \/ cl.from > cl.pos)
      BY <1>9
    <3> QED  BY <1>5, <3>1
  <2> DEFINE k == d.last - cl.from
  <2>2. k \in 0..Len(cl.page) /\ cl.from + k = d.last
    BY <1>4, <1>5, <2>1
  <2>3. d.deltas = Deltas(SubSeq(cl.page, 1, k))
    BY <1>4
  <2> HIDE DEF k
  <2>4. cl.text + Deltas(SubSeq(cl.page, 1, k)) + After(o, cl.from + k) = o.partial
    BY <1>5, <1>9, <2>1, <2>2 DEF PageCaught
  <2> QED  BY <1>9, <2>2, <2>3, <2>4
<1>12. x.closedBy \in Outcomes => x.run \in Runs /\ Told(x, run)
  <2> SUFFICES ASSUME x.closedBy \in Outcomes, ~run[cl.run].overwritten
               PROVE  run[cl.run].status \in {"completed", "failed", "cancelled"} /\ x.closedBy = Expected(run[cl.run].status)
    BY <1>2, <1>9 DEF Told
  <2>1. o.terminal \in Outcomes /\ x.closedBy = o.terminal /\ o.terminal # None /\ o.terminal # "run_interrupted"
    BY <1>4, <1>9, NoneAssumption DEF Outcomes, Events, Control
  <2> QED  BY <1>6, <2>1 DEF Truthful, Terminal, Expected
<1>13. Follows(x, run, out)
  BY <1>2, <1>4, <1>9, <1>10, <1>11, <1>12 DEF Follows, PageRead, o
<1> QED  BY <1>1, <1>3, <1>13, ClientMoves

-----------------------------------------------------------------------------
(* Every step, and what follows from the invariant. *)

LEMMA StreamInvNext ==
    ASSUME IInv, IInv', OutcomesInv, StreamInv, [StreamNext]_svars PROVE StreamInv'
<1>1. CASE Next /\ UNCHANGED client
  BY <1>1, ProtocolStep DEF OutcomesInv
<1>2. ASSUME NEW c \in Clients, ClientStep(c) PROVE StreamInv'
  <2>1. ASSUME NEW r \in Runs, TakeSnapshot(c, r) PROVE StreamInv'
    BY <2>1, SnapshotFollows
  <2>2. ASSUME NEW r \in Runs, Subscribe(c, r) PROVE StreamInv'
    BY <2>2, SubscribeFollows
  <2>3. CASE PollStatus(c) \/ PollValidate(c) \/ Disconnect(c)
    BY <2>3, WaitFollows
  <2>4. CASE PollFrames(c)
    BY <2>4, FramesFollow
  <2>5. CASE PollDeliver(c)
    BY <2>5, DeliverFollows DEF OutcomesInv
  <2> QED  BY <1>2, <2>1, <2>2, <2>3, <2>4, <2>5 DEF ClientStep
<1>3. CASE UNCHANGED svars
  BY <1>3, ProtocolStep DEF svars, vars, OutcomesInv
<1> QED  BY <1>1, <1>2, <1>3 DEF StreamNext

LEMMA StreamInvInit == StreamInit => StreamInv
<1> SUFFICES ASSUME StreamInit PROVE StreamInv
  OBVIOUS
<1>1. <<>> \in Seq(Events)
  OBVIOUS
<1>2. NoClient \in ClientRow
  BY <1>1 DEF NoClient, ClientRow
<1>3. Follows(NoClient, run, out)
  BY <1>2, NoneAssumption DEF NoClient, Follows, Outcomes, Events, Control
<1>4. Whole(NoOutput)
  <2>1. NoOutput.min = 0 /\ NoOutput.cursor = 0 /\ NoOutput.partial = 0
    BY DEF NoOutput
  <2>2. DeltasAt(NoOutput, 0, 0) = {}
    BY DEF DeltasAt
  <2> QED  BY <2>1, <2>2, FS_EmptySet DEF Whole, After
<1> QED  BY <1>2, <1>3, <1>4 DEF StreamInit, Init, StreamInv

LEMMA StreamInvSound == IInv /\ StreamInv => FollowerSound
<1> SUFFICES ASSUME IInv, StreamInv PROVE FollowerSound
  OBVIOUS
<1>1. StreamTypeOK
  <2>1. client \in [Clients -> ClientRow]
    BY DEF StreamInv
  <2>2. \A c \in Clients : client[c].run # None => client[c].pos <= out[client[c].run].cursor
    BY DEF StreamInv, Follows
  <2> QED  BY <2>1, <2>2 DEF StreamTypeOK, ClientRow
<1>2. TextExact
  <2> SUFFICES ASSUME NEW c \in Clients, client[c].run # None, client[c].pos >= out[client[c].run].min, ~client[c].skipped
               PROVE  client[c].text + Deltas(SubSeq(out[client[c].run].frames, client[c].pos - out[client[c].run].min + 1,
                                                     Len(out[client[c].run].frames))) = out[client[c].run].partial
    BY DEF TextExact
  <2> DEFINE cl == client[c]
             o == out[cl.run]
  <2>1. Follows(cl, run, out) /\ cl \in ClientRow
    BY RowFacts
  <2>2. cl.run \in Runs /\ cl.pos <= o.cursor /\ Caught(cl, o)
    BY <2>1 DEF Follows
  <2>3. o \in OutputType /\ Retained(o) /\ cl.pos \in Nat /\ o.min \in Nat
    BY <2>1, <2>2 DEF IInv, TypeOK, Ledger, ClientRow, OutputType
  <2>4. cl.text + After(o, cl.pos) = o.partial
    BY <2>2 DEF Caught
  <2>5. Deltas(SubSeq(o.frames, cl.pos - o.min + 1, Len(o.frames))) = After(o, cl.pos)
    <3> HIDE DEF cl, o
    <3>1. o.min <= cl.pos
      BY <2>3 DEF cl, o
    <3> QED  BY <2>2, <2>3, <3>1, Remaining
  <2> QED  BY <2>4, <2>5
<1>3. CloseTruthful
  <2> SUFFICES ASSUME NEW c \in Clients, client[c].closedBy \in Outcomes, ~run[client[c].run].overwritten
               PROVE  run[client[c].run].status \in Terminal /\ client[c].closedBy = Expected(run[client[c].run].status)
    BY DEF CloseTruthful, Outcomes
  <2> QED  BY DEF StreamInv, Follows, Told, Terminal
<1> QED  BY <1>1, <1>2, <1>3 DEF FollowerSound

\* For any number of clients, runs and resume requests, any page size and retention
\* window, with reconnects, pruning and workers that crash: unless frames were pruned
\* within a poll, a client has shown every answer delta up to its cursor exactly once,
\* and a stream that closed on an outcome told how the run ended, unless a resume
\* request overwrote that on a stale read.
THEOREM FollowersAreSound == StreamSpec => []FollowerSound
<1>1. StreamInit => IInv /\ OutcomesInv /\ StreamInv
  <2>1. Init => OutcomesInv
    BY DEF Init, NoRun, NoOutput, IdleWorker, OutcomesInv, OverwrittenEnded, DueSound, OutcomeSound, Truthful
  <2> QED  BY <2>1, InitInv, StreamInvInit DEF StreamInit
<1>2. [StreamNext]_svars => [Next]_vars
  BY DEF StreamNext, svars, vars, ClientStep, TakeSnapshot, Subscribe, Disconnect, PollStatus, PollValidate,
     PollFrames, PollDeliver
<1>3. IInv /\ [StreamNext]_svars => IInv'
  BY <1>2, NextInv
<1>4. IInv /\ IInv' /\ OutcomesInv /\ [StreamNext]_svars => OutcomesInv'
  BY <1>2, OutcomesNext
<1>5. IInv /\ IInv' /\ OutcomesInv /\ StreamInv /\ [StreamNext]_svars => StreamInv'
  BY StreamInvNext
<1>6. IInv /\ StreamInv => FollowerSound
  BY StreamInvSound
<1> QED  BY <1>1, <1>3, <1>4, <1>5, <1>6, PTL DEF StreamSpec

=============================================================================

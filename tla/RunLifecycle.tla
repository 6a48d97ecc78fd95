---------------------------- MODULE RunLifecycle ----------------------------
(***************************************************************************)
(* What a durable run promises its clients, without jobs, leases, workers  *)
(* or requests: the statuses it can show, the moves between them, and that *)
(* a run that was admitted or resumed does come to an end or to a question.*)
(*                                                                         *)
(* The states are RunStatus of conversations/models.py; the moves are the  *)
(* ones docs/product-chat-service/42-durable-answer-generation.md          *)
(* describes for durable runs.                                             *)
(***************************************************************************)
CONSTANT Runs

VARIABLE status

Unfinished == {"queued", "running", "cancelling"}

Init == status = [r \in Runs |-> "absent"]

Move(r, from, to) ==
    /\ status[r] \in from
    /\ status' = [status EXCEPT ![r] = to]

Admit(r) == Move(r, {"absent"}, "queued")

Start(r) == Move(r, {"queued"}, "running")

\* Stop: immediate for work nobody executes, cooperative otherwise.
Stop(r) ==
    \/ Move(r, {"queued", "waiting_for_input"}, "cancelled")
    \/ Move(r, {"running"}, "cancelling")

Resume(r) == Move(r, {"waiting_for_input"}, "queued")

Complete(r) == Move(r, {"running"}, "completed")

Ask(r) == Move(r, {"running"}, "waiting_for_input")

Fail(r) == Move(r, Unfinished, "failed")

ConfirmStop(r) == Move(r, {"cancelling"}, "cancelled")

\* A question nobody can answer any more: expired, or asked by another graph.
Withdraw(r) == \E to \in {"cancelled", "failed"} : Move(r, {"waiting_for_input"}, to)

\* The ways a phase of the run ends.
End(r) == Complete(r) \/ Ask(r) \/ Fail(r) \/ ConfirmStop(r)

\* Reconciliation may settle several runs in one transaction.
Reconcile ==
    /\ status' # status
    /\ status' \in [Runs -> {"absent", "queued", "running", "waiting_for_input",
                             "cancelling", "completed", "failed", "cancelled"}]
    /\ \A r \in Runs : status'[r] # status[r] =>
         \/ status[r] \in Unfinished /\ status'[r] = "failed"
         \/ status[r] \in {"cancelling", "waiting_for_input"} /\ status'[r] = "cancelled"

Next ==
    \/ \E r \in Runs : Admit(r) \/ Start(r) \/ Stop(r) \/ Resume(r) \/ End(r) \/ Withdraw(r)
    \/ Reconcile

\* Unfinished work ends: workers run jobs to an end or lose them to the reaper.
Spec ==
    /\ Init /\ [][Next]_status
    /\ \A r \in Runs : []<>(status[r] \notin Unfinished)

=============================================================================

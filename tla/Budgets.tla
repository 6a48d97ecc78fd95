------------------------------ MODULE Budgets ------------------------------
(***************************************************************************)
(* The three kinds of limit on what callers may do: the attempt buckets    *)
(* that a process keeps in memory (my_agents/auth/abuse.py, used by        *)
(* api/auth.py), the window counters kept in the database                  *)
(* (guest_policy.take_budget), and the caps on the rows of a guest         *)
(* (guest_limits.py).  Only the second checks and counts in one step.      *)
(***************************************************************************)
EXTENDS Naturals, FiniteSets

CONSTANTS
    Callers,      \* threads that handle requests
    MaxAttempts,  \* settings.auth_abuse_max_attempts
    WindowLimit,  \* guest_request_ip_hourly_limit, guest_login_ip_window_limit
    RowLimit      \* guest_max_conversations, guest_max_prompts, guest_max_document_uploads

ASSUME BudgetsAssumption ==
    /\ IsFiniteSet(Callers) /\ Callers # {}
    /\ {MaxAttempts, WindowLimit, RowLimit} \subseteq Nat \ {0}

VARIABLES
    bucket,   \* _AttemptBucket.count of one identifier, per kind of action
    slot,     \* GuestRateBucketModel.count of one caller's current window
    taken,    \* requests the current window has let through
    rows,     \* conversations, messages or documents of one guest
    caller    \* what each thread is about to do

bvars == <<bucket, slot, taken, rows, caller>>

\* Signups and reset requests count before they act; logins and token checks
\* count their failures and forget them all after a success.
Kinds == {"eager", "lazy"}

BudgetsInit ==
    /\ bucket = [k \in Kinds |-> 0]
    /\ slot = 0 /\ taken = 0 /\ rows = 0
    /\ caller = [q \in Callers |-> "idle"]

Step(q, from, to) == caller[q] = from /\ caller' = [caller EXCEPT ![q] = to]

\* Fault: the bucket overflows by one even for a single caller.
AssertAllowedLate(q, k) ==
    /\ bucket[k] <= MaxAttempts
    /\ Step(q, "idle", k)
    /\ UNCHANGED <<bucket, slot, taken, rows>>

\* assert_allowed: the lock is released again before the attempt is recorded.
AssertAllowed(q, k) ==
    /\ bucket[k] < MaxAttempts
    /\ Step(q, "idle", k)
    /\ UNCHANGED <<bucket, slot, taken, rows>>

\* record_attempt: at once (eager) or when the credentials were wrong (lazy).
RecordAttempt(q, k) ==
    /\ Step(q, k, "idle")
    /\ bucket' = [bucket EXCEPT ![k] = @ + 1]
    /\ UNCHANGED <<slot, taken, rows>>

\* reset, after a login or a token that was right.
ResetBucket(q) ==
    /\ Step(q, "lazy", "idle")
    /\ bucket' = [bucket EXCEPT !["lazy"] = 0]
    /\ UNCHANGED <<slot, taken, rows>>

\* _active_bucket drops a bucket whose window is over.
BucketWindowEnds(k) ==
    /\ bucket[k] > 0
    /\ bucket' = [bucket EXCEPT ![k] = 0]
    /\ UNCHANGED <<slot, taken, rows, caller>>

\* Fault: the conditional update compares with <= .
NextCountLoose(n) == IF n <= WindowLimit THEN n + 1 ELSE 0

\* The upsert of take_budget: the new count, or nothing (0) at the limit.
NextCount(n) == IF n < WindowLimit THEN n + 1 ELSE 0

\* take_budget and the commit of ip_budget.
TakeBudget ==
    /\ NextCount(slot) > 0
    /\ slot' = NextCount(slot)
    /\ taken' = taken + 1
    /\ UNCHANGED <<bucket, rows, caller>>

\* The next window has another key; rows of past windows are deleted.
SlotWindowEnds ==
    /\ slot > 0
    /\ slot' = 0 /\ taken' = 0
    /\ UNCHANGED <<bucket, rows, caller>>

\* assert_guest_can_create_conversation, _send_prompt and _create_document.
AssertGuestCanCreate(q) ==
    /\ rows < RowLimit
    /\ Step(q, "idle", "counted")
    /\ UNCHANGED <<bucket, slot, taken, rows>>

\* The handler inserts its row in a later transaction.
GuestInserts(q) ==
    /\ Step(q, "counted", "idle")
    /\ rows' = rows + 1
    /\ UNCHANGED <<bucket, slot, taken>>

BudgetsNext ==
    \/ \E q \in Callers, k \in Kinds : AssertAllowed(q, k) \/ RecordAttempt(q, k)
    \/ \E q \in Callers : ResetBucket(q) \/ AssertGuestCanCreate(q) \/ GuestInserts(q)
    \/ \E k \in Kinds : BucketWindowEnds(k)
    \/ TakeBudget \/ SlotWindowEnds

BudgetsSpec == BudgetsInit /\ [][BudgetsNext]_bvars

-----------------------------------------------------------------------------

Doing(act) == {q \in Callers : caller[q] = act}

\* Checking and counting are two steps, so concurrent requests can pass a
\* limit together, but by no more than the requests in flight beside the first:
\* each one that was let through still has its own attempt or row to add.
OvershootBounded ==
    /\ \A k \in Kinds : bucket[k] + Cardinality(Doing(k)) < MaxAttempts + Cardinality(Callers)
    /\ rows + Cardinality(Doing("counted")) < RowLimit + Cardinality(Callers)

\* The database counter never lets more requests through than its limit,
\* whichever processes they reach.
WindowExact == taken <= WindowLimit

\* Limits hold: exactly where they are counted under a lock, and up to the requests that
\* overlap where they are counted before the insertion.
LimitsHold == OvershootBounded /\ WindowExact
=============================================================================

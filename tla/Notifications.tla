--------------------------- MODULE Notifications ---------------------------
(***************************************************************************)
(* The operator alerts of my_agents/auth/notifications.py: an event is     *)
(* queued in the transaction that creates an account, and sweeps of the    *)
(* API processes lease it, mail it and mark it as sent.                    *)
(*                                                                         *)
(* A lease carries a fresh token and a deadline.  attempts is incremented  *)
(* by every claim and by nothing else, so the number of the attempt stands *)
(* for the token.                                                          *)
(***************************************************************************)
EXTENDS Naturals, FiniteSets

CONSTANTS
    Accounts,   \* user ids, of registered accounts and of guests
    Senders,    \* API processes running notification_loop
    MaxFaults,  \* bound: refused mails, lost processes and elapsed leases
    None

ASSUME NotifyAssumption == IsFiniteSet(Senders) /\ MaxFaults \in Nat

VARIABLES
    notice,     \* RegistrationNotificationModel rows, one per user
    sender,     \* the sweep of each process: the row it holds and its attempt
    mails,      \* mails the provider has accepted, per user
    doubts,     \* history: leases that ended, and mails taken whose call raised
    faults      \* faults so far

nvars == <<notice, sender, mails, doubts, faults>>

NoNotice == [state |-> "none", due |-> FALSE, lease |-> 0, held |-> FALSE, attempts |-> 0]
Resting == [at |-> "idle", user |-> None, attempt |-> 0]

NotifyInit ==
    /\ notice = [u \in Accounts |-> NoNotice]
    /\ sender = [p \in Senders |-> Resting]
    /\ mails = [u \in Accounts |-> 0]
    /\ doubts = [u \in Accounts |-> 0]
    /\ faults = 0

\* enqueue_registration: part of the transaction of its caller.  user_id is
\* unique, so a second event for one account would make that transaction fail.
EnqueueRegistration(u) ==
    notice' = [notice EXCEPT ![u] = [NoNotice EXCEPT !.state = "queued", !.due = TRUE]]

\* A fault counts against the bound.
Fault == faults < MaxFaults /\ faults' = faults + 1

\* Fault: a row is taken although another sweep holds its lease.
EligibleHeld(u) == notice[u].state = "queued" /\ notice[u].due

\* Fault: only a row that was never leased, or was given back, is taken.
EligibleUnleased(u) == notice[u].state = "queued" /\ notice[u].due /\ notice[u].lease = 0

\* deliver_pending, eligible.
Eligible(u) == notice[u].state = "queued" /\ notice[u].due /\ ~notice[u].held

\* The conditional update that leases one row of the sweep's batch, and its
\* commit.
Claim(p, u) ==
    /\ sender[p].at = "idle"
    /\ Eligible(u)
    /\ LET n == notice[u].attempts + 1 IN
         /\ notice' = [notice EXCEPT ![u].attempts = n, ![u].lease = n, ![u].held = TRUE]
         /\ sender' = [sender EXCEPT ![p] = [at |-> "claimed", user |-> u, attempt |-> n]]
    /\ UNCHANGED <<mails, doubts, faults>>

\* The row while this sweep's token is still on it.
Owned(p) == notice[sender[p].user].lease = sender[p].attempt

Unleased(n) == [n EXCEPT !.lease = 0, !.held = FALSE]

\* Shutdown between the claim and the mail: the lease is given back.
ReleaseOnStop(p) ==
    /\ sender[p].at = "claimed"
    /\ Fault
    /\ notice' = IF Owned(p) THEN [notice EXCEPT ![sender[p].user] = Unleased(@)] ELSE notice
    /\ sender' = [sender EXCEPT ![p] = Resting]
    /\ UNCHANGED <<mails, doubts>>

\* The provider takes the mail; nothing is committed yet.
MailAccepted(p) ==
    /\ sender[p].at = "claimed"
    /\ mails' = [mails EXCEPT ![sender[p].user] = @ + 1]
    /\ sender' = [sender EXCEPT ![p].at = "mailed"]
    /\ UNCHANGED <<notice, doubts, faults>>

\* The provider's call raises; it may have taken the mail all the same.
CallRaises(p) ==
    /\ sender[p].at = "claimed"
    /\ Fault
    /\ sender' = [sender EXCEPT ![p] = Resting]
    /\ \/ UNCHANGED <<mails, doubts>>
       \/ /\ mails' = [mails EXCEPT ![sender[p].user] = @ + 1]
          /\ doubts' = [doubts EXCEPT ![sender[p].user] = @ + 1]

\* The row is put back behind an exponential backoff, if the lease is still ours.
MailRefused(p) ==
    /\ CallRaises(p)
    /\ notice' = IF Owned(p)
                   THEN [notice EXCEPT ![sender[p].user] = [Unleased(@) EXCEPT !.due = FALSE]]
                   ELSE notice

\* Fault: success is recorded before the mail is handed over.
MarkSentEarly(p) ==
    /\ sender[p].at = "claimed"
    /\ notice' = IF Owned(p)
                   THEN [notice EXCEPT ![sender[p].user] = [Unleased(@) EXCEPT !.state = "sent"]]
                   ELSE notice
    /\ sender' = [sender EXCEPT ![p] = Resting]
    /\ UNCHANGED <<mails, doubts, faults>>

\* sent_at is set and both addresses are cleared, if the lease is still ours.
MarkSent(p) ==
    /\ sender[p].at = "mailed"
    /\ notice' = IF Owned(p)
                   THEN [notice EXCEPT ![sender[p].user] = [Unleased(@) EXCEPT !.state = "sent"]]
                   ELSE notice
    /\ sender' = [sender EXCEPT ![p] = Resting]
    /\ UNCHANGED <<mails, doubts, faults>>

\* A process dies with a row leased, before or after the provider took the mail.
SenderDies(p) ==
    /\ sender[p].at # "idle"
    /\ Fault
    /\ sender' = [sender EXCEPT ![p] = Resting]
    /\ UNCHANGED <<notice, mails, doubts>>

\* lease_until passes.  While its process lives this is a fault (the lease is
\* longer than every timeout of the mail provider); afterwards it is only time.
LeaseElapses(u) ==
    /\ notice[u].held
    /\ IF \E p \in Senders : sender[p].user = u /\ Owned(p) THEN Fault ELSE UNCHANGED faults
    /\ notice' = [notice EXCEPT ![u].held = FALSE]
    /\ doubts' = [doubts EXCEPT ![u] = @ + 1]
    /\ UNCHANGED <<sender, mails>>

\* available_at passes.
BackoffElapses(u) ==
    /\ notice[u].state = "queued" /\ ~notice[u].due
    /\ notice' = [notice EXCEPT ![u].due = TRUE]
    /\ UNCHANGED <<sender, mails, doubts, faults>>

Deliver ==
    \/ \E p \in Senders, u \in Accounts : Claim(p, u)
    \/ \E p \in Senders : \/ ReleaseOnStop(p) \/ MailAccepted(p) \/ MailRefused(p)
                          \/ MarkSent(p) \/ SenderDies(p)
    \/ \E u \in Accounts : LeaseElapses(u) \/ BackoffElapses(u)

-----------------------------------------------------------------------------

NotifyTypeOK ==
    /\ notice \in [Accounts -> [state : {"none", "queued", "sent"}, due : BOOLEAN,
                                lease : 0 .. MaxFaults + 1, held : BOOLEAN,
                                attempts : 0 .. MaxFaults + 1]]
    /\ sender \in [Senders -> [at : {"idle", "claimed", "mailed"}, user : Accounts \cup {None},
                               attempt : 0 .. MaxFaults + 1]]
    /\ faults \in 0 .. MaxFaults

\* An operator gets a second mail about an account only because a lease ran
\* out under an unsent row ("a crash after provider acceptance but before
\* committing success may cause a duplicate alert") or a mail was taken by a
\* call that raised, and each such doubt costs at most one: sweeps that race
\* for a row, put it back or are stopped never add one.
DuplicatesNeedDoubt == \A u \in Accounts : mails[u] <= 1 + doubts[u]

\* A row that says "sent" has really been mailed, and no sweep that lost its
\* lease can lease it, delay it or mail it from the queue again.
SentIsFinal ==
    \A u \in Accounts : notice[u].state = "sent" => /\ mails[u] > 0
                                                    /\ notice[u].lease = 0
                                                    /\ ~notice[u].held

\* Whatever fails on the way, the operator is told of every account: leases
\* run out, backoffs end, and some sweep gets the mail through.
AlertDelivered == \A u \in Accounts : notice[u].state = "queued" ~> notice[u].state = "sent"

\* An alert is mailed again only in doubt, and never after it was marked as sent.
DeliverySound == DuplicatesNeedDoubt /\ SentIsFinal
=============================================================================

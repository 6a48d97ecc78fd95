---------------------------- MODULE MCAccounts ----------------------------
(***************************************************************************)
(* An instance of GuestTrials, with Accounts and Notifications, and of     *)
(* Budgets for TLC.  A behaviour exercises one part of the whole:          *)
(* registered accounts; codes and trials, over every legacy state, with    *)
(* the signups that race with them; the erasure of guests; the delivery of *)
(* alerts; or the limits.                                                  *)
(***************************************************************************)
EXTENDS GuestTrials, Budgets, TLC

CONSTANT Solo   \* the request that acts while sweeps erase guests

VARIABLE part

mcvars == <<part, gvars, avars, nvars, bvars>>

MCInit ==
    /\ part \in {"registered", "codes", "erasure", "alerts", "budgets"}
    /\ NotifyInit /\ AccountsInit /\ GuestsInit /\ BudgetsInit
    /\ part # "codes" => guest = [g \in Guests |-> NoGuest] /\ code = [c \in Codes |-> NoCode]

SignupNext ==
    \/ \E q \in Requests, e \in Emails : SignupStart(q, e)
    \/ \E q \in Requests, t \in Tokens : SignupCommit(q, t, FALSE)
    \/ \E q \in Requests : Abandon(q)

MCRegistered == part = "registered" /\ AccountsNext /\ UNCHANGED gvars

MCCodes == part = "codes" /\ (CodesNext \/ (SignupNext /\ UNCHANGED gvars))

MCErasure ==
    /\ part = "erasure"
    /\ GuestsNext \/ (SignupNext /\ UNCHANGED gvars)
    /\ \A q \in Requests \ {Solo} : request'[q] = Vacant

MCAlerts == part = "alerts" /\ (SignupNext \/ (Deliver /\ UNCHANGED avars)) /\ UNCHANGED gvars

MCBudgets == part = "budgets" /\ BudgetsNext /\ UNCHANGED <<part, gvars, avars, nvars>>

MCNext == ((MCRegistered \/ MCCodes \/ MCErasure \/ MCAlerts) /\ UNCHANGED <<part, bvars>>) \/ MCBudgets

\* Sweeps run every 30 or 60 seconds for as long as the processes run; a mail
\* that is not refused is taken, and an erasure that is tried again and again
\* succeeds; the lock of an identity is granted in turn; leases, backoffs and runs end; a request finishes or is abandoned.
MCFairness ==
    /\ \A u \in Accounts : /\ WF_nvars(part = "alerts" /\ \E p \in Senders : Claim(p, u))
                           /\ WF_nvars(part = "alerts" /\ LeaseElapses(u))
                           /\ WF_nvars(part = "alerts" /\ BackoffElapses(u))
    /\ \A p \in Senders : /\ WF_nvars(part = "alerts" /\ MailAccepted(p))
                          /\ WF_nvars(part = "alerts" /\ MarkSent(p))
    /\ WF_gvars(part = "erasure" /\ SweepPage)
    /\ WF_avars(part = "erasure" /\ Abandon(Solo))
    /\ \A g \in Guests : /\ WF_gvars(part = "erasure" /\ WorkEnds(g))
                         /\ SF_gvars(part = "erasure" /\ (DeferGuest(g) \/ EraseGuest(g)))
                         /\ SF_gvars(part = "erasure" /\ EraseGuest(g))

MCSpec == MCInit /\ [][MCNext]_mcvars /\ MCFairness

\* Where their sweeps run, alerts are delivered and expired guests erased.
SweepsFinish == /\ part = "alerts" => AlertDelivered
                /\ part = "erasure" => ErasedInTheEnd

=============================================================================

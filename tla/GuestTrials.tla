---------------------------- MODULE GuestTrials ----------------------------
(***************************************************************************)
(* Guest access: codes bound to an address, the trial each address has     *)
(* once, and the erasure of guests whose trial is over.  Translated from   *)
(* my_agents/auth/guest_access.py, guest_policy.py, guest_limits.py and    *)
(* guest_cleanup.py.                                                       *)
(*                                                                         *)
(* The row of guest_trials is the lock of an identity: issuing, redeeming, *)
(* resetting, erasing and registered signup (Accounts) take it before they *)
(* look at anything else.  Deadlines pass by steps of their own.           *)
(***************************************************************************)
EXTENDS Accounts, FiniteSetsExt, Integers

CONSTANTS
    Guests,        \* guest user ids, numbered: the erasure sweep scans them in order
    Codes,         \* guest codes
    MaxGeneration, \* bound: operator resets of one identity
    DailyLimit,    \* settings.guest_code_email_daily_limit
    PageSize,      \* accounts per erasure sweep (25 in the code)
    MaxContent     \* bound: rows a guest creates

ASSUME GuestsAssumption ==
    /\ Guests \subseteq (Accounts \ Emails) \cap Nat
    /\ PageSize \in Nat \ {0}
    /\ {MaxGeneration, DailyLimit, MaxContent} \subseteq Nat

VARIABLES
    policy,   \* the guest_policy_state row exists: the legacy rows were reconciled
    trial,    \* GuestTrialModel rows
    code,     \* GuestAccessCodeModel rows, each with its access request
    guest,    \* guest UserModel rows, their sessions and what they own
    sweep     \* the erasure sweep in progress and its cursor

gvars == <<policy, trial, code, guest, sweep>>

NoTrial == [user |-> None, redeemed |-> FALSE, generation |-> 0, cooling |-> FALSE, sent |-> 0]
NoCode == [state |-> "none", email |-> None, generation |-> 0, user |-> None]
NoGuest == [state |-> "none", email |-> None, generation |-> 0, signedIn |-> FALSE,
            content |-> 0, hold |-> "none"]

\* Guests and codes that earlier versions of the program have left behind: any
\* number of accounts and usable codes for one address.
LegacyGuest(st, e) == [NoGuest EXCEPT !.state = st, !.email = e, !.generation = -1,
                                      !.signedIn = (st = "active")]
LegacyGuests ==
    {NoGuest} \cup {LegacyGuest(st, e) : st \in {"active", "expired", "erased"}, e \in Emails}
LegacyCodes == {NoCode} \cup {[NoCode EXCEPT !.state = "open", !.email = e] : e \in Emails}

GuestsInit ==
    /\ policy = FALSE
    /\ trial = [e \in Emails |-> NoTrial]
    /\ code \in [Codes -> LegacyCodes]
    /\ guest \in [Guests -> LegacyGuests]
    /\ sweep = [todo |-> {}, cursor |-> 0]

-----------------------------------------------------------------------------
(* The identity of an address. *)

GuestsOf(e) == {g \in Guests : guest[g].email = e}
CodesOf(e) == {c \in Codes : code[c].email = e}
Usable(c) == code[c].state = "open" /\ code[c].generation = trial[code[c].email].generation
Active(g) == guest[g].state = "active"

ExpiredGuest(g) == [g EXCEPT !.state = IF @ = "active" THEN "expired" ELSE @, !.signedIn = FALSE]
ExpiredCode(c) == [c EXCEPT !.state = IF @ = "open" THEN "expired" ELSE @]

\* _backfill: the oldest active account of an address that has no registered
\* account keeps its trial.
Keeper(e) ==
    LET live == {g \in GuestsOf(e) : Active(g)}
    IN  IF live = {} \/ Registered(e) THEN {} ELSE {Min(live)}

\* At most one code, the newest, stays usable: none for a registered address,
\* none when the trial is over.
KeptCode(e) ==
    LET open == {c \in CodesOf(e) : code[c].state = "open"}
    IN  IF open = {} \/ Registered(e) \/ (GuestsOf(e) # {} /\ Keeper(e) = {}) THEN {}
        ELSE {CHOOSE c \in open : TRUE}

\* initialize_guest_policy: the first request after the rollout reconciles what
\* is there; competing ones wait for its row and find it done.
Backfill ==
    /\ ~policy
    /\ policy' = TRUE
    /\ trial' = [e \in Emails |->
         [NoTrial EXCEPT !.user = IF Keeper(e) = {} THEN None ELSE Min(Keeper(e)),
                         !.redeemed = GuestsOf(e) # {}]]
    /\ guest' = [g \in Guests |-> IF Active(g) /\ g \notin Keeper(guest[g].email)
                                    THEN ExpiredGuest(guest[g]) ELSE guest[g]]
    /\ code' = [c \in Codes |-> IF code[c].state = "open" /\ c \notin KeptCode(code[c].email)
                                  THEN ExpiredCode(code[c]) ELSE code[c]]
    /\ UNCHANGED <<sweep, avars, nvars>>

\* Fault: a trial whose account is gone counts as new.
EligibilityOfUser(e) ==
    IF Registered(e) THEN "suppressed"
    ELSE IF trial[e].user = None THEN "new"
    ELSE IF Active(trial[e].user) THEN "returning"
    ELSE "suppressed"

\* eligible_user: no registered account, and a trial that is new or under way.
Eligibility(e) ==
    IF Registered(e) THEN "suppressed"
    ELSE IF ~trial[e].redeemed THEN "new"
    ELSE IF trial[e].user # None /\ Active(trial[e].user) THEN "returning"
    ELSE "suppressed"

\* authenticate_session of a guest: owns_trial and the deadline of the account.
GuestSignedIn(g) ==
    /\ policy /\ Active(g) /\ guest[g].signedIn
    /\ trial[guest[g].email].user = g
    /\ Eligibility(guest[g].email) = "returning"

-----------------------------------------------------------------------------
(* Codes. *)

\* Fault: a new code leaves the older ones usable.
InvalidatedNot(e) == code

\* issue: "All old codes are invalidated while holding the identity lock."
Invalidated(e) == [c \in Codes |-> IF c \in CodesOf(e) THEN ExpiredCode(code[c]) ELSE code[c]]

\* issue, for a public request with automatic approval or for an operator.  The
\* mail is sent before the commit: when it fails everything is rolled back.
Issue(e, c) ==
    /\ policy /\ holder[e] = None
    /\ Eligibility(e) # "suppressed"
    /\ ~trial[e].cooling /\ trial[e].sent < DailyLimit
    /\ code[c].state = "none"
    /\ code' = [Invalidated(e) EXCEPT
                  ![c] = [state |-> "open", email |-> e, generation |-> trial[e].generation,
                          user |-> None]]
    /\ trial' = [trial EXCEPT ![e].cooling = TRUE, ![e].sent = @ + 1]
    /\ UNCHANGED <<policy, guest, sweep, avars, nvars>>

\* redeem reads the code before it knows which identity to lock.
RedeemLoad(q, c) ==
    /\ policy /\ Free(q)
    /\ code[c].state \notin {"none", "deleted"}
    /\ request' = [request EXCEPT ![q] = [Vacant EXCEPT !.op = "redeem", !.at = "loaded",
                                            !.email = code[c].email, !.key = c]]
    /\ UNCHANGED <<account, token, session, holder, gvars, nvars>>

\* The identity is locked, the code and the trial are read again.
RedeemLock(q) ==
    /\ request[q].op = "redeem" /\ request[q].at = "loaded"
    /\ LET e == request[q].email IN
         /\ holder[e] = None
         /\ Usable(request[q].key)
         /\ Eligibility(e) # "suppressed"
         /\ holder' = [holder EXCEPT ![e] = q]
    /\ request' = [request EXCEPT ![q].at = "locked"]
    /\ UNCHANGED <<account, token, session, gvars, nvars>>

\* The account a redemption signs in to: the one of the trial, or a new one.
RedeemedBy(e, g) ==
    IF trial[e].user # None THEN g = trial[e].user ELSE guest[g].state = "none"

\* The code is consumed by a conditional update, an account is created for a
\* new trial with its alert, a session is opened: one commit.
RedeemCommit(q, g) ==
    /\ request[q].op = "redeem" /\ request[q].at = "locked"
    /\ LET e == request[q].email
           c == request[q].key
       IN  /\ code[c].state \in {"open", "expired"}   \* it may have run out since
           /\ RedeemedBy(e, g)
           /\ code' = [code EXCEPT ![c].state = "consumed", ![c].user = g]
           /\ IF trial[e].user = None
                THEN /\ guest' = [guest EXCEPT ![g] =
                          [NoGuest EXCEPT !.state = "active", !.email = e, !.signedIn = TRUE,
                                          !.generation = trial[e].generation]]
                     /\ trial' = [trial EXCEPT ![e].user = g, ![e].redeemed = TRUE]
                     /\ EnqueueRegistration(g)
                ELSE /\ guest' = [guest EXCEPT ![g].signedIn = Active(g)]
                     /\ UNCHANGED <<trial, notice>>
           /\ holder' = [holder EXCEPT ![e] = None]
    /\ Finish(q)
    /\ UNCHANGED <<account, token, session, policy, sweep, sender, mails, doubts, faults>>

\* reset_trial, by an operator: the trial ends, its codes die with their
\* generation, and the address may start again.
ResetTrial(e) ==
    /\ policy /\ holder[e] = None
    /\ trial[e].redeemed /\ trial[e].generation < MaxGeneration
    /\ guest' = [g \in Guests |-> IF g = trial[e].user THEN ExpiredGuest(guest[g]) ELSE guest[g]]
    /\ code' = Invalidated(e)
    /\ trial' = [trial EXCEPT ![e] = [NoTrial EXCEPT !.sent = trial[e].sent,
                                        !.generation = trial[e].generation + 1]]
    /\ UNCHANGED <<policy, sweep, avars, nvars>>

\* expires_at of a code, the end of a trial, the end of the resend cooldown.
CodeExpires(c) ==
    /\ code[c].state = "open"
    /\ code' = [code EXCEPT ![c].state = "expired"]
    /\ UNCHANGED <<policy, trial, guest, sweep, avars, nvars>>

TrialEnds(g) ==
    /\ Active(g)
    /\ guest' = [guest EXCEPT ![g] = ExpiredGuest(@)]
    /\ UNCHANGED <<policy, trial, code, sweep, avars, nvars>>

CooldownEnds(e) ==
    /\ trial[e].cooling
    /\ trial' = [trial EXCEPT ![e].cooling = FALSE]
    /\ UNCHANGED <<policy, code, guest, sweep, avars, nvars>>

-----------------------------------------------------------------------------
(* What a guest owns, and its erasure. *)

\* A request of a guest has passed get_current_principal.
GuestRequest(q, g) ==
    /\ Free(q) /\ GuestSignedIn(g)
    /\ request' = [request EXCEPT ![q] = [Vacant EXCEPT !.op = "guest", !.at = "loaded", !.key = g]]
    /\ UNCHANGED <<account, token, session, holder, gvars, nvars>>

\* It has passed assert_guest_access_active too, and inserts a row that
\* references the user: a conversation, a document, a run that is now active,
\* or something another account shares.  The reference fails once the user row
\* is gone; the deadline may have passed.
GuestWrites(q, hold) ==
    /\ request[q].op = "guest"
    /\ LET g == request[q].key IN
         /\ guest[g].state # "erased" /\ guest[g].content < MaxContent
         /\ guest' = [guest EXCEPT ![g].content = @ + 1,
                                   ![g].hold = IF @ = "none" THEN hold ELSE @]
    /\ Finish(q)
    /\ UNCHANGED <<account, token, session, holder, policy, trial, code, sweep, nvars>>

\* The run or the ingestion ends.
WorkEnds(g) ==
    /\ guest[g].hold = "work"
    /\ guest' = [guest EXCEPT ![g].hold = "none"]
    /\ UNCHANGED <<policy, trial, code, sweep, avars, nvars>>

Overdue(g) == guest[g].state = "expired"

\* Fault: every sweep starts with the first account.
BehindAll == {g \in Guests : Overdue(g)}

\* cleanup_batch: the overdue accounts behind the cursor.
Behind == {g \in Guests : Overdue(g) /\ g > sweep.cursor}

FirstOf(S) == {g \in S : Cardinality({h \in S : h < g}) < PageSize}

\* The page is read; a page with nothing on it sends the cursor to the start.
SweepPage ==
    /\ sweep.todo = {}
    /\ sweep' = IF Behind = {} THEN [todo |-> {}, cursor |-> 0]
                ELSE [sweep EXCEPT !.todo = FirstOf(Behind)]
    /\ UNCHANGED <<policy, trial, code, guest, avars, nvars>>

\* Fault: the cursor skips the account behind the one it has reached.
SweepNextPast(g) ==
    /\ sweep.todo # {} /\ g = Min(sweep.todo)
    /\ sweep' = [todo |-> sweep.todo \ {g}, cursor |-> g + 1]

\* The first account of the page is tried, whatever becomes of it.
SweepNext(g) ==
    /\ sweep.todo # {} /\ g = Min(sweep.todo)
    /\ sweep' = [todo |-> sweep.todo \ {g}, cursor |-> g]

\* delete_expired_guest, refused: no longer overdue, or _defer_reason names
\* work in progress or something another account shares; or the transaction
\* fails and the account stays for a later sweep.
DeferGuest(g) ==
    /\ SweepNext(g)
    /\ holder[guest[g].email] = None
    /\ UNCHANGED <<policy, trial, code, guest, avars, nvars>>

\* Fault: codes that were sent but never redeemed survive the erasure.
OwnedCodesRedeemed(g) == {c \in Codes : code[c].user = g}

\* owned_codes: those it redeemed and those of its trial that nobody redeemed.
OwnedCodes(g) ==
    {c \in Codes : \/ code[c].user = g
                   \/ /\ trial[guest[g].email].user = g
                      /\ code[c].email = guest[g].email /\ code[c].user = None
                      /\ code[c].generation = trial[guest[g].email].generation
                      /\ code[c].state # "none"}

\* delete_expired_guest: the identity is locked, the account claimed and
\* everything it owns removed; the trial row survives, used.
EraseGuest(g) ==
    /\ SweepNext(g)
    /\ Overdue(g) /\ guest[g].hold = "none"
    /\ holder[guest[g].email] = None
    /\ code' = [c \in Codes |-> IF c \in OwnedCodes(g) THEN [NoCode EXCEPT !.state = "deleted"]
                                ELSE code[c]]
    /\ guest' = [guest EXCEPT ![g].state = "erased", ![g].signedIn = FALSE, ![g].content = 0]
    /\ trial' = [e \in Emails |-> IF trial[e].user = g THEN [trial[e] EXCEPT !.user = None]
                                  ELSE trial[e]]
    /\ UNCHANGED <<policy, avars, nvars>>

CodesNext ==
    \/ Backfill
    \/ \E e \in Emails, c \in Codes : Issue(e, c)
    \/ \E q \in Requests, c \in Codes : RedeemLoad(q, c)
    \/ \E q \in Requests : RedeemLock(q)
    \/ \E q \in Requests, g \in Guests : RedeemCommit(q, g) \/ GuestRequest(q, g)
    \/ \E e \in Emails : ResetTrial(e) \/ CooldownEnds(e)
    \/ \E c \in Codes : CodeExpires(c)
    \/ \E q \in Requests, hold \in {"none", "work", "shared"} : GuestWrites(q, hold)
    \/ \E g \in Guests : TrialEnds(g) \/ WorkEnds(g)

ErasureNext == SweepPage \/ \E g \in Guests : DeferGuest(g) \/ EraseGuest(g)

GuestsNext == CodesNext \/ ErasureNext

\* Registered accounts, guests and their alerts together.
AuthNext ==
    \/ AccountsNext /\ UNCHANGED gvars
    \/ GuestsNext
    \/ Deliver /\ UNCHANGED <<avars, gvars>>

AuthSpec == NotifyInit /\ AccountsInit /\ GuestsInit /\ [][AuthNext]_<<nvars, avars, gvars>>

-----------------------------------------------------------------------------

GuestsTypeOK ==
    /\ NotifyTypeOK /\ AccountsTypeOK
    /\ policy \in BOOLEAN
    /\ trial \in [Emails -> [user : Guests \cup {None}, redeemed : BOOLEAN,
                             generation : 0 .. MaxGeneration, cooling : BOOLEAN,
                             sent : 0 .. DailyLimit]]
    /\ \A c \in Codes : code[c].state \in {"none", "open", "consumed", "expired", "deleted"}
    /\ \A g \in Guests : /\ guest[g].state \in {"none", "active", "expired", "erased"}
                         /\ guest[g].content \in 0 .. MaxContent
    /\ sweep \in [todo : SUBSET Guests, cursor : Guests \cup {0}]

\* An address has one trial in a generation, for ever: whatever codes were
\* issued, redeemed by two requests at once, erased with their guest or left by
\* an earlier version, only an operator's reset gives it another.
OneTrialPerIdentity ==
    policy => \A g, h \in Guests :
                 g # h /\ guest[g].email = guest[h].email /\ guest[g].email # None
                   => \/ guest[g].generation = -1 /\ guest[h].generation # 0
                      \/ guest[g].generation # guest[h].generation
                           /\ {guest[g].generation, guest[h].generation} # {-1, 0}

\* Once the legacy rows are reconciled an address has at most one usable code
\* and at most one running trial, the one its identity row names.
OneUsableCode ==
    policy => /\ \A c, d \in Codes : Usable(c) /\ Usable(d) /\ code[c].email = code[d].email
                                       => c = d
              /\ \A g \in Guests : Active(g) => trial[guest[g].email].user = g

\* An erased guest has left nothing: no content written by a request that was
\* under way, no code it could return with, no identity that still names it.
ErasureComplete ==
    \A g \in Guests : guest[g].state = "erased" /\ policy =>
        /\ guest[g].content = 0 /\ ~guest[g].signedIn
        /\ \A c \in Codes : code[c].user # g
        /\ \A e \in Emails : trial[e].user # g
        /\ \A c \in Codes :
             /\ code[c].email = guest[g].email
             /\ guest[g].generation = trial[guest[g].email].generation
             => code[c].generation # guest[g].generation

\* No trial begins for an address that has become a registered account, even
\* when the signup overlaps the redemption of a code sent before it.
NoTrialBesideAccount ==
    [][\A g \in Guests : guest[g].state = "none" /\ guest'[g].state = "active"
         => ~Registered(guest'[g].email)]_<<guest, account>>

\* Every guest whose trial is over is erased in the end, unless something of it
\* is shared with other accounts; an account the sweeps must defer does not
\* keep them from the ones behind it.
ErasedInTheEnd ==
    \A g \in Guests : Overdue(g) ~> guest[g].state = "erased" \/ guest[g].hold = "shared"

\* A guest has one trial and one usable code, and an erased guest leaves nothing.
TrialsSound == GuestsTypeOK /\ OneTrialPerIdentity /\ OneUsableCode /\ ErasureComplete
=============================================================================

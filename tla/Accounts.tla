------------------------------ MODULE Accounts ------------------------------
(***************************************************************************)
(* Registered accounts, their one-time tokens and their sessions:          *)
(* my_agents/auth/service.py behind the handlers of my_agents/api/auth.py  *)
(* and the operator scripts that approve, reject and resend.               *)
(*                                                                         *)
(* A password is the number of the change that set it.  Logins and         *)
(* password changes hash for a long time between the read of the row and   *)
(* the commit, so each is a sequence of steps of one request; whatever a   *)
(* handler does in one short transaction is one step.                      *)
(***************************************************************************)
EXTENDS Notifications

CONSTANTS
    Emails,        \* normalized addresses; a registered account is named by its address
    Requests,      \* API requests
    Sessions,      \* session ids
    Tokens,        \* tokens of email verification and password reset
    AutoApproval,  \* the values of settings.account_signup_auto_approval
    MaxPassword    \* bound: password changes

ASSUME AccountsAssumption ==
    /\ Emails \subseteq Accounts /\ None \notin Accounts \cup Requests
    /\ AutoApproval \subseteq BOOLEAN
    /\ MaxPassword \in Nat

VARIABLES
    account,   \* UserModel rows of registered accounts
    token,     \* AuthTokenModel rows
    session,   \* SessionModel rows of registered accounts
    request,   \* requests in flight, with what they have read
    holder     \* the request whose transaction has locked the identity of an address

avars == <<account, token, session, request, holder>>

NoAccount == [status |-> "none", verified |-> FALSE, password |-> 0]
NoToken == [purpose |-> "none", email |-> None, state |-> "none"]
NoSession == [email |-> None, state |-> "none", password |-> 0, crossed |-> FALSE]
Vacant == [op |-> "idle", at |-> "idle", email |-> None, key |-> None, password |-> 0,
           seen |-> {}, crossed |-> FALSE]

AccountsInit ==
    /\ account = [e \in Emails |-> NoAccount]
    /\ token = [t \in Tokens |-> NoToken]
    /\ session = [s \in Sessions |-> NoSession]
    /\ request = [q \in Requests |-> Vacant]
    /\ holder = [e \in Emails |-> None]

Registered(e) == account[e].status # "none"

\* Rows are only compared by identity: any unused one stands for the new one.
Fresh(t) == token[t].state = "none"
Unused(s) == session[s].state = "none"

\* _create_token: the account's older tokens stay as they are.
CreateToken(t, e, purpose) ==
    /\ Fresh(t)
    /\ token' = [token EXCEPT ![t] = [purpose |-> purpose, email |-> e, state |-> "open"]]

Finish(q) == request' = [request EXCEPT ![q] = Vacant]
Free(q) == request[q].op = "idle"

-----------------------------------------------------------------------------
(* Signup and approval. *)

\* Fault: signup does not serialize with guest issuance.
LockSignupIdentityNot(q, e) == UNCHANGED holder

\* lock_signup_identity: held until the transaction of the request ends.
LockSignupIdentity(q, e) == holder[e] = None /\ holder' = [holder EXCEPT ![e] = q]

\* The address is free: the request goes on to hash the password.
SignupStart(q, e) ==
    /\ Free(q)
    /\ ~Registered(e)
    /\ LockSignupIdentity(q, e)
    /\ request' = [request EXCEPT ![q] = [Vacant EXCEPT !.op = "signup", !.at = "hashing",
                                                        !.email = e]]
    /\ UNCHANGED <<account, token, session, nvars>>

\* The account, its alert and (when it needs no approval) its token are
\* committed together; the mail is sent afterwards.
SignupCommit(q, t, auto) ==
    /\ request[q].op = "signup"
    /\ LET e == request[q].email IN
         /\ ~Registered(e)
         /\ account' = [account EXCEPT ![e].status = IF auto THEN "approved" ELSE "pending"]
         /\ EnqueueRegistration(e)
         /\ IF auto THEN CreateToken(t, e, "verify") ELSE UNCHANGED token
         /\ holder' = [holder EXCEPT ![e] = IF @ = q THEN None ELSE @]
    /\ Finish(q)
    /\ UNCHANGED <<session, sender, mails, doubts, faults>>

\* approve_account_signup, with or without --mark-email-verified.
Approve(e, t, mark) ==
    /\ account[e].status \in {"pending", "approved"}
    /\ account' = [account EXCEPT ![e].status = "approved", ![e].verified = @ \/ mark]
    /\ IF mark THEN UNCHANGED token ELSE CreateToken(t, e, "verify")
    /\ UNCHANGED <<session, request, holder, nvars>>

\* resend_account_verification.
ResendVerification(e, t) ==
    /\ account[e].status = "approved" /\ ~account[e].verified
    /\ CreateToken(t, e, "verify")
    /\ UNCHANGED <<account, session, request, holder, nvars>>

\* reject_account_signup: the sessions of the account are left alone.
Reject(e) ==
    /\ account[e].status \in {"pending", "approved"}
    /\ account' = [account EXCEPT ![e].status = "rejected"]
    /\ UNCHANGED <<token, session, request, holder, nvars>>

-----------------------------------------------------------------------------
(* Login and logout. *)

Changing(e) == \E q \in Requests : request[q].at = "revoking" /\ request[q].email = e

\* The row is loaded and the password verified against it, with the checks of
\* the approval and of the address that follow.
LoginVerify(q, e) ==
    /\ Free(q)
    /\ account[e].status = "approved" /\ account[e].verified
    /\ request' = [request EXCEPT ![q] = [Vacant EXCEPT !.op = "login", !.at = "verified",
                                            !.email = e, !.password = account[e].password,
                                            !.crossed = Changing(e)]]
    /\ UNCHANGED <<account, token, session, holder, nvars>>

\* The session row is inserted; the account is not read again.
LoginCommit(q, s) ==
    /\ request[q].op = "login"
    /\ Unused(s)
    /\ session' = [session EXCEPT ![s] = [email |-> request[q].email, state |-> "live",
                                          password |-> request[q].password,
                                          crossed |-> request[q].crossed]]
    /\ Finish(q)
    /\ UNCHANGED <<account, token, holder, nvars>>

\* authenticate_session, for a registered account.
Live(s) == session[s].state = "live"

\* logout, with the CSRF token of the session.
Logout(s) ==
    /\ Live(s)
    /\ session' = [session EXCEPT ![s].state = "revoked"]
    /\ UNCHANGED <<account, token, request, holder, nvars>>

-----------------------------------------------------------------------------
(* One-time tokens and password changes. *)

\* request_password_reset.
RequestPasswordReset(e, t) ==
    /\ account[e].status = "approved"
    /\ CreateToken(t, e, "reset")
    /\ UNCHANGED <<account, session, request, holder, nvars>>

\* expires_at passes.
TokenExpires(t) ==
    /\ token[t].state = "open"
    /\ token' = [token EXCEPT ![t].state = "expired"]
    /\ UNCHANGED <<account, session, request, holder, nvars>>

\* _consume_token reads the row: unknown, used and expired tokens are refused.
ConsumeLoad(q, t) ==
    /\ Free(q)
    /\ token[t].state = "open"
    /\ request' = [request EXCEPT ![q] = [Vacant EXCEPT !.op = token[t].purpose, !.at = "loaded",
                                            !.email = token[t].email, !.key = t]]
    /\ UNCHANGED <<account, token, session, holder, nvars>>

\* Its update of consumed_at waits for another transaction that updated the
\* row, but does not look at the new value.
TokenFree(q) ==
    \A r \in Requests \ {q} : request[r].at = "revoking" => \/ request[q].key = None
                                                            \/ request[r].key # request[q].key

VerifyEmail(q) ==
    /\ request[q].op = "verify" /\ TokenFree(q)
    /\ account' = [account EXCEPT ![request[q].email].verified = TRUE]
    /\ token' = [token EXCEPT ![request[q].key].state = "used"]
    /\ Finish(q)
    /\ UNCHANGED <<session, holder, nvars>>

\* update_password: the caller is signed in and has proved the current password.
UpdatePasswordLoad(q, s) ==
    /\ Free(q)
    /\ Live(s)
    /\ request' = [request EXCEPT ![q] = [Vacant EXCEPT !.op = "change", !.at = "loaded",
                                                        !.email = session[s].email]]
    /\ UNCHANGED <<account, token, session, holder, nvars>>

\* Fault: only the sessions opened with another password than the current one
\* are looked for.
RevocableSameOnly(e) ==
    {s \in Sessions : Live(s) /\ session[s].email = e
                        /\ session[s].password # account[e].password}

\* _revoke_sessions_for_user, its SELECT.
Revocable(e) == {s \in Sessions : Live(s) /\ session[s].email = e}

\* update_password and confirm_password_reset, once the new password is hashed:
\* the sessions to revoke are selected.
SelectSessions(q) ==
    /\ request[q].op \in {"change", "reset"} /\ request[q].at = "loaded"
    /\ TokenFree(q)
    /\ LET e == request[q].email IN
         request' = [r \in Requests |->
            IF r = q THEN [request[q] EXCEPT !.at = "revoking", !.seen = Revocable(e)]
            ELSE [request[r] EXCEPT !.crossed = @ \/ (request[r].op = "login"
                                                        /\ request[r].email = e)]]
    /\ UNCHANGED <<account, token, session, holder, nvars>>

\* The flush and commit: new password, token used, selected sessions revoked.
CommitPassword(q) ==
    /\ request[q].at = "revoking"
    /\ account[request[q].email].password < MaxPassword
    /\ account' = [account EXCEPT ![request[q].email].password = @ + 1]
    /\ token' = [t \in Tokens |-> IF t = request[q].key THEN [token[t] EXCEPT !.state = "used"]
                                  ELSE token[t]]
    /\ session' = [s \in Sessions |-> IF s \in request[q].seen
                                        THEN [session[s] EXCEPT !.state = "revoked"]
                                        ELSE session[s]]
    /\ Finish(q)
    /\ UNCHANGED <<holder, nvars>>

\* A request ends early: its process dies, its database call fails, or
\* CommitPassword is out of bounds.  Its transaction is rolled back.
Abandon(q) ==
    /\ ~Free(q)
    /\ Finish(q)
    /\ holder' = [e \in Emails |-> IF holder[e] = q THEN None ELSE holder[e]]
    /\ UNCHANGED <<account, token, session, nvars>>

AccountsNext ==
    \/ \E q \in Requests, e \in Emails : SignupStart(q, e) \/ LoginVerify(q, e)
    \/ \E q \in Requests, t \in Tokens, auto \in AutoApproval : SignupCommit(q, t, auto)
    \/ \E e \in Emails, t \in Tokens :
         \/ ResendVerification(e, t) \/ RequestPasswordReset(e, t)
         \/ \E mark \in BOOLEAN : Approve(e, t, mark)
    \/ \E e \in Emails : Reject(e)
    \/ \E q \in Requests, s \in Sessions : LoginCommit(q, s) \/ UpdatePasswordLoad(q, s)
    \/ \E s \in Sessions : Logout(s)
    \/ \E t \in Tokens : TokenExpires(t)
    \/ \E q \in Requests, t \in Tokens : ConsumeLoad(q, t)
    \/ \E q \in Requests : \/ VerifyEmail(q) \/ SelectSessions(q) \/ CommitPassword(q)
                           \/ Abandon(q)

-----------------------------------------------------------------------------

AccountsTypeOK ==
    /\ account \in [Emails -> [status : {"none", "pending", "approved", "rejected"},
                               verified : BOOLEAN, password : 0 .. MaxPassword]]
    /\ token \in [Tokens -> [purpose : {"none", "verify", "reset"}, email : Emails \cup {None},
                             state : {"none", "open", "used", "expired"}]]
    /\ session \in [Sessions -> [email : Emails \cup {None},
                                 state : {"none", "live", "revoked"},
                                 password : 0 .. MaxPassword, crossed : BOOLEAN]]
    /\ holder \in [Emails -> Requests \cup {None}]

\* A password change ends every session opened with an older password.  The
\* only one that can survive it was opened by a login that overlapped the
\* change (it had verified the old password, or inserted its row after the
\* sessions were selected): two requests must meet for that.
OldPasswordSignedOut ==
    \A s \in Sessions : Live(s) /\ ~session[s].crossed
                          => session[s].password = account[session[s].email].password

=============================================================================

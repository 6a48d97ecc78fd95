------------------------------- MODULE Groups -------------------------------
(***************************************************************************)
(* Membership of a group and the invitations that lead to it:              *)
(* my_agents/groups/service.py and groups/models.py behind the handlers of *)
(* my_agents/api/groups.py.  One group; a person is known by the one       *)
(* address he can read.                                                    *)
(*                                                                         *)
(* A handler reads an invitation, checks it, and later updates the row by  *)
(* its primary key: no version and no status guards the update.  A resend  *)
(* holds the row from its flush to its commit while the mail is sent.      *)
(***************************************************************************)
EXTENDS Naturals, FiniteSets

CONSTANTS
    People,       \* persons, each with one address
    Founder,      \* the person who creates the group
    Invitations,  \* invitation rows
    Calls,        \* API calls
    OfferedRoles, \* the roles the managers choose from
    MaxTokens,    \* bound: invitation tokens drawn
    None

Roles == {"owner", "admin", "editor", "viewer"}
Managing == {"owner", "admin"}

ASSUME GroupsAssumption ==
    /\ Founder \in People /\ None \notin People
    /\ OfferedRoles \subseteq Roles
    /\ MaxTokens \in Nat

VARIABLES
    member,      \* MembershipModel rows: the role of each person, or None
    person,      \* "none": no account; "unverified"; "verified"
    invitation,  \* GroupInvitationModel rows
    mailed,      \* the invitation mails delivered: address and token
    drawn,       \* the tokens drawn so far
    call         \* calls in flight, with what they have read

mvars == <<member, person, invitation, mailed, drawn, call>>

NoInvitation == [status |-> "none", email |-> None, role |-> None, token |-> 0,
                 due |-> FALSE, acceptedBy |-> None]
Ended == [op |-> "idle", at |-> "idle", inv |-> None, email |-> None, role |-> None, token |-> 0]

GroupsInit ==
    /\ member = [u \in People |-> None]
    /\ person \in [People -> {"none", "unverified", "verified"}]
    /\ person[Founder] = "verified"
    /\ invitation = [i \in Invitations |-> NoInvitation]
    /\ mailed = {}
    /\ drawn = 0
    /\ call = [c \in Calls |-> Ended]

Member(u) == member[u] # None
Manager(u) == member[u] \in Managing
Pending(i) == invitation[i].status = "pending"
PendingFor(e) == \E i \in Invitations : Pending(i) /\ invitation[i].email = e

\* The rows and the index entries that a flushed, uncommitted call holds.
Locked(i) == \E c \in Calls : call[c].op = "resend" /\ call[c].at = "sent" /\ call[c].inv = i
Claimed(e) == \E c \in Calls : call[c].op = "create" /\ call[c].at = "sent" /\ call[c].email = e

End(c) == call' = [call EXCEPT ![c] = Ended]

-----------------------------------------------------------------------------
(* Groups and roles. *)

\* create_group: the group, its owner and its first knowledge base (Publications).
CreateGroup(u) ==
    /\ \A v \in People : ~Member(v)
    /\ member' = [member EXCEPT ![u] = "owner"]
    /\ UNCHANGED <<person, invitation, mailed, drawn, call>>

\* update_member: any manager sets any role, its own too.
UpdateMember(u, v, role) ==
    /\ Manager(u) /\ Member(v)
    /\ member' = [member EXCEPT ![v] = role]
    /\ UNCHANGED <<person, invitation, mailed, drawn, call>>

-----------------------------------------------------------------------------
(* Invitations. *)

\* create_invitation: the checks.
InviteChecked(c, u, e, role) ==
    /\ call[c] = Ended /\ Manager(u) /\ ~PendingFor(e)
    /\ call' = [call EXCEPT ![c] = [Ended EXCEPT !.op = "create", !.at = "checked",
                                                 !.email = e, !.role = role]]
    /\ UNCHANGED <<member, person, invitation, mailed, drawn>>

\* Fault: the index over pending invitations is missing.
IndexRefusesNot(e) == FALSE

\* uq_group_invitations_pending_email at the flush.
IndexRefuses(e) == PendingFor(e)

\* The flush takes the index entry of the address, then the mail is sent; a
\* refused mail or a taken entry rolls back.
InviteSent(c) ==
    /\ call[c].op = "create" /\ call[c].at = "checked" /\ drawn < MaxTokens
    /\ ~Claimed(call[c].email)
    /\ \/ /\ ~IndexRefuses(call[c].email)
          /\ drawn' = drawn + 1
          /\ mailed' = mailed \cup {[to |-> call[c].email, token |-> drawn']}
          /\ call' = [call EXCEPT ![c].at = "sent", ![c].token = drawn']
       \/ End(c) /\ UNCHANGED <<mailed, drawn>>
    /\ UNCHANGED <<member, person, invitation>>

InviteCommitted(c, i) ==
    /\ call[c].op = "create" /\ call[c].at = "sent"
    /\ invitation[i] = NoInvitation
    /\ invitation' = [invitation EXCEPT ![i] =
         [NoInvitation EXCEPT !.status = "pending", !.email = call[c].email,
                              !.role = call[c].role, !.token = call[c].token]]
    /\ End(c)
    /\ UNCHANGED <<member, person, mailed, drawn>>

\* resend_pending_invitation, update_pending_invitation_role and
\* cancel_pending_invitation: the row is read and must be pending.
EditChecked(c, u, i, op, role) ==
    /\ call[c] = Ended /\ Manager(u) /\ Pending(i)
    /\ call' = [call EXCEPT ![c] = [Ended EXCEPT !.op = op, !.at = "checked", !.inv = i,
                                                 !.email = invitation[i].email, !.role = role]]
    /\ UNCHANGED <<member, person, invitation, mailed, drawn>>

\* Fault: the new token is committed before its mail is accepted.
RotatedEarly(c) ==
    [invitation EXCEPT ![call[c].inv].token = drawn + 1, ![call[c].inv].due = FALSE]

\* Before the commit nobody sees the rotated token.
Rotated(c) == invitation

ResendSent(c) ==
    /\ call[c].op = "resend" /\ call[c].at = "checked" /\ ~Locked(call[c].inv)
    /\ drawn < MaxTokens
    /\ drawn' = drawn + 1
    /\ invitation' = Rotated(c)
    /\ \/ /\ mailed' = mailed \cup {[to |-> call[c].email, token |-> drawn']}
          /\ call' = [call EXCEPT ![c].at = "sent", ![c].token = drawn']
       \/ End(c) /\ UNCHANGED mailed
    /\ UNCHANGED <<member, person>>

ResendCommitted(c) ==
    /\ call[c].op = "resend" /\ call[c].at = "sent"
    /\ invitation' = [invitation EXCEPT ![call[c].inv].token = call[c].token,
                                        ![call[c].inv].due = FALSE]
    /\ End(c)
    /\ UNCHANGED <<member, person, mailed, drawn>>

RoleUpdated(c) ==
    /\ call[c].op = "role" /\ call[c].at = "checked" /\ ~Locked(call[c].inv)
    /\ invitation' = [invitation EXCEPT ![call[c].inv].role = call[c].role]
    /\ End(c)
    /\ UNCHANGED <<member, person, mailed, drawn>>

Cancelled(c) ==
    /\ call[c].op = "cancel" /\ call[c].at = "checked" /\ ~Locked(call[c].inv)
    /\ invitation' = [invitation EXCEPT ![call[c].inv].status = "cancelled"]
    /\ End(c)
    /\ UNCHANGED <<member, person, mailed, drawn>>

\* expires_at passes.
InvitationFallsDue(i) ==
    /\ Pending(i) /\ ~invitation[i].due
    /\ invitation' = [invitation EXCEPT ![i].due = TRUE]
    /\ UNCHANGED <<member, person, mailed, drawn, call>>

-----------------------------------------------------------------------------
(* Acceptance. *)

\* _pending_invitation_for_token: the row found by the token, as person u or
\* (op = "signup") as somebody without an account presents it.
TokenPresented(c, u, i, op) ==
    /\ call[c] = Ended /\ Pending(i)
    /\ op = "accept" => person[u] # "none"
    /\ [to |-> invitation[i].email, token |-> invitation[i].token] \in mailed
    /\ call' = [call EXCEPT ![c] =
         [Ended EXCEPT !.op = IF invitation[i].due THEN "expire" ELSE op, !.at = "checked",
                       !.inv = i, !.email = IF op = "accept" THEN u ELSE invitation[i].email,
                       !.role = invitation[i].role]]
    /\ UNCHANGED <<member, person, invitation, mailed, drawn>>

\* A token past its date marks its row.
InvitationExpired(c) ==
    /\ call[c].op = "expire" /\ call[c].at = "checked" /\ ~Locked(call[c].inv)
    /\ invitation' = [invitation EXCEPT ![call[c].inv].status = "expired"]
    /\ End(c)
    /\ UNCHANGED <<member, person, mailed, drawn>>

\* _accept_pending_invitation: a person who is a member already keeps the role.
Accepted(c, u) ==
    /\ member' = [member EXCEPT ![u] = IF @ = None THEN call[c].role ELSE @]
    /\ invitation' = [invitation EXCEPT ![call[c].inv].status = "accepted",
                                        ![call[c].inv].acceptedBy = u]

\* Fault: anybody who holds the token joins.
InvitedPersonAny(u, i) == TRUE

\* The account of the caller is the invited one, and its address is verified.
InvitedPerson(u, i) == person[u] = "verified" /\ invitation[i].email = u

\* accept_invitation, to its commit or its refusal.
AcceptCommitted(c) ==
    /\ call[c].op = "accept" /\ call[c].at = "checked" /\ ~Locked(call[c].inv)
    /\ IF InvitedPerson(call[c].email, call[c].inv)
         THEN Accepted(c, call[c].email) ELSE UNCHANGED <<member, invitation>>
    /\ End(c)
    /\ UNCHANGED <<person, mailed, drawn>>

\* accept_invitation_with_new_user: the token proves the address, the account
\* is created verified and approved (its alert: Notifications).
SignupAccepted(c) ==
    /\ call[c].op = "signup" /\ call[c].at = "checked" /\ ~Locked(call[c].inv)
    /\ IF person[call[c].email] = "none"
         THEN /\ person' = [person EXCEPT ![call[c].email] = "verified"]
              /\ Accepted(c, call[c].email)
         ELSE UNCHANGED <<person, member, invitation>>
    /\ End(c)
    /\ UNCHANGED <<mailed, drawn>>

\* A process dies, or the client gives up before the commit.
CallLost(c) ==
    /\ call[c] # Ended
    /\ End(c)
    /\ UNCHANGED <<member, person, invitation, mailed, drawn>>

GroupsNext ==
    \/ CreateGroup(Founder)
    \/ \E u, v \in People, r \in OfferedRoles : UpdateMember(u, v, r)
    \/ \E c \in Calls, u, e \in People, r \in OfferedRoles : InviteChecked(c, u, e, r)
    \/ \E c \in Calls, u \in People, i \in Invitations, r \in OfferedRoles :
         EditChecked(c, u, i, "role", r)
    \/ \E c \in Calls, u \in People, i \in Invitations :
         \/ EditChecked(c, u, i, "resend", None)
         \/ EditChecked(c, u, i, "cancel", None)
         \/ TokenPresented(c, u, i, "accept")
         \/ TokenPresented(c, u, i, "signup")
    \/ \E c \in Calls, i \in Invitations : InviteCommitted(c, i)
    \/ \E i \in Invitations : InvitationFallsDue(i)
    \/ \E c \in Calls :
         \/ InviteSent(c) \/ ResendSent(c) \/ ResendCommitted(c)
         \/ RoleUpdated(c) \/ Cancelled(c) \/ InvitationExpired(c)
         \/ AcceptCommitted(c) \/ SignupAccepted(c)
         \/ CallLost(c)

-----------------------------------------------------------------------------
(* Properties. *)

\* Two managers who invite the same address at the same time leave one pending
\* invitation: the check of create_invitation is repeated by the index at the
\* flush, and the loser's mail is never sent.
OnePendingPerAddress ==
    \A i, j \in Invitations :
        Pending(i) /\ Pending(j) /\ invitation[i].email = invitation[j].email => i = j

\* "If delivery fails, the surrounding rollback preserves the previous token
\* hash": the token of a pending invitation is always one the address received,
\* whichever resends failed, crashed or overlapped.
PendingTokenMailed ==
    \A i \in Invitations :
        Pending(i) => [to |-> invitation[i].email, token |-> invitation[i].token] \in mailed

\* Whatever overlaps, a member other than the founder has a verified account
\* and accepted an invitation sent to his own address.
MembersInvited ==
    \A u \in People \ {Founder} : Member(u) =>
        /\ person[u] = "verified"
        /\ \E i \in Invitations : invitation[i].email = u /\ invitation[i].acceptedBy = u

\* An address has one pending invitation, with a token that reached it, and only those
\* who were invited are members.
InvitationsSound == OnePendingPerAddress /\ PendingTokenMailed /\ MembersInvited
=============================================================================

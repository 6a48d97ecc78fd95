---------------------------- MODULE GroupsProofs ----------------------------
(***************************************************************************)
(* Proofs about Groups and Publications together, for any number of        *)
(* persons, invitations, calls, knowledge bases, documents and requests.   *)
(***************************************************************************)
EXTENDS Publications, TLAPS

-----------------------------------------------------------------------------
(* Invitations: the inductive invariant. *)

InvitationRow == [status : {"none", "pending", "cancelled", "expired", "accepted"},
                  email : People \cup {None}, role : Roles \cup {None}, token : Nat,
                  due : BOOLEAN, acceptedBy : People \cup {None}]
CallRow == [op : {"idle", "create", "resend", "role", "cancel", "accept", "signup", "expire"},
            at : {"idle", "checked", "sent"}, inv : Invitations \cup {None},
            email : People \cup {None}, role : Roles \cup {None}, token : Nat]

GroupsTypeOK ==
    /\ member \in [People -> Roles \cup {None}]
    /\ person \in [People -> {"none", "unverified", "verified"}]
    /\ invitation \in [Invitations -> InvitationRow]
    /\ drawn \in Nat
    /\ call \in [Calls -> CallRow]

Letter(e, t) == [to |-> e, token |-> t]

\* A pending invitation has the token of a mail to its address.
SoundInvitation(r) ==
    /\ r.status # "none" => r.email \in People
    /\ r.status = "pending" => Letter(r.email, r.token) \in mailed

\* A call that has read a row still names it, and its address is the row's.  What a
\* call has flushed, it has mailed.
SoundCall(r) ==
    /\ r.op = "create" => r.email \in People
    /\ r.op \in {"resend", "role", "cancel", "accept", "signup", "expire"} =>
         r.inv \in Invitations /\ r.email \in People /\ invitation[r.inv].status # "none"
    /\ r.op \in {"resend", "signup"} => r.email = invitation[r.inv].email
    /\ r.op \in {"create", "resend"} /\ r.at = "sent" => Letter(r.email, r.token) \in mailed

\* The index entry that a flushed call holds is the only one of its address.
EntriesOnce ==
    /\ \A c \in Calls : call[c].op = "create" /\ call[c].at = "sent" => ~PendingFor(call[c].email)
    /\ \A c, d \in Calls :
         /\ call[c].op = "create" /\ call[c].at = "sent"
         /\ call[d].op = "create" /\ call[d].at = "sent"
         /\ call[c].email = call[d].email
         => c = d

GroupsInv ==
    /\ GroupsTypeOK
    /\ \A i \in Invitations : SoundInvitation(invitation[i])
    /\ \A c \in Calls : SoundCall(call[c])
    /\ EntriesOnce /\ OnePendingPerAddress /\ MembersInvited

-----------------------------------------------------------------------------

\* The row of a call that has ended.
LEMMA EndedRow == Ended \in CallRow /\ SoundCall(Ended) /\ Ended.op = "idle"
BY DEF Ended, CallRow, SoundCall

LEMMA GroupsInitially == GroupsInit => GroupsInv
<1> SUFFICES ASSUME GroupsInit PROVE GroupsInv
  OBVIOUS
<1>1. NoInvitation \in InvitationRow /\ NoInvitation.status = "none"
  BY DEF NoInvitation, InvitationRow
<1>2. GroupsTypeOK
  BY <1>1, EndedRow DEF GroupsInit, GroupsTypeOK
<1>3. \A i \in Invitations : invitation[i].status = "none"
  BY <1>1 DEF GroupsInit
<1>4. \A c \in Calls : call[c] = Ended
  BY DEF GroupsInit
<1>5. \A u \in People : ~Member(u)
  BY DEF GroupsInit, Member
<1>6. EntriesOnce /\ OnePendingPerAddress /\ MembersInvited
  BY <1>3, <1>4, <1>5, EndedRow DEF EntriesOnce, OnePendingPerAddress, MembersInvited, Pending
<1> QED  BY <1>2, <1>3, <1>4, <1>6, EndedRow DEF GroupsInv, SoundInvitation

\* Steps that change neither invitations nor what was mailed, and move one call to
\* a state in which it holds no index entry.
LEMMA CallMoves ==
    ASSUME GroupsInv, NEW c \in Calls, NEW r \in CallRow, SoundCall(r),
           r.op = "create" => r.at # "sent",
           call' = [call EXCEPT ![c] = r], UNCHANGED <<member, person, invitation, mailed, drawn>>
    PROVE  GroupsInv'
<1>1. GroupsTypeOK'
  BY DEF GroupsInv, GroupsTypeOK
<1>2. \A d \in Calls : (call'[d] = r /\ d = c) \/ (call'[d] = call[d] /\ d # c)
  BY DEF GroupsInv, GroupsTypeOK
<1>3. (\A d \in Calls : SoundCall(call[d]))'
  <2> SUFFICES ASSUME NEW d \in Calls PROVE SoundCall(call[d])'
    OBVIOUS
  <2>1. CASE call'[d] = r
    BY <2>1 DEF SoundCall
  <2>2. CASE call'[d] = call[d]
    BY <2>2 DEF GroupsInv, SoundCall
  <2> QED  BY <1>2, <2>1, <2>2
<1>4. EntriesOnce'
  BY <1>2 DEF GroupsInv, EntriesOnce, PendingFor, Pending
<1>5. (\A i \in Invitations : SoundInvitation(invitation[i]))'
  BY DEF GroupsInv, SoundInvitation
<1>6. OnePendingPerAddress' /\ MembersInvited'
  BY DEF GroupsInv, OnePendingPerAddress, MembersInvited, Pending, Member
<1> QED  BY <1>1, <1>3, <1>4, <1>5, <1>6 DEF GroupsInv

\* Steps that rewrite the row of an invitation that exists, keep its address, do not
\* make it pending again, and end their call or have none.
LEMMA RowRewritten ==
    ASSUME GroupsInv, NEW i \in Invitations, NEW r \in InvitationRow,
           invitation[i].status # "none", r.status # "none", r.email = invitation[i].email,
           r.status = "pending" =>
             invitation[i].status = "pending" /\ Letter(r.email, r.token) \in mailed,
           r.acceptedBy \in {invitation[i].acceptedBy, r.email},
           invitation' = [invitation EXCEPT ![i] = r], UNCHANGED <<mailed, drawn>>,
           UNCHANGED call \/ \E c \in Calls : End(c),
           member' \in [People -> Roles \cup {None}],
           person' \in [People -> {"none", "unverified", "verified"}],
           \A u \in People : person[u] = "verified" => person'[u] = "verified",
           \A u \in People \ {Founder} : member'[u] # None =>
             Member(u) \/ (person'[u] = "verified" /\ r.email = u /\ r.acceptedBy = u)
    PROVE  GroupsInv'
<1>1. /\ invitation' \in [Invitations -> InvitationRow] /\ invitation'[i] = r
      /\ \A j \in Invitations : j # i => invitation'[j] = invitation[j]
  BY DEF GroupsInv, GroupsTypeOK
<1>2. \A j \in Invitations :
        /\ invitation'[j].email = invitation[j].email
        /\ invitation[j].status # "none" => invitation'[j].status # "none"
        /\ invitation'[j].status = "pending" => invitation[j].status = "pending"
  BY <1>1
<1>3. call' \in [Calls -> CallRow] /\ \A c \in Calls : call'[c] = call[c] \/ call'[c] = Ended
  BY EndedRow DEF GroupsInv, GroupsTypeOK, End
<1>4. GroupsTypeOK'
  BY <1>1, <1>3 DEF GroupsInv, GroupsTypeOK
<1>5. (\A j \in Invitations : SoundInvitation(invitation[j]))'
  BY <1>1 DEF GroupsInv, SoundInvitation
<1>6. (\A c \in Calls : SoundCall(call[c]))'
  <2> SUFFICES ASSUME NEW c \in Calls PROVE SoundCall(call[c])'
    OBVIOUS
  <2>1. CASE call'[c] = Ended
    BY <2>1, EndedRow DEF SoundCall, Ended
  <2>2. CASE call'[c] = call[c]
    BY <1>2, <2>2 DEF GroupsInv, SoundCall
  <2> QED  BY <1>3, <2>1, <2>2
<1>7. \A e : PendingFor(e)' => PendingFor(e)
  BY <1>2 DEF PendingFor, Pending
<1>8. EntriesOnce'
  BY <1>3, <1>7, EndedRow DEF GroupsInv, EntriesOnce
<1>9. OnePendingPerAddress'
  BY <1>2 DEF GroupsInv, OnePendingPerAddress, Pending
<1>10. MembersInvited'
  <2> SUFFICES ASSUME NEW u \in People \ {Founder}, Member(u)'
               PROVE  /\ person'[u] = "verified"
                      /\ \E j \in Invitations : invitation'[j].email = u /\ invitation'[j].acceptedBy = u
    BY DEF MembersInvited
  <2>1. CASE Member(u)
    <3>1. PICK j \in Invitations : invitation[j].email = u /\ invitation[j].acceptedBy = u
      BY <2>1 DEF GroupsInv, MembersInvited
    <3>2. invitation'[j].email = u /\ invitation'[j].acceptedBy = u
      BY <1>1, <3>1
    <3> QED  BY <2>1, <3>2 DEF GroupsInv, MembersInvited
  <2>2. CASE person'[u] = "verified" /\ r.email = u /\ r.acceptedBy = u
    BY <1>1, <2>2
  <2> QED  BY <2>1, <2>2 DEF Member
<1> QED  BY <1>4, <1>5, <1>6, <1>8, <1>9, <1>10 DEF GroupsInv

\* A resend whose mail failed has drawn a token and nothing else.
LEMMA DrawnInVain ==
    ASSUME GroupsInv, NEW c \in Calls, drawn' \in Nat, call' = [call EXCEPT ![c] = Ended],
           UNCHANGED <<member, person, invitation, mailed>>
    PROVE  GroupsInv'
<1>1. call' \in [Calls -> CallRow] /\ \A d \in Calls : call'[d] = call[d] \/ call'[d] = Ended
  BY EndedRow DEF GroupsInv, GroupsTypeOK
<1>2. GroupsTypeOK'
  BY <1>1 DEF GroupsInv, GroupsTypeOK
<1>3. (\A d \in Calls : SoundCall(call[d]))'
  <2> SUFFICES ASSUME NEW d \in Calls PROVE SoundCall(call[d])'
    OBVIOUS
  <2>1. CASE call'[d] = Ended
    BY <2>1, EndedRow DEF SoundCall, Ended
  <2>2. CASE call'[d] = call[d]
    BY <2>2 DEF GroupsInv, SoundCall
  <2> QED  BY <1>1, <2>1, <2>2
<1>4. EntriesOnce'
  BY <1>1, EndedRow DEF GroupsInv, EntriesOnce, PendingFor, Pending
<1>5. (\A i \in Invitations : SoundInvitation(invitation[i]))'
  BY DEF GroupsInv, SoundInvitation
<1>6. OnePendingPerAddress' /\ MembersInvited'
  BY DEF GroupsInv, OnePendingPerAddress, MembersInvited, Pending, Member
<1> QED  BY <1>2, <1>3, <1>4, <1>5, <1>6 DEF GroupsInv

-----------------------------------------------------------------------------
(* One lemma per action, or per group of actions that move the same state. *)

LEMMA RolesKeep ==
    ASSUME GroupsInv,
           \/ CreateGroup(Founder)
           \/ \E u, v \in People, r \in OfferedRoles : UpdateMember(u, v, r)
    PROVE  GroupsInv'
<1>1. UNCHANGED <<person, invitation, mailed, drawn, call>>
  BY DEF CreateGroup, UpdateMember
<1>2. /\ member' \in [People -> Roles \cup {None}]
      /\ \A u \in People \ {Founder} : member'[u] # None => member[u] # None
  BY GroupsAssumption DEF GroupsInv, GroupsTypeOK, CreateGroup, UpdateMember, Member, Roles
<1>3. GroupsTypeOK' /\ MembersInvited'
  BY <1>1, <1>2 DEF GroupsInv, GroupsTypeOK, MembersInvited, Member
<1>4. EntriesOnce' /\ OnePendingPerAddress'
  BY <1>1 DEF GroupsInv, EntriesOnce, OnePendingPerAddress, PendingFor, Pending
<1>5. (\A i \in Invitations : SoundInvitation(invitation[i]))' /\ (\A c \in Calls : SoundCall(call[c]))'
  BY <1>1 DEF GroupsInv, SoundInvitation, SoundCall
<1> QED  BY <1>3, <1>4, <1>5 DEF GroupsInv

LEMMA InviteCheckedKeeps ==
    ASSUME GroupsInv, NEW c \in Calls, NEW u \in People, NEW e \in People,
           NEW role \in OfferedRoles, InviteChecked(c, u, e, role)
    PROVE  GroupsInv'
<1> DEFINE r == [Ended EXCEPT !.op = "create", !.at = "checked", !.email = e, !.role = role]
<1>1. r \in CallRow
  BY GroupsAssumption DEF Ended, CallRow
<1>2. r.op = "create" /\ r.at = "checked" /\ r.email = e
  BY DEF Ended
<1>3. call' = [call EXCEPT ![c] = r] /\ UNCHANGED <<member, person, invitation, mailed, drawn>>
  BY DEF InviteChecked
<1> HIDE DEF r
<1>4. SoundCall(r)
  BY <1>2 DEF SoundCall
<1> QED  BY <1>1, <1>2, <1>3, <1>4, CallMoves

LEMMA EditCheckedKeeps ==
    ASSUME GroupsInv, NEW c \in Calls, NEW u \in People, NEW i \in Invitations,
           NEW op \in {"resend", "role", "cancel"}, NEW role \in OfferedRoles \cup {None},
           EditChecked(c, u, i, op, role)
    PROVE  GroupsInv'
<1> DEFINE r == [Ended EXCEPT !.op = op, !.at = "checked", !.inv = i,
                              !.email = invitation[i].email, !.role = role]
<1>0. invitation[i].status = "pending" /\ invitation[i].email \in People
  BY DEF GroupsInv, SoundInvitation, EditChecked, Pending
<1>1. r \in CallRow
  BY <1>0, GroupsAssumption DEF Ended, CallRow
<1>2. r.op = op /\ r.at = "checked" /\ r.inv = i /\ r.email = invitation[i].email
  BY DEF Ended
<1>3. call' = [call EXCEPT ![c] = r] /\ UNCHANGED <<member, person, invitation, mailed, drawn>>
  BY DEF EditChecked
<1> HIDE DEF r
<1>4. SoundCall(r)
  BY <1>0, <1>2 DEF SoundCall
<1> QED  BY <1>1, <1>2, <1>3, <1>4, CallMoves

LEMMA TokenPresentedKeeps ==
    ASSUME GroupsInv, NEW c \in Calls, NEW u \in People, NEW i \in Invitations,
           NEW op \in {"accept", "signup"}, TokenPresented(c, u, i, op)
    PROVE  GroupsInv'
<1> DEFINE o == IF invitation[i].due THEN "expire" ELSE op
           e == IF op = "accept" THEN u ELSE invitation[i].email
           r == [Ended EXCEPT !.op = o, !.at = "checked", !.inv = i, !.email = e,
                              !.role = invitation[i].role]
<1>0. invitation[i].status = "pending" /\ invitation[i].email \in People
      /\ invitation[i].role \in Roles \cup {None}
  BY DEF GroupsInv, GroupsTypeOK, InvitationRow, SoundInvitation, TokenPresented, Pending
<1>1. o \in {"accept", "signup", "expire"} /\ e \in People
      /\ (o = "signup" => e = invitation[i].email)
  BY <1>0
<1>2. call' = [call EXCEPT ![c] = r] /\ UNCHANGED <<member, person, invitation, mailed, drawn>>
  BY DEF TokenPresented
<1> HIDE DEF o, e
<1>3. r \in CallRow
  BY <1>0, <1>1 DEF Ended, CallRow
<1>4. r.op = o /\ r.at = "checked" /\ r.inv = i /\ r.email = e
  BY DEF Ended
<1> HIDE DEF r
<1>5. SoundCall(r)
  BY <1>0, <1>1, <1>4 DEF SoundCall
<1> QED  BY <1>1, <1>2, <1>3, <1>4, <1>5, CallMoves

LEMMA CallEnds ==
    ASSUME GroupsInv, NEW c \in Calls, End(c),
           UNCHANGED <<member, person, invitation, mailed, drawn>>
    PROVE  GroupsInv'
BY EndedRow, CallMoves DEF End

\* A mail and the call that sent it: the token is new, and a created invitation takes the
\* only index entry of its address.
LEMMA MailKeeps ==
    ASSUME GroupsInv, NEW c \in Calls, call[c].op \in {"create", "resend"},
           drawn' = drawn + 1,
           call[c].op = "create" => ~PendingFor(call[c].email) /\ ~Claimed(call[c].email),
           mailed' = mailed \cup {Letter(call[c].email, drawn')},
           call' = [call EXCEPT ![c].at = "sent", ![c].token = drawn'],
           UNCHANGED <<member, person, invitation>>
    PROVE  GroupsInv'
<1> DEFINE r == [call[c] EXCEPT !.at = "sent", !.token = drawn']
<1>0. drawn' \in Nat /\ call[c] \in CallRow
  BY DEF GroupsInv, GroupsTypeOK
<1>1. r \in CallRow /\ drawn' \in Nat
  BY <1>0 DEF CallRow
<1>2. r.op = call[c].op /\ r.inv = call[c].inv /\ r.email = call[c].email /\ r.at = "sent"
      /\ r.token = drawn'
  BY DEF GroupsInv, GroupsTypeOK, CallRow
<1>3. call' = [call EXCEPT ![c] = r]
  BY DEF GroupsInv, GroupsTypeOK, CallRow
<1> HIDE DEF r
<1>4. \A d \in Calls : (call'[d] = r /\ d = c) \/ (call'[d] = call[d] /\ d # c)
  BY <1>3 DEF GroupsInv, GroupsTypeOK
<1>5. GroupsTypeOK'
  BY <1>1, <1>3 DEF GroupsInv, GroupsTypeOK
<1>6. (\A d \in Calls : SoundCall(call[d]))'
  <2> SUFFICES ASSUME NEW d \in Calls PROVE SoundCall(call[d])'
    OBVIOUS
  <2>1. CASE call'[d] = r
    <3>1. SoundCall(call[c]) /\ Letter(r.email, r.token) \in mailed'
      BY <1>2 DEF GroupsInv
    <3> QED  BY <1>2, <2>1, <3>1 DEF SoundCall
  <2>2. CASE call'[d] = call[d]
    BY <2>2 DEF GroupsInv, SoundCall
  <2> QED  BY <1>4, <2>1, <2>2
<1>7. EntriesOnce'
  <2>1. \A e : PendingFor(e)' <=> PendingFor(e)
    BY DEF PendingFor, Pending
  <2>2. \A d \in Calls \ {c} : /\ call[c].op = "create" /\ call[d].op = "create" /\ call[d].at = "sent"
                              => call[d].email # call[c].email
    BY DEF Claimed
  <2> DEFINE Entry(x) == call[x].op = "create" /\ call[x].at = "sent"
  <2>3. \A x \in Calls : Entry(x) => ~PendingFor(call[x].email)
    BY DEF GroupsInv, EntriesOnce
  <2>4. \A x, y \in Calls : Entry(x) /\ Entry(y) /\ call[x].email = call[y].email => x = y
    BY DEF GroupsInv, EntriesOnce
  <2>5. \A x \in Calls : x # c /\ Entry(x)' => Entry(x) /\ call'[x].email = call[x].email
    BY <1>4
  <2>6. Entry(c)' => call[c].op = "create" /\ call'[c].email = call[c].email
    BY <1>2, <1>4
  <2>7. (\A x \in Calls : Entry(x) => ~PendingFor(call[x].email))'
    <3> SUFFICES ASSUME NEW x \in Calls, Entry(x)' PROVE ~PendingFor(call[x].email)'
      OBVIOUS
    <3>1. ~PendingFor(call[x].email) /\ call'[x].email = call[x].email
      BY <2>3, <2>5, <2>6
    <3> QED  BY <3>1 DEF PendingFor, Pending
  <2>8. (\A x, y \in Calls : Entry(x) /\ Entry(y) /\ call[x].email = call[y].email => x = y)'
    <3> SUFFICES ASSUME NEW x \in Calls, NEW y \in Calls, Entry(x)', Entry(y)',
                        call'[x].email = call'[y].email
                 PROVE  x = y
      OBVIOUS
    <3>1. CASE x # c /\ y # c
      BY <2>4, <2>5, <3>1
    <3>2. CASE x = c /\ y # c
      BY <2>2, <2>5, <2>6, <3>2
    <3>3. CASE x # c /\ y = c
      BY <2>2, <2>5, <2>6, <3>3
    <3> QED  BY <3>1, <3>2, <3>3
  <2> QED  BY <2>7, <2>8 DEF EntriesOnce
<1>8. (\A i \in Invitations : SoundInvitation(invitation[i]))'
  BY DEF GroupsInv, SoundInvitation
<1>9. OnePendingPerAddress' /\ MembersInvited'
  BY DEF GroupsInv, OnePendingPerAddress, MembersInvited, Pending, Member
<1> QED  BY <1>5, <1>6, <1>7, <1>8, <1>9 DEF GroupsInv

LEMMA SentKeeps ==
    ASSUME GroupsInv, NEW c \in Calls, InviteSent(c) \/ ResendSent(c)
    PROVE  GroupsInv'
<1>1. CASE InviteSent(c)
  <2>1. CASE End(c) /\ UNCHANGED <<mailed, drawn>>
    BY <1>1, <2>1, CallEnds DEF InviteSent
  <2>2. CASE ~(End(c) /\ UNCHANGED <<mailed, drawn>>)
    BY <1>1, <2>2, MailKeeps DEF InviteSent, IndexRefuses, Letter
  <2> QED  BY <2>1, <2>2
<1>2. CASE ResendSent(c)
  <2>1. CASE End(c) /\ UNCHANGED mailed
    <3>1. drawn' \in Nat
      BY <1>2 DEF ResendSent, GroupsInv, GroupsTypeOK
    <3>2. UNCHANGED <<member, person, invitation, mailed>> /\ call' = [call EXCEPT ![c] = Ended]
      BY <1>2, <2>1 DEF ResendSent, Rotated, End
    <3> QED  BY <3>1, <3>2, DrawnInVain
  <2>2. CASE ~(End(c) /\ UNCHANGED mailed)
    BY <1>2, <2>2, MailKeeps DEF ResendSent, Rotated, Letter
  <2> QED  BY <2>1, <2>2
<1> QED  BY <1>1, <1>2

LEMMA InviteCommittedKeeps ==
    ASSUME GroupsInv, NEW c \in Calls, NEW i \in Invitations, InviteCommitted(c, i)
    PROVE  GroupsInv'
<1> DEFINE r == [NoInvitation EXCEPT !.status = "pending", !.email = call[c].email,
                                     !.role = call[c].role, !.token = call[c].token]
<1>0. /\ call[c].op = "create" /\ call[c].at = "sent" /\ call[c] \in CallRow
      /\ call[c].email \in People /\ Letter(call[c].email, call[c].token) \in mailed
      /\ ~PendingFor(call[c].email)
  BY DEF InviteCommitted, GroupsInv, GroupsTypeOK, SoundCall, EntriesOnce
<1>1. r \in InvitationRow
  BY <1>0 DEF InvitationRow, NoInvitation, CallRow
<1>2. r.status = "pending" /\ r.email = call[c].email /\ r.token = call[c].token
  BY DEF NoInvitation
<1>3. invitation' = [invitation EXCEPT ![i] = r] /\ UNCHANGED <<member, person, mailed, drawn>>
      /\ call' = [call EXCEPT ![c] = Ended] /\ invitation[i].status = "none"
      /\ invitation[i].acceptedBy = None
  BY DEF InviteCommitted, End, NoInvitation
<1> HIDE DEF r
<1>4. \A j \in Invitations : (invitation'[j] = r /\ j = i) \/ (invitation'[j] = invitation[j] /\ j # i)
  BY <1>3 DEF GroupsInv, GroupsTypeOK
<1>5. \A d \in Calls : (call'[d] = Ended /\ d = c) \/ (call'[d] = call[d] /\ d # c)
  BY <1>3 DEF GroupsInv, GroupsTypeOK
<1>6. GroupsTypeOK'
  BY <1>1, <1>3, EndedRow DEF GroupsInv, GroupsTypeOK
<1>7. (\A j \in Invitations : SoundInvitation(invitation[j]))'
  BY <1>0, <1>2, <1>3, <1>4 DEF GroupsInv, SoundInvitation
<1>8. (\A d \in Calls : SoundCall(call[d]))'
  <2> SUFFICES ASSUME NEW d \in Calls PROVE SoundCall(call[d])'
    OBVIOUS
  <2>1. CASE call'[d] = Ended
    BY <2>1, EndedRow DEF SoundCall, Ended
  <2>2. CASE call'[d] = call[d]
    <3>1. SoundCall(call[d])
      BY DEF GroupsInv
    <3>2. \A j \in Invitations : invitation[j].status # "none" => invitation'[j] = invitation[j]
      BY <1>3, <1>4
    <3> QED  BY <1>3, <2>2, <3>1, <3>2 DEF SoundCall
  <2> QED  BY <1>5, <2>1, <2>2
<1>9. \A e : PendingFor(e)' => PendingFor(e) \/ e = call[c].email
  BY <1>2, <1>4 DEF PendingFor, Pending
<1>10. EntriesOnce'
  BY <1>0, <1>5, <1>9, EndedRow DEF GroupsInv, EntriesOnce
<1>11. OnePendingPerAddress'
  BY <1>0, <1>2, <1>4 DEF GroupsInv, OnePendingPerAddress, Pending, PendingFor
<1>12. MembersInvited'
  <2> SUFFICES ASSUME NEW u \in People \ {Founder}, Member(u)'
               PROVE  /\ person'[u] = "verified"
                      /\ \E j \in Invitations : invitation'[j].email = u /\ invitation'[j].acceptedBy = u
    BY DEF MembersInvited
  <2>1. PICK j \in Invitations : invitation[j].email = u /\ invitation[j].acceptedBy = u
    BY <1>3 DEF GroupsInv, MembersInvited, Member
  <2>2. j # i
    BY <1>3, <2>1, GroupsAssumption
  <2> QED  BY <1>3, <1>4, <2>1, <2>2 DEF GroupsInv, MembersInvited, Member
<1> QED  BY <1>6, <1>7, <1>8, <1>10, <1>11, <1>12 DEF GroupsInv

\* The updates by primary key: whatever the row has become since it was read, they keep
\* its address and never make it pending again.
LEMMA EditsKeep ==
    ASSUME GroupsInv, NEW c \in Calls,
           \/ ResendCommitted(c) \/ RoleUpdated(c) \/ Cancelled(c) \/ InvitationExpired(c)
    PROVE  GroupsInv'
<1> DEFINE i == call[c].inv
<1>1. /\ call[c].op \in {"resend", "role", "cancel", "expire"} /\ call[c] \in CallRow
      /\ End(c) /\ UNCHANGED <<member, person, mailed, drawn>>
  BY DEF ResendCommitted, RoleUpdated, Cancelled, InvitationExpired, GroupsInv, GroupsTypeOK
<1>2. i \in Invitations /\ invitation[i].status # "none" /\ invitation[i] \in InvitationRow
  BY <1>1 DEF GroupsInv, GroupsTypeOK, SoundCall
<1>3. SoundInvitation(invitation[i]) /\ invitation \in [Invitations -> InvitationRow]
  BY <1>2 DEF GroupsInv, GroupsTypeOK
<1>4. /\ member' \in [People -> Roles \cup {None}]
      /\ person' \in [People -> {"none", "unverified", "verified"}]
      /\ \A u \in People : person[u] = "verified" => person'[u] = "verified"
      /\ \A u \in People : member'[u] # None => Member(u)
  BY <1>1 DEF GroupsInv, GroupsTypeOK, Member
<1>5. PICK r \in InvitationRow :
        /\ invitation' = [invitation EXCEPT ![i] = r]
        /\ r.status # "none" /\ r.email = invitation[i].email
        /\ r.acceptedBy = invitation[i].acceptedBy
        /\ r.status = "pending" =>
             invitation[i].status = "pending" /\ Letter(r.email, r.token) \in mailed
  <2>1. CASE ResendCommitted(c)
    <3> DEFINE r == [invitation[i] EXCEPT !.token = call[c].token, !.due = FALSE]
    <3>1. r \in InvitationRow
      BY <1>1, <1>2 DEF InvitationRow, CallRow
    <3>2. invitation' = [invitation EXCEPT ![i] = r]
      BY <2>1, <1>2, <1>3 DEF ResendCommitted, InvitationRow
    <3>3. /\ r.status = invitation[i].status /\ r.email = invitation[i].email
          /\ r.acceptedBy = invitation[i].acceptedBy /\ r.token = call[c].token
      BY <1>2 DEF InvitationRow
    <3>4. Letter(invitation[i].email, call[c].token) \in mailed
      BY <2>1 DEF ResendCommitted, GroupsInv, SoundCall
    <3> QED  BY <1>2, <3>1, <3>2, <3>3, <3>4
  <2>2. CASE RoleUpdated(c)
    <3> DEFINE r == [invitation[i] EXCEPT !.role = call[c].role]
    <3>1. r \in InvitationRow
      BY <1>1, <1>2 DEF InvitationRow, CallRow
    <3>2. invitation' = [invitation EXCEPT ![i] = r]
      BY <2>2, <1>2, <1>3 DEF RoleUpdated, InvitationRow
    <3>3. /\ r.status = invitation[i].status /\ r.email = invitation[i].email
          /\ r.acceptedBy = invitation[i].acceptedBy /\ r.token = invitation[i].token
      BY <1>2 DEF InvitationRow
    <3> QED  BY <1>2, <1>3, <3>1, <3>2, <3>3 DEF SoundInvitation
  <2>3. CASE Cancelled(c) \/ InvitationExpired(c)
    <3>1. PICK s \in {"cancelled", "expired"} : invitation' = [invitation EXCEPT ![i].status = s]
      BY <2>3 DEF Cancelled, InvitationExpired
    <3> DEFINE r == [invitation[i] EXCEPT !.status = s]
    <3>2. r \in InvitationRow
      BY <1>2 DEF InvitationRow
    <3>3. invitation' = [invitation EXCEPT ![i] = r]
      BY <3>1, <1>2, <1>3 DEF InvitationRow
    <3>4. r.status = s /\ r.email = invitation[i].email /\ r.acceptedBy = invitation[i].acceptedBy
      BY <1>2 DEF InvitationRow
    <3> QED  BY <1>2, <3>2, <3>3, <3>4
  <2> QED  BY <2>1, <2>2, <2>3
<1> HIDE DEF i
<1> QED  BY <1>1, <1>2, <1>4, <1>5, RowRewritten

LEMMA FallsDueKeeps ==
    ASSUME GroupsInv, NEW i \in Invitations, InvitationFallsDue(i)
    PROVE  GroupsInv'
<1> DEFINE r == [invitation[i] EXCEPT !.due = TRUE]
<1>1. /\ invitation[i].status = "pending" /\ invitation[i] \in InvitationRow
      /\ SoundInvitation(invitation[i]) /\ UNCHANGED <<member, person, mailed, drawn, call>>
  BY DEF InvitationFallsDue, GroupsInv, GroupsTypeOK, Pending
<1>2. r \in InvitationRow /\ r.status = "pending" /\ r.email = invitation[i].email
      /\ r.acceptedBy = invitation[i].acceptedBy /\ r.token = invitation[i].token
  BY <1>1 DEF InvitationRow
<1>3. invitation' = [invitation EXCEPT ![i] = r]
  BY <1>1 DEF InvitationFallsDue, GroupsInv, GroupsTypeOK, InvitationRow
<1>4. /\ member' \in [People -> Roles \cup {None}]
      /\ person' \in [People -> {"none", "unverified", "verified"}]
      /\ \A u \in People : person[u] = "verified" => person'[u] = "verified"
      /\ \A u \in People : member'[u] # None => Member(u)
  BY <1>1 DEF GroupsInv, GroupsTypeOK, Member
<1> HIDE DEF r
<1> QED  BY <1>1, <1>2, <1>3, <1>4, RowRewritten DEF SoundInvitation

\* An acceptance, by an account or with a new one: the person who joins is verified and
\* the row is the one sent to his address.
LEMMA AcceptanceKeeps ==
    ASSUME GroupsInv, NEW c \in Calls, AcceptCommitted(c) \/ SignupAccepted(c)
    PROVE  GroupsInv'
<1> DEFINE i == call[c].inv
           u == call[c].email
<1>1. /\ call[c].op \in {"accept", "signup"} /\ call[c] \in CallRow
      /\ End(c) /\ UNCHANGED <<mailed, drawn>>
  BY DEF AcceptCommitted, SignupAccepted, GroupsInv, GroupsTypeOK
<1>2. /\ i \in Invitations /\ invitation[i].status # "none" /\ invitation[i] \in InvitationRow
      /\ u \in People /\ (call[c].op = "signup" => invitation[i].email = u)
  BY <1>1 DEF GroupsInv, GroupsTypeOK, SoundCall
<1>3. CASE UNCHANGED <<person, member, invitation>>
  BY <1>1, <1>3, CallEnds
<1>4. CASE ~UNCHANGED <<person, member, invitation>>
  <2>1. /\ invitation[i].email = u /\ Accepted(c, u)
        /\ person' \in [People -> {"none", "unverified", "verified"}] /\ person'[u] = "verified"
        /\ \A v \in People : person[v] = "verified" => person'[v] = "verified"
    BY <1>1, <1>2, <1>4
    DEF AcceptCommitted, SignupAccepted, InvitedPerson, GroupsInv, GroupsTypeOK
  <2> DEFINE r == [invitation[i] EXCEPT !.status = "accepted", !.acceptedBy = u]
  <2>2. r \in InvitationRow /\ r.status = "accepted" /\ r.email = invitation[i].email
        /\ r.acceptedBy = u
    BY <1>2 DEF InvitationRow
  <2>3. invitation' = [invitation EXCEPT ![i] = r]
    BY <1>2, <2>1 DEF Accepted, GroupsInv, GroupsTypeOK, InvitationRow
  <2>4. /\ member' \in [People -> Roles \cup {None}]
        /\ \A v \in People : member'[v] # None => Member(v) \/ v = u
    BY <1>1, <1>2, <2>1 DEF Accepted, GroupsInv, GroupsTypeOK, CallRow, Member
  <2> HIDE DEF r, i, u
  <2> QED  BY <1>1, <1>2, <2>1, <2>2, <2>3, <2>4, RowRewritten
<1> QED  BY <1>3, <1>4

\* Every step of a group keeps the invariant.
LEMMA GroupsStep == GroupsInv /\ [GroupsNext]_mvars => GroupsInv'
<1> SUFFICES ASSUME GroupsInv, [GroupsNext]_mvars PROVE GroupsInv'
  OBVIOUS
<1>1. CASE UNCHANGED mvars
  BY <1>1 DEF mvars, GroupsInv, GroupsTypeOK, SoundInvitation, SoundCall, EntriesOnce,
              OnePendingPerAddress, MembersInvited, Pending, PendingFor, Member
<1>2. CASE GroupsNext
  <2>1. CASE CreateGroup(Founder) \/ \E u, v \in People, r \in OfferedRoles : UpdateMember(u, v, r)
    BY <2>1, RolesKeep
  <2>2. ASSUME NEW c \in Calls, NEW u \in People, NEW e \in People, NEW r \in OfferedRoles,
               InviteChecked(c, u, e, r)
        PROVE  GroupsInv'
    BY <2>2, InviteCheckedKeeps
  <2>3. ASSUME NEW c \in Calls, NEW u \in People, NEW i \in Invitations, NEW r \in OfferedRoles,
               EditChecked(c, u, i, "role", r)
        PROVE  GroupsInv'
    BY <2>3, EditCheckedKeeps
  <2>4. ASSUME NEW c \in Calls, NEW u \in People, NEW i \in Invitations,
               \/ EditChecked(c, u, i, "resend", None)
               \/ EditChecked(c, u, i, "cancel", None)
               \/ TokenPresented(c, u, i, "accept")
               \/ TokenPresented(c, u, i, "signup")
        PROVE  GroupsInv'
    BY <2>4, EditCheckedKeeps, TokenPresentedKeeps
  <2>5. ASSUME NEW c \in Calls, NEW i \in Invitations, InviteCommitted(c, i) PROVE GroupsInv'
    BY <2>5, InviteCommittedKeeps
  <2>6. ASSUME NEW i \in Invitations, InvitationFallsDue(i) PROVE GroupsInv'
    BY <2>6, FallsDueKeeps
  <2>7. ASSUME NEW c \in Calls,
               \/ InviteSent(c) \/ ResendSent(c) \/ ResendCommitted(c)
               \/ RoleUpdated(c) \/ Cancelled(c) \/ InvitationExpired(c)
               \/ AcceptCommitted(c) \/ SignupAccepted(c) \/ CallLost(c)
        PROVE  GroupsInv'
    BY <2>7, SentKeeps, EditsKeep, AcceptanceKeeps, CallEnds DEF CallLost
  <2> QED  BY <1>2, <2>1, <2>2, <2>3, <2>4, <2>5, <2>6, <2>7 DEF GroupsNext
<1> QED  BY <1>1, <1>2

\* What no step of a group undoes, at every state of a group and its knowledge.
THEOREM GroupsInvariance == KnowledgeSpec => []GroupsInv
<1>1. GroupsInv /\ [KnowledgeNext]_<<mvars, kvars>> => GroupsInv'
  <2>1. PublicationsNext => UNCHANGED mvars
    <3>1. \A u, k, s, x : CreateBase(u, k, s, x) => UNCHANGED mvars
      BY DEF CreateBase
    <3>2. \A u, k : DeleteBase(u, k) => UNCHANGED mvars
      BY DEF DeleteBase
    <3>3. \A u, d, k : CreateDocument(u, d, k) => UNCHANGED mvars
      BY DEF CreateDocument
    <3>4. \A u, a, k : AskBase(u, a, k) => UNCHANGED mvars
      BY DEF AskBase
    <3>5. \A u, a, d, k : AskDocument(u, a, d, k) => UNCHANGED mvars
      BY DEF AskDocument
    <3>6. \A u, d, v, g : DeleteDocument(u, d) \/ Grant(u, d, v, g) => UNCHANGED mvars
      BY DEF DeleteDocument, Grant
    <3>7. \A u, a, o : OpenClosing(u, a, o) \/ CloseAsk(a, o) => UNCHANGED mvars
      BY DEF OpenClosing, CloseAsk
    <3>8. \A r, u, a, k : ApproveChecked(r, u, a, k) => UNCHANGED mvars
      BY DEF ApproveChecked
    <3>9. \A r, d, n : CopyDocument(r, d, n) => UNCHANGED mvars
      BY DEF CopyDocument
    <3>10. \A r : CopiesMade(r) \/ ApproveFailed(r) \/ ApproveCommitted(r) \/ ReviewLost(r)
                  => UNCHANGED mvars
      BY DEF CopiesMade, ApproveFailed, ApproveCommitted, ReviewLost
    <3> QED
      BY <3>1, <3>2, <3>3, <3>4, <3>5, <3>6, <3>7, <3>8, <3>9, <3>10 DEF PublicationsNext
  <2> QED  BY <2>1, GroupsStep DEF KnowledgeNext
<1> QED  BY <1>1, GroupsInitially, PTL DEF KnowledgeSpec

\* Two managers who invite the same address leave one pending invitation; the token of a
\* pending invitation reached its address, whichever resends failed or overlapped; and a
\* member other than the founder is a verified person who accepted an invitation of his own.
THEOREM InvitationsAreSound == KnowledgeSpec => []InvitationsSound
<1>1. GroupsInv => InvitationsSound
  BY DEF GroupsInv, SoundInvitation, InvitationsSound, PendingTokenMailed, Pending, Letter
<1> QED  BY <1>1, GroupsInvariance, PTL
-----------------------------------------------------------------------------
(* Publications: the inductive invariant. *)

BaseRow == [scope : {"none", "personal", "group", "system"}, purpose : {"standard", "staging"},
            owner : People \cup {None}, by : Reviews \cup {None}]
DocRow == [base : Bases \cup {None}, owner : People \cup {None}, by : Reviews \cup {None}]
AskRow == [status : {"none", "pending", "approved", "rejected", "cancelled", "withdrawn"},
           kind : {"document", "base", None}, source : Docs \cup Bases \cup {None},
           target : Bases \cup {None}, published : Docs \cup Bases \cup {None},
           requester : People \cup {None}]
ReviewRow == [at : {"idle", "checked", "copied", "failed", "done", "lost"}, user : People \cup {None},
              ask : Asks \cup {None}, base : Bases \cup {None}, opened : BOOLEAN,
              todo : SUBSET Docs, alone : BOOLEAN]

PublicationsTypeOK ==
    /\ base \in [Bases -> BaseRow] /\ doc \in [Docs -> DocRow]
    /\ ask \in [Asks -> AskRow] /\ review \in [Reviews -> ReviewRow]

Open == {"checked", "copied"}

\* The kind of the request that r reviews.
KindOf(r) == ask[review[r].ask].kind

\* A base that an approval made is a base of the group and has that approval's id.
BaseSound(k) ==
    /\ base[k].scope = "system" => base[k].purpose = "standard"
    /\ base[k].by # None =>
         /\ base[k].scope = "group" /\ review[base[k].by].base = k /\ KindOf(base[k].by) = "base"
         /\ review[base[k].by].at \notin {"idle", "failed"}

\* A document is in a base that exists; a copy is in the base of its approval, and the
\* bases of the group hold copies only.
DocSound(d) ==
    /\ doc[d].base # None =>
         /\ base[doc[d].base].scope # "none"
         /\ base[doc[d].base].scope = "group" => doc[d].by # None
    /\ doc[d].by # None =>
         /\ doc[d].base # None /\ base[doc[d].base].scope = "group"
         /\ review[doc[d].by].base = doc[d].base /\ review[doc[d].by].at \notin {"idle", "failed"}

\* A request refers to rows that exist: a personal source, a target of the group, and what a
\* finished approval has published.
AskSound(a) ==
    /\ ask[a].source # None =>
         \/ /\ ask[a].kind = "document" /\ ask[a].source \in Docs /\ doc[ask[a].source].base # None
            /\ base[doc[ask[a].source].base].scope = "personal"
         \/ /\ ask[a].kind = "base" /\ ask[a].source \in Bases
            /\ base[ask[a].source].scope = "personal"
    /\ ask[a].target # None => base[ask[a].target].scope = "group"
    /\ ask[a].published # None =>
         \/ /\ ask[a].published \in Docs /\ doc[ask[a].published].by # None
            /\ review[doc[ask[a].published].by].at = "done"
         \/ /\ ask[a].published \in Bases /\ base[ask[a].published].by # None
            /\ review[base[ask[a].published].by].at = "done"

\* An approval of a document writes to the target its request still names; an approval
\* of a base writes to a base of its own, and nobody else knows its id before it is written.
ReviewSound(r) ==
    review[r].at # "idle" =>
        /\ review[r].ask \in Asks /\ review[r].base \in Bases
        /\ KindOf(r) \in {"document", "base"} /\ ask[review[r].ask].status # "none"
        /\ KindOf(r) = "document" =>
             /\ review[r].opened
             /\ base[review[r].base].scope # "none" => ask[review[r].ask].target = review[r].base
        /\ KindOf(r) = "base" /\ review[r].opened /\ base[review[r].base].scope # "none" =>
             base[review[r].base].by = r
        /\ ~review[r].opened /\ review[r].at \in Open =>
             /\ base[review[r].base].scope = "none"
             /\ \A s \in Reviews : s # r => review[s].base # review[r].base

\* Two approvals of bases write to different bases.
BasesApart ==
    \A r, s \in Reviews :
        /\ r # s /\ review[r].at # "idle" /\ review[s].at # "idle"
        /\ KindOf(r) = "base" /\ KindOf(s) = "base"
        => review[r].base # review[s].base

\* While no review was crossed, the request under review is pending, and a base has
\* one request that is pending or approved.
OneRequest ==
    (\A r \in Reviews : review[r].alone) =>
        /\ \A r \in Reviews : review[r].at \in Open => ask[review[r].ask].status = "pending"
        /\ \A a, b \in Asks :
             /\ ask[a].status \in {"pending", "approved"} /\ ask[b].status \in {"pending", "approved"}
             /\ ask[a].source = ask[b].source /\ ask[a].source \in Bases
             => a = b

PublicationsInv ==
    /\ PublicationsTypeOK
    /\ \A k \in Bases : BaseSound(k)
    /\ \A d \in Docs : DocSound(d)
    /\ \A a \in Asks : AskSound(a)
    /\ \A r \in Reviews : ReviewSound(r)
    /\ BasesApart /\ OneRequest

-----------------------------------------------------------------------------
(* What the operators of the module do to rows. *)

\* A crossed review keeps everything but the claim to have been alone.
LEMMA CrossedRows ==
    ASSUME review \in [Reviews -> ReviewRow], NEW ACTION changed, NEW ACTION f, f = Crossed(changed)
    PROVE  /\ f \in [Reviews -> ReviewRow]
           /\ \A r \in Reviews :
                /\ f[r].at = review[r].at /\ f[r].ask = review[r].ask
                /\ f[r].base = review[r].base /\ f[r].opened = review[r].opened
                /\ f[r].alone => review[r].alone
                /\ f[r].alone /\ review[r].at \in Open /\ review[r].ask # None => review[r].ask \notin changed
<1> SUFFICES ASSUME NEW r \in Reviews
             PROVE  /\ f[r] \in ReviewRow
                    /\ f[r].at = review[r].at /\ f[r].ask = review[r].ask
                    /\ f[r].base = review[r].base /\ f[r].opened = review[r].opened
                    /\ f[r].alone => review[r].alone
                    /\ f[r].alone /\ review[r].at \in Open /\ review[r].ask # None => review[r].ask \notin changed
  BY DEF Crossed
<1> DEFINE alone == review[r].alone /\ ~(review[r].ask # None /\ review[r].ask \in changed
                                           /\ review[r].at \in Open)
<1>1. review[r] \in ReviewRow /\ alone \in BOOLEAN
  BY DEF ReviewRow
<1>2. f[r] = [review[r] EXCEPT !.alone = alone]
  BY <1>1 DEF Crossed, Open
<1>3. alone => review[r].alone /\ (review[r].at \in Open /\ review[r].ask # None => review[r].ask \notin changed)
  OBVIOUS
<1> HIDE DEF alone
<1> QED  BY <1>1, <1>2, <1>3 DEF ReviewRow

LEMMA DetachedRows ==
    ASSUME ask \in [Asks -> AskRow], NEW gone
    PROVE  /\ Detached(gone) \in [Asks -> AskRow]
           /\ \A a \in Asks :
                /\ Detached(gone)[a].kind = ask[a].kind
                /\ Detached(gone)[a].source = IF ask[a].source \in gone THEN None ELSE ask[a].source
                /\ Detached(gone)[a].target = IF ask[a].target \in gone THEN None ELSE ask[a].target
                /\ Detached(gone)[a].published = IF ask[a].published \in gone THEN None ELSE ask[a].published
                /\ Detached(gone)[a].status \in {"pending", "approved", "none"} => Detached(gone)[a].status = ask[a].status
                /\ ask[a].status # "none" => Detached(gone)[a].status # "none"
<1> SUFFICES ASSUME NEW a \in Asks
             PROVE  /\ Detached(gone)[a] \in AskRow
                    /\ Detached(gone)[a].kind = ask[a].kind
                    /\ Detached(gone)[a].source = IF ask[a].source \in gone THEN None ELSE ask[a].source
                    /\ Detached(gone)[a].target = IF ask[a].target \in gone THEN None ELSE ask[a].target
                    /\ Detached(gone)[a].published = IF ask[a].published \in gone THEN None ELSE ask[a].published
                    /\ Detached(gone)[a].status \in {"pending", "approved", "none"} => Detached(gone)[a].status = ask[a].status
                    /\ ask[a].status # "none" => Detached(gone)[a].status # "none"
  BY DEF Detached
<1> DEFINE s == IF ask[a].source \in gone THEN None ELSE ask[a].source
           t == IF ask[a].target \in gone THEN None ELSE ask[a].target
           p == IF ask[a].published \in gone THEN None ELSE ask[a].published
           st == IF ask[a].source \in gone /\ ask[a].status = "pending" THEN "withdrawn" ELSE ask[a].status
<1>1. ask[a] \in AskRow
  OBVIOUS
<1>2. /\ s \in Docs \cup Bases \cup {None} /\ t \in Bases \cup {None} /\ p \in Docs \cup Bases \cup {None}
      /\ st \in {"none", "pending", "approved", "rejected", "cancelled", "withdrawn"}
  BY <1>1 DEF AskRow
<1>3. Detached(gone)[a] = [ask[a] EXCEPT !.source = s, !.target = t, !.published = p, !.status = st]
  BY <1>1 DEF Detached, AskRow
<1>4. /\ st \in {"pending", "approved", "none"} => st = ask[a].status
      /\ ask[a].status # "none" => st # "none"
  OBVIOUS
<1> HIDE DEF st
<1>5. Detached(gone)[a].status = st /\ Detached(gone)[a].source = s /\ Detached(gone)[a].target = t
      /\ Detached(gone)[a].published = p /\ Detached(gone)[a].kind = ask[a].kind
  <2> HIDE DEF s, t, p
  <2> QED  BY <1>1, <1>3 DEF AskRow
<1>6. Detached(gone)[a] \in AskRow
  <2> HIDE DEF s, t, p
  <2> QED  BY <1>1, <1>2, <1>3 DEF AskRow
<1> QED  BY <1>4, <1>5, <1>6

LEMMA NoRows ==
    /\ NoBase \in BaseRow /\ NoBase.scope = "none" /\ NoBase.by = None
    /\ NoDoc \in DocRow /\ NoDoc.base = None /\ NoDoc.by = None
    /\ NoAsk \in AskRow /\ NoAsk.status = "none" /\ NoAsk.source = None /\ NoAsk.target = None /\ NoAsk.published = None
    /\ NoReview \in ReviewRow /\ NoReview.at = "idle" /\ NoReview.alone
<1>1. NoBase \in BaseRow /\ NoBase.scope = "none" /\ NoBase.by = None
  BY DEF NoBase, BaseRow
<1>2. NoDoc \in DocRow /\ NoDoc.base = None /\ NoDoc.by = None
  BY DEF NoDoc, DocRow
<1>3. NoAsk \in AskRow /\ NoAsk.status = "none" /\ NoAsk.source = None /\ NoAsk.target = None /\ NoAsk.published = None
  BY DEF NoAsk, AskRow
<1>4. NoReview \in ReviewRow /\ NoReview.at = "idle" /\ NoReview.alone
  BY DEF NoReview, ReviewRow
<1> QED  BY <1>1, <1>2, <1>3, <1>4

LEMMA PublicationsInitially == PublicationsInit => PublicationsInv
<1> SUFFICES ASSUME PublicationsInit PROVE PublicationsInv
  OBVIOUS
<1>1. PublicationsTypeOK
  BY NoRows DEF PublicationsInit, PublicationsTypeOK
<1>2. /\ \A k \in Bases : base[k] = NoBase
      /\ \A d \in Docs : doc[d] = NoDoc
      /\ \A a \in Asks : ask[a] = NoAsk
      /\ \A r \in Reviews : review[r] = NoReview
  BY DEF PublicationsInit
<1> QED
  BY <1>1, <1>2, NoRows DEF PublicationsInv, BaseSound, DocSound, AskSound, ReviewSound, BasesApart, OneRequest, Open

-----------------------------------------------------------------------------
(* Deletion: the rows, the pointers to them, and the reviews that it crosses. *)

\* What a step may do to rows: some go, pointers to them are cleared, reviews are crossed.
BasesLeft(ks) == \A k \in Bases : (k \in ks /\ base'[k] = NoBase) \/ (k \notin ks /\ base'[k] = base[k])
DocsLeft(ds) == \A d \in Docs : (d \in ds /\ doc'[d] = NoDoc) \/ (d \notin ds /\ doc'[d] = doc[d])
PointersLeft(gone) ==
    \A a \in Asks :
        /\ ask'[a].kind = ask[a].kind
        /\ ask'[a].source = None \/ (ask'[a].source = ask[a].source /\ ask[a].source \notin gone)
        /\ ask'[a].target = None \/ (ask'[a].target = ask[a].target /\ ask[a].target \notin gone)
        /\ ask'[a].published = None \/ (ask'[a].published = ask[a].published /\ ask[a].published \notin gone)
TargetsLeft(gone) == \A a \in Asks : ask[a].target \notin gone => ask'[a].target = ask[a].target
StatusLeft ==
    \A a \in Asks :
        /\ ask'[a].status \in {"pending", "approved", "none"} => ask'[a].status = ask[a].status
        /\ ask[a].status # "none" => ask'[a].status # "none"
ReviewsLeft ==
    \A r \in Reviews :
        /\ review'[r].at = review[r].at /\ review'[r].ask = review[r].ask
        /\ review'[r].base = review[r].base /\ review'[r].opened = review[r].opened
AloneLeft ==
    \A r \in Reviews : review'[r].alone =>
        review[r].alone /\ (review[r].at \in Open /\ review[r].ask \in Asks => ask'[review[r].ask] = ask[review[r].ask])

LEMMA RowsLost ==
    ASSUME PublicationsInv, NEW ds \in SUBSET Docs, NEW ks \in SUBSET Bases,
           \A d \in Docs : doc[d].base \in ks => d \in ds,
           PublicationsTypeOK', BasesLeft(ks), DocsLeft(ds), PointersLeft(ds \cup ks),
           TargetsLeft(ds \cup ks), StatusLeft, ReviewsLeft, AloneLeft
    PROVE  PublicationsInv'
<1>0. PublicationsTypeOK
  BY DEF PublicationsInv
<1>5. ASSUME NEW r \in Reviews, review[r].at # "idle"
      PROVE  review[r].ask \in Asks /\ review'[r].ask = review[r].ask /\ ask'[review[r].ask].kind = ask[review[r].ask].kind
  <2>1. review[r].ask \in Asks
    BY <1>5 DEF PublicationsInv, ReviewSound
  <2> QED  BY <2>1 DEF ReviewsLeft, PointersLeft
<1>6. ASSUME NEW k \in Bases PROVE BaseSound(k)'
  <2>1. CASE base'[k] = NoBase
    BY <2>1, NoRows DEF BaseSound
  <2>2. CASE base'[k] = base[k]
    <3>0. BaseSound(k)
      BY DEF PublicationsInv
    <3>1. base[k].by # None => base[k].by \in Reviews
      BY <1>0 DEF PublicationsTypeOK, BaseRow
    <3>2. base[k].by # None => /\ review'[base[k].by].at = review[base[k].by].at
                               /\ review'[base[k].by].base = review[base[k].by].base
      BY <3>1 DEF ReviewsLeft
    <3>3. base[k].by # None => KindOf(base[k].by)' = KindOf(base[k].by)
      BY <1>5, <2>2, <3>0, <3>1 DEF BaseSound, KindOf
    <3> QED  BY <2>2, <3>0, <3>2, <3>3 DEF BaseSound, KindOf
  <2> QED  BY <2>1, <2>2 DEF BasesLeft
<1>7. ASSUME NEW d \in Docs PROVE DocSound(d)'
  <2>1. CASE doc'[d] = NoDoc
    BY <2>1, NoRows DEF DocSound
  <2>2. CASE doc'[d] = doc[d] /\ d \notin ds
    <3>0. DocSound(d)
      BY DEF PublicationsInv
    <3>1. (doc[d].by # None => doc[d].by \in Reviews) /\ (doc[d].base # None => doc[d].base \in Bases)
      BY <1>0 DEF PublicationsTypeOK, DocRow
    <3>2. doc[d].base # None => base'[doc[d].base] = base[doc[d].base]
      BY <2>2, <3>1 DEF BasesLeft
    <3>3. doc[d].by # None => /\ review'[doc[d].by].at = review[doc[d].by].at
                              /\ review'[doc[d].by].base = review[doc[d].by].base
      BY <3>1 DEF ReviewsLeft
    <3> QED  BY <2>2, <3>0, <3>2, <3>3 DEF DocSound
  <2> QED  BY <2>1, <2>2 DEF DocsLeft
<1>8. ASSUME NEW a \in Asks PROVE AskSound(a)'
  <2>0. AskSound(a) /\ ask[a] \in AskRow
    BY <1>0 DEF PublicationsInv, PublicationsTypeOK
  <2>00. ask'[a].kind = ask[a].kind
    BY DEF PointersLeft
  <2>1. ask'[a].source # None =>
         \/ /\ ask'[a].kind = "document" /\ ask'[a].source \in Docs /\ doc'[ask'[a].source].base # None
            /\ base'[doc'[ask'[a].source].base].scope = "personal"
         \/ /\ ask'[a].kind = "base" /\ ask'[a].source \in Bases
            /\ base'[ask'[a].source].scope = "personal"
    <3> SUFFICES ASSUME ask'[a].source # None
                 PROVE  \/ /\ ask'[a].kind = "document" /\ ask'[a].source \in Docs /\ doc'[ask'[a].source].base # None
                           /\ base'[doc'[ask'[a].source].base].scope = "personal"
                        \/ /\ ask'[a].kind = "base" /\ ask'[a].source \in Bases
                           /\ base'[ask'[a].source].scope = "personal"
      OBVIOUS
    <3>1. ask'[a].source = ask[a].source /\ ask[a].source \notin ds \cup ks
      BY DEF PointersLeft
    <3>2. CASE /\ ask[a].kind = "document" /\ ask[a].source \in Docs /\ doc[ask[a].source].base # None
               /\ base[doc[ask[a].source].base].scope = "personal"
      <4>1. doc'[ask[a].source] = doc[ask[a].source]
        BY <3>1, <3>2 DEF DocsLeft
      <4>2. doc[ask[a].source].base \in Bases
        BY <1>0, <3>2 DEF PublicationsTypeOK, DocRow
      <4>3. doc[ask[a].source].base \notin ks
        BY <3>1, <3>2
      <4>4. base'[doc[ask[a].source].base] = base[doc[ask[a].source].base]
        BY <4>2, <4>3 DEF BasesLeft
      <4> QED  BY <2>00, <3>1, <3>2, <4>1, <4>4
    <3>3. CASE ask[a].kind = "base" /\ ask[a].source \in Bases /\ base[ask[a].source].scope = "personal"
      <4>1. base'[ask[a].source] = base[ask[a].source]
        BY <3>1, <3>3 DEF BasesLeft
      <4> QED  BY <2>00, <3>1, <3>3, <4>1
    <3> QED  BY <2>0, <3>1, <3>2, <3>3 DEF AskSound
  <2>2. ask'[a].target # None => base'[ask'[a].target].scope = "group"
    <3> SUFFICES ASSUME ask'[a].target # None PROVE base'[ask'[a].target].scope = "group"
      OBVIOUS
    <3>1. ask'[a].target = ask[a].target /\ ask[a].target \notin ds \cup ks
      BY DEF PointersLeft
    <3>2. ask[a].target \in Bases
      BY <2>0, <3>1 DEF AskRow
    <3>3. base'[ask[a].target] = base[ask[a].target]
      BY <3>1, <3>2 DEF BasesLeft
    <3> QED  BY <2>0, <3>1, <3>3 DEF AskSound
  <2>3. ask'[a].published # None =>
         \/ /\ ask'[a].published \in Docs /\ doc'[ask'[a].published].by # None
            /\ review'[doc'[ask'[a].published].by].at = "done"
         \/ /\ ask'[a].published \in Bases /\ base'[ask'[a].published].by # None
            /\ review'[base'[ask'[a].published].by].at = "done"
    <3> SUFFICES ASSUME ask'[a].published # None
                 PROVE  \/ /\ ask'[a].published \in Docs /\ doc'[ask'[a].published].by # None
                           /\ review'[doc'[ask'[a].published].by].at = "done"
                        \/ /\ ask'[a].published \in Bases /\ base'[ask'[a].published].by # None
                           /\ review'[base'[ask'[a].published].by].at = "done"
      OBVIOUS
    <3>1. ask'[a].published = ask[a].published /\ ask[a].published \notin ds \cup ks
      BY DEF PointersLeft
    <3>2. CASE ask[a].published \in Docs /\ doc[ask[a].published].by # None /\ review[doc[ask[a].published].by].at = "done"
      <4>1. doc[ask[a].published].by \in Reviews
        BY <1>0, <3>2 DEF PublicationsTypeOK, DocRow
      <4>2. doc'[ask[a].published] = doc[ask[a].published]
        BY <3>1, <3>2 DEF DocsLeft
      <4>3. review'[doc[ask[a].published].by].at = review[doc[ask[a].published].by].at
        BY <4>1 DEF ReviewsLeft
      <4> QED  BY <3>1, <3>2, <4>2, <4>3
    <3>3. CASE ask[a].published \in Bases /\ base[ask[a].published].by # None /\ review[base[ask[a].published].by].at = "done"
      <4>1. base[ask[a].published].by \in Reviews
        BY <1>0, <3>3 DEF PublicationsTypeOK, BaseRow
      <4>2. base'[ask[a].published] = base[ask[a].published]
        BY <3>1, <3>3 DEF BasesLeft
      <4>3. review'[base[ask[a].published].by].at = review[base[ask[a].published].by].at
        BY <4>1 DEF ReviewsLeft
      <4> QED  BY <3>1, <3>3, <4>2, <4>3
    <3> QED  BY <2>0, <3>1, <3>2, <3>3 DEF AskSound
  <2> QED  BY <2>1, <2>2, <2>3 DEF AskSound
<1>9. ASSUME NEW r \in Reviews PROVE ReviewSound(r)'
  <2>0. review'[r].at = review[r].at /\ review'[r].base = review[r].base /\ review'[r].opened = review[r].opened
    BY DEF ReviewsLeft
  <2> SUFFICES ASSUME review[r].at # "idle" PROVE ReviewSound(r)'
    BY <2>0 DEF ReviewSound
  <2>1. ReviewSound(r)
    BY DEF PublicationsInv
  <2>2. review[r].ask \in Asks /\ review[r].base \in Bases
    BY <2>1 DEF ReviewSound
  <2>3. KindOf(r)' = KindOf(r) /\ review'[r].ask = review[r].ask
    BY <1>5 DEF KindOf
  <2>4. \/ base'[review[r].base] = NoBase
        \/ review[r].base \notin ds \cup ks /\ base'[review[r].base] = base[review[r].base]
    BY <2>2, PublicationsAssumption DEF BasesLeft
  <2>5. ask[review[r].ask].target = review[r].base /\ review[r].base \notin ds \cup ks =>
          ask'[review[r].ask].target = review[r].base
    BY <2>2 DEF TargetsLeft
  <2>6. ask[review[r].ask].status # "none" => ask'[review[r].ask].status # "none"
    BY <2>2 DEF StatusLeft
  <2>7. \A s \in Reviews : review'[s].base = review[s].base
    BY DEF ReviewsLeft
  <2>8. base'[review[r].base].scope # "none" =>
          review[r].base \notin ds \cup ks /\ base'[review[r].base] = base[review[r].base]
    BY <2>4, NoRows
  <2>9. base[review[r].base].scope = "none" => base'[review[r].base].scope = "none"
    BY <2>4, NoRows
  <2>10. KindOf(r)' = "document" =>
             /\ review'[r].opened
             /\ base'[review'[r].base].scope # "none" => ask'[review'[r].ask].target = review'[r].base
    BY <2>0, <2>1, <2>3, <2>5, <2>8 DEF ReviewSound
  <2>11. KindOf(r)' = "base" /\ review'[r].opened /\ base'[review'[r].base].scope # "none" =>
             base'[review'[r].base].by = r
    BY <2>0, <2>1, <2>3, <2>8 DEF ReviewSound
  <2>12. ~review'[r].opened /\ review'[r].at \in Open =>
             /\ base'[review'[r].base].scope = "none"
             /\ \A s \in Reviews : s # r => review'[s].base # review'[r].base
    BY <2>0, <2>1, <2>7, <2>9 DEF ReviewSound
  <2>13. KindOf(r)' \in {"document", "base"} /\ ask'[review'[r].ask].status # "none"
    BY <2>1, <2>3, <2>6 DEF ReviewSound
  <2> HIDE DEF KindOf
  <2> QED  BY <2>0, <2>2, <2>3, <2>10, <2>11, <2>12, <2>13 DEF ReviewSound
<1>10. BasesApart'
  <2>1. \A r \in Reviews : review[r].at # "idle" => KindOf(r)' = KindOf(r)
    BY <1>5 DEF KindOf
  <2> QED  BY <2>1 DEF PublicationsInv, BasesApart, ReviewsLeft
<1>11. OneRequest'
  <2> SUFFICES ASSUME \A r \in Reviews : review'[r].alone
               PROVE  /\ \A r \in Reviews : review'[r].at \in Open => ask'[review'[r].ask].status = "pending"
                      /\ \A a, b \in Asks :
                           /\ ask'[a].status \in {"pending", "approved"} /\ ask'[b].status \in {"pending", "approved"}
                           /\ ask'[a].source = ask'[b].source /\ ask'[a].source \in Bases
                           => a = b
    BY DEF OneRequest
  <2>1. \A r \in Reviews : review[r].alone
    BY DEF AloneLeft
  <2>2. /\ \A r \in Reviews : review[r].at \in Open => ask[review[r].ask].status = "pending"
        /\ \A a, b \in Asks :
             /\ ask[a].status \in {"pending", "approved"} /\ ask[b].status \in {"pending", "approved"}
             /\ ask[a].source = ask[b].source /\ ask[a].source \in Bases
             => a = b
    BY <2>1 DEF PublicationsInv, OneRequest
  <2>3. ASSUME NEW r \in Reviews, review'[r].at \in Open PROVE ask'[review'[r].ask].status = "pending"
    <3>0. review'[r].at = review[r].at /\ review'[r].ask = review[r].ask
      BY DEF ReviewsLeft
    <3>1. review[r].ask \in Asks
      BY <2>3, <3>0 DEF PublicationsInv, ReviewSound, Open
    <3>2. ask'[review[r].ask] = ask[review[r].ask]
      BY <2>3, <3>0, <3>1 DEF AloneLeft
    <3> QED  BY <2>2, <2>3, <3>0, <3>2
  <2>4. \A a \in Asks : /\ ask'[a].status \in {"pending", "approved"} => ask'[a].status = ask[a].status
                        /\ ask'[a].source \in Bases => ask'[a].source = ask[a].source
    BY PublicationsAssumption DEF StatusLeft, PointersLeft
  <2> QED  BY <2>2, <2>3, <2>4
<1> QED  BY <1>6, <1>7, <1>8, <1>9, <1>10, <1>11 DEF PublicationsInv

LEMMA RowsDeleted ==
    ASSUME PublicationsInv, NEW ds \in SUBSET Docs, NEW ks \in SUBSET Bases,
           \A d \in Docs : doc[d].base \in ks => d \in ds,
           Remove(ds, ks), ask' = Detached(ds \cup ks), review' = Crossed({a \in Asks : ask'[a] # ask[a]})
    PROVE  PublicationsInv'
<1>0. PublicationsTypeOK
  BY DEF PublicationsInv
<1>1. base' \in [Bases -> BaseRow] /\ doc' \in [Docs -> DocRow] /\ BasesLeft(ks) /\ DocsLeft(ds)
  BY <1>0, NoRows DEF Remove, PublicationsTypeOK, BasesLeft, DocsLeft
<1>2. /\ ask' \in [Asks -> AskRow]
      /\ \A a \in Asks :
           /\ ask'[a].kind = ask[a].kind
           /\ ask'[a].source = IF ask[a].source \in ds \cup ks THEN None ELSE ask[a].source
           /\ ask'[a].target = IF ask[a].target \in ds \cup ks THEN None ELSE ask[a].target
           /\ ask'[a].published = IF ask[a].published \in ds \cup ks THEN None ELSE ask[a].published
           /\ ask'[a].status \in {"pending", "approved", "none"} => ask'[a].status = ask[a].status
           /\ ask[a].status # "none" => ask'[a].status # "none"
  BY <1>0, DetachedRows DEF PublicationsTypeOK
<1>3. PointersLeft(ds \cup ks) /\ TargetsLeft(ds \cup ks) /\ StatusLeft
  BY <1>2 DEF PointersLeft, TargetsLeft, StatusLeft
<1> DEFINE changed == {a \in Asks : ask'[a] # ask[a]}
<1>4. /\ review' \in [Reviews -> ReviewRow]
      /\ \A r \in Reviews :
           /\ review'[r].at = review[r].at /\ review'[r].ask = review[r].ask
           /\ review'[r].base = review[r].base /\ review'[r].opened = review[r].opened
           /\ review'[r].alone => review[r].alone
           /\ review'[r].alone /\ review[r].at \in Open /\ review[r].ask # None => review[r].ask \notin changed
  <2>1. review' = Crossed(changed)
    OBVIOUS
  <2> HIDE DEF changed
  <2> QED  BY <1>0, <2>1, CrossedRows DEF PublicationsTypeOK
<1>5. \A a \in Asks : a \notin changed => ask'[a] = ask[a]
  OBVIOUS
<1> HIDE DEF changed
<1>6. ReviewsLeft
  BY <1>4 DEF ReviewsLeft
<1>7. AloneLeft
  BY <1>4, <1>5, PublicationsAssumption DEF AloneLeft
<1>8. PublicationsTypeOK'
  BY <1>1, <1>2, <1>4 DEF PublicationsTypeOK
<1> QED  BY <1>1, <1>3, <1>6, <1>7, <1>8, RowsLost

LEMMA DeletionsSound ==
    ASSUME PublicationsInv, \/ \E u \in People, d \in Docs : DeleteDocument(u, d)
                            \/ \E u \in People, k \in Bases : DeleteBase(u, k)
    PROVE  PublicationsInv'
<1>0. PublicationsTypeOK
  BY DEF PublicationsInv
<1>1. ASSUME NEW u \in People, NEW d \in Docs, DeleteDocument(u, d) PROVE PublicationsInv'
  <2>1. Remove({d}, {}) /\ ask' = Detached({d} \cup {}) /\ review' = Crossed({a \in Asks : ask'[a] # ask[a]})
    <3>1. {d} \cup {} = {d}
      OBVIOUS
    <3> QED  BY <1>1, <3>1 DEF DeleteDocument
  <2> QED  BY <2>1, RowsDeleted
<1>2. ASSUME NEW u \in People, NEW k \in Bases, DeleteBase(u, k) PROVE PublicationsInv'
  <2>1. Remove(In(k), {k}) /\ ask' = Detached(In(k) \cup {k}) /\ review' = Crossed({a \in Asks : ask'[a] # ask[a]})
    BY <1>2 DEF DeleteBase
  <2>2. In(k) \in SUBSET Docs /\ \A d \in Docs : doc[d].base \in {k} => d \in In(k)
    BY DEF In
  <2> QED  BY <2>1, <2>2, RowsDeleted
<1> QED  BY <1>1, <1>2

\* A rejected or cancelled request crosses the reviews of it, whatever it had become.
LEMMA CloseAskSound ==
    ASSUME PublicationsInv, NEW a \in Asks, NEW outcome \in {"rejected", "cancelled"}, CloseAsk(a, outcome)
    PROVE  PublicationsInv'
<1>0. PublicationsTypeOK
  BY DEF PublicationsInv
<1>1. /\ ask' = [ask EXCEPT ![a].status = outcome]
      /\ review' = Crossed({a}) /\ base' = base /\ doc' = doc
  BY DEF CloseAsk
<1>2. ask[a] \in AskRow /\ ask'[a] = [ask[a] EXCEPT !.status = outcome] /\ ask' \in [Asks -> AskRow]
      /\ \A b \in Asks : b # a => ask'[b] = ask[b]
  BY <1>0, <1>1 DEF PublicationsTypeOK, AskRow
<1>3. /\ ask'[a].kind = ask[a].kind /\ ask'[a].source = ask[a].source /\ ask'[a].target = ask[a].target
      /\ ask'[a].published = ask[a].published /\ ask'[a].status = outcome
  BY <1>2 DEF AskRow
<1>4. PointersLeft({} \cup {}) /\ TargetsLeft({} \cup {}) /\ StatusLeft
  BY <1>1, <1>2, <1>3 DEF PointersLeft, TargetsLeft, StatusLeft
<1>5. BasesLeft({}) /\ DocsLeft({})
  BY <1>1 DEF BasesLeft, DocsLeft
<1> DEFINE changed == {a}
<1>6. /\ review' \in [Reviews -> ReviewRow]
      /\ \A r \in Reviews :
           /\ review'[r].at = review[r].at /\ review'[r].ask = review[r].ask
           /\ review'[r].base = review[r].base /\ review'[r].opened = review[r].opened
           /\ review'[r].alone => review[r].alone
           /\ review'[r].alone /\ review[r].at \in Open /\ review[r].ask # None => review[r].ask \notin changed
  <2>1. review' = Crossed(changed)
    BY <1>1
  <2> HIDE DEF changed
  <2> QED  BY <1>0, <2>1, CrossedRows DEF PublicationsTypeOK
<1>7. ReviewsLeft /\ AloneLeft
  BY <1>2, <1>6, PublicationsAssumption DEF ReviewsLeft, AloneLeft
<1>8. PublicationsTypeOK'
  BY <1>0, <1>1, <1>2, <1>6 DEF PublicationsTypeOK
<1> QED  BY <1>4, <1>5, <1>7, <1>8, RowsLost

-----------------------------------------------------------------------------
(* Steps that only add: rows that hold something are kept. *)

BasesKept == \A k \in Bases : base[k].scope # "none" => base'[k] = base[k]
DocsKept == \A d \in Docs : doc[d].base # None => doc'[d] = doc[d]
KindsKept == \A a \in Asks : ask[a].status # "none" => ask'[a].kind = ask[a].kind
ReviewsKept ==
    \A r \in Reviews : review[r].at # "idle" =>
        /\ review'[r].base = review[r].base /\ review'[r].ask = review[r].ask
        /\ review'[r].at = review[r].at \/ (review[r].at \in Open /\ review'[r].at \notin {"idle", "failed"})

Adds == BasesKept /\ DocsKept /\ KindsKept /\ ReviewsKept

LEMMA KindsStay ==
    ASSUME PublicationsInv, Adds, NEW r \in Reviews, review[r].at # "idle"
    PROVE  review[r].ask \in Asks /\ KindOf(r)' = KindOf(r)
BY DEF PublicationsInv, ReviewSound, Adds, KindsKept, ReviewsKept, KindOf

LEMMA BasesStay ==
    ASSUME PublicationsInv, Adds, NEW k \in Bases, base'[k] = base[k]
    PROVE  BaseSound(k)'
<1>1. BaseSound(k)
  BY DEF PublicationsInv
<1>2. base[k].by # None => base[k].by \in Reviews
  BY DEF PublicationsInv, PublicationsTypeOK, BaseRow
<1>3. base[k].by # None => KindOf(base[k].by)' = KindOf(base[k].by)
  BY <1>1, <1>2, KindsStay DEF BaseSound, KindOf
<1>4. base[k].by # None => /\ review'[base[k].by].base = review[base[k].by].base
                           /\ review'[base[k].by].at \notin {"idle", "failed"}
  BY <1>1, <1>2 DEF BaseSound, Adds, ReviewsKept
<1> QED  BY <1>1, <1>3, <1>4 DEF BaseSound, KindOf

LEMMA DocsStay ==
    ASSUME PublicationsInv, Adds, NEW d \in Docs, doc'[d] = doc[d]
    PROVE  DocSound(d)'
<1>1. DocSound(d)
  BY DEF PublicationsInv
<1>2. (doc[d].by # None => doc[d].by \in Reviews) /\ (doc[d].base # None => doc[d].base \in Bases)
  BY DEF PublicationsInv, PublicationsTypeOK, DocRow
<1>3. doc[d].base # None => base'[doc[d].base] = base[doc[d].base]
  BY <1>1, <1>2 DEF DocSound, Adds, BasesKept
<1>4. doc[d].by # None => /\ review'[doc[d].by].base = review[doc[d].by].base
                          /\ review'[doc[d].by].at \notin {"idle", "failed"}
  BY <1>1, <1>2 DEF DocSound, Adds, ReviewsKept
<1> QED  BY <1>1, <1>3, <1>4 DEF DocSound

LEMMA AsksStay ==
    ASSUME PublicationsInv, Adds, NEW a \in Asks, ask'[a].kind = ask[a].kind, ask'[a].source = ask[a].source,
           ask'[a].target = ask[a].target, ask'[a].published = ask[a].published
    PROVE  AskSound(a)'
<1>0. AskSound(a) /\ ask[a] \in AskRow
  BY DEF PublicationsInv, PublicationsTypeOK
<1>1. ASSUME NEW d \in Docs, doc[d].base # None
      PROVE  doc'[d] = doc[d] /\ doc[d].base \in Bases /\ base'[doc[d].base] = base[doc[d].base]
  BY <1>1 DEF PublicationsInv, PublicationsTypeOK, DocRow, DocSound, Adds, DocsKept, BasesKept
<1>2. ASSUME NEW d \in Docs, doc[d].by # None
      PROVE  doc'[d] = doc[d] /\ doc[d].by \in Reviews
                /\ (review[doc[d].by].at = "done" => review'[doc[d].by].at = "done")
  <2>1. doc[d].base # None /\ doc[d].by \in Reviews
    BY <1>2 DEF PublicationsInv, PublicationsTypeOK, DocRow, DocSound
  <2> QED  BY <2>1 DEF Adds, DocsKept, ReviewsKept, Open
<1>3. ASSUME NEW k \in Bases, base[k].by # None
      PROVE  base'[k] = base[k] /\ base[k].by \in Reviews
                /\ (review[base[k].by].at = "done" => review'[base[k].by].at = "done")
  <2>1. base[k].scope # "none" /\ base[k].by \in Reviews
    BY <1>3 DEF PublicationsInv, PublicationsTypeOK, BaseRow, BaseSound
  <2> QED  BY <2>1 DEF Adds, BasesKept, ReviewsKept, Open
<1>4. ask[a].source # None =>
         \/ /\ ask[a].kind = "document" /\ ask[a].source \in Docs /\ doc'[ask[a].source].base # None
            /\ base'[doc'[ask[a].source].base].scope = "personal"
         \/ /\ ask[a].kind = "base" /\ ask[a].source \in Bases
            /\ base'[ask[a].source].scope = "personal"
  BY <1>0, <1>1 DEF AskSound, Adds, BasesKept
<1>5. ask[a].target # None => base'[ask[a].target].scope = "group"
  BY <1>0 DEF AskSound, AskRow, Adds, BasesKept
<1>6. ask[a].published # None =>
         \/ /\ ask[a].published \in Docs /\ doc'[ask[a].published].by # None
            /\ review'[doc'[ask[a].published].by].at = "done"
         \/ /\ ask[a].published \in Bases /\ base'[ask[a].published].by # None
            /\ review'[base'[ask[a].published].by].at = "done"
  BY <1>0, <1>2, <1>3 DEF AskSound
<1> QED  BY <1>4, <1>5, <1>6 DEF AskSound

\* A review that goes on, whose base and whose request's target stay, and whose base no
\* other review takes.
LEMMA ReviewsStay ==
    ASSUME PublicationsInv, Adds, NEW r \in Reviews, review[r].at # "idle",
           base'[review[r].base] = base[review[r].base], review'[r].opened = review[r].opened,
           ask'[review[r].ask].target = ask[review[r].ask].target, ask'[review[r].ask].status # "none",
           \A s \in Reviews : s # r => review'[s].base = review[s].base \/ base[review[r].base].scope # "none"
                                         \/ review'[s].base # review[r].base
    PROVE  ReviewSound(r)'
<1>1. ReviewSound(r)
  BY DEF PublicationsInv
<1>2. review[r].ask \in Asks /\ KindOf(r)' = KindOf(r)
  BY KindsStay
<1>3. /\ review'[r].base = review[r].base /\ review'[r].ask = review[r].ask
      /\ (review'[r].at \in Open => review[r].at \in Open)
  BY DEF Adds, ReviewsKept
<1>4. KindOf(r)' = "document" =>
          /\ review'[r].opened
          /\ base'[review'[r].base].scope # "none" => ask'[review'[r].ask].target = review'[r].base
  BY <1>1, <1>2, <1>3 DEF ReviewSound
<1>5. KindOf(r)' = "base" /\ review'[r].opened /\ base'[review'[r].base].scope # "none" =>
          base'[review'[r].base].by = r
  BY <1>1, <1>2, <1>3 DEF ReviewSound
<1>6. ~review'[r].opened /\ review'[r].at \in Open =>
          /\ base'[review'[r].base].scope = "none"
          /\ \A s \in Reviews : s # r => review'[s].base # review'[r].base
  BY <1>1, <1>3 DEF ReviewSound
<1>7. KindOf(r)' \in {"document", "base"} /\ ask'[review'[r].ask].status # "none"
      /\ review'[r].ask \in Asks /\ review'[r].base \in Bases
  BY <1>1, <1>2, <1>3 DEF ReviewSound
<1> QED  BY <1>4, <1>5, <1>6, <1>7 DEF ReviewSound

\* No review starts: the bases stay apart.
LEMMA ApartStays ==
    ASSUME PublicationsInv, Adds, \A r \in Reviews : review[r].at = "idle" => review'[r].at = "idle"
    PROVE  BasesApart'
<1> SUFFICES ASSUME NEW r \in Reviews, NEW s \in Reviews, r # s, review'[r].at # "idle", review'[s].at # "idle",
                    KindOf(r)' = "base", KindOf(s)' = "base"
             PROVE  review'[r].base # review'[s].base
  BY DEF BasesApart
<1>1. review[r].at # "idle" /\ review[s].at # "idle"
  OBVIOUS
<1>2. KindOf(r) = "base" /\ KindOf(s) = "base"
  BY <1>1, KindsStay
<1>3. review'[r].base = review[r].base /\ review'[s].base = review[s].base
  BY <1>1 DEF Adds, ReviewsKept
<1> QED  BY <1>1, <1>2, <1>3 DEF PublicationsInv, BasesApart

\* The requests stay, and no review becomes open.
LEMMA OneRequestStays ==
    ASSUME PublicationsInv, Adds, ask' = ask,
           \A r \in Reviews : review'[r].at \in Open => review[r].at \in Open,
           \A r \in Reviews : review'[r].alone = review[r].alone
    PROVE  OneRequest'
<1>1. \A r \in Reviews : review'[r].at \in Open => review'[r].ask = review[r].ask
  BY DEF Adds, ReviewsKept, Open
<1> QED  BY <1>1 DEF PublicationsInv, OneRequest

LEMMA CreateBaseSound ==
    ASSUME PublicationsInv, NEW u \in People, NEW k \in Bases, NEW scope \in {"personal", "group", "system"},
           NEW purpose \in {"standard", "staging"}, CreateBase(u, k, scope, purpose)
    PROVE  PublicationsInv'
<1> DEFINE row == [scope |-> scope, purpose |-> purpose, owner |-> u, by |-> None]
<1>0. PublicationsTypeOK
  BY DEF PublicationsInv
<1>1. /\ base[k].scope = "none" /\ \A r \in Reviews : review[r].base # k
      /\ (purpose = "staging" => scope = "personal")
      /\ base' = [base EXCEPT ![k] = row] /\ doc' = doc /\ ask' = ask /\ review' = review
  BY DEF CreateBase, Unreserved
<1>2. row \in BaseRow /\ row.by = None /\ row.scope = scope /\ row.purpose = purpose
  BY DEF BaseRow
<1> HIDE DEF row
<1>3. base' \in [Bases -> BaseRow] /\ base'[k] = row /\ \A j \in Bases : j # k => base'[j] = base[j]
  BY <1>0, <1>1, <1>2 DEF PublicationsTypeOK
<1>4. Adds
  BY <1>1, <1>3 DEF Adds, BasesKept, DocsKept, KindsKept, ReviewsKept
<1>5. PublicationsTypeOK'
  BY <1>0, <1>1, <1>3 DEF PublicationsTypeOK
<1>6. ASSUME NEW j \in Bases PROVE BaseSound(j)'
  <2>1. CASE j = k
    BY <1>1, <1>2, <1>3, <2>1 DEF BaseSound
  <2> QED  BY <1>3, <1>4, <2>1, BasesStay
<1>7. ASSUME NEW d \in Docs PROVE DocSound(d)'
  BY <1>1, <1>4, DocsStay
<1>8. ASSUME NEW a \in Asks PROVE AskSound(a)'
  BY <1>1, <1>4, AsksStay
<1>9. ASSUME NEW r \in Reviews PROVE ReviewSound(r)'
  <2>1. CASE review[r].at = "idle"
    BY <1>1, <2>1 DEF ReviewSound
  <2>2. CASE review[r].at # "idle"
    <3>1. review[r].base \in Bases /\ ask[review[r].ask].status # "none"
      BY <2>2 DEF PublicationsInv, ReviewSound
    <3>2. base'[review[r].base] = base[review[r].base]
      BY <1>1, <1>3, <3>1
    <3> QED  BY <1>1, <1>4, <2>2, <3>1, <3>2, ReviewsStay
  <2> QED  BY <2>1, <2>2
<1>10. BasesApart' /\ OneRequest'
  BY <1>1, <1>4, ApartStays, OneRequestStays
<1> QED  BY <1>5, <1>6, <1>7, <1>8, <1>9, <1>10 DEF PublicationsInv

LEMMA CreateDocumentSound ==
    ASSUME PublicationsInv, NEW u \in People, NEW d \in Docs, NEW k \in Bases, CreateDocument(u, d, k)
    PROVE  PublicationsInv'
<1> DEFINE row == [base |-> k, owner |-> u, by |-> None]
<1>0. PublicationsTypeOK
  BY DEF PublicationsInv
<1>1. /\ doc[d] = NoDoc /\ base[k].scope # "none" /\ base[k].scope # "group"
      /\ doc' = [doc EXCEPT ![d] = row] /\ base' = base /\ ask' = ask /\ review' = review
  BY DEF CreateDocument, HasBase, Writable
<1>2. row \in DocRow /\ row.by = None /\ row.base = k
  BY DEF DocRow
<1> HIDE DEF row
<1>3. doc' \in [Docs -> DocRow] /\ doc'[d] = row /\ \A e \in Docs : e # d => doc'[e] = doc[e]
  BY <1>0, <1>1, <1>2 DEF PublicationsTypeOK
<1>4. Adds
  BY <1>1, <1>3, NoRows DEF Adds, BasesKept, DocsKept, KindsKept, ReviewsKept
<1>5. PublicationsTypeOK'
  BY <1>0, <1>1, <1>3 DEF PublicationsTypeOK
<1>6. ASSUME NEW j \in Bases PROVE BaseSound(j)'
  BY <1>1, <1>4, BasesStay
<1>7. ASSUME NEW e \in Docs PROVE DocSound(e)'
  <2>1. CASE e = d
    BY <1>1, <1>2, <1>3, <2>1 DEF DocSound
  <2> QED  BY <1>3, <1>4, <2>1, DocsStay
<1>8. ASSUME NEW a \in Asks PROVE AskSound(a)'
  BY <1>1, <1>4, AsksStay
<1>9. ASSUME NEW r \in Reviews PROVE ReviewSound(r)'
  BY <1>1 DEF PublicationsInv, ReviewSound, KindOf
<1>10. BasesApart' /\ OneRequest'
  BY <1>1, <1>4, ApartStays, OneRequestStays
<1> QED  BY <1>5, <1>6, <1>7, <1>8, <1>9, <1>10 DEF PublicationsInv

\* A new request for a source that exists; a base has no other pending or approved one.
LEMMA RequestAdded ==
    ASSUME PublicationsInv, NEW a \in Asks, NEW row \in AskRow, ask[a] = NoAsk, row.status = "pending",
           row.published = None, row.target # None => base[row.target].scope = "group",
           \/ /\ row.kind = "document" /\ row.source \in Docs /\ doc[row.source].base # None
              /\ base[doc[row.source].base].scope = "personal"
           \/ row.kind = "base" /\ row.source \in Bases /\ base[row.source].scope = "personal",
           row.source \in Bases =>
             \A b \in Asks : ask[b].source = row.source => ask[b].status \notin {"pending", "approved"},
           ask' = [ask EXCEPT ![a] = row], base' = base, doc' = doc, review' = review
    PROVE  PublicationsInv'
<1>0. PublicationsTypeOK
  BY DEF PublicationsInv
<1>1. ask' \in [Asks -> AskRow] /\ ask'[a] = row /\ \A b \in Asks : b # a => ask'[b] = ask[b]
  BY <1>0 DEF PublicationsTypeOK
<1>2. Adds
  BY <1>1, NoRows DEF Adds, BasesKept, DocsKept, KindsKept, ReviewsKept
<1>3. PublicationsTypeOK'
  BY <1>0, <1>1 DEF PublicationsTypeOK
<1>4. ASSUME NEW j \in Bases PROVE BaseSound(j)'
  BY <1>2, BasesStay
<1>5. ASSUME NEW e \in Docs PROVE DocSound(e)'
  BY <1>2, DocsStay
<1>6. ASSUME NEW b \in Asks PROVE AskSound(b)'
  <2>1. CASE b = a
    BY <1>1, <2>1 DEF AskSound
  <2> QED  BY <1>1, <1>2, <2>1, AsksStay
<1>7. ASSUME NEW r \in Reviews, review[r].at # "idle"
      PROVE  review[r].ask \in Asks /\ ask'[review[r].ask] = ask[review[r].ask] /\ ask[review[r].ask].status # "none"
  <2>1. review[r].ask \in Asks /\ ask[review[r].ask].status # "none"
    BY <1>7 DEF PublicationsInv, ReviewSound
  <2>2. review[r].ask # a
    BY <2>1, NoRows
  <2> QED  BY <1>1, <2>1, <2>2
<1>8. ASSUME NEW r \in Reviews PROVE ReviewSound(r)'
  <2>1. CASE review[r].at = "idle"
    BY <2>1 DEF ReviewSound
  <2>2. CASE review[r].at # "idle"
    BY <1>2, <1>7, <2>2, ReviewsStay
  <2> QED  BY <2>1, <2>2
<1>9. BasesApart'
  BY <1>2, ApartStays
<1>10. OneRequest'
  <2> SUFFICES ASSUME \A r \in Reviews : review[r].alone
               PROVE  /\ \A r \in Reviews : review[r].at \in Open => ask'[review[r].ask].status = "pending"
                      /\ \A b, c \in Asks :
                           /\ ask'[b].status \in {"pending", "approved"} /\ ask'[c].status \in {"pending", "approved"}
                           /\ ask'[b].source = ask'[c].source /\ ask'[b].source \in Bases
                           => b = c
    BY DEF OneRequest
  <2>1. /\ \A r \in Reviews : review[r].at \in Open => ask[review[r].ask].status = "pending"
        /\ \A b, c \in Asks :
             /\ ask[b].status \in {"pending", "approved"} /\ ask[c].status \in {"pending", "approved"}
             /\ ask[b].source = ask[c].source /\ ask[b].source \in Bases
             => b = c
    BY DEF PublicationsInv, OneRequest
  <2>2. \A r \in Reviews : review[r].at \in Open => ask'[review[r].ask].status = "pending"
    BY <1>7, <2>1 DEF Open
  <2>3. ASSUME NEW b \in Asks, NEW c \in Asks,
               ask'[b].status \in {"pending", "approved"}, ask'[c].status \in {"pending", "approved"},
               ask'[b].source = ask'[c].source, ask'[b].source \in Bases
        PROVE  b = c
    BY <1>1, <2>1, <2>3
  <2> QED  BY <2>2, <2>3
<1> QED  BY <1>3, <1>4, <1>5, <1>6, <1>8, <1>9, <1>10 DEF PublicationsInv

LEMMA RequestsSound ==
    ASSUME PublicationsInv, NEW u \in People, NEW a \in Asks, NEW k \in Bases,
           AskBase(u, a, k) \/ \E d \in Docs : AskDocument(u, a, d, k)
    PROVE  PublicationsInv'
<1>1. ASSUME AskBase(u, a, k) PROVE PublicationsInv'
  <2> DEFINE row == [NoAsk EXCEPT !.status = "pending", !.kind = "base", !.source = k, !.requester = u]
  <2>1. /\ ask[a] = NoAsk /\ base[k].scope = "personal" /\ ask' = [ask EXCEPT ![a] = row]
        /\ base' = base /\ doc' = doc /\ review' = review
    BY <1>1 DEF AskBase
  <2>2. \A b \in Asks : ask[b].source = k => ask[b].status \notin {"pending", "approved"}
    BY <1>1, PublicationsAssumption DEF AskBase, Publishable
  <2>3. row \in AskRow /\ row.status = "pending" /\ row.published = None /\ row.target = None
        /\ row.kind = "base" /\ row.source = k
    BY DEF AskRow, NoAsk
  <2> HIDE DEF row
  <2> QED  BY <2>1, <2>2, <2>3, RequestAdded
<1>2. ASSUME NEW d \in Docs, AskDocument(u, a, d, k) PROVE PublicationsInv'
  <2> DEFINE row == [NoAsk EXCEPT !.status = "pending", !.kind = "document",
                                  !.source = d, !.target = k, !.requester = u]
  <2>1. /\ ask[a] = NoAsk /\ doc[d].base # None /\ base[doc[d].base].scope = "personal"
        /\ base[k].scope = "group" /\ ask' = [ask EXCEPT ![a] = row]
        /\ base' = base /\ doc' = doc /\ review' = review
    BY <1>2 DEF AskDocument, HasDoc
  <2>2. row \in AskRow /\ row.status = "pending" /\ row.published = None /\ row.target = k
        /\ row.kind = "document" /\ row.source = d
    BY DEF AskRow, NoAsk
  <2>3. d \notin Bases
    BY PublicationsAssumption
  <2> HIDE DEF row
  <2> QED  BY <2>1, <2>2, <2>3, RequestAdded
<1> QED  BY <1>1, <1>2

-----------------------------------------------------------------------------
(* The steps of an approval. *)

LEMMA ApproveCheckedSound ==
    ASSUME PublicationsInv, NEW r \in Reviews, NEW u \in People, NEW a \in Asks, NEW k \in Bases,
           ApproveChecked(r, u, a, k)
    PROVE  PublicationsInv'
<1> DEFINE free == \A q \in Reviews : review[q].ask = a => review[q].at \notin {"checked", "copied"}
           row == [at |-> "checked", user |-> u, ask |-> a, base |-> k,
                   opened |-> ask[a].kind = "document", todo |-> SourceDocuments(a), alone |-> free]
           crossed == Crossed({a})
<1>0. PublicationsTypeOK
  BY DEF PublicationsInv
<1>1. /\ review[r] = NoReview /\ ask[a].status = "pending" /\ ask[a].source # None
      /\ IF ask[a].kind = "document" THEN HasBase(ask[a].target) /\ k = ask[a].target
         ELSE Publishable(ask[a].source, a) /\ Unreserved(k)
      /\ review' = [crossed EXCEPT ![r] = row] /\ base' = base /\ doc' = doc /\ ask' = ask
  BY DEF ApproveChecked
<1>2. ask[a].kind \in {"document", "base"} /\ SourceDocuments(a) \in SUBSET Docs
  BY <1>1 DEF PublicationsInv, AskSound, SourceDocuments, In
<1>3. /\ row \in ReviewRow /\ row.at = "checked" /\ row.ask = a /\ row.base = k
      /\ row.opened = (ask[a].kind = "document")
  <2>1. free \in BOOLEAN
    OBVIOUS
  <2> HIDE DEF free
  <2> QED  BY <1>2, <2>1 DEF ReviewRow
<1> HIDE DEF row, free
<1>4. /\ crossed \in [Reviews -> ReviewRow]
      /\ \A s \in Reviews :
           /\ crossed[s].at = review[s].at /\ crossed[s].ask = review[s].ask
           /\ crossed[s].base = review[s].base /\ crossed[s].opened = review[s].opened
           /\ crossed[s].alone => review[s].alone
  <2> DEFINE changed == {a}
  <2>1. crossed = Crossed(changed)
    OBVIOUS
  <2> HIDE DEF crossed, changed
  <2> QED  BY <1>0, <2>1, CrossedRows DEF PublicationsTypeOK
<1> HIDE DEF crossed
<1>5. /\ review' \in [Reviews -> ReviewRow] /\ review'[r] = row
      /\ \A s \in Reviews : s # r =>
           /\ review'[s].at = review[s].at /\ review'[s].ask = review[s].ask
           /\ review'[s].base = review[s].base /\ review'[s].opened = review[s].opened
           /\ review'[s].alone => review[s].alone
  BY <1>1, <1>3, <1>4
<1>6. Adds
  BY <1>1, <1>5, NoRows DEF Adds, BasesKept, DocsKept, KindsKept, ReviewsKept
<1>7. PublicationsTypeOK'
  BY <1>0, <1>1, <1>5 DEF PublicationsTypeOK
<1>8. ASSUME NEW j \in Bases PROVE BaseSound(j)'
  BY <1>1, <1>6, BasesStay
<1>9. ASSUME NEW e \in Docs PROVE DocSound(e)'
  BY <1>1, <1>6, DocsStay
<1>10. ASSUME NEW b \in Asks PROVE AskSound(b)'
  BY <1>1, <1>6, AsksStay
<1>11. ask[a].kind = "base" => base[k].scope = "none" /\ \A s \in Reviews : review[s].base # k
  BY <1>1 DEF Unreserved
<1>12. ask[a].kind = "document" => base[k].scope # "none" /\ k = ask[a].target
  BY <1>1 DEF HasBase
<1>13. KindOf(r)' = ask[a].kind
  BY <1>1, <1>3, <1>5 DEF KindOf
<1>14. ASSUME NEW s \in Reviews PROVE ReviewSound(s)'
  <2>1. CASE s = r
    <3>1. review'[r].at = "checked" /\ review'[r].ask = a /\ review'[r].base = k
          /\ review'[r].opened = (ask[a].kind = "document")
      BY <1>3, <1>5
    <3>2. ask[a].kind = "base" => \A q \in Reviews : q # r => review'[q].base # k
      BY <1>5, <1>11
    <3> QED  BY <1>1, <1>2, <1>11, <1>12, <1>13, <2>1, <3>1, <3>2 DEF ReviewSound
  <2>2. CASE s # r /\ review[s].at = "idle"
    BY <1>5, <2>2 DEF ReviewSound
  <2>3. CASE s # r /\ review[s].at # "idle"
    <3>1. review[s].base \in Bases /\ ask[review[s].ask].status # "none"
      BY <2>3 DEF PublicationsInv, ReviewSound
    <3>2. \A q \in Reviews : q # s => review'[q].base = review[q].base \/ base[review[s].base].scope # "none"
                                         \/ review'[q].base # review[s].base
      BY <1>2, <1>3, <1>5, <1>11, <1>12, <2>3
    <3>3. review'[s].opened = review[s].opened
      BY <1>5, <2>3
    <3> QED  BY <1>1, <1>6, <2>3, <3>1, <3>2, <3>3, ReviewsStay
  <2> QED  BY <2>1, <2>2, <2>3
<1>15. BasesApart'
  <2> SUFFICES ASSUME NEW p \in Reviews, NEW q \in Reviews, p # q, review'[p].at # "idle", review'[q].at # "idle",
                      KindOf(p)' = "base", KindOf(q)' = "base"
               PROVE  review'[p].base # review'[q].base
    BY DEF BasesApart
  <2>1. CASE p = r
    BY <1>3, <1>5, <1>11, <1>13, <2>1
  <2>2. CASE q = r
    BY <1>3, <1>5, <1>11, <1>13, <2>2
  <2>3. CASE p # r /\ q # r
    <3>1. review[p].at # "idle" /\ review[q].at # "idle" /\ review'[p].base = review[p].base /\ review'[q].base = review[q].base
      BY <1>5, <2>3
    <3>2. KindOf(p) = "base" /\ KindOf(q) = "base"
      BY <1>6, <3>1, KindsStay
    <3> QED  BY <3>1, <3>2 DEF PublicationsInv, BasesApart
  <2> QED  BY <2>1, <2>2, <2>3
<1>16. OneRequest'
  <2> SUFFICES ASSUME \A s \in Reviews : review'[s].alone
               PROVE  /\ \A s \in Reviews : review'[s].at \in Open => ask[review'[s].ask].status = "pending"
                      /\ \A b, c \in Asks :
                           /\ ask[b].status \in {"pending", "approved"} /\ ask[c].status \in {"pending", "approved"}
                           /\ ask[b].source = ask[c].source /\ ask[b].source \in Bases
                           => b = c
    BY <1>1 DEF OneRequest
  <2>1. \A s \in Reviews : review[s].alone
    BY <1>1, <1>5, NoRows
  <2>2. /\ \A s \in Reviews : review[s].at \in Open => ask[review[s].ask].status = "pending"
        /\ \A b, c \in Asks :
             /\ ask[b].status \in {"pending", "approved"} /\ ask[c].status \in {"pending", "approved"}
             /\ ask[b].source = ask[c].source /\ ask[b].source \in Bases
             => b = c
    BY <2>1 DEF PublicationsInv, OneRequest
  <2>3. \A s \in Reviews : review'[s].at \in Open => ask[review'[s].ask].status = "pending"
    BY <1>1, <1>3, <1>5, <2>2
  <2> QED  BY <2>2, <2>3
<1> QED  BY <1>7, <1>8, <1>9, <1>10, <1>14, <1>15, <1>16 DEF PublicationsInv

\* The base of an approval that has not written it yet is nobody else's; one that has,
\* and that still exists, is a base of the group.
LEMMA ReviewedBase ==
    ASSUME PublicationsInv, NEW r \in Reviews, review[r].at \in Open
    PROVE  /\ review[r].ask \in Asks /\ review[r].base \in Bases /\ KindOf(r) \in {"document", "base"}
           /\ ask[review[r].ask].status # "none"
           /\ ~review[r].opened => /\ KindOf(r) = "base" /\ base[review[r].base].scope = "none"
                                   /\ \A s \in Reviews : s # r => review[s].base # review[r].base
           /\ (KindOf(r) = "base" /\ review[r].opened /\ HasBase(review[r].base)) => base[review[r].base].by = r
           /\ (review[r].opened /\ HasBase(review[r].base)) => base[review[r].base].scope = "group"
<1>1. ReviewSound(r) /\ review[r].at # "idle"
  BY DEF PublicationsInv, Open
<1>2. /\ review[r].ask \in Asks /\ review[r].base \in Bases /\ KindOf(r) \in {"document", "base"}
      /\ ask[review[r].ask].status # "none"
  BY <1>1 DEF ReviewSound
<1>3. ~review[r].opened => /\ KindOf(r) = "base" /\ base[review[r].base].scope = "none"
                           /\ \A s \in Reviews : s # r => review[s].base # review[r].base
  BY <1>1, <1>2 DEF ReviewSound
<1>4. (KindOf(r) = "base" /\ review[r].opened /\ HasBase(review[r].base)) => base[review[r].base].by = r
  BY <1>1 DEF ReviewSound, HasBase
<1>5. (review[r].opened /\ HasBase(review[r].base)) => base[review[r].base].scope = "group"
  <2> SUFFICES ASSUME review[r].opened, HasBase(review[r].base) PROVE base[review[r].base].scope = "group"
    OBVIOUS
  <2>1. CASE KindOf(r) = "base"
    <3>1. BaseSound(review[r].base)
      BY <1>2 DEF PublicationsInv
    <3> QED  BY <1>4, <2>1, <3>1, PublicationsAssumption DEF BaseSound
  <2>2. CASE KindOf(r) = "document"
    <3>1. ask[review[r].ask].target = review[r].base
      BY <1>1, <2>2 DEF ReviewSound, HasBase
    <3>2. AskSound(review[r].ask)
      BY <1>2 DEF PublicationsInv
    <3> QED  BY <1>2, <3>1, <3>2, PublicationsAssumption DEF AskSound
  <2> QED  BY <1>2, <2>1, <2>2
<1> QED  BY <1>2, <1>3, <1>4, <1>5

LEMMA GroupBaseRow ==
    ASSUME PublicationsTypeOK, NEW r \in Reviews
    PROVE  /\ GroupBase(r) \in BaseRow /\ GroupBase(r).by = r /\ GroupBase(r).scope = "group"
           /\ GroupBase(r).purpose = "standard"
<1>1. review[r].user \in People \cup {None}
  BY DEF PublicationsTypeOK, ReviewRow
<1> QED  BY <1>1 DEF GroupBase, BaseRow

\* What an approval writes to its base.
LEMMA BaseWritten ==
    ASSUME PublicationsInv, NEW r \in Reviews, review[r].at \in Open,
           base' = IF review[r].opened THEN base ELSE [base EXCEPT ![review[r].base] = GroupBase(r)]
    PROVE  /\ base' \in [Bases -> BaseRow] /\ BasesKept
           /\ \A k \in Bases : (~review[r].opened /\ k = review[r].base) \/ base'[k] = base[k]
           /\ ~review[r].opened => base'[review[r].base] = GroupBase(r)
           /\ \A s \in Reviews : s # r /\ review[s].base \in Bases => base'[review[s].base] = base[review[s].base]
<1>0. PublicationsTypeOK
  BY DEF PublicationsInv
<1>1. CASE review[r].opened
  BY <1>0, <1>1 DEF PublicationsTypeOK, BasesKept
<1>2. CASE ~review[r].opened
  <2>1. /\ review[r].base \in Bases /\ base[review[r].base].scope = "none"
        /\ \A s \in Reviews : s # r => review[s].base # review[r].base
    BY <1>2, ReviewedBase
  <2>2. base' = [base EXCEPT ![review[r].base] = GroupBase(r)]
    BY <1>2
  <2>3. GroupBase(r) \in BaseRow
    BY <1>0, GroupBaseRow
  <2> DEFINE row == GroupBase(r)
  <2> HIDE DEF row
  <2>4. base' = [base EXCEPT ![review[r].base] = row] /\ row \in BaseRow
    BY <2>2, <2>3 DEF row
  <2>5. base' \in [Bases -> BaseRow] /\ base'[review[r].base] = row
        /\ \A k \in Bases : k # review[r].base => base'[k] = base[k]
    BY <1>0, <2>1, <2>4 DEF PublicationsTypeOK
  <2>6. base'[review[r].base] = GroupBase(r)
    BY <2>5 DEF row
  <2> QED  BY <1>2, <2>1, <2>5, <2>6 DEF BasesKept
<1> QED  BY <1>1, <1>2

LEMMA CopyDocumentSound ==
    ASSUME PublicationsInv, NEW r \in Reviews, NEW d \in Docs, NEW n \in Docs, CopyDocument(r, d, n)
    PROVE  PublicationsInv'
<1> DEFINE row == [base |-> review[r].base, owner |-> CopyOwner(r), by |-> r]
           todo == review[r].todo \ {d}
<1>0. PublicationsTypeOK /\ review[r] \in ReviewRow
  BY DEF PublicationsInv, PublicationsTypeOK
<1>1. /\ review[r].at = "checked" /\ doc[n] = NoDoc /\ (review[r].opened => HasBase(review[r].base))
      /\ doc' = [doc EXCEPT ![n] = row] /\ ask' = ask
      /\ base' = IF review[r].opened THEN base ELSE [base EXCEPT ![review[r].base] = GroupBase(r)]
      /\ review' = [review EXCEPT ![r].todo = todo, ![r].opened = TRUE]
  BY DEF CopyDocument
<1>2. row \in DocRow /\ row.base = review[r].base /\ row.by = r /\ todo \in SUBSET Docs
  <2>1. review[r].ask \in Asks
    BY <1>1 DEF PublicationsInv, ReviewSound
  <2>2. CopyOwner(r) \in People \cup {None}
    BY <1>0, <2>1 DEF PublicationsTypeOK, AskRow, ReviewRow, CopyOwner
  <2> QED  BY <1>0, <2>2 DEF ReviewRow, DocRow
<1> HIDE DEF row, todo
<1>3. /\ review' \in [Reviews -> ReviewRow] /\ (\A s \in Reviews : s # r => review'[s] = review[s])
      /\ review'[r] = [review[r] EXCEPT !.todo = todo, !.opened = TRUE]
  BY <1>0, <1>1, <1>2 DEF PublicationsTypeOK, ReviewRow
<1>4. /\ review'[r].at = "checked" /\ review'[r].ask = review[r].ask /\ review'[r].base = review[r].base
      /\ review'[r].alone = review[r].alone /\ review'[r].opened = TRUE
  BY <1>0, <1>1, <1>3 DEF ReviewRow
<1>5. doc' \in [Docs -> DocRow] /\ doc'[n] = row /\ \A e \in Docs : e # n => doc'[e] = doc[e]
  BY <1>0, <1>1, <1>2 DEF PublicationsTypeOK
<1>6. review[r].at \in Open
  BY <1>1 DEF Open
<1>7. /\ base' \in [Bases -> BaseRow] /\ BasesKept
      /\ \A k \in Bases : (~review[r].opened /\ k = review[r].base) \/ base'[k] = base[k]
      /\ ~review[r].opened => base'[review[r].base] = GroupBase(r)
      /\ \A s \in Reviews : s # r /\ review[s].base \in Bases => base'[review[s].base] = base[review[s].base]
  BY <1>1, <1>6, BaseWritten
<1>8. Adds
  <2>1. DocsKept
    BY <1>1, <1>5, NoRows DEF DocsKept
  <2>2. KindsKept /\ ReviewsKept
    BY <1>1, <1>3, <1>4 DEF KindsKept, ReviewsKept
  <2> QED  BY <1>7, <2>1, <2>2 DEF Adds
<1>9. PublicationsTypeOK'
  BY <1>0, <1>1, <1>3, <1>5, <1>7 DEF PublicationsTypeOK
<1>10. /\ review[r].ask \in Asks /\ review[r].base \in Bases /\ KindOf(r) \in {"document", "base"}
       /\ (~review[r].opened => KindOf(r) = "base") /\ KindOf(r)' = KindOf(r)
       /\ ask[review[r].ask].status # "none"
  BY <1>6, <1>8, ReviewedBase, KindsStay DEF Open
<1>11. base'[review[r].base].scope = "group" /\ (KindOf(r) = "base" => base'[review[r].base].by = r)
  <2>1. CASE review[r].opened
    BY <1>1, <1>6, <1>7, <1>10, <2>1, ReviewedBase
  <2>2. CASE ~review[r].opened
    BY <1>0, <1>7, <2>2, GroupBaseRow
  <2> QED  BY <2>1, <2>2
<1>12. ASSUME NEW k \in Bases PROVE BaseSound(k)'
  <2>1. CASE base'[k] = base[k]
    BY <1>8, <2>1, BasesStay
  <2>2. CASE ~review[r].opened /\ k = review[r].base
    <3>1. base'[k].by = r /\ base'[k].scope = "group"
      BY <1>0, <1>7, <2>2, GroupBaseRow
    <3>2. ask'[review'[r].ask].kind = "base"
      BY <1>10, <2>2 DEF KindOf
    <3> QED  BY <1>4, <2>2, <3>1, <3>2 DEF BaseSound, KindOf
  <2> QED  BY <1>7, <2>1, <2>2
<1>13. ASSUME NEW e \in Docs PROVE DocSound(e)'
  <2>1. CASE e = n
    BY <1>2, <1>4, <1>5, <1>10, <1>11, <2>1, PublicationsAssumption DEF DocSound
  <2> QED  BY <1>5, <1>8, <2>1, DocsStay
<1>14. ASSUME NEW a \in Asks PROVE AskSound(a)'
  BY <1>1, <1>8, AsksStay
<1>15. ASSUME NEW s \in Reviews PROVE ReviewSound(s)'
  <2>1. CASE s = r
    <3>1. KindOf(r) = "document" => (base'[review[r].base].scope # "none" => ask[review[r].ask].target = review[r].base)
      <4> SUFFICES ASSUME KindOf(r) = "document" PROVE ask[review[r].ask].target = review[r].base
        OBVIOUS
      <4>1. base'[review[r].base] = base[review[r].base] /\ base[review[r].base].scope # "none"
        BY <1>1, <1>7, <1>10 DEF HasBase
      <4> QED  BY <1>1, <4>1 DEF PublicationsInv, ReviewSound
    <3> QED  BY <1>1, <1>4, <1>10, <1>11, <2>1, <3>1 DEF ReviewSound
  <2>2. CASE s # r /\ review[s].at = "idle"
    BY <1>3, <2>2 DEF ReviewSound
  <2>3. CASE s # r /\ review[s].at # "idle"
    <3>1. review[s].base \in Bases /\ ask[review[s].ask].status # "none"
      BY <2>3 DEF PublicationsInv, ReviewSound
    <3>2. base'[review[s].base] = base[review[s].base]
      BY <1>7, <2>3, <3>1
    <3>3. \A q \in Reviews : review'[q].base = review[q].base
      BY <1>3, <1>4
    <3>4. review'[s].opened = review[s].opened
      BY <1>3, <2>3
    <3> QED  BY <1>1, <1>8, <2>3, <3>1, <3>2, <3>3, <3>4, ReviewsStay
  <2> QED  BY <2>1, <2>2, <2>3
<1>16. BasesApart' /\ OneRequest'
  <2>1. \A s \in Reviews : (review[s].at = "idle" => review'[s].at = "idle")
                           /\ (review'[s].at \in Open => review[s].at \in Open)
                           /\ review'[s].alone = review[s].alone
    BY <1>1, <1>3, <1>4, <1>6
  <2> QED  BY <1>1, <1>8, <2>1, ApartStays, OneRequestStays
<1> QED  BY <1>9, <1>12, <1>13, <1>14, <1>15, <1>16 DEF PublicationsInv

\* The last copy is made, or the process dies.
LEMMA ReviewMoves ==
    ASSUME PublicationsInv, NEW r \in Reviews, CopiesMade(r) \/ ReviewLost(r)
    PROVE  PublicationsInv'
<1>0. PublicationsTypeOK /\ review[r] \in ReviewRow
  BY DEF PublicationsInv, PublicationsTypeOK
<1>1. PICK at \in {"copied", "lost"} :
        /\ review[r].at \in Open /\ (at \in Open => at = "copied")
        /\ review' = [review EXCEPT ![r].at = at] /\ base' = base /\ doc' = doc /\ ask' = ask
  BY DEF CopiesMade, ReviewLost, Open
<1>2. /\ review' \in [Reviews -> ReviewRow] /\ (\A s \in Reviews : s # r => review'[s] = review[s])
      /\ review'[r] = [review[r] EXCEPT !.at = at]
  BY <1>0, <1>1 DEF PublicationsTypeOK, ReviewRow
<1>3. /\ review'[r].at = at /\ review'[r].ask = review[r].ask /\ review'[r].base = review[r].base
      /\ review'[r].alone = review[r].alone /\ review'[r].opened = review[r].opened
  BY <1>0, <1>2 DEF ReviewRow
<1>4. Adds
  BY <1>1, <1>2, <1>3 DEF Adds, BasesKept, DocsKept, KindsKept, ReviewsKept
<1>5. PublicationsTypeOK'
  BY <1>0, <1>1, <1>2 DEF PublicationsTypeOK
<1>6. ASSUME NEW k \in Bases PROVE BaseSound(k)'
  BY <1>1, <1>4, BasesStay
<1>7. ASSUME NEW d \in Docs PROVE DocSound(d)'
  BY <1>1, <1>4, DocsStay
<1>8. ASSUME NEW a \in Asks PROVE AskSound(a)'
  BY <1>1, <1>4, AsksStay
<1>9. ASSUME NEW s \in Reviews PROVE ReviewSound(s)'
  <2>1. CASE review[s].at = "idle"
    BY <1>1, <1>2, <2>1 DEF ReviewSound, Open
  <2>2. CASE review[s].at # "idle"
    <3>1. ask[review[s].ask].status # "none"
      BY <2>2 DEF PublicationsInv, ReviewSound
    <3>2. review'[s].opened = review[s].opened /\ \A q \in Reviews : review'[q].base = review[q].base
      BY <1>2, <1>3
    <3> QED  BY <1>1, <1>4, <2>2, <3>1, <3>2, ReviewsStay
  <2> QED  BY <2>1, <2>2
<1>10. BasesApart' /\ OneRequest'
  <2>1. \A s \in Reviews : (review[s].at = "idle" => review'[s].at = "idle")
                           /\ (review'[s].at \in Open => review[s].at \in Open)
                           /\ review'[s].alone = review[s].alone
    BY <1>1, <1>2, <1>3 DEF Open
  <2> QED  BY <1>1, <1>4, <2>1, ApartStays, OneRequestStays
<1> QED  BY <1>5, <1>6, <1>7, <1>8, <1>9, <1>10 DEF PublicationsInv

\* A copy failed: the copies and the base of the approval go, and nothing else does.
LEMMA ApproveFailedSound ==
    ASSUME PublicationsInv, NEW r \in Reviews, ApproveFailed(r)
    PROVE  PublicationsInv'
<1> DEFINE ds == CopiesOf(r)
           ks == {k \in Bases : base[k].by = r}
<1>0. PublicationsTypeOK /\ review[r] \in ReviewRow
  BY DEF PublicationsInv, PublicationsTypeOK
<1>1. /\ review[r].at = "checked" /\ Remove(ds, ks) /\ review' = [review EXCEPT ![r].at = "failed"] /\ ask' = ask
      /\ \A a \in Asks : ask[a].target # None => base[ask[a].target].by # r
  BY DEF ApproveFailed
<1>2. (\A d \in Docs : d \in ds <=> doc[d].by = r) /\ (\A k \in Bases : k \in ks <=> base[k].by = r)
  BY DEF CopiesOf
<1> HIDE DEF ds, ks
<1>3. base' \in [Bases -> BaseRow] /\ doc' \in [Docs -> DocRow] /\ BasesLeft(ks) /\ DocsLeft(ds)
  BY <1>0, <1>1, NoRows DEF Remove, PublicationsTypeOK, BasesLeft, DocsLeft
<1>4. /\ review' \in [Reviews -> ReviewRow] /\ (\A s \in Reviews : s # r => review'[s] = review[s])
      /\ review'[r] = [review[r] EXCEPT !.at = "failed"]
  BY <1>0, <1>1 DEF PublicationsTypeOK, ReviewRow
<1>5. /\ review'[r].at = "failed" /\ review'[r].ask = review[r].ask /\ review'[r].base = review[r].base
      /\ review'[r].alone = review[r].alone /\ review'[r].opened = review[r].opened
  BY <1>0, <1>4 DEF ReviewRow
<1>6. PublicationsTypeOK'
  BY <1>0, <1>1, <1>3, <1>4 DEF PublicationsTypeOK
<1>7. \A s \in Reviews : review'[s].ask = review[s].ask /\ review'[s].base = review[s].base
                         /\ review'[s].opened = review[s].opened /\ review'[s].alone = review[s].alone
                         /\ (s # r => review'[s].at = review[s].at)
                         /\ (review[s].at = "idle" <=> review'[s].at = "idle")
                         /\ (review'[s].at \in Open => review[s].at \in Open)
  BY <1>1, <1>4, <1>5 DEF Open
<1>8. ASSUME NEW k \in Bases PROVE BaseSound(k)'
  <2>1. CASE base'[k] = NoBase
    BY <2>1, NoRows DEF BaseSound
  <2>2. CASE base'[k] = base[k] /\ base[k].by # r
    <3>0. BaseSound(k)
      BY DEF PublicationsInv
    <3>1. base[k].by # None => base[k].by \in Reviews
      BY <1>0 DEF PublicationsTypeOK, BaseRow
    <3> QED  BY <1>1, <1>7, <2>2, <3>0, <3>1 DEF BaseSound, KindOf
  <2> QED  BY <1>2, <1>3, <2>1, <2>2 DEF BasesLeft
<1>9. ASSUME NEW d \in Docs, doc[d].by # r, doc[d].base # None
      PROVE  doc[d].base \in Bases /\ doc[d].base \notin ks
  <2>0. DocSound(d) /\ doc[d].base \in Bases
    BY <1>0, <1>9 DEF PublicationsInv, PublicationsTypeOK, DocRow
  <2> SUFFICES ASSUME base[doc[d].base].by = r PROVE FALSE
    BY <1>2, <2>0
  <2>1. /\ base[doc[d].base].scope = "group" /\ review[r].base = doc[d].base /\ KindOf(r) = "base"
    BY <2>0, PublicationsAssumption DEF PublicationsInv, BaseSound
  <2>2. doc[d].by \in Reviews /\ review[doc[d].by].base = doc[d].base /\ review[doc[d].by].at # "idle"
    BY <1>0, <1>9, <2>0, <2>1 DEF PublicationsTypeOK, DocRow, DocSound
  <2>3. ReviewSound(doc[d].by)
    BY <2>2 DEF PublicationsInv
  <2>4. CASE KindOf(doc[d].by) = "base"
    BY <1>1, <1>9, <2>1, <2>2, <2>4 DEF PublicationsInv, BasesApart
  <2>5. CASE KindOf(doc[d].by) = "document"
    <3>1. review[doc[d].by].ask \in Asks /\ ask[review[doc[d].by].ask].target = doc[d].base
      BY <2>1, <2>2, <2>3, <2>5 DEF ReviewSound
    <3> QED  BY <1>1, <1>9, <3>1
  <2> QED  BY <2>2, <2>3, <2>4, <2>5 DEF ReviewSound
<1>10. ASSUME NEW d \in Docs PROVE DocSound(d)'
  <2>1. CASE doc'[d] = NoDoc
    BY <2>1, NoRows DEF DocSound
  <2>2. CASE doc'[d] = doc[d] /\ doc[d].by # r
    <3>0. DocSound(d)
      BY DEF PublicationsInv
    <3>1. doc[d].by # None => doc[d].by \in Reviews
      BY <1>0 DEF PublicationsTypeOK, DocRow
    <3>2. doc[d].base # None => base'[doc[d].base] = base[doc[d].base]
      BY <1>3, <1>9, <2>2 DEF BasesLeft
    <3>3. doc[d].by # None => /\ review'[doc[d].by].at = review[doc[d].by].at
                              /\ review'[doc[d].by].base = review[doc[d].by].base
      BY <1>7, <2>2, <3>1
    <3> QED  BY <2>2, <3>0, <3>2, <3>3 DEF DocSound
  <2> QED  BY <1>2, <1>3, <2>1, <2>2 DEF DocsLeft
<1>11. ASSUME NEW k \in Bases, base[k].by # r PROVE base'[k] = base[k]
  BY <1>2, <1>3, <1>11 DEF BasesLeft
<1>12. ASSUME NEW d \in Docs, doc[d].by # r PROVE doc'[d] = doc[d]
  BY <1>2, <1>3, <1>12 DEF DocsLeft
<1>13. ASSUME NEW k \in Bases, base[k].scope # "group" PROVE base'[k] = base[k]
  <2>1. base[k].by # r
    BY <1>13, PublicationsAssumption DEF PublicationsInv, BaseSound
  <2> QED  BY <1>11, <2>1
<1>14. ASSUME NEW a \in Asks PROVE AskSound(a)'
  <2>0. AskSound(a) /\ ask[a] \in AskRow
    BY <1>0 DEF PublicationsInv, PublicationsTypeOK
  <2>1. ASSUME NEW d \in Docs, doc[d].base # None, base[doc[d].base].scope = "personal"
        PROVE  doc'[d] = doc[d] /\ base'[doc[d].base] = base[doc[d].base]
    <3>1. doc[d].by # r /\ doc[d].base \in Bases
      BY <1>0, <2>1, PublicationsAssumption DEF PublicationsInv, PublicationsTypeOK, DocRow, DocSound
    <3> QED  BY <1>12, <1>13, <2>1, <3>1
  <2>2. ask[a].source # None =>
         \/ /\ ask[a].kind = "document" /\ ask[a].source \in Docs /\ doc'[ask[a].source].base # None
            /\ base'[doc'[ask[a].source].base].scope = "personal"
         \/ /\ ask[a].kind = "base" /\ ask[a].source \in Bases
            /\ base'[ask[a].source].scope = "personal"
    BY <1>13, <2>0, <2>1 DEF AskSound
  <2>3. ask[a].target # None => base'[ask[a].target].scope = "group"
    <3> SUFFICES ASSUME ask[a].target # None PROVE base'[ask[a].target].scope = "group"
      OBVIOUS
    <3>1. ask[a].target \in Bases /\ base[ask[a].target].by # r /\ base[ask[a].target].scope = "group"
      BY <1>1, <2>0 DEF AskSound, AskRow
    <3> QED  BY <1>11, <3>1
  <2>4. ask[a].published # None =>
         \/ /\ ask[a].published \in Docs /\ doc'[ask[a].published].by # None
            /\ review'[doc'[ask[a].published].by].at = "done"
         \/ /\ ask[a].published \in Bases /\ base'[ask[a].published].by # None
            /\ review'[base'[ask[a].published].by].at = "done"
    <3> SUFFICES ASSUME ask[a].published # None
                 PROVE  \/ /\ ask[a].published \in Docs /\ doc'[ask[a].published].by # None
                           /\ review'[doc'[ask[a].published].by].at = "done"
                        \/ /\ ask[a].published \in Bases /\ base'[ask[a].published].by # None
                           /\ review'[base'[ask[a].published].by].at = "done"
      OBVIOUS
    <3>1. CASE ask[a].published \in Docs /\ doc[ask[a].published].by # None /\ review[doc[ask[a].published].by].at = "done"
      <4>1. doc[ask[a].published].by \in Reviews \ {r}
        BY <1>0, <1>1, <3>1 DEF PublicationsTypeOK, DocRow
      <4>2. doc'[ask[a].published] = doc[ask[a].published]
        BY <1>12, <3>1, <4>1
      <4> QED  BY <1>7, <3>1, <4>1, <4>2
    <3>2. CASE ask[a].published \in Bases /\ base[ask[a].published].by # None /\ review[base[ask[a].published].by].at = "done"
      <4>1. base[ask[a].published].by \in Reviews \ {r}
        BY <1>0, <1>1, <3>2 DEF PublicationsTypeOK, BaseRow
      <4>2. base'[ask[a].published] = base[ask[a].published]
        BY <1>11, <3>2, <4>1
      <4> QED  BY <1>7, <3>2, <4>1, <4>2
    <3> QED  BY <2>0, <3>1, <3>2 DEF AskSound
  <2> QED  BY <1>1, <2>2, <2>3, <2>4 DEF AskSound
<1>15. ASSUME NEW s \in Reviews PROVE ReviewSound(s)'
  <2> SUFFICES ASSUME review[s].at # "idle" PROVE ReviewSound(s)'
    BY <1>7 DEF ReviewSound
  <2>1. ReviewSound(s) /\ review[s].base \in Bases
    BY DEF PublicationsInv, ReviewSound
  <2>2. base'[review[s].base] = NoBase \/ base'[review[s].base] = base[review[s].base]
    BY <1>3, <2>1 DEF BasesLeft
  <2>3. KindOf(s)' = KindOf(s)
    BY <1>1, <1>7 DEF KindOf
  <2>4. base'[review[s].base].scope # "none" => base'[review[s].base] = base[review[s].base]
    BY <2>2, NoRows
  <2>5. base[review[s].base].scope = "none" => base'[review[s].base].scope = "none"
    BY <2>2, NoRows
  <2> QED  BY <1>1, <1>7, <2>1, <2>3, <2>4, <2>5 DEF ReviewSound
<1>16. BasesApart'
  BY <1>1, <1>7 DEF PublicationsInv, BasesApart, KindOf
<1>17. OneRequest'
  BY <1>1, <1>7 DEF PublicationsInv, OneRequest
<1> QED  BY <1>6, <1>8, <1>10, <1>14, <1>15, <1>16, <1>17 DEF PublicationsInv

\* The request is marked approved: what it publishes exists and is this approval's.
LEMMA ApproveCommittedSound ==
    ASSUME PublicationsInv, NEW r \in Reviews, ApproveCommitted(r)
    PROVE  PublicationsInv'
<1> DEFINE a == review[r].ask
           crossed == Crossed({a})
           row == [review[r] EXCEPT !.at = "done"]
<1>0. PublicationsTypeOK /\ review[r] \in ReviewRow
  BY DEF PublicationsInv, PublicationsTypeOK
<1>1. review[r].at = "copied" /\ review[r].at \in Open /\ review' = [crossed EXCEPT ![r] = row] /\ doc' = doc
  BY DEF ApproveCommitted, Open
<1>2. /\ a \in Asks /\ review[r].base \in Bases /\ KindOf(r) \in {"document", "base"}
      /\ ask[a].status # "none" /\ ask[a].kind = KindOf(r)
  BY <1>1, ReviewedBase DEF KindOf
<1>3. PICK p \in Docs \cup Bases :
        /\ ask' = [ask EXCEPT ![a].status = "approved", ![a].published = p]
        /\ \/ /\ ask[a].kind = "base" /\ p = review[r].base /\ (review[r].opened => HasBase(review[r].base))
              /\ base' = IF review[r].opened THEN base ELSE [base EXCEPT ![review[r].base] = GroupBase(r)]
           \/ /\ ask[a].kind = "document" /\ p \in CopiesOf(r) /\ base' = base
  BY <1>2 DEF ApproveCommitted, CopiesOf
<1>4. /\ row \in ReviewRow /\ row.at = "done" /\ row.ask = review[r].ask /\ row.base = review[r].base
      /\ row.opened = review[r].opened /\ row.alone = review[r].alone
  BY <1>0 DEF ReviewRow
<1> HIDE DEF row
<1>5. /\ crossed \in [Reviews -> ReviewRow]
      /\ \A s \in Reviews :
           /\ crossed[s].at = review[s].at /\ crossed[s].ask = review[s].ask
           /\ crossed[s].base = review[s].base /\ crossed[s].opened = review[s].opened
           /\ crossed[s].alone => review[s].alone
           /\ crossed[s].alone /\ review[s].at \in Open /\ review[s].ask # None => review[s].ask # a
  <2> DEFINE changed == {a}
  <2>1. crossed = Crossed(changed) /\ \A b : b = a => b \in changed
    OBVIOUS
  <2> HIDE DEF crossed, changed, a
  <2> QED  BY <1>0, <2>1, CrossedRows DEF PublicationsTypeOK
<1> HIDE DEF crossed
<1>6. /\ review' \in [Reviews -> ReviewRow] /\ review'[r] = row
      /\ \A s \in Reviews : s # r => review'[s] = crossed[s]
  BY <1>1, <1>4, <1>5
<1>7. \A s \in Reviews :
           /\ review'[s].ask = review[s].ask /\ review'[s].base = review[s].base
           /\ review'[s].opened = review[s].opened /\ (review'[s].alone => review[s].alone)
           /\ (s # r => review'[s].at = review[s].at)
           /\ (s # r /\ review'[s].alone /\ review[s].at \in Open /\ review[s].ask # None => review[s].ask # a)
  BY <1>4, <1>5, <1>6
<1>8. review'[r].at = "done"
  BY <1>4, <1>6
<1>9. /\ ask[a] \in AskRow /\ ask' \in [Asks -> AskRow] /\ (\A b \in Asks : b # a => ask'[b] = ask[b])
      /\ ask'[a] = [ask[a] EXCEPT !.status = "approved", !.published = p]
  <2>1. ask[a] \in AskRow
    BY <1>0, <1>2 DEF PublicationsTypeOK
  <2> HIDE DEF a
  <2>2. [ask[a] EXCEPT !.status = "approved", !.published = p] \in AskRow
    BY <2>1 DEF AskRow
  <2>3. ask' = [ask EXCEPT ![a] = [ask[a] EXCEPT !.status = "approved", !.published = p]]
    BY <1>3
  <2> QED  BY <1>0, <1>2, <2>1, <2>2, <2>3 DEF PublicationsTypeOK
<1>10. /\ ask'[a].kind = ask[a].kind /\ ask'[a].source = ask[a].source /\ ask'[a].target = ask[a].target
       /\ ask'[a].published = p /\ ask'[a].status = "approved"
  BY <1>9 DEF AskRow
<1>11. /\ base' \in [Bases -> BaseRow] /\ BasesKept
       /\ \A k \in Bases : (~review[r].opened /\ k = review[r].base /\ ask[a].kind = "base") \/ base'[k] = base[k]
       /\ (~review[r].opened /\ ask[a].kind = "base") => base'[review[r].base] = GroupBase(r)
       /\ \A s \in Reviews : s # r /\ review[s].base \in Bases => base'[review[s].base] = base[review[s].base]
  <2>1. CASE base' = base /\ ask[a].kind = "document"
    BY <1>0, <2>1 DEF PublicationsTypeOK, BasesKept
  <2>2. CASE ask[a].kind = "base" /\ base' = IF review[r].opened THEN base ELSE [base EXCEPT ![review[r].base] = GroupBase(r)]
    BY <1>1, <2>2, BaseWritten
  <2> QED  BY <1>3, <2>1, <2>2
<1>12. Adds
  <2>1. KindsKept
    BY <1>9, <1>10 DEF KindsKept
  <2>2. ReviewsKept
    BY <1>1, <1>7, <1>8 DEF ReviewsKept
  <2>3. DocsKept
    BY <1>1 DEF DocsKept
  <2> QED  BY <1>11, <2>1, <2>2, <2>3 DEF Adds
<1>13. PublicationsTypeOK'
  BY <1>0, <1>1, <1>6, <1>9, <1>11 DEF PublicationsTypeOK
<1>14. KindOf(r)' = KindOf(r)
  BY <1>1, <1>12, KindsStay DEF Open
<1>15. ask[a].kind = "base" => base'[review[r].base].by = r
  <2>1. CASE review[r].opened
    BY <1>1, <1>2, <1>3, <1>11, <2>1, ReviewedBase
  <2>2. CASE ~review[r].opened
    BY <1>0, <1>11, <2>2, GroupBaseRow
  <2> QED  BY <2>1, <2>2
<1>16. ASSUME NEW k \in Bases PROVE BaseSound(k)'
  <2>1. CASE base'[k] = base[k]
    BY <1>12, <2>1, BasesStay
  <2>2. CASE ~review[r].opened /\ k = review[r].base /\ ask[a].kind = "base"
    <3>1. base'[k].by = r /\ base'[k].scope = "group"
      BY <1>0, <1>11, <2>2, GroupBaseRow
    <3>2. ask'[review'[r].ask].kind = "base" /\ review'[r].base = k
      BY <1>7, <1>10, <2>2
    <3> QED  BY <1>8, <3>1, <3>2 DEF BaseSound, KindOf
  <2> QED  BY <1>11, <2>1, <2>2
<1>17. ASSUME NEW d \in Docs PROVE DocSound(d)'
  BY <1>1, <1>12, DocsStay
<1>18. ASSUME NEW b \in Asks PROVE AskSound(b)'
  <2>1. CASE b # a
    BY <1>9, <1>12, <2>1, AsksStay
  <2>2. CASE b = a
    <3>0. AskSound(a)
      BY <1>2 DEF PublicationsInv
    <3>1. ask[a].source # None =>
           \/ /\ ask[a].kind = "document" /\ ask[a].source \in Docs /\ doc'[ask[a].source].base # None
              /\ base'[doc'[ask[a].source].base].scope = "personal"
           \/ /\ ask[a].kind = "base" /\ ask[a].source \in Bases
              /\ base'[ask[a].source].scope = "personal"
      <4>1. ASSUME NEW d \in Docs, doc[d].base # None PROVE doc[d].base \in Bases /\ base'[doc[d].base] = base[doc[d].base]
        BY <1>11, <4>1 DEF PublicationsInv, PublicationsTypeOK, DocRow, DocSound, BasesKept
      <4> QED  BY <1>1, <1>11, <3>0, <4>1 DEF AskSound, BasesKept
    <3>2. ask[a].target # None => base'[ask[a].target].scope = "group"
      BY <1>9, <1>11, <3>0 DEF AskSound, AskRow, BasesKept
    <3>3. \/ p \in Docs /\ doc'[p].by # None /\ review'[doc'[p].by].at = "done"
          \/ p \in Bases /\ base'[p].by # None /\ review'[base'[p].by].at = "done"
      <4>1. CASE ask[a].kind = "base" /\ p = review[r].base
        BY <1>2, <1>8, <1>15, <4>1, PublicationsAssumption
      <4>2. CASE p \in CopiesOf(r)
        BY <1>1, <1>8, <4>2, PublicationsAssumption DEF CopiesOf
      <4> QED  BY <1>3, <4>1, <4>2
    <3> QED  BY <1>10, <2>2, <3>1, <3>2, <3>3 DEF AskSound
  <2> QED  BY <2>1, <2>2
<1>19. ASSUME NEW s \in Reviews PROVE ReviewSound(s)'
  <2>1. CASE s = r
    <3>1. ReviewSound(r)
      BY DEF PublicationsInv
    <3>2. ask[a].kind = "document" => base'[review[r].base] = base[review[r].base]
      BY <1>2, <1>11
    <3>3. review'[r].ask = a /\ review'[r].base = review[r].base /\ review'[r].opened = review[r].opened
      BY <1>7
    <3>4. KindOf(r)' = "document" =>
             /\ review'[r].opened
             /\ base'[review'[r].base].scope # "none" => ask'[review'[r].ask].target = review'[r].base
      BY <1>1, <1>2, <1>10, <1>14, <3>1, <3>2, <3>3 DEF ReviewSound
    <3> QED  BY <1>2, <1>8, <1>10, <1>14, <1>15, <2>1, <3>3, <3>4 DEF ReviewSound, Open
  <2>2. CASE s # r /\ review[s].at = "idle"
    BY <1>7, <2>2 DEF ReviewSound
  <2>3. CASE s # r /\ review[s].at # "idle"
    <3>1. review[s].ask \in Asks /\ review[s].base \in Bases /\ ask[review[s].ask].status # "none"
      BY <2>3 DEF PublicationsInv, ReviewSound
    <3>2. base'[review[s].base] = base[review[s].base]
      BY <1>11, <2>3, <3>1
    <3>3. ask'[review[s].ask].target = ask[review[s].ask].target /\ ask'[review[s].ask].status # "none"
      BY <1>9, <1>10, <3>1
    <3>4. review'[s].opened = review[s].opened /\ \A q \in Reviews : review'[q].base = review[q].base
      BY <1>7
    <3> QED  BY <1>12, <2>3, <3>2, <3>3, <3>4, ReviewsStay
  <2> QED  BY <2>1, <2>2, <2>3
<1>20. BasesApart'
  <2>1. \A s \in Reviews : review[s].at = "idle" => review'[s].at = "idle"
    BY <1>1, <1>7
  <2> QED  BY <1>12, <2>1, ApartStays
<1>21. OneRequest'
  <2> SUFFICES ASSUME \A s \in Reviews : review'[s].alone
               PROVE  /\ \A s \in Reviews : review'[s].at \in Open => ask'[review'[s].ask].status = "pending"
                      /\ \A b, c \in Asks :
                           /\ ask'[b].status \in {"pending", "approved"} /\ ask'[c].status \in {"pending", "approved"}
                           /\ ask'[b].source = ask'[c].source /\ ask'[b].source \in Bases
                           => b = c
    BY DEF OneRequest
  <2>1. \A s \in Reviews : review[s].alone
    BY <1>7
  <2>2. /\ \A s \in Reviews : review[s].at \in Open => ask[review[s].ask].status = "pending"
        /\ \A b, c \in Asks :
             /\ ask[b].status \in {"pending", "approved"} /\ ask[c].status \in {"pending", "approved"}
             /\ ask[b].source = ask[c].source /\ ask[b].source \in Bases
             => b = c
    BY <2>1 DEF PublicationsInv, OneRequest
  <2>3. ASSUME NEW s \in Reviews, review'[s].at \in Open PROVE ask'[review'[s].ask].status = "pending"
    <3>1. s # r
      BY <1>8, <2>3 DEF Open
    <3>2. review[s].at \in Open /\ review'[s].ask = review[s].ask
      BY <1>7, <2>3, <3>1
    <3>3. review[s].ask \in Asks
      BY <3>2, ReviewedBase
    <3>4. review[s].ask # a
      BY <1>7, <3>1, <3>2, <3>3, PublicationsAssumption
    <3> QED  BY <1>9, <2>2, <3>2, <3>3, <3>4
  <2>4. ask[a].status = "pending"
    BY <1>1, <2>2
  <2>5. \A b \in Asks : /\ ask'[b].source = ask[b].source
                        /\ ask'[b].status \in {"pending", "approved"} => ask[b].status \in {"pending", "approved"}
    BY <1>9, <1>10, <2>4
  <2> QED  BY <2>2, <2>3, <2>5
<1> QED  BY <1>13, <1>16, <1>17, <1>18, <1>19, <1>20, <1>21 DEF PublicationsInv

LEMMA PublicationsUnmoved ==
    ASSUME PublicationsInv, base' = base, doc' = doc, ask' = ask, review' = review
    PROVE  PublicationsInv'
BY DEF PublicationsInv, PublicationsTypeOK, BaseSound, DocSound, AskSound, ReviewSound, KindOf, BasesApart, OneRequest

-----------------------------------------------------------------------------
(* The theorems about publications. *)

LEMMA PublicationsStep == PublicationsInv /\ PublicationsNext => PublicationsInv'
<1> SUFFICES ASSUME PublicationsInv, PublicationsNext PROVE PublicationsInv'
  OBVIOUS
<1>1. ASSUME NEW u \in People, NEW k \in Bases, NEW s \in {"personal", "group", "system"},
             CreateBase(u, k, s, "standard")
      PROVE  PublicationsInv'
  BY <1>1, CreateBaseSound
<1>2. ASSUME NEW u \in People, NEW k \in Bases, CreateBase(u, k, "personal", "staging") PROVE PublicationsInv'
  BY <1>2, CreateBaseSound
<1>3. ASSUME NEW u \in People, NEW k \in Bases, DeleteBase(u, k) PROVE PublicationsInv'
  BY <1>3, DeletionsSound
<1>4. ASSUME NEW u \in People, NEW k \in Bases, NEW d \in Docs, CreateDocument(u, d, k) PROVE PublicationsInv'
  BY <1>4, CreateDocumentSound
<1>5. ASSUME NEW u \in People, NEW k \in Bases, NEW a \in Asks,
             AskBase(u, a, k) \/ \E d \in Docs : AskDocument(u, a, d, k)
      PROVE  PublicationsInv'
  BY <1>5, RequestsSound
<1>6. ASSUME NEW u \in People, NEW d \in Docs, DeleteDocument(u, d) PROVE PublicationsInv'
  BY <1>6, DeletionsSound
<1>7. ASSUME NEW u \in People, NEW d \in Docs, NEW v \in People, NEW right \in {"read", "manage"},
             Grant(u, d, v, right)
      PROVE  PublicationsInv'
  BY <1>7, PublicationsUnmoved DEF Grant
<1>8. ASSUME NEW a \in Asks, NEW outcome \in {"rejected", "cancelled"},
             CloseAsk(a, outcome) \/ \E u \in People : OpenClosing(u, a, outcome)
      PROVE  PublicationsInv'
  <2>1. CASE CloseAsk(a, outcome)
    BY <2>1, CloseAskSound
  <2>2. ASSUME NEW u \in People, OpenClosing(u, a, outcome) PROVE PublicationsInv'
    BY <2>2, PublicationsUnmoved DEF OpenClosing
  <2> QED  BY <1>8, <2>1, <2>2
<1>9. ASSUME NEW r \in Reviews, NEW u \in People, NEW a \in Asks, NEW k \in Bases, ApproveChecked(r, u, a, k)
      PROVE  PublicationsInv'
  BY <1>9, ApproveCheckedSound
<1>10. ASSUME NEW r \in Reviews, NEW d \in Docs, NEW n \in Docs, CopyDocument(r, d, n) PROVE PublicationsInv'
  BY <1>10, CopyDocumentSound
<1>11. ASSUME NEW r \in Reviews, CopiesMade(r) \/ ApproveFailed(r) \/ ApproveCommitted(r) \/ ReviewLost(r)
       PROVE  PublicationsInv'
  BY <1>11, ReviewMoves, ApproveFailedSound, ApproveCommittedSound
<1> QED  BY <1>1, <1>2, <1>3, <1>4, <1>5, <1>6, <1>7, <1>8, <1>9, <1>10, <1>11 DEF PublicationsNext

\* What no step of a member, an operator, a manager or an approval under way undoes.
THEOREM PublicationsInvariance == KnowledgeSpec => []PublicationsInv
<1>1. PublicationsInv /\ [KnowledgeNext]_<<mvars, kvars>> => PublicationsInv'
  <2> SUFFICES ASSUME PublicationsInv, [KnowledgeNext]_<<mvars, kvars>> PROVE PublicationsInv'
    OBVIOUS
  <2>1. CASE PublicationsNext
    BY <2>1, PublicationsStep
  <2>2. CASE UNCHANGED kvars
    BY <2>2, PublicationsUnmoved DEF kvars
  <2> QED  BY <2>1, <2>2 DEF KnowledgeNext
<1> QED  BY <1>1, PublicationsInitially, PTL DEF KnowledgeSpec

\* A base of the group holds only what an approval copied; a failed approval leaves neither
\* copies nor a base, whatever others deleted, asked or approved between its commits; no
\* request points at a row that is gone; and a base is published twice only where a review
\* of its request overlapped another.
THEOREM PublicationsAreSound == KnowledgeSpec => []PublicationsSound
<1>1. PublicationsInv => PublicationsSound
  <2> SUFFICES ASSUME PublicationsInv PROVE PublicationsSound
    OBVIOUS
  <2>0. PublicationsTypeOK
    BY DEF PublicationsInv
  <2>1. ReviewedOnly
    BY DEF PublicationsInv, DocSound, ReviewedOnly, InGroup, HasDoc
  <2>2. FailedLeavesNothing
    BY PublicationsAssumption DEF PublicationsInv, DocSound, BaseSound, FailedLeavesNothing
  <2>3. ReferencesLive
    <3> SUFFICES ASSUME NEW a \in Asks
                 PROVE  /\ ask[a].source # None => HasBase(ask[a].source) \/ HasDoc(ask[a].source)
                        /\ ask[a].target # None => HasBase(ask[a].target)
                        /\ ask[a].published # None => HasBase(ask[a].published) \/ HasDoc(ask[a].published)
      BY DEF ReferencesLive
    <3>1. AskSound(a) /\ ask[a] \in AskRow
      BY <2>0 DEF PublicationsInv, PublicationsTypeOK
    <3>2. ask[a].source # None => HasBase(ask[a].source) \/ HasDoc(ask[a].source)
      BY <3>1 DEF AskSound, HasBase, HasDoc
    <3>3. ask[a].target # None => HasBase(ask[a].target)
      BY <3>1 DEF AskSound, AskRow, HasBase
    <3>4. ask[a].published # None => HasBase(ask[a].published) \/ HasDoc(ask[a].published)
      BY <3>1 DEF PublicationsInv, AskSound, BaseSound, DocSound, HasBase, HasDoc
    <3> QED  BY <3>2, <3>3, <3>4
  <2>4. PublishedOnce
    BY DEF PublicationsInv, OneRequest, PublishedOnce
  <2> QED  BY <2>1, <2>2, <2>3, <2>4 DEF PublicationsSound
<1> QED  BY <1>1, PublicationsInvariance, PTL

\* A turn searches standard bases only, and only those of the system or those its user may
\* select: over all bases and over a selection the query and the check agree.
THEOREM SearchIsAuthorized == KnowledgeSpec => []SearchAuthorized
<1>1. PublicationsInv => SearchAuthorized
  <2> SUFFICES ASSUME PublicationsInv, NEW u \in People, NEW selected \in SUBSET Bases,
                      NEW k \in Searched(u, selected)
               PROVE  base[k].purpose = "standard" /\ (base[k].scope = "system" \/ SelectionAccepted(u, k))
    BY DEF SearchAuthorized
  <2>1. \A j \in Bases : base[j].scope = "system" => base[j].purpose = "standard"
    BY DEF PublicationsInv, BaseSound
  <2>2. CASE k \in SystemBases
    BY <2>2 DEF SystemBases
  <2>3. CASE k \in SelectableBases(u)
    BY <2>3 DEF SelectableBases, AuthorizedBases, SelectionAccepted, CanSelect
  <2>4. CASE k \in selected /\ SelectionAccepted(u, k)
    BY <2>1, <2>4 DEF SelectionAccepted
  <2> QED  BY <2>2, <2>3, <2>4 DEF Searched, RetrievableBases
<1> QED  BY <1>1, PublicationsInvariance, PTL
=============================================================================

------------------------------ MODULE MCGroups ------------------------------
(***************************************************************************)
(* An instance of Publications, with Groups, for TLC.  A behaviour         *)
(* exercises invitations, or the publication of a document or of a base to *)
(* a group that has formed, or the authorization of what a turn searches.  *)
(***************************************************************************)
EXTENDS Publications, TLC

CONSTANTS Home, Shared,   \* knowledge bases that exist once the group has formed
          Notes,          \* the documents of Home
          Author,         \* the owner of Home
          MaxClosing,     \* bound: rejections and cancellations under way
          MaxGrants       \* bound: explicit rights

VARIABLE part

mcvars == <<part, mvars, kvars>>

\* A group has formed: the founder owns it, the author accepted an invitation,
\* became a viewer and keeps documents in a personal base.
Formed ==
    /\ member = [u \in People |-> IF u = Founder THEN "owner" ELSE IF u = Author THEN "viewer" ELSE None]
    /\ person = [u \in People |-> "verified"]
    /\ LET first == CHOOSE i \in Invitations : TRUE
       IN  invitation = [i \in Invitations |->
             IF i = first THEN [NoInvitation EXCEPT !.status = "accepted", !.email = Author, !.token = 1,
                                                    !.role = "viewer", !.acceptedBy = Author]
             ELSE NoInvitation]
    /\ mailed = {[to |-> Author, token |-> 1]} /\ drawn = 1 /\ call = [c \in Calls |-> Ended]
    /\ base = [k \in Bases |->
         CASE k = Home -> [NoBase EXCEPT !.scope = "personal", !.owner = Author]
           [] k = Shared -> [NoBase EXCEPT !.scope = "group", !.owner = Founder]
           [] OTHER -> NoBase]
    /\ doc = [d \in Docs |-> IF d \in Notes THEN [NoDoc EXCEPT !.base = Home, !.owner = Author] ELSE NoDoc]
    /\ grant = {} /\ closing = {}
    /\ ask = [a \in Asks |-> NoAsk]
    /\ review = [r \in Reviews |-> NoReview]

MCInit ==
    /\ part \in {"invite", "publish", "search"}
    /\ IF part = "invite" THEN GroupsInit /\ PublicationsInit ELSE Formed

\* The founder stays the manager and invites others.
MCInvite ==
    /\ part = "invite" /\ GroupsNext /\ UNCHANGED kvars
    /\ member'[Founder] \in {member[Founder], "owner"}
    /\ \A c \in Calls : call'[c].op = "create" => call'[c].email # Founder
    /\ \A u \in People : Member(u) => member'[u] = member[u]

\* Requests and approvals, and the deletions that cross them: what is deleted
\* is not written again.
MCPublish ==
    /\ part = "publish" /\ PublicationsNext
    /\ \A k \in Bases : base'[k] \in {base[k], NoBase} \/ base'[k].by # None
    /\ \A d \in Docs : doc'[d] \in {doc[d], NoDoc} \/ doc'[d].by # None
    /\ grant' = {} /\ Cardinality(closing') <= MaxClosing

\* Bases and documents of every kind, grants and changes of role, without requests.
MCSearch ==
    /\ part = "search"
    /\ PublicationsNext \/ (UNCHANGED kvars /\ \E u, v \in People, r \in OfferedRoles : UpdateMember(u, v, r))
    /\ ask' = ask /\ Cardinality(grant') <= MaxGrants
    /\ \A d \in Docs \ Notes : doc'[d] = NoDoc

MCNext == (MCInvite \/ MCPublish \/ MCSearch) /\ UNCHANGED part

\* Calls, requests, reviews and the rows that are not there yet are interchangeable.
Interchange == Permutations(Calls) \cup Permutations(Asks) \cup Permutations(Reviews)
                 \cup Permutations(Docs \ Notes)

MCSpec == MCInit /\ [][MCNext]_mcvars

=============================================================================

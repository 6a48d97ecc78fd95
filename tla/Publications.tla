---------------------------- MODULE Publications ----------------------------
(***************************************************************************)
(* Knowledge bases, who may use them, and the publication of personal      *)
(* knowledge to a group: my_agents/api/knowledge_bases.py, the publish     *)
(* requests of api/groups.py, knowledge/publication_copies.py,             *)
(* knowledge/auth.py and permissions/service.py.                           *)
(*                                                                         *)
(* An approval copies documents and ingests each copy; the ingestion       *)
(* commits, so the copies are visible long before the request is marked    *)
(* approved, and nothing locks the request meanwhile.  An approval is      *)
(* therefore a sequence of steps, and so are a rejection and a             *)
(* cancellation; every other handler is one transaction.                   *)
(***************************************************************************)
EXTENDS Groups

CONSTANTS
    Bases,      \* knowledge base ids
    Docs,       \* document ids
    Asks,       \* publish request ids
    Reviews,    \* approvals, each one run of the handler
    Operators   \* persons with can_manage_system_knowledge

\* Ids are UUIDs: rows of different tables have different ones.
ASSUME PublicationsAssumption ==
    Bases \cap Docs = {} /\ None \notin Bases \cup Docs \cup Asks \cup Reviews

VARIABLES
    base,     \* KnowledgeBaseModel rows
    doc,      \* DocumentModel rows; by: the approval that made the copy
    grant,    \* DocumentPermissionModel rows: document, person, and "read" or "manage"
    ask,      \* KnowledgePublishRequestModel rows
    closing,  \* rejections and cancellations that have found their request pending
    review    \* approvals in progress and over

kvars == <<base, doc, grant, ask, closing, review>>

NoBase == [scope |-> "none", purpose |-> "standard", owner |-> None, by |-> None]
NoDoc == [base |-> None, owner |-> None, by |-> None]
NoAsk == [status |-> "none", kind |-> None, source |-> None, target |-> None, published |-> None,
          requester |-> None]
NoReview == [at |-> "idle", user |-> None, ask |-> None, base |-> None, opened |-> FALSE,
             todo |-> {}, alone |-> TRUE]

PublicationsInit ==
    /\ base = [k \in Bases |-> NoBase]
    /\ doc = [d \in Docs |-> NoDoc]
    /\ grant = {}
    /\ ask = [a \in Asks |-> NoAsk]
    /\ closing = {}
    /\ review = [r \in Reviews |-> NoReview]

HasBase(k) == k \in Bases /\ base[k].scope # "none"
HasDoc(d) == d \in Docs /\ doc[d].base # None
In(k) == {d \in Docs : doc[d].base = k}
InGroup(d) == HasDoc(d) /\ base[doc[d].base].scope = "group"

-----------------------------------------------------------------------------
(* Authorization. *)

\* user_can_select_knowledge_base
CanSelect(u, k) ==
    \/ base[k].scope = "personal" /\ base[k].owner = u
    \/ base[k].scope = "group" /\ Member(u)

\* get_manageable_knowledge_base_or_404
Manageable(u, k) ==
    \/ base[k].scope = "system" /\ u \in Operators /\ base[k].purpose = "standard"
    \/ CanSelect(u, k)

\* get_retrievable_knowledge_base_or_404: one base a chat asks for.
SelectionAccepted(u, k) ==
    \/ base[k].scope = "system" /\ u \in Operators
    \/ CanSelect(u, k) /\ base[k].purpose = "standard"

\* authorized_knowledge_base_filter: the same rule as a predicate of a query.
AuthorizedBases(u) ==
    {k \in Bases : base[k].scope = "personal" /\ base[k].owner = u}
        \cup {k \in Bases : base[k].scope = "group" /\ Member(u)}

\* system_knowledge_base_filter
SystemBases == {k \in Bases : base[k].scope = "system" /\ base[k].purpose = "standard"}

\* Fault: the staging base is searched like any other.
SelectableBasesAll(u) == AuthorizedBases(u)

\* selectable_knowledge_base_filter
SelectableBases(u) == {k \in AuthorizedBases(u) : base[k].purpose = "standard"}

\* retrievable_knowledge_base_filter: what a turn over all bases searches.
RetrievableBases(u) == SelectableBases(u) \cup SystemBases

\* resolve_knowledge_base_selection: the bases that a turn searches.
Searched(u, selected) ==
    IF selected = {} THEN RetrievableBases(u)
    ELSE IF \A k \in selected : SelectionAccepted(u, k) THEN selected \cup SystemBases
    ELSE {}

\* AuthorizationService.can: the owner, an explicit grant, the role in the group.
Can(u, d, right) ==
    \/ ~InGroup(d) /\ doc[d].owner = u
    \/ <<d, u, right>> \in grant
    \/ InGroup(d) /\ IF right = "manage" THEN Manager(u) ELSE Member(u)

\* _can_delete_document
CanDelete(u, d) == IF base[doc[d].base].scope = "system" THEN u \in Operators ELSE Can(u, d, "manage")

\* Fault: members who may write add documents to the bases of the group.
WritableMember(u, k) ==
    \/ base[k].scope = "system" /\ u \in Operators
    \/ base[k].scope = "personal" /\ base[k].owner = u
    \/ base[k].scope = "group" /\ member[u] \in {"owner", "admin", "editor"}

\* require_document_writable_knowledge_base: "group knowledge bases accept
\* documents through publish approval".
Writable(u, k) ==
    \/ base[k].scope = "system" /\ u \in Operators
    \/ base[k].scope = "personal" /\ base[k].owner = u

-----------------------------------------------------------------------------
(* Knowledge bases and documents. *)

\* An id that no row and no uncommitted copy has.
Unreserved(k) == base[k].scope = "none" /\ \A r \in Reviews : review[r].base # k

\* create_knowledge_base and, for the purpose "team_upload_staging",
\* ensure_team_upload_staging_knowledge_base.
CreateBase(u, k, scope, purpose) ==
    /\ Unreserved(k)
    /\ scope = "group" => Manager(u)
    /\ scope = "system" => u \in Operators
    /\ purpose = "staging" =>
         /\ scope = "personal"
         /\ \A j \in Bases : ~(base[j].purpose = "staging" /\ base[j].owner = u)
    /\ base' = [base EXCEPT ![k] = [scope |-> scope, purpose |-> purpose, owner |-> u, by |-> None]]
    /\ UNCHANGED <<doc, grant, ask, closing, review, mvars>>

\* create_document_in_knowledge_base, upload_document_in_knowledge_base
CreateDocument(u, d, k) ==
    /\ doc[d] = NoDoc /\ HasBase(k) /\ Writable(u, k)
    /\ doc' = [doc EXCEPT ![d] = [base |-> k, owner |-> u, by |-> None]]
    /\ UNCHANGED <<base, grant, ask, closing, review, mvars>>

\* patch_document_permission, one right at a time.
Grant(u, d, v, right) ==
    /\ HasDoc(d) /\ Can(u, d, "manage")
    /\ grant' = (grant \cup {<<d, v, right>>}) \ (grant \cap {<<d, v, right>>})
    /\ UNCHANGED <<base, doc, ask, closing, review, mvars>>

\* Fault: the pointer to a published copy is left behind.
DetachedForgetful(gone) ==
    [a \in Asks |->
        [ask[a] EXCEPT !.source = IF @ \in gone THEN None ELSE @,
                       !.target = IF @ \in gone THEN None ELSE @,
                       !.status = IF ask[a].source \in gone /\ @ = "pending" THEN "withdrawn" ELSE @]]

\* _detach_knowledge_base_from_publish_requests and
\* _detach_document_from_publish_requests: rows that lose their source while
\* pending are withdrawn.
Detached(gone) ==
    [a \in Asks |->
        [ask[a] EXCEPT !.source = IF @ \in gone THEN None ELSE @,
                       !.target = IF @ \in gone THEN None ELSE @,
                       !.published = IF @ \in gone THEN None ELSE @,
                       !.status = IF ask[a].source \in gone /\ @ = "pending" THEN "withdrawn" ELSE @]]

\* The approvals under way that a change of their request's row overlaps.
Crossed(changed) ==
    [r \in Reviews |->
        [review[r] EXCEPT !.alone = @ /\ ~(review[r].ask # None /\ review[r].ask \in changed
                                           /\ review[r].at \in {"checked", "copied"})]]

Remove(ds, ks) ==
    /\ doc' = [d \in Docs |-> IF d \in ds THEN NoDoc ELSE doc[d]]
    /\ base' = [k \in Bases |-> IF k \in ks THEN NoBase ELSE base[k]]
    /\ grant' = {g \in grant : g[1] \notin ds}

\* delete_document
DeleteDocument(u, d) ==
    /\ HasDoc(d) /\ CanDelete(u, d)
    /\ Remove({d}, {})
    /\ ask' = Detached({d})
    /\ review' = Crossed({a \in Asks : ask'[a] # ask[a]})
    /\ UNCHANGED <<closing, mvars>>

\* delete_knowledge_base, which _get_lifecycle_mutable_knowledge_base_or_404 guards.
DeleteBase(u, k) ==
    /\ HasBase(k) /\ base[k].purpose = "standard"
    /\ \/ base[k].scope = "system" /\ u \in Operators
       \/ base[k].scope = "personal" /\ base[k].owner = u
       \/ base[k].scope = "group" /\ Manager(u)
    /\ Remove(In(k), {k})
    /\ ask' = Detached(In(k) \cup {k})
    /\ review' = Crossed({a \in Asks : ask'[a] # ask[a]})
    /\ UNCHANGED <<closing, mvars>>

-----------------------------------------------------------------------------
(* Publish requests. *)

\* Fault: only a pending request for the base stands in the way.
PublishablePending(k, self) ==
    \A a \in Asks \ {self} : ask[a].source = k => ask[a].status # "pending"

\* _require_publishable_personal_knowledge_base_request
Publishable(k, self) ==
    /\ \A a \in Asks : ask[a].source = k => ask[a].status # "approved"
    /\ \A a \in Asks \ {self} : ask[a].source = k => ask[a].status # "pending"

\* create_publish_request of a document, for a base of the group.
AskDocument(u, a, d, k) ==
    /\ ask[a] = NoAsk /\ Member(u)
    /\ HasDoc(d) /\ doc[d].owner = u
    /\ base[doc[d].base].scope = "personal" /\ base[doc[d].base].owner = u
    /\ HasBase(k) /\ base[k].scope = "group" /\ base[k].purpose = "standard"
    /\ ask' = [ask EXCEPT ![a] = [NoAsk EXCEPT !.status = "pending", !.kind = "document",
                                               !.source = d, !.target = k, !.requester = u]]
    /\ UNCHANGED <<base, doc, grant, closing, review, mvars>>

\* create_publish_request of a personal base.
AskBase(u, a, k) ==
    /\ ask[a] = NoAsk /\ Member(u)
    /\ HasBase(k) /\ base[k].owner = u
    /\ base[k].scope = "personal" /\ base[k].purpose = "standard"
    /\ Publishable(k, None)
    /\ ask' = [ask EXCEPT ![a] = [NoAsk EXCEPT !.status = "pending", !.kind = "base",
                                               !.source = k, !.requester = u]]
    /\ UNCHANGED <<base, doc, grant, closing, review, mvars>>

\* reject_publish_request by a manager, cancel_publish_request by the requester: the request
\* is found pending ...
OpenClosing(u, a, outcome) ==
    /\ ask[a].status = "pending"
    /\ \/ outcome = "rejected" /\ Manager(u)
       \/ outcome = "cancelled" /\ Member(u) /\ ask[a].requester = u
    /\ closing' = closing \cup {<<a, outcome>>}
    /\ UNCHANGED <<base, doc, grant, ask, review, mvars>>

\* ... and written by its primary key, whatever became of it.
CloseAsk(a, outcome) ==
    /\ <<a, outcome>> \in closing
    /\ closing' = closing \ {<<a, outcome>>}
    /\ ask' = [ask EXCEPT ![a].status = outcome]
    /\ review' = Crossed({a})
    /\ UNCHANGED <<base, doc, grant, mvars>>

\* The documents of a personal base that its owner wrote.
SourceDocuments(a) ==
    IF ask[a].kind = "document" THEN {ask[a].source}
    ELSE {d \in In(ask[a].source) : doc[d].owner = base[ask[a].source].owner}

\* approve_publish_request, _approve_knowledge_base_publish_request: the checks,
\* and the copy reservations of StorageLifecycle.  Copies of a base go to a base
\* of their own, k, whose row is not yet committed.
ApproveChecked(r, u, a, k) ==
    /\ review[r] = NoReview /\ Manager(u)
    /\ ask[a].status = "pending" /\ ask[a].source # None
    /\ IF ask[a].kind = "document"
         THEN HasBase(ask[a].target) /\ k = ask[a].target
         ELSE Publishable(ask[a].source, a) /\ Unreserved(k)
    /\ review' = [Crossed({a}) EXCEPT ![r] =
         [at |-> "checked", user |-> u, ask |-> a, base |-> k,
          opened |-> ask[a].kind = "document", todo |-> SourceDocuments(a),
          alone |-> \A q \in Reviews : review[q].ask = a => review[q].at \notin {"checked", "copied"}]]
    /\ UNCHANGED <<base, doc, grant, ask, closing, mvars>>

GroupBase(r) == [scope |-> "group", purpose |-> "standard", owner |-> review[r].user, by |-> r]

\* The owner of a copy: who asked for the document, or who approves the base.
CopyOwner(r) == IF ask[review[r].ask].kind = "document" THEN ask[review[r].ask].requester ELSE review[r].user

\* One source document is copied and its copy ingested; the ingestion commits,
\* with the copy, the base it is the first in.  The foreign key refuses a base
\* that was deleted meanwhile.
CopyDocument(r, d, n) ==
    /\ review[r].at = "checked" /\ d \in review[r].todo /\ doc[n] = NoDoc
    /\ review[r].opened => HasBase(review[r].base)
    /\ doc' = [doc EXCEPT ![n] = [base |-> review[r].base, owner |-> CopyOwner(r), by |-> r]]
    /\ base' = IF review[r].opened THEN base ELSE [base EXCEPT ![review[r].base] = GroupBase(r)]
    /\ review' = [review EXCEPT ![r].todo = @ \ {d}, ![r].opened = TRUE]
    /\ UNCHANGED <<grant, ask, closing, mvars>>

\* The last ingestion has succeeded.
CopiesMade(r) ==
    /\ review[r].at = "checked" /\ review[r].todo = {}
    /\ review' = [review EXCEPT ![r].at = "copied"]
    /\ UNCHANGED <<base, doc, grant, ask, closing, mvars>>

\* Fault: the rollback is taken to undo what the ingestion has committed.
CopiesOfRolledBack(r) == {}

\* delete_knowledge_base_copy, _delete_unapproved_group_document_copy
CopiesOf(r) == {d \in Docs : doc[d].by = r}

\* A copy or its ingestion fails: the handler removes what was committed.  It
\* removes neither grants nor references of requests: a grant on a copy, or a
\* request for the new base, made meanwhile makes the removal fail (ReviewLost).
ApproveFailed(r) ==
    /\ review[r].at = "checked"
    /\ \A g \in grant : g[1] \notin CopiesOf(r)
    /\ \A a \in Asks : ask[a].target # None => base[ask[a].target].by # r
    /\ Remove(CopiesOf(r), {k \in Bases : base[k].by = r})
    /\ review' = [review EXCEPT ![r].at = "failed"]
    /\ UNCHANGED <<ask, closing, mvars>>

\* The request is marked approved by its primary key, whatever became of it.
\* The foreign key refuses a copy that a manager has deleted meanwhile.
ApproveCommitted(r) ==
    LET a == review[r].ask
    IN  /\ review[r].at = "copied"
        /\ \/ /\ ask[a].kind = "base" /\ (review[r].opened => HasBase(review[r].base))
              /\ ask' = [ask EXCEPT ![a].status = "approved", ![a].published = review[r].base]
              /\ base' = IF review[r].opened THEN base
                         ELSE [base EXCEPT ![review[r].base] = GroupBase(r)]
           \/ \E n \in CopiesOf(r) :
                /\ ask[a].kind = "document"
                /\ ask' = [ask EXCEPT ![a].status = "approved", ![a].published = n]
                /\ UNCHANGED base
        /\ review' = [Crossed({a}) EXCEPT ![r] = [review[r] EXCEPT !.at = "done"]]
        /\ UNCHANGED <<doc, grant, closing, mvars>>

\* The process dies, or the last commit is refused.
ReviewLost(r) ==
    /\ review[r].at \in {"checked", "copied"}
    /\ review' = [review EXCEPT ![r].at = "lost"]
    /\ UNCHANGED <<base, doc, grant, ask, closing, mvars>>

PublicationsNext ==
    \/ \E u \in People, k \in Bases :
         \/ \E s \in {"personal", "group", "system"} : CreateBase(u, k, s, "standard")
         \/ CreateBase(u, k, "personal", "staging")
         \/ DeleteBase(u, k)
         \/ \E d \in Docs : CreateDocument(u, d, k)
         \/ \E a \in Asks : AskBase(u, a, k) \/ \E d \in Docs : AskDocument(u, a, d, k)
    \/ \E u \in People, d \in Docs :
         \/ DeleteDocument(u, d)
         \/ \E v \in People, right \in {"read", "manage"} : Grant(u, d, v, right)
    \/ \E a \in Asks, outcome \in {"rejected", "cancelled"} :
         CloseAsk(a, outcome) \/ \E u \in People : OpenClosing(u, a, outcome)
    \/ \E r \in Reviews, u \in People, a \in Asks, k \in Bases : ApproveChecked(r, u, a, k)
    \/ \E r \in Reviews : \E d, n \in Docs : CopyDocument(r, d, n)
    \/ \E r \in Reviews : CopiesMade(r) \/ ApproveFailed(r) \/ ApproveCommitted(r) \/ ReviewLost(r)

\* Groups and publications together.
KnowledgeNext == (GroupsNext /\ UNCHANGED kvars) \/ PublicationsNext

KnowledgeSpec == GroupsInit /\ PublicationsInit /\ [][KnowledgeNext]_<<mvars, kvars>>

-----------------------------------------------------------------------------
(* Properties. *)

\* "Group KBs are populated through the publish-review workflow": a document in
\* a base of the group is a copy made by an approval, which somebody who was
\* a manager started for a request of the document's owner.
ReviewedOnly == \A d \in Docs : InGroup(d) => doc[d].by # None

\* "rollback must explicitly delete every copied document and the group KB on
\* failure": an approval that failed, after any number of committed copies,
\* leaves nothing for the group to read.
FailedLeavesNothing ==
    \A r \in Reviews : review[r].at = "failed" =>
        /\ \A d \in Docs : doc[d].by # r
        /\ \A k \in Bases : base[k].by # r

\* A document reaches a turn only through a base its user may choose: what a
\* turn searches, over all bases or over a selection, holds no staged upload,
\* no personal base of somebody else and no base of a group he is not in; and
\* the predicate of the query agrees with the check of one base.
SearchAuthorized ==
    \A u \in People : \A selected \in SUBSET Bases : \A k \in Searched(u, selected) :
        /\ base[k].purpose = "standard"
        /\ base[k].scope = "system" \/ SelectionAccepted(u, k)

\* The audit rows of requests never point at rows that are gone, in whatever
\* order sources, targets and copies are deleted during an approval.
ReferencesLive ==
    \A a \in Asks :
        /\ ask[a].source # None => HasBase(ask[a].source) \/ HasDoc(ask[a].source)
        /\ ask[a].target # None => HasBase(ask[a].target)
        /\ ask[a].published # None => HasBase(ask[a].published) \/ HasDoc(ask[a].published)

\* "knowledge base already published to group": two approved requests for one
\* base exist only where an approval overlapped another review of its request.
PublishedOnce ==
    \A a, b \in Asks :
        /\ a # b /\ ask[a].status = "approved" /\ ask[b].status = "approved"
        /\ ask[a].source = ask[b].source /\ ask[a].source \in Bases
        => \E r \in Reviews : ~review[r].alone

\* Only what a manager approved is published, once; a failed approval leaves nothing
\* behind, and no row refers to one that is gone.
PublicationsSound == ReviewedOnly /\ FailedLeavesNothing /\ ReferencesLive /\ PublishedOnce
=============================================================================

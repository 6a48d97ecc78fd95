----------------------------- MODULE Workspace ------------------------------
(***************************************************************************)
(* The document workspace of one conversation:                             *)
(* my_agents/document_workspace/service.py and retention.py behind         *)
(* my_agents/api/document_workspace.py, and the removal of a conversation  *)
(* in api/conversations/transcripts.py.                                    *)
(*                                                                         *)
(* The originals, the containers, their copies and their outputs live at   *)
(* an external provider; the database holds rows that name them and an     *)
(* outbox (provider_cleanup) of what is to be erased there.  Every call to *)
(* the provider happens between two commits, so a crash or an error of the *)
(* provider separates the two sides.                                       *)
(***************************************************************************)
EXTENDS Naturals, FiniteSets

CONSTANTS
    Files,      \* attachments, each with its provider file
    Sheets,     \* the attachments that are spreadsheets
    Turns,      \* runs of the conversation that use attachments
    Sweepers,   \* executions of cleanup_once
    MaxBoxes,   \* bound: containers created
    Conv,       \* the conversation
    Nil

Boxes == 1..MaxBoxes

ASSUME WorkspaceAssumption ==
    /\ Sheets \subseteq Files /\ MaxBoxes \in Nat
    /\ Conv \notin Files /\ Nil \notin Files \cup Turns /\ Files \cap Turns = {}

VARIABLES
    att,       \* ConversationAttachmentModel rows
    file,      \* the original at the provider: "none", "there", "gone"
    ws,        \* the DocumentWorkspaceModel row
    box,       \* the provider's containers
    drawn,     \* containers created so far
    job,       \* ProviderCleanupModel rows: what is to be erased, by resource
    sweeper,   \* what each execution of cleanup_once is doing
    turn,      \* runs, with what their session has read
    art,       \* the ConversationArtifactModel row of each run
    conv,      \* the ConversationModel row: "live" or "deleted"
    passed,    \* removals that have seen no active run and have not committed
    mishap     \* history: "cut", a mounting that did not reach its commit;
               \* "overlap", a removal that committed during a run

wvars == <<att, file, ws, box, drawn, job, sweeper, turn, art, conv, passed, mishap>>

NoTurn == [at |-> "new", sel |-> {}, box |-> 0, fresh |-> FALSE, seen |-> {}, local |-> {}, was |-> "none"]
NoWorkspace == [box |-> 0, status |-> "none", idle |-> FALSE, legacy |-> FALSE, skill |-> FALSE, mounted |-> {}]

Original(a) == [kind |-> "file", box |-> 0, of |-> a]
Container(b) == [kind |-> "container", box |-> b, of |-> Nil]
InContainer(b, x) == [kind |-> "container_file", box |-> b, of |-> x]

\* gone: another sweep has removed the row that this one holds.
IdleSweeper == [at |-> "idle", job |-> Original(Nil), gone |-> FALSE]

WorkspaceInit ==
    /\ att = [a \in Files |-> [status |-> "none", late |-> "no", swept |-> FALSE]]
    /\ file = [a \in Files |-> "none"]
    /\ ws = NoWorkspace
    /\ box = [b \in Boxes |-> [live |-> FALSE, files |-> {}]]
    /\ drawn = 0
    /\ job = << >>
    /\ sweeper = [s \in Sweepers |-> IdleSweeper]
    /\ turn = [r \in Turns |-> NoTurn]
    /\ art = [r \in Turns |-> "none"]
    /\ conv = "live"
    /\ passed = {}
    /\ mishap = {}

\* An ended run keeps its AgentRunAttachmentModel rows.
Over(r, at) == [NoTurn EXCEPT !.at = at, !.sel = turn[r].sel]

Active == \E r \in Turns : turn[r].at \notin {"new", "done", "failed"}
Removed == conv = "deleted"
Revoked(a) == att[a].swept

\* enqueue: a resource has at most one row.
Enqueue(rs) ==
    job' = [j \in DOMAIN job \cup rs |-> IF j \in DOMAIN job THEN job[j] ELSE [due |-> TRUE, leased |-> FALSE]]

-----------------------------------------------------------------------------
(* Attachments. *)

\* upload_attachment: the file reaches the provider before its row is committed.
UploadFile(a) ==
    /\ ~Removed /\ file[a] = "none"
    /\ file' = [file EXCEPT ![a] = "there"]
    /\ att' = [att EXCEPT ![a].status = "uploading"]
    /\ UNCHANGED <<ws, box, drawn, job, sweeper, turn, art, conv, passed, mishap>>

UploadCommit(a) ==
    /\ ~Removed /\ att[a].status = "uploading"
    /\ att' = [att EXCEPT ![a].status = "available"]
    /\ UNCHANGED <<file, ws, box, drawn, job, sweeper, turn, art, conv, passed, mishap>>

\* The commit fails, or the process dies: deleting the file is best effort.
UploadLost(a) ==
    /\ att[a].status = "uploading"
    /\ att' = [att EXCEPT ![a].status = "none"]
    /\ \E f \in {"there", "gone"} : file' = [file EXCEPT ![a] = f]
    /\ UNCHANGED <<ws, box, drawn, job, sweeper, turn, art, conv, passed, mishap>>

\* provider_expires_at is reached, or a day has passed and no run used the file.
Late(a, why) ==
    /\ att[a].status = "available" /\ att[a].late = "no"
    /\ why = "unused" => \A r \in Turns : a \notin turn[r].sel
    /\ att' = [att EXCEPT ![a].late = why]
    /\ UNCHANGED <<file, ws, box, drawn, job, sweeper, turn, art, conv, passed, mishap>>

\* _mark_expired_attachments, by a listing or a response.
MarkExpired(a) ==
    /\ att[a].status = "available" /\ att[a].late = "expired"
    /\ att' = [att EXCEPT ![a].status = "expired"]
    /\ UNCHANGED <<file, ws, box, drawn, job, sweeper, turn, art, conv, passed, mishap>>

\* Fault: outputs are looked for only while the attachment is mounted.
DerivedFromMounted(a) == {r \in Turns : a \in turn[r].sel /\ art[r] # "none" /\ a \in ws.mounted}

\* The runs whose outputs are derived from an attachment.
DerivedFrom(a) == {r \in Turns : a \in turn[r].sel /\ art[r] # "none"}

\* revoke_attachment: what is queued for erasure.
Targets(a) ==
    {Original(a)}
      \cup (IF ws.box # 0 /\ a \in ws.mounted
            THEN {IF ws.legacy THEN Container(ws.box) ELSE InContainer(ws.box, a)} ELSE {})
      \cup {InContainer(ws.box, r) : r \in {x \in DerivedFrom(a) : ws.box # 0}}

Revoke(a, status) ==
    /\ Enqueue(Targets(a))
    /\ att' = [att EXCEPT ![a].status = status, ![a].swept = TRUE]
    /\ ws' = IF ws.box = 0 \/ a \notin ws.mounted THEN ws
             ELSE IF ws.legacy THEN [ws EXCEPT !.status = "expired"]
             ELSE [ws EXCEPT !.mounted = @ \ {a}]
    /\ art' = [r \in Turns |->
                IF r \in DerivedFrom(a) THEN "deleted"
                ELSE IF ws.legacy /\ a \in ws.mounted /\ art[r] # "none" THEN "expired" ELSE art[r]]
    /\ UNCHANGED <<file, box, drawn, sweeper, turn, conv>>

\* delete_attachment and delete_conversation: no active run, then the removal.
PassActiveCheck(x) ==
    /\ ~Removed /\ x \notin passed /\ ~Active
    /\ x \in {Conv} \cup {a \in Files : att[a].status \in {"available", "expired"}}
    /\ passed' = passed \cup {x}
    /\ UNCHANGED <<att, file, ws, box, drawn, job, sweeper, turn, art, conv, mishap>>

DeleteAttachment(a) ==
    /\ a \in passed /\ ~Removed /\ att[a].status \in {"available", "expired"}
    /\ Revoke(a, "deleted")
    /\ passed' = passed \ {a}
    /\ mishap' = IF Active THEN mishap \cup {"overlap"} ELSE mishap

\* delete_conversation_tree: the targets are queued in the transaction that drops
\* the rows that name them.
DeleteConversation ==
    /\ Conv \in passed /\ ~Removed
    /\ Enqueue({Original(a) : a \in {x \in Files : att[x].status \notin {"none", "uploading"}}}
                 \cup (IF ws.box = 0 THEN {} ELSE {Container(ws.box)}))
    /\ att' = [a \in Files |-> IF att[a].status \in {"none", "uploading"} THEN att[a]
                               ELSE [att[a] EXCEPT !.status = "deleted", !.swept = TRUE]]
    /\ ws' = NoWorkspace
    /\ conv' = "deleted"
    /\ art' = [r \in Turns |-> "none"]
    /\ turn' = [r \in Turns |-> IF turn[r].at = "new" THEN turn[r] ELSE Over(r, "failed")]
    /\ passed' = {}
    /\ mishap' = mishap \cup (IF Active THEN {"overlap", "cut"} ELSE {})
    /\ UNCHANGED <<file, box, drawn, sweeper>>

-----------------------------------------------------------------------------
(* cleanup_once: revocation of what is late, then the outbox. *)

SweepAttachment(a) ==
    /\ ~Revoked(a) /\ ~Removed
    /\ att[a].status \in {"expired", "deleted"} \/ (att[a].status = "available" /\ att[a].late # "no")
    /\ Revoke(a, IF att[a].status = "deleted" THEN "deleted" ELSE "expired")
    /\ UNCHANGED <<passed, mishap>>

Claimable(j) == job[j].due /\ ~job[j].leased

Claim(s, j) ==
    /\ sweeper[s].at = "idle" /\ Claimable(j)
    /\ job' = [job EXCEPT ![j].leased = TRUE]
    /\ sweeper' = [sweeper EXCEPT ![s] = [at |-> "claimed", job |-> j, gone |-> FALSE]]
    /\ UNCHANGED <<att, file, ws, box, drawn, turn, art, conv, passed, mishap>>

\* What the provider no longer holds once a resource is erased (external).
Erased(j) ==
    /\ file' = IF j.kind = "file" THEN [file EXCEPT ![j.of] = "gone"] ELSE file
    /\ box' = CASE j.kind = "container" -> [box EXCEPT ![j.box] = [live |-> FALSE, files |-> {}]]
                [] j.kind = "container_file" -> [box EXCEPT ![j.box].files = @ \ {j.of}]
                [] OTHER -> box

\* The provider erases the resource, or answers 404.
Erase(s) ==
    /\ sweeper[s].at = "claimed"
    /\ Erased(sweeper[s].job)
    /\ sweeper' = [sweeper EXCEPT ![s].at = "erased"]
    /\ UNCHANGED <<att, ws, drawn, job, turn, art, conv, passed, mishap>>

\* The provider reports an error, before or after it erased the resource.
EraseError(s) ==
    /\ sweeper[s].at = "claimed"
    /\ Erased(sweeper[s].job) \/ UNCHANGED <<file, box>>
    /\ sweeper' = [sweeper EXCEPT ![s].at = "refused"]
    /\ UNCHANGED <<att, ws, drawn, job, turn, art, conv, passed, mishap>>

\* The rows that outlive a delivery: all but the one that was erased.
AfterErased(j) == [k \in DOMAIN job \ {j} |-> job[k]]
\* Fault: every exception is taken for a 404.
AfterRefusedDone(j) == AfterErased(j)

\* A refused row is tried again a minute later.
AfterRefused(j) == [k \in DOMAIN job |-> IF k = j THEN [due |-> FALSE, leased |-> FALSE] ELSE job[k]]

\* A row that another sweep has removed is neither deleted nor updated, even when the
\* resource has been queued again since: the row is then another one.
Removes(s) == sweeper[s].at = "erased" /\ ~sweeper[s].gone
Held(s, x) == x # s /\ sweeper[x].job = sweeper[s].job

Settle(s) ==
    /\ sweeper[s].at \in {"erased", "refused"}
    /\ job' = IF sweeper[s].gone THEN job
              ELSE IF sweeper[s].at = "erased" THEN AfterErased(sweeper[s].job) ELSE AfterRefused(sweeper[s].job)
    /\ sweeper' = [x \in Sweepers |->
                     IF x = s THEN IdleSweeper
                     ELSE IF Removes(s) /\ Held(s, x) THEN [sweeper[x] EXCEPT !.gone = TRUE] ELSE sweeper[x]]
    /\ UNCHANGED <<att, file, ws, box, drawn, turn, art, conv, passed, mishap>>

SweeperCrash(s) ==
    /\ sweeper[s].at # "idle"
    /\ sweeper' = [sweeper EXCEPT ![s] = IdleSweeper]
    /\ UNCHANGED <<att, file, ws, box, drawn, job, turn, art, conv, passed, mishap>>

\* Fault: the lease of a sweep that is gone is never taken over.
LeaseReturned(j) ==
    /\ job[j].leased /\ \E s \in Sweepers : sweeper[s].job = j
    /\ job' = [job EXCEPT ![j].leased = FALSE]
    /\ UNCHANGED <<att, file, ws, box, drawn, sweeper, turn, art, conv, passed, mishap>>

\* Time: the two-minute lease lapses, the minute before a retry passes.
LeaseLapse(j) ==
    /\ job[j].leased
    /\ job' = [job EXCEPT ![j].leased = FALSE]
    /\ UNCHANGED <<att, file, ws, box, drawn, sweeper, turn, art, conv, passed, mishap>>

RetryDue(j) ==
    /\ ~job[j].due
    /\ job' = [job EXCEPT ![j].due = TRUE]
    /\ UNCHANGED <<att, file, ws, box, drawn, sweeper, turn, art, conv, passed, mishap>>

-----------------------------------------------------------------------------
(* A run that uses attachments. *)

\* prepare_document_workspace_runtime.
Prepare(r, S) ==
    /\ ~Removed /\ ~Active /\ turn[r].at = "new"
    /\ \A a \in S : att[a].status = "available" /\ att[a].late # "expired"
    /\ turn' = [turn EXCEPT ![r] = [NoTurn EXCEPT !.at = "prepared", !.sel = S]]
    /\ UNCHANGED <<att, file, ws, box, drawn, job, sweeper, art, conv, passed, mishap>>

\* A pending erasure of the container or of anything in it keeps runs out of it.
CleanupPending == ws.box # 0 /\ \E j \in DOMAIN job : j.box = ws.box

NeedsRecreation(S) ==
    \/ ws.box = 0 \/ ws.status # "active" \/ ws.idle \/ ws.legacy
    \/ S \cap Sheets # {} /\ ~ws.skill

\* _ensure_workspace up to its first mount: the old container, if any, is deleted
\* as far as the provider will.
EnsureRead(r) ==
    /\ turn[r].at = "prepared" /\ ~CleanupPending
    /\ IF NeedsRecreation(turn[r].sel)
       THEN /\ drawn < MaxBoxes /\ drawn' = drawn + 1
            /\ \E old \in SUBSET {b \in Boxes : b = ws.box} :
                 box' = [b \in Boxes |-> IF b = drawn + 1 THEN [live |-> TRUE, files |-> {}]
                                         ELSE IF b \in old THEN [live |-> FALSE, files |-> {}] ELSE box[b]]
            /\ turn' = [turn EXCEPT ![r].at = "mounting", ![r].box = drawn + 1, ![r].fresh = TRUE,
                                    ![r].was = ws.status]
       ELSE /\ UNCHANGED <<box, drawn>>
            /\ turn' = [turn EXCEPT ![r].at = "mounting", ![r].box = ws.box, ![r].seen = ws.mounted,
                                    ![r].local = ws.mounted]
    /\ UNCHANGED <<att, file, ws, job, sweeper, art, conv, passed, mishap>>

\* Fault: what an earlier run mounted stays.
UnwantedNone(r) == {}

\* The copies of attachments that this run did not select are removed first.
Unwanted(r) == turn[r].local \ turn[r].sel

Unmount(r, a) ==
    /\ turn[r].at = "mounting" /\ a \in Unwanted(r) /\ a \in box[turn[r].box].files
    /\ box' = [box EXCEPT ![turn[r].box].files = @ \ {a}]
    /\ turn' = [turn EXCEPT ![r].local = @ \ {a}]
    /\ UNCHANGED <<att, file, ws, drawn, job, sweeper, art, conv, passed, mishap>>

Mount(r, a) ==
    /\ turn[r].at = "mounting" /\ Unwanted(r) = {} /\ a \in turn[r].sel \ turn[r].local
    /\ file[a] = "there" /\ box[turn[r].box].live
    /\ box' = [box EXCEPT ![turn[r].box].files = @ \cup {a}]
    /\ turn' = [turn EXCEPT ![r].local = @ \cup {a}]
    /\ UNCHANGED <<att, file, ws, drawn, job, sweeper, art, conv, passed, mishap>>

\* The row is written once every copy is in place.  A column is written only
\* when it differs from what the session had loaded.
EnsureCommit(r) ==
    LET t == turn[r] IN
    /\ t.at = "mounting" /\ Unwanted(r) = {} /\ t.sel \subseteq t.local
    /\ ws' = [ws EXCEPT
                !.box = t.box, !.idle = FALSE,
                !.mounted = IF t.fresh \/ t.local # t.seen THEN t.local ELSE @,
                !.legacy = IF t.fresh THEN FALSE ELSE @,
                !.status = IF t.fresh /\ t.was # "active" THEN "active" ELSE @,
                !.skill = IF t.fresh THEN t.sel \cap Sheets # {} ELSE @]
    /\ turn' = [turn EXCEPT ![r].at = "ready"]
    /\ UNCHANGED <<att, file, box, drawn, job, sweeper, art, conv, passed, mishap>>

\* Hosted execution: the model may leave a certified file under the output path.
Execute(r) ==
    /\ turn[r].at = "ready" /\ box[turn[r].box].live
    /\ \E made \in SUBSET {r} : box' = [box EXCEPT ![turn[r].box].files = @ \cup made]
    /\ turn' = [turn EXCEPT ![r].at = "executed"]
    /\ UNCHANGED <<att, file, ws, drawn, job, sweeper, art, conv, passed, mishap>>

\* The rest of compose_reply: outputs become artifacts, the expiry is extended.
Finish(r) ==
    /\ turn[r].at = "executed"
    /\ turn' = [turn EXCEPT ![r] = Over(r, "done")]
    /\ ws' = [ws EXCEPT !.idle = FALSE]
    /\ art' = [art EXCEPT ![r] = IF r \in box[turn[r].box].files THEN "available" ELSE @]
    /\ UNCHANGED <<att, file, box, drawn, job, sweeper, conv, passed, mishap>>

\* A provider error, a pending erasure, or the loss of the process: the session
\* is rolled back and what was done at the provider stays.  An error of the
\* execution itself marks the workspace failed.
TurnFails(r) ==
    /\ turn[r].at \in {"prepared", "mounting", "ready", "executed"}
    /\ turn' = [turn EXCEPT ![r] = Over(r, "failed")]
    /\ ws' \in {ws, IF turn[r].at = "ready" THEN [ws EXCEPT !.status = "failed"] ELSE ws}
    /\ mishap' = IF turn[r].at = "mounting" THEN mishap \cup {"cut"} ELSE mishap
    /\ UNCHANGED <<att, file, box, drawn, job, sweeper, art, conv, passed>>

-----------------------------------------------------------------------------
(* Time: the row's expiry, the provider's idle expiry of a container (external), *)
(* and that of an artifact.                                                      *)

WorkspaceIdle ==
    /\ ws.status = "active" /\ ~ws.idle /\ ~Active
    /\ ws' = [ws EXCEPT !.idle = TRUE]
    /\ UNCHANGED <<att, file, box, drawn, job, sweeper, turn, art, conv, passed, mishap>>

BoxExpires(b) ==
    /\ box[b].live /\ \A r \in Turns : turn[r].box # b
    /\ box' = [box EXCEPT ![b] = [live |-> FALSE, files |-> {}]]
    /\ UNCHANGED <<att, file, ws, drawn, job, sweeper, turn, art, conv, passed, mishap>>

\* _mark_expired_artifacts, by a listing, a response or a download.
ArtifactExpires(r) ==
    /\ art[r] = "available" /\ ws.idle
    /\ art' = [art EXCEPT ![r] = "expired"]
    /\ UNCHANGED <<att, file, ws, box, drawn, job, sweeper, turn, conv, passed, mishap>>

WorkspaceNext ==
    \/ \E a \in Files :
         \/ UploadFile(a) \/ UploadCommit(a) \/ UploadLost(a) \/ MarkExpired(a)
         \/ Late(a, "unused") \/ Late(a, "expired")
         \/ DeleteAttachment(a) \/ SweepAttachment(a)
    \/ \E x \in Files \cup {Conv} : PassActiveCheck(x)
    \/ DeleteConversation
    \/ \E s \in Sweepers :
         \/ \E j \in DOMAIN job : Claim(s, j)
         \/ Erase(s) \/ EraseError(s) \/ Settle(s) \/ SweeperCrash(s)
    \/ \E j \in DOMAIN job : LeaseLapse(j) \/ RetryDue(j)
    \/ \E r \in Turns :
         \/ \E S \in SUBSET Files \ {{}} : Prepare(r, S)
         \/ EnsureRead(r) \/ EnsureCommit(r) \/ Execute(r) \/ Finish(r) \/ TurnFails(r)
         \/ ArtifactExpires(r)
         \/ \E a \in Files : Unmount(r, a) \/ Mount(r, a)
    \/ WorkspaceIdle
    \/ \E b \in Boxes : BoxExpires(b)

-----------------------------------------------------------------------------
(* Properties. *)

\* revoke_attachment, delete_conversation_tree and cleanup_once: an original whose
\* row is revoked or dropped is named by a row of the outbox until the provider
\* has erased it, whatever sweeps overlap, crash or are refused.
FileErasureQueued ==
    \A a \in Files : Revoked(a) => file[a] = "gone" \/ Original(a) \in DOMAIN job

\* _ensure_workspace: in the container where a run executes there are the copies of
\* all the attachments it selected that have not been revoked since, and of no other,
\* as long as every mounting reached its commit.
CopiesExact ==
    "cut" \notin mishap =>
      \A r \in Turns :
        turn[r].at \in {"ready", "executed"} /\ box[turn[r].box].live =>
          LET copies == box[turn[r].box].files \cap Files IN
          /\ copies \subseteq turn[r].sel
          /\ \A a \in turn[r].sel \ copies : Revoked(a)

\* revoke_attachment: nothing derived from an attachment that its owner removed can
\* be downloaded, unless the removal crossed a run.
DerivedRevoked ==
    "overlap" \notin mishap =>
      \A r \in Turns, a \in Files :
        att[a].status = "deleted" /\ a \in turn[r].sel => art[r] # "available"

\* Every revoked attachment is in the end erased at the provider: its original by
\* the outbox, its copies by the outbox or with the container that holds them.
RevokedErased ==
    \A a \in Files :
      Revoked(a) ~> file[a] = "gone" /\ \A b \in Boxes : a \notin box[b].files

\* The sweep runs every minute, a lease lapses, a retry comes due, a provider that
\* is asked again and again answers in the end, and idle containers expire.
WorkspaceFairness ==
    /\ \A s \in Sweepers, a \in Files :
         /\ SF_wvars(Original(a) \in DOMAIN job /\ Claim(s, Original(a)))
         /\ SF_wvars(sweeper[s].job = Original(a) /\ Erase(s))
    /\ \A s \in Sweepers : WF_wvars(Erase(s) \/ EraseError(s) \/ Settle(s))
    /\ \A a \in Files :
         /\ WF_wvars(Original(a) \in DOMAIN job /\ LeaseLapse(Original(a)))
         /\ WF_wvars(Original(a) \in DOMAIN job /\ RetryDue(Original(a)))
    /\ \A r \in Turns : WF_wvars(TurnFails(r))
    /\ \A b \in Boxes : WF_wvars(BoxExpires(b))

WorkspaceSpec == WorkspaceInit /\ [][WorkspaceNext]_wvars /\ WorkspaceFairness

\* What is uploaded to the provider is queued for erasure when its owner loses it, a run
\* sees the copies it selected, and nothing derived from a removed file is served.
ErasureSound == FileErasureQueued /\ CopiesExact /\ DerivedRevoked
=============================================================================

----------------------------- MODULE MCWorkspace ----------------------------
(***************************************************************************)
(* An instance of Workspace, Continuity and Memories for TLC: what a turn  *)
(* is given besides its message.  A behaviour exercises one of them; of    *)
(* Workspace, the uploads, the runs over attachments or the outbox.        *)
(***************************************************************************)
EXTENDS Workspace, Continuity, Memories, TLC

VARIABLE part

mcvars == <<part, wvars, cvars, uvars>>

First == CHOOSE a \in Files : TRUE
FirstTurn == CHOOSE r \in Turns : TRUE
FirstCaller == CHOOSE c \in Requests : TRUE

\* Attachments have been uploaded.  The first may have been used by a run that left
\* an output, in a container mounted by this release or by one that kept a list.
Uploaded(S, used, old) ==
    /\ att = [a \in Files |-> [status |-> IF a \in S THEN "available" ELSE "none", late |-> "no", swept |-> FALSE]]
    /\ file = [a \in Files |-> IF a \in S THEN "there" ELSE "none"]
    /\ ws = IF used THEN [NoWorkspace EXCEPT !.box = 1, !.status = "active", !.legacy = old, !.mounted = {First}]
            ELSE NoWorkspace
    /\ box = [b \in Boxes |-> [live |-> used /\ b = 1, files |-> IF used /\ b = 1 THEN {First, FirstTurn} ELSE {}]]
    /\ drawn = IF used THEN 1 ELSE 0
    /\ job = << >>
    /\ sweeper = [s \in Sweepers |-> IdleSweeper]
    /\ turn = [r \in Turns |-> IF used /\ r = FirstTurn
                 THEN [NoTurn EXCEPT !.at = "done", !.sel = {First}] ELSE NoTurn]
    /\ art = [r \in Turns |-> IF used /\ r = FirstTurn THEN "available" ELSE "none"]
    /\ conv = "live" /\ passed = {} /\ mishap = {}

\* A conversation of more answers than are scanned, the oldest of which rests on a
\* source; it may be covered by a summary already.
Answers == ScanLimit + 1
LongHistory ==
    /\ \E x \in Sources :
         msgs = [i \in 1..(2 * Answers) |-> [id |-> i, role |-> IF i % 2 = 1 THEN "user" ELSE "assistant", size |-> 1,
                                            source |-> IF i = 2 THEN x ELSE NoSource]]
    /\ written = 2 * Answers /\ gone = {}
    /\ summary \in {NoRow, [covered |-> 2, entries |-> {[id |-> 2, withheld |-> FALSE]}]}
    /\ build = [b \in Builds |-> NoBuild]
    /\ status = [b \in Builds |-> "new"]

MCInit ==
    /\ part \in {"upload", "mount", "erase", "context", "history", "memory"}
    /\ IF part = "history" THEN LongHistory ELSE ContinuityInit
    /\ MemoriesInit
    /\ CASE part \in {"upload", "context", "history", "memory"} -> WorkspaceInit
         [] part = "mount" -> \E old \in BOOLEAN : Uploaded(Files, TRUE, old)
         [] part = "erase" -> \E old \in BOOLEAN : Uploaded({First}, TRUE, old)

\* One sweep at a time, which the provider obeys.
OneSweep ==
    /\ \A s \in Sweepers : sweeper'[s].at # "refused"
    /\ \A s \in Sweepers \ {CHOOSE s \in Sweepers : TRUE} : sweeper'[s].at = "idle"
    /\ \A j \in DOMAIN job' : job'[j].leased => \E s \in Sweepers : sweeper'[s].job = j

\* Uploads, expiry and removal, without runs.
MCUpload ==
    /\ part = "upload" /\ WorkspaceNext /\ OneSweep
    /\ turn' = turn

\* Runs over two attachments, while one may be removed and swept and the other expires.
MCMount ==
    /\ part = "mount" /\ WorkspaceNext /\ OneSweep
    /\ conv' = "live"
    /\ \A s \in Sweepers : /\ sweeper'[s].job.of \notin Turns
                           /\ sweeper'[s].job \notin {Original(a) : a \in Files \ {First}}
    /\ \A b \in Boxes : box[b].live /\ ~box'[b].live => b = ws.box /\ Active
    /\ passed' \subseteq {First}
    /\ \A a \in Files : att'[a].late = "no" \/ (a # First /\ att'[a].late = "expired")

\* Overlapping sweeps of the original that are refused, crash and lose their lease.
MCErase ==
    /\ part = "erase" /\ WorkspaceNext
    /\ turn' = turn
    /\ \A a \in Files \ {First} : file'[a] = "none"
    /\ \A s \in Sweepers : sweeper'[s].job.kind = "file"

\* Runs follow one another in the order of their numbers: over the first messages of a
\* conversation, with one source, or two after a long history, whose source is removed and
\* of which a summary cites at most the reply that rests on it.
MCContext ==
    /\ part \in {"context", "history"} /\ ContinuityNext
    /\ \A b \in Builds : status'[b] # "new" => \A a \in Builds : a < b => status'[a] # "new"
    /\ IF part = "context"
       THEN /\ written' <= 5 /\ gone' \subseteq Sources \ Linked
            /\ \A i \in DOMAIN msgs' : msgs'[i].source \notin Linked
       ELSE /\ written' <= 2 * Answers + 2 /\ gone' \subseteq gone \cup {m.source : m \in Range(msgs)}
            /\ \A i \in DOMAIN msgs' : msgs'[i].size = 1 /\ (i > 2 => msgs'[i].source = NoSource)
            /\ Cited(summary') \subseteq {2}
            /\ \A b \in Builds : b > 2 => status'[b] = "new"

\* Requests that overlap differ: the first does not delete, the others do not recall.
MCMemory ==
    /\ part = "memory" /\ MemoriesNext
    /\ \A c \in Requests : req'[c].op # IF c = FirstCaller THEN "delete" ELSE "recall"

MCNext ==
    /\ UNCHANGED part
    /\ \/ (MCUpload \/ MCMount \/ MCErase) /\ UNCHANGED <<cvars, uvars>>
       \/ MCContext /\ UNCHANGED <<wvars, uvars>>
       \/ MCMemory /\ UNCHANGED <<wvars, cvars>>

\* WorkspaceFairness, where the outbox is exercised: for one original, without runs.
MCFairness ==
    LET job1 == Original(First)
        Due(A) == part = "erase" /\ job1 \in DOMAIN job /\ A
    IN  /\ \A s \in Sweepers :
             /\ SF_wvars(Due(Claim(s, job1)))
             /\ SF_wvars(part = "erase" /\ sweeper[s].job = job1 /\ Erase(s))
             /\ WF_wvars(part = "erase" /\ (Erase(s) \/ EraseError(s) \/ Settle(s)))
        /\ WF_wvars(Due(LeaseLapse(job1)))
        /\ WF_wvars(Due(RetryDue(job1)))
        /\ \A b \in Boxes : WF_wvars(part = "erase" /\ BoxExpires(b))

\* RevokedErased where the outbox is exercised.
MCRevokedErased == (part = "erase") => RevokedErased

MCSpec == MCInit /\ [][MCNext]_mcvars /\ MCFairness

=============================================================================

---------------------------- MODULE OutputStream ----------------------------
(***************************************************************************)
(* Clients of a durable run's output, composed with DurableRuns: the       *)
(* snapshot (GET .../output) and the listener (GET .../stream), of         *)
(* api/conversations/endpoints/durable.py.                                 *)
(*                                                                         *)
(* A listener never holds a transaction across a poll, and the statements  *)
(* of one poll (run status, cursor check, frames, terminal marker) each    *)
(* read their own committed state, so each is a step.                      *)
(***************************************************************************)
EXTENDS DurableRuns

CONSTANTS
    Clients,
    PageSize    \* list_frames' limit

ASSUME PageAssumption == PageSize \in Nat \ {0}

VARIABLE client

svars == <<run, job, out, worker, req, client>>

\* pos: last delivery id the client holds; text: answer deltas it has shown;
\* status, page, from: what the poll in progress has read so far; skipped (history):
\* frames were pruned between the check of the cursor and the read of the page.
NoClient == [pc |-> "off", run |-> None, pos |-> 0, text |-> 0, status |-> "absent",
             from |-> 0, page |-> <<>>, closedBy |-> None, skipped |-> FALSE]

Listening == {"poll", "validate", "list", "close"}

StreamInit == Init /\ client = [c \in Clients |-> NoClient]

Deltas(events) == Cardinality({i \in DOMAIN events : events[i] = "answer_delta"})

\* The locals of one poll go out of scope.
EndPoll(cl, pc) == [cl EXCEPT !.pc = pc, !.status = "absent", !.from = 0, !.page = <<>>]

\* Fault: the page starts one frame late.
FramesPast(o, pos) ==
    LET skip == IF pos > o.min THEN pos - o.min ELSE 0
    IN  SubSeq(o.frames, skip + 2, Len(o.frames))

\* list_frames: retained frames after a cursor, oldest first.
FramesAfter(o, pos) ==
    LET skip == IF pos > o.min THEN pos - o.min ELSE 0
        last == IF skip + PageSize < Len(o.frames) THEN skip + PageSize ELSE Len(o.frames)
    IN  SubSeq(o.frames, skip + 1, last)

-----------------------------------------------------------------------------
\* A poll or a snapshot that meets a terminal run without its control event
\* repairs the ledger first (RepairTerminal of DurableRuns) and reads again.
Repairable(r) ==
    /\ run[r].status \in Terminal
    /\ out[r].terminal # Expected(run[r].status)

\* Fault: the snapshot promises a cursor the ledger has not reached.
AheadOfSnapshot(r) ==
    [NoClient EXCEPT !.pc = "poll", !.run = r, !.pos = out[r].cursor + 1, !.text = out[r].partial]

\* A client that has loaded the snapshot of r.
FromSnapshot(r) ==
    [NoClient EXCEPT !.pc = "poll", !.run = r, !.pos = out[r].cursor, !.text = out[r].partial]

\* output_snapshot: one SELECT joins status, cursor and projection.
TakeSnapshot(c, r) ==
    /\ client[c].pc \in {"off", "expired"}
    /\ client[c].run \in {None, r}
    /\ run[r].status # "absent"
    /\ ~Repairable(r)
    /\ client' = [client EXCEPT ![c] = FromSnapshot(r)]
    /\ UNCHANGED vars

\* The connection closes; the client comes back with its Last-Event-ID.
Disconnect(c) ==
    /\ client[c].pc \in Listening
    /\ client' = [client EXCEPT ![c] = EndPoll(@, "away")]
    /\ UNCHANGED vars

\* subscribe_output, from the client's cursor, or from zero without one:
\* validate_cursor answers 410 when the cursor was pruned.
Subscribe(c, r) ==
    /\ \/ client[c].pc \in {"away", "closed"} /\ client[c].run = r
       \/ client[c].pc = "off" /\ run[r].status # "absent"
    /\ client' = [client EXCEPT ![c].pc = IF client[c].pos < out[r].min THEN "expired" ELSE "poll",
                                ![c].run = r,
                                ![c].closedBy = None]
    /\ UNCHANGED vars

\* listen.read, first statement: the run's status.
PollStatus(c) ==
    /\ client[c].pc = "poll"
    /\ ~Repairable(client[c].run)
    /\ client' = [client EXCEPT ![c].pc = "validate", ![c].status = run[client[c].run].status]
    /\ UNCHANGED vars

\* listen.read, validate_cursor: a listener that fell behind is detached.
PollValidate(c) ==
    /\ client[c].pc = "validate"
    /\ client' = [client EXCEPT ![c] = IF @.pos < out[@.run].min
                                       THEN EndPoll(@, "expired") ELSE [@ EXCEPT !.pc = "list"]]
    /\ UNCHANGED vars

\* listen.read, list_frames.
PollFrames(c) ==
    LET o == out[client[c].run]
    IN  /\ client[c].pc = "list"
        /\ client' = [client EXCEPT ![c].pc = "close",
                                    ![c].page = FramesAfter(o, client[c].pos),
                                    ![c].from = IF client[c].pos > o.min
                                                THEN client[c].pos ELSE o.min]
        /\ UNCHANGED vars

\* listen.read, latest_terminal, and then the frames go out: control events that
\* are not the current terminal one are skipped; the current one closes the
\* stream, even when the client already has its id.
Deliverable(c) ==
    LET o       == out[client[c].run]
        from    == client[c].from
        reached == IF client[c].page = <<>> THEN client[c].pos ELSE from + Len(client[c].page)
        end     == IF client[c].status \in Terminal /\ o.terminal # None THEN o.tcursor ELSE 0
        within  == end > from /\ end <= reached
        last    == IF within THEN end ELSE reached
    IN  [last   |-> last,
         deltas |-> Deltas(SubSeq(client[c].page, 1, last - from)),
         event  |-> IF within \/ (end # 0 /\ end <= reached) THEN o.terminal ELSE None]

\* What the client has after the frames of the page went out.
Delivered(cl, d) ==
    [EndPoll(cl, IF d.event = None THEN "poll" ELSE "closed")
        EXCEPT !.pos = d.last, !.text = @ + d.deltas, !.closedBy = d.event,
               !.skipped = @ \/ cl.from > cl.pos]

PollDeliver(c) ==
    /\ client[c].pc = "close"
    /\ client' = [client EXCEPT ![c] = Delivered(@, Deliverable(c))]
    /\ UNCHANGED vars

ClientStep(c) ==
    \/ \E r \in Runs : TakeSnapshot(c, r)
    \/ \E r \in Runs : Subscribe(c, r)
    \/ Disconnect(c)
    \/ PollStatus(c)
    \/ PollValidate(c)
    \/ PollFrames(c)
    \/ PollDeliver(c)

StreamNext ==
    \/ Next /\ UNCHANGED client
    \/ \E c \in Clients : ClientStep(c)

StreamSpec == StreamInit /\ [][StreamNext]_svars

\* A connected listener keeps polling, and repairs what it finds unrepaired.
StreamFairness ==
    /\ \A c \in Clients :
         WF_svars(PollStatus(c) \/ PollValidate(c) \/ PollFrames(c) \/ PollDeliver(c))
    /\ \A r \in Runs : WF_svars(RepairTerminal(r) /\ UNCHANGED client)

FairStreamSpec == StreamSpec /\ Fairness /\ StreamFairness

-----------------------------------------------------------------------------
(* Properties. *)

\* A client only ever holds cursors the ledger has reached.
StreamTypeOK ==
    /\ client \in [Clients ->
         [pc : Listening \cup {"off", "away", "closed", "expired"}, run : Runs \cup {None},
          pos : Nat, text : Nat, status : RunStatus \cup {"absent"}, from : Nat,
          page : Seq(Events), closedBy : Control \cup {None}, skipped : BOOLEAN]]
    /\ \A c \in Clients : client[c].run # None => client[c].pos <= out[client[c].run].cursor

\* Snapshot, reconnects and polls together show every answer delta exactly once,
\* unless frames were pruned within a poll: what the client has shown plus what is
\* retained after its cursor is the saved partial reply.
TextExact ==
    \A c \in Clients :
        LET o == out[client[c].run]
        IN  client[c].run # None /\ client[c].pos >= o.min /\ ~client[c].skipped
                => client[c].text + Deltas(SubSeq(o.frames, client[c].pos - o.min + 1, Len(o.frames)))
                    = o.partial

\* A stream that closed on an outcome told the truth about the run, unless a resume
\* request overwrote that outcome on a stale read.
CloseTruthful ==
    \A c \in Clients :
        client[c].closedBy \in {"run_completed", "run_failed", "run_cancelled"} =>
            \/ run[client[c].run].overwritten
            \/ /\ run[client[c].run].status \in Terminal
               /\ client[c].closedBy = Expected(run[client[c].run].status)

\* What a follower has shown is what was written, and how it closed is how the run ended.
FollowerSound == StreamTypeOK /\ TextExact /\ CloseTruthful

\* Following a run comes to an end: a connected listener is closed by a control
\* event, or detached because it fell behind or went away.
ListenerEnds == \A c \in Clients : client[c].pc \in Listening ~> client[c].pc \notin Listening

=============================================================================

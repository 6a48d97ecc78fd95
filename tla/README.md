# A verification project for my-agents

`my-agents` is a chat service: a FastAPI application, PostgreSQL, an answer
worker, an ingestion worker, an S3-compatible object store, a provider of document
workspaces, and model providers. This directory models in TLA+ the parts of it in
which several requests, workers and sweeps change the same rows, or in which one
handler takes several commits. TLC checks the models on small instances, and TLAPS
proves the central properties for every number of runs, documents, accounts,
requests and workers. Paths below are relative to `src/my_agents/` unless they
begin with `docs/`, which is `src/docs/`.

## The system

| Component | State | Operations | Hard part | What makes it correct |
|---|---|---|---|---|
| Durable runs (`conversations/durable_*.py`, `conversations/answer_worker.py`, `api/conversations/endpoints/durable.py`, `runs.py`, `run_lifecycle.py`) | `agent_runs`, `durable_run_jobs` (lease), `durable_run_outputs`/`_frames` | admit, claim, renew, start, emit, complete, ask, fail, stop, resume, reap, repair | stale workers, a stop racing a completion, resume racing delivery, crash between commit and frame | one owner per phase; no run stuck; a stop is final; ledger and run agree |
| Output subscribers (`endpoints/durable.py`) | a cursor per client | snapshot, subscribe, poll, reconnect | three separate reads per poll; pruning | text shown exactly once; truthful close signal; every listener ends |
| Direct runs (`endpoints/runs.py`, `stream.py`, `replay.py`, `run_lifecycle.py`, `interactions.py`) | `agent_runs`, messages, events | send, stream, resume, regenerate, stop, sweep | a client that goes away, a stop between two commits, a prune of the old branch | one answer per run; the last event of a stream is true; no conversation blocked for ever |
| File storage (`storage/lifecycle.py`, `storage/objects.py`) | `stored_files`, `storage_quota`, `storage_cleanup`, the bucket | reserve, write, publish, copy, revoke, expire, erase | writes that land after a timeout or crash; leased erasure by several processes | quota exact; bytes counted; published files readable; capacity returns |
| Direct uploads (`api/document_files.py`) | `document_upload_sessions` | initiate, refresh, complete, abort | concurrent and retried finalization; URLs used late | a session has one outcome and agrees with its file |
| Ingestion (`knowledge/ingestion_worker.py`, `extraction.py`, `api/documents.py`) | `documents`, `extraction_runs`, chunks | create, edit, delete, admit, claim, extract, commit, fail | rows loaded before a lock and used after it; edits beside a run; crash while running | one run per document; the old index is readable until text and index are swapped |
| Accounts (`auth/service.py`, `api/auth.py`) | users, sessions, tokens | sign up, approve, reject, verify, log in, log out, change and reset a password | hashing between the read and the commit | a changed password ends the sessions of the old one |
| Guest trial (`auth/guest_*.py`) | policy, trials, codes, guests | issue, redeem, reset, expire, sweep, erase | codes redeemed twice, signup beside redemption, deferred erasure | one trial per identity; an erased guest leaves nothing |
| Budgets (`auth/abuse.py`, `guest_limits.py`, `guest_policy.take_budget`) | buckets, windows, row counts | check, record, reset | checked and counted in two steps | a limit is passed by no more than the requests in flight |
| Notifications (`auth/notifications.py`) | outbox rows with leases | enqueue, claim, mail, mark, back off | crash after the mail was accepted | sent twice only in doubt; sent is final |
| Groups (`groups/service.py`, `api/groups.py`) | memberships, invitations | invite, resend, cancel, accept, change roles | checks on a row that is later updated by its key | one pending invitation per address, with a token that arrived; members were invited |
| Publications (`api/groups.py`, `api/knowledge_bases.py`, `knowledge/auth.py`, `permissions/service.py`) | bases, documents, grants, publish requests | request, withdraw, reject, approve, discard, delete, search | copies visible before the approval commits | only approved material is shared; a failed approval leaves nothing; a search stays in its bases |
| Document workspace (`document_workspace/`) | attachments, workspace row, `provider_cleanup`, the provider's files | upload, submit, mount, run, revoke, expire, clean up | provider calls between commits | what is revoked is erased; a run sees the copies it selected |
| Continuity (`conversations/continuity.py`) | transcript, summary | build a context, compact, invalidate | compaction beside retries and removals | every earlier message is accounted for; removed sources stay out |
| Memories (`memory/`, `api/memories.py`) | memories, suggestions, a store | suggest, confirm, reject, deactivate, delete, project, recall | overlapping handlers of one row; a store that lags | deletion is final; a recall is governed by the rows |
| Session evidence (`conversations/session_evidence.py`) | links of answers | consider, recap, record, discard | recaps of recaps whose source is gone | a recap fails closed |
| Retrieval (`knowledge/retrieval.py`, `agents/context_forge/`) | one search in progress | count, route, gather, fuse, rerank, pack, retry | access revoked between two statements | nothing foreign is found; "insufficient" is honest; the pack fits |
| Agent graph (`agents/general_assistant/`) | checkpointed turn | route, gate, select, refine, pause, resume, read, compose, complete | documents change while a turn is paused | refusals honoured; a reply cites what was read |
| Prompts, parsers, settings, CLI, schemas, migrations, scripts | none of their own | pure computation, I/O, declarations | – | not modelled |

The components meet in the database. The API admits a run and its job in one
transaction; an answer worker claims the job, and every later write of the worker
is fenced by the job's lease token; the API's stop and resume change the same
rows; the reaper runs in the worker and in every listener's poll. Upload handlers
hold a row lock while they write to the object store; the cleanup loop of every API
process erases what was revoked. Signup, the redemption of a guest code and the
erasure of a guest meet at the row of the trial, which is the lock of an identity.
An approved publication copies documents, reserves storage for them and starts
their ingestion. A turn is given a context (Continuity), memories, recaps
(SessionEvidence), attachments (Workspace) and evidence (Assistant, Retrieval), and
is executed as a direct or a durable run.

## Modules

| Module | Models | Extends |
|---|---|---|
| `RunLifecycle` | what a client may observe of a run's status: the abstract specification | |
| `DurableRuns` | jobs, leases, fence, phases, stop, resume, reaping, ledger | |
| `OutputStream` | the subscribers of the ledger | `DurableRuns` |
| `DirectRuns` | runs that a request executes itself | |
| `StorageLifecycle` | reservations, writes, quota, revocation, the cleanup outbox | |
| `UploadSessions` | direct upload sessions | `StorageLifecycle` |
| `Ingestion` | documents, extraction runs, the threads and workers that execute them | |
| `Notifications` | the outbox of operator alerts | |
| `Accounts` | registered accounts, tokens, sessions | `Notifications` |
| `GuestTrials` | codes, trials, the erasure of guests | `Accounts` |
| `Budgets` | the three kinds of limit | |
| `Groups` | memberships and invitations of a group | |
| `Publications` | bases, grants, publish requests, what a search may read | `Groups` |
| `Workspace` | attachments, containers, outputs, the provider's outbox | |
| `Continuity` | the context of a turn and the rolling summary | |
| `Memories` | memories, suggestions, projection, recall | |
| `SessionEvidence` | recaps of earlier answers | |
| `Retrieval` | one search for evidence | |
| `Assistant` | one turn of the assistant's graph | |
| `DurableRunsProofs` | theorems about durable runs and their subscribers | `OutputStream` |
| `DirectRunsProofs` | theorems about direct runs | `DirectRuns` |
| `DocumentsProofs` | theorems about ingestion, storage and uploads | `Ingestion`, `UploadSessions` |
| `AccountsProofs` | theorems about accounts, trials, alerts, limits | `GuestTrials`, `Budgets` |
| `GroupsProofs` | theorems about groups, publications, search | `Publications` |
| `ContextProofs` | theorems about memories and the document workspace | `Memories`, `Workspace` |
| `HistoryProofs` | theorems about summaries and recaps | `Continuity`, `SessionEvidence` |
| `AssistantProofs` | theorems about turns | `Assistant` |
| `MC*` | constants, symmetry and the parts of a run for TLC | |

An action is one transaction, or one statement where the handler holds no lock
between two. PostgreSQL runs at READ COMMITTED, so a value that the code reads in
one statement and uses after another transaction could commit is kept in the local
state of the actor (`worker`, `req`, `request`, `call`, `review`, `proc`, `turn`,
...). Providers, mails, the bucket, the semantic store and the models are external:
each module keeps only the answers the code distinguishes. After each definition a
property is about stands one faulty variant of it for every part of the property
(`...Always`, `...Early`, `...Not`); `PROJECT.json` names, for each property, one
that TLC is shown to reject.

### DurableRuns

`run` is the `agent_runs` row: status, conversation, the number of the
open question (`turn`), its deadline and whether a reply was committed. `job` is
the job row: its kind, its token (the worker that claimed it), and `ttl`, the
ticks its lease has left. `out` is the ledger: cursor, minimum cursor, retained
frames, and the stored close signal.

| Code | Action |
|---|---|
| `admit_durable`, `enqueue_job` | `AdmitRun` |
| `cancel_durable` | `CancelRun` |
| `resume_durable` + `prepare_conversation_run_resume` | `ReadResume`, then `ClaimResume`, `ExpireResume`, `RejectGraphVersion` or `AbortResume` |
| `claim_job`, `renew_lease` | `ClaimJob`, `RenewLease` |
| `execute_job` | `CheckJob`, `StartRun`, `EmitResumed`, `EmitProgress`, `Deliver`, `StopExecution`, `RaiseError`, `Finalize` |
| `persist_completed_run`, `persist_waiting_document_selection`, `persist_failed_run`, `mark_run_cancelled` | `CompleteRun`, `InterruptRun`, `FailRun`, `ObserveCancel` |
| `install_fence` | the guards `Fence`, `Owns`, `MayBecome` |
| `reap_lost_jobs`, `fail_job`, `repair_terminal` | `ReapLostJobs`, `FailedRun`, `RepairTerminal`, `Repaired` |

`ReadResume` and what follows it are separate because the handler reads the run
first and decides later; it holds the locks of the running jobs in between
(`locked`), which blocks fenced writes but not the reaper's update of the run's
question. `overwritten` is history: a request withdrew the run (`ExpireResume`,
`RejectGraphVersion`) after the question that it had read was settled. The agent graph is abstracted to its outcomes: progress frames, a
question, a reply, an error. Text is a count of deltas. Time is a countdown per
lease (`LeaseTick`), a queue timeout and an interaction deadline.

### OutputStream

A client has a cursor `pos`, the text it shows (`text`, a count of deltas) and
the values one poll has read so far. `PollStatus`, `PollValidate`, `PollFrames`
and `PollDeliver` are the statements of a poll, between which anything may
happen. `Disconnect` and `Subscribe` reconnect from the last cursor;
`TakeSnapshot` starts over from the projection. `skipped` is history: frames the
client had not read were pruned within one of its polls.

### DirectRuns

One conversation; `ask` is a request that executes a run in its own session, `stop`
and `sweep` are the cancel request and the stale-run cleanup between their read and
their write. A synchronous request is its admission, its graph and its commits; a
stream commits and sends events one by one and may be cut by its client
(`GeneratorExit`) or by the death of the server at any of them. A regeneration reads
the transcript (`ReadReplay`), is admitted later (`Admit`), commits its answer and then
prunes the branch it has read (`Prune`); others may do the same between any two of
these. A resume reads the paused run (`ReadResume`) and later claims it, or refuses it
because the question has expired or the graph was replaced (`RefuseResume`), whatever
the run is by then. `text` is the set of message rows with their `created_at`. The field `late` of a
run is history: it was written to after it had ended, or was admitted to regenerate
an answer of a transcript that had changed (`Overtaken`).

### StorageLifecycle and UploadSessions

A file and its object key are one identity. `objects` is what the bucket holds.
A write in progress belongs to its writer, which holds the row (`Locked`); when
the client gives up or dies (`FailWrite`, `CrashWriter`) the write may still
land for the ticks in `orphan`. `cleanup` is the outbox: one row per key, with
its wait, token and lease. The handlers of `api/documents.py` and
`knowledge/publication_copies.py` are the writers; document and account deletion
are the revokers, in two steps, because `schedule_file_cleanup` reads the status
before its update waits for the row lock. `UploadSessions` adds the sessions and
their finalizers, which reuse the writers' steps.

Three timing assumptions come from the code's constants: a write stays in flight
for less than `WRITE_SETTLE_GRACE` (three attempts of 35 seconds against five
minutes: `FlightTicks < GraceTicks`); a revoker does not stall for minutes between
two statements unless the lock makes it wait (`Prompt`); and a client's PUT ends
within the two minutes that staging outlives its URL (`UploadTicks <=
StagingTicks`). Once a put has returned, no other attempt of the same put is in
flight.

### Ingestion

`doc` is the document row with its index, `run` the `extraction_runs` rows in the
order of their creation, `proc` the local state of an API request (and of the
thread it starts) or of an ingestion worker. `mode` is the execution mode of the
deployment, chosen once. The index of a document stands for its chunks, vectors,
entities and profile, which are written together: it is the text they were made
from. A text is a value of `Texts` and a flag for the layout that processing may
give it.

| Code | Action |
|---|---|
| `create_document`, uploads to a review area | `CreateDocument` |
| `complete_upload`, `reprocess_document`, `_candidate_run` | `UploadDocument`, `Reprocess` |
| authorization and load of a request | `Open` |
| `ingest_document(run=None)`, `create_extraction_run` | `AdmitSync`, `AdmitAsync`, or `Refuse` |
| `_dispatch_extraction_run` | `Dispatch` |
| `_apply_document_update` | `Edit` or `Refuse` |
| `delete_document_record` | `DeleteDocument` |
| `claim_next_pending_extraction_run` | `Claim` |
| `execute_claimed_extraction_run`, first progress commit | `Execute`, `MissingRun` |
| final commit, `except` branch of `ingest_document` | `Publish`, `Fail` |

`Open` is a step of its own because the sessions are made with
`expire_on_commit=False` and an ORM `UPDATE` used as a lock leaves the attributes
of a loaded object alone: what the request has loaded before it waits for the
lock is what it uses afterwards. For the same reason an edit writes only the
attributes that differ from what it loaded (`Edited`). The progress commits in
the middle of `ingest_document` change only the stage shown to the user and are
part of `Execute`. The branch of the executor for a run without a document is
left out: a document and its runs are deleted in one transaction, so the state
does not exist. The claim is the one of PostgreSQL, with its row lock. A worker
does not look at the execution mode: that workers are deployed only beside APIs of the
mode `external_worker` (`.env.example:140` of the repository,
`docs/product-chat-service/05-knowledge-ingestion-extraction.md:103`) is the assumption
`Polling`. `OneIndexer` rests on it: with a worker beside an API of the other mode, TLC
at once finds a run that a thread executes already claimed by the worker.

### Accounts, GuestTrials, Notifications, Budgets

A password is the number of the change that set it. A login reads and verifies
(`LoginVerify`), and commits its session later; a change or reset loads, selects the
sessions to revoke (`SelectSessions`) and commits (`CommitPassword`). A session
carries `crossed`: its login overlapped a change. Signup locks the identity of its
address (`LockSignupIdentity`, `holder`), as do issuing, redeeming, resetting and
erasing. `GuestsInit` starts from any rows an earlier version may have left, and
`Backfill` reconciles them. The erasure sweep pages through the guests in the order
of their ids and defers those with running work or shared material. A notification
is claimed with a lease whose token is the number of the attempt; `doubts` counts
the leases that ended and the mails that were taken though the call raised.
`Budgets` has the process-local attempt bucket and the row caps, which check and
count in two steps, and the window of the database, which does both in one.

### Groups and Publications

One group, persons known by their one address. A call reads an invitation, checks
it and later updates the row by its key; a resend holds the row while the mail is
sent. The rights to a document (`Can`) are its owner's, those granted explicitly, which
`Grant` may change at any time, or those of a role. A rejection or withdrawal finds its
request pending (`OpenClosing`) and later writes it by its key (`CloseAsk`). An approval is a sequence of steps: it copies, ingests (which commits the
copy), and marks the request; on failure it deletes what it made. `Searched` is the
base predicate of a search, `SelectionAccepted` the check of one base.

### Workspace, Continuity, Memories, SessionEvidence

`Workspace` has the rows of one conversation beside the provider's originals,
containers and copies; every provider call lies between two commits, and `mishap`
records what an error or crash has cut. Two sweeps may hold one outbox row when a
lease has lapsed; the one that comes second finds the row gone (`gone`) and writes
nothing. `Continuity` abstracts tokens to small
sizes and a summary to the messages it covers. Replies on removed sources are looked for
as the code does it (`Scanned`): among the newest `ScanLimit` answered runs (128 in the
code) and those the stored summary cites; attachments of the run itself (`Linked`) are
looked up for all runs. A masked message keeps its size. A run that is found to have ended while its summary is made gets its recent
messages as they are (`AbandonContext`). In `Memories` two handlers of one
row overlap and each writes the columns it changed; the store is a set that lags
behind. `SessionEvidence` keeps for each answer the links it recorded and, as
history, everything it was made from.

### Retrieval and Assistant

`Retrieval` is one search statement by statement, with revocations between any two;
scores are thousandths. Facts are a source of their own for each type; a chunk has at
most one fact of a type, since the fusion keeps the best. The intent that a decision
model may choose is left out: only the route and the types named decide what is gathered. `Assistant` is the graph of one turn: what a search finds
is any subset of what may be read, so the turn's properties do not rest on the
search's.

## Runs

| Run | Instance | Checks |
|---|---|---|
| `ownership` | 1 run, 3 jobs (admission and two resumes), 2 workers, 2 resume requests | one live job, no stuck run, fence, stop, leases, one answer per question |
| `lifecycle` | 1 run, 2 jobs, 2 workers, 1 resume request, two prune windows, with fairness | `RunLifecycle` is implemented, with its liveness; a question ends; `OutcomesSound` |
| `stale_expiry` | 1 run, 3 jobs, 2 resume requests around the deadline | expected violation, see Findings |
| `follow` | 1 client over two phases, a window of two frames | text exactly once, truthful close |
| `ends` | the same with a window of one frame, with fairness | a subscription ends |
| `documents` | 3 files (an original and two copies, or a session with its two files), 2 finalizers, a revoker, 2 sweeps; 1 document, 2 texts, 2 requests, 2 workers, 2 extraction runs, both modes | `UploadsSound`, `MCBytesCounted`, one run and one process per document, index and text swapped together |
| `progress` | one session, one finalizer, one sweep; one document, two requests, one worker, with fairness | capacity returns, extraction runs end |
| `accounts` | 1 address, 2 requests, 2 sessions, 2 guests, 2 codes, 2 senders, 3 callers, with fairness | passwords, trials, alerts, limits, erasure and delivery in the end |
| `groups` | 2 persons, 2 invitations, 2 calls; 3 bases, 3 documents, 2 requests, 2 approvals, one rejection or withdrawal and one explicit right at a time | invitations, publications, what a search may read |
| `workspace` | 2 attachments, 2 runs, 2 sweeps, 2 containers; 3 contexts over 5 messages, 2 contexts after 10 messages with a scan of 4 replies; 1 memory, 1 suggestion, 2 requests, with fairness | erasure, context, memories, recall, revoked originals erased in the end |
| `turns` | 3 requests over all endpoints, one delta, one pause; 4 overlapping messages and regenerations; with fairness | answers, streams, no conversation blocked |
| `retrieval` | 4 chunks of 3 documents, 4 facts of 2 types and a limit of 2, one revocation; a turn over 3 documents and 2 files with one change; 3 answers over 3 papers, with fairness | evidence, turns, nothing foreign, recaps, a turn ends |

Where a run covers several components, the variable `part` of its MC module chooses
in the initial state which one acts; the others stand still. The conjunctions
(`OutcomesSound`, `UploadsSound`, `TrialsSound`, ...) name the parts they are made
of, each with its comment.

The bounds. Three phases are the smallest number in which a worker of phase one, a
worker of phase two and a resume into phase three can meet; two workers are enough
for a stale owner beside a new one; a lease of one tick has all three of its states
(held, about to expire, expired). Two prune windows, 2 and 3, and ledgers that grow
past them with the control frames of two phases make both emitters prune. Documents
share nothing but the queue of runs, so one document with two runs, two requests and
two workers has every race of `Ingestion`. Two requests, guests and codes of one
address are what a race of redemptions, of a signup with a redemption, or of a login
with a password change needs; a page of one guest and two guests make the sweep
pass a deferred one. Two invitations of one address and two calls are a resend, a
cancellation or an acceptance beside another; two approvals overlap, and three
documents let one fail after its first copy; one rejection in flight is what crosses an
approval. With any number of rejections and grants the run passes as well, with 1.4
million states. A history of five replies is one more than a scan of four. `Continuity` keeps the relation of the
code's numbers (a tail limit one above its ceiling and below the scan, two rounds). What is proved below
is proved for any number of these.

The parts restrict what is explored, never what a step does: in `documents`, copies
are made by one request and only stored files are revoked meanwhile (`Stored`);
in `workspace`, the runs over attachments are swept by one sweep that the provider
obeys (`OneSweep`, `MCMount`), the outbox is exercised for one original (`MCErase`,
`MCFairness`), and overlapping memory requests differ (`MCMemory`); in `turns`, each
part allows the endpoints, the sweep and the outcomes its question is about. `progress` has one
sweep: with two, each may outlive its lease again and again, and only a fairness the
code does not give would end that. The window of `follow` slides, so that
frames are also pruned between two statements of a poll (see Observations).

Symmetry is used only where no temporal property is checked. `CHECK_DEADLOCK FALSE`
is set because jobs, files, requests and ids are finite: when all are used the
system may rightly stop.

### Fairness

Workers loop and poll, and `process_once` reaps before it claims, so reaping,
claiming and the steps of a worker that lives are weakly fair; crashes and clock
steps are bounded by the instance, not by fairness. A phase ends because the
provider clients have timeouts (settings), which is assumed and not shown. A
listener polls in a loop. The storage sweep runs every minute in every API
process: expiry is weakly fair, claims and erasures strongly fair, since the
provider may fail any number of times but not for ever. Threads and workers of
ingestion go on while they live and a worker polls in a loop; `RunEnds` excepts the
runs whose process died, which nothing in the repository takes over (documented as
a limitation). The notification and erasure loops of `accounts` and the provider
outbox of `workspace` are treated in the same way: sweeps are weakly fair, an
erasure that is tried again and again succeeds (strong fairness), leases and
backoffs end. In `turns` a request makes progress, time passes, and requests keep
coming that clean their conversation; in `retrieval` the run is executed and a pause
is answered or expires.

## Proofs

All theorems are for every value of the constants that satisfies the named
assumptions of the modules (`ConstantsAssumption`, `PageAssumption`, `IngestionAssumption`,
`StorageAssumption`, `UploadAssumption`, `WorkspaceAssumption`, `ContinuityAssumption`,
`MemoriesAssumption`, `EvidenceAssumption`, `GroupsAssumption`, `NotifyAssumption`,
`AccountsAssumption`, `GuestsAssumption`, `BudgetsAssumption`,
`PublicationsAssumption`, `AssistantAssumption`, `DirectAssumption`), each of which TLC
evaluates on the constants of the run. They are typing, distinctness of null values,
finiteness of the sets of actors whose members are counted, and positive limits.
Each `...Invariance` theorem is `Spec => []Inv` for an inductive invariant; the
others follow from it. A proof has one lemma per action or kind of step, and lemmas
for the steps that touch nothing an invariant is about.

**Durable runs** (`DurableRunsProofs`). `Invariance`; from it `TypeCorrect`,
`SingleOwner` (`OneLiveJob`), `NeverStuck` (`NoStuckRun`), `FenceProtectsPhase`
(`FencedPhase`), and the action property `StopIsFinal` (`StopWins`). `OneLiveJob` is
not inductive. A resume adds a job to a run that waits, so one must know that every
live job of a waiting run is running (`QueuedJob`) and that the request holds all of
them locked (`LockedRows`), which is true only while the question it read is the one
still open (`OpenQuestion`). `NoStuckRun` needs that a worker past the fence holds
the run's job (`HeldPhase`) and that a run that has not started still has its queued
or freshly claimed job (`NotStarted`). That several runs (an answer and its
regeneration) keep out of each other's way is proved, not model-checked: the
instances have one run.

`AnswersAreUnique` (`AnsweredOnce`) rests on `AnswersKept`: the job of an answered
question stays, and the turn of its question is behind the run's as soon as the run
waits again. `LeasesAreKept` (the action property `NoLeaseStolen`) needs that a request
that holds rows locked holds those of a run that waits, was cancelled or has failed
(`LockedWaits`). `LedgerIsContiguous` is for any number of phases, repairs and prunings.
All theorems hold for any number of resume requests in flight. Since such requests may
withdraw a run late (the finding `stale_expiry`), the outcome of a run is stated in two
cases: a run that was withdrawn late (`overwritten`) is cancelled or failed, and of
every other run status, reply and ledger agree. `LifecycleRefined` (`LifecycleMoves`) is
that every step is a step of the abstract lifecycle or a late withdrawal
(`LateWithdrawal`); TLC checks `LifecycleSpec` itself, with its liveness, on an
instance with one request, where no withdrawal is late. `OutcomesSound` is checked on
the same instance, so its case of a run withdrawn late is shown by the proof alone.
`OutcomesAreSound` (`OutcomesSound`) adds that what a worker has yet to report still
describes its run (`DueSound`), and that a run and its ledger agree unless a live job
has the terminal frame still to write (`OutcomeSound`). `FenceProtectsPhase` says what
the fence is for: a worker whose writes it accepts has no other live job of the run
beside its own, so no other phase can be begun.

`FollowersAreSound` (`FollowerSound`, for `StreamSpec`) follows the deltas of a page
and of what is retained behind it as cardinalities of sets of cursors. The ledger only grows:
whoever holds a cursor that is still retained misses as many deltas more as the partial
reply has grown (`Whole` and `Follows` are the invariant, with what a poll in progress has
read so far). A close signal that is an outcome was read of a run that had ended, and a
run that has ended stays as it is, unless it is withdrawn late.

**Ingestion** (`DocumentsProofs`). `IngestInvariance`; from it `IngestTypeCorrect`,
`AdmissionsSerialized` (`OneActiveRun`), `IndexedByOne` (`OneIndexer`) and the action
property `SwapIsAtomic` (`IndexSwap`). `OneActiveRun` alone is not inductive, because
`Execute` marks its run as running whatever the run's status is. It needs that a
process holds only active or deleted runs (`HeldActive`), that no two processes hold
the same run (`SoleHolder`), and for that, that what a worker may claim is held by
nobody (`QueuedFree`). An upload creates a run without the check of the others; that
a new id has no runs follows from `RunOfLive`.

**Storage and uploads** (`DocumentsProofs`). `UploadsAreSound` (`UploadsSound`, for
`UploadSpec`) and `StorageIsSound` (the conjunction with `BytesCounted`, for
`StorageLifecycle`'s own `Spec`). The quota is a sum over a set of files, defined by a
fold; what the proof needs of it, that a sum over finite sets changes by the size of the
one file whose status changes, is shown by taking a smallest counterexample.
`StorageInv` adds to the quota that a key has one writer (`SoleWrite`) and, row by row,
what a file, a writer, a revoker and a sweep know of each other (`SoundFile`,
`SoundWriter`, `SoundRevoker`, `SoundCleaner`); its core is that a sweep with a lapsed
lease finishes a file only once, because statuses only move on. For `UploadsSound`,
`UploadsInv` says that nothing claims a staging file while its session has time left,
which rests on `UploadTicks <= StagingTicks`, and that a write its client gave up lands
before its file can be claimed. `CopiesInv` is the same for files that are written by
one request each (`FlightTicks < GraceTicks`); with retried finalizations `BytesCounted`
is false (see Observations), so it is a theorem of `Spec` and not of `UploadSpec`.

**Accounts, alerts, limits** (`AccountsProofs`). `LimitsAlwaysHold` (`LimitsHold`) for
`BudgetsSpec`: the bound on overshoot is about the number of callers between check
and count, so the proof follows the cardinality of that set over every step. For
`AuthSpec`, which is accounts, trials and alerts together, `AuthInvariance` proves
four parts. `RowsInv`: rows in use name an address. `PasswordsInv`: for
`OldPasswordSignedOut` one must also know that a login in flight that overlapped no
change holds the current password and no change is under way (`LoginsCurrent`), and
that a change which has selected the sessions to revoke has selected every live one
(`SelectionComplete`). `LocksInv`: a signup, and a redemption past its check, hold the
lock of their identity, and the address of the latter is not registered; this gives
the action property `TrialsSpareAccounts` (`NoTrialBesideAccount`). `AlertsInv`
(`NotifyInv`): the mails sent and those that senders may still send are together at
most the doubts, plus one for a row that is held or sent, which gives
`AlertsAreSound` (`DeliverySound`). `TrialsAreSound` (`TrialsSound`) is about guests and
codes. `TrialsInv` says of each guest, identity, code and redemption in flight what ties
them (`SoundGuest`, `SoundTrial`, `SoundCode`, `SoundRedeem`): no code and no guest is of
a generation that its identity has not come to, a consumed code and an active guest of
the present generation are the ones the identity names, a redemption past its check goes
on with a trial that is new or names its account, and an erased guest keeps neither
content nor session nor a code of its generation. `OneOpenCode` strengthens the one
usable code to all that are open.
`BoundsInv` has the counters, among them that a row of the outbox is leased more often
than there were faults only while the sweep that leased it works.

**Groups** (`GroupsProofs`). `GroupsInvariance` for `KnowledgeSpec`, which is groups and
publications together; from it `InvitationsAreSound` (`InvitationsSound`). Two creations
of an invitation for one address could both find none pending; that they cannot is
because the pending row is flushed while the lock is held, so the invariant says that
a creation whose mail was sent is alone with its address (`EntriesOnce`), that a call
that has read a row still names a row of the same address, and that what a resend
will write was mailed (`SoundCall`).
`PublicationsInvariance` gives `PublicationsAreSound` (`PublicationsSound`) and
`SearchIsAuthorized` (`SearchAuthorized`). An approval is several commits, and between
them rows it has read can be deleted. The invariant therefore says what still connects
them: a copy belongs to the base of its approval (`BaseSound`, `DocSound`), a request
refers to rows that exist (`AskSound`), an approval of a base writes to an id nobody else
knows (`ReviewSound`, `BasesApart`), and while no review was crossed by another change a
base has one request that is pending or approved (`OneRequest`). Without the last,
`PublishedOnce` is not inductive; without `ReviewSound`, the clean-up of a failed
approval might leave a document behind.

**Memories** (`ContextProofs`). `MemoriesInvariance`, `MemoriesAreSound`
(`MemoriesSound`) and `RecallIsGoverned` (`RecallGoverned`). The overlap of two handlers
of one row needs `SoundRequest`: what a handler may still write is a text that passed
the policy, and a deleted row can at most be made inactive again (`DeletedRows`).

**Workspace** (`ContextProofs`). `ErasureIsSound` (`ErasureSound`), from `WorkspaceInv`.
`OriginalsInv`: an original that the outbox or a sweep names is revoked, and one that is
revoked and not named is gone; for two sweeps of one row this needs `gone`. `SoleRun` and
`OutputsInv`: one run is at work, and while no removal crossed a run it selected no
attachment that was removed. `CopiesInv` ties the container to what the run has read and
mounted so far: unless a mounting was cut, the copies in it are those the workspace row
names, those that were revoked since, and those the outbox is about to erase.

**Summaries** (`HistoryProofs`). `ContextsAreSound` (`ContextSound`). `Transcript` says
that messages are numbered upwards and that the boundary of the stored summary lies between whole
turns; `OneRun` that one context is built at a time, so the transcript it started from
does not change under it; `SoundBuild` what the build has read, selected and covered.
`HistoryHonest` is a case analysis over the tail that is read: it is one row longer than
its ceiling, so either the boundary of the summary lies in the tail, or the selection is
shorter than the tail and the history is declared incomplete. That no reply on a removed
source is handed to the model or delivered is proved with the exception the code makes
(`OutOfScan`): a reply older than the scan that the summary in force did not cite; the
tail is shorter than the scan (`ContinuityAssumption`), so what is delivered word for
word is always masked (`EndIds`, `TailShort`).

**Session evidence** (`HistoryProofs`). `EvidenceInvariance` and `RecapsFailClosed`
(`RecapFailsClosed`): a record that fits its limit has all links, a record that does
not is incomplete and never recapped, and the links of a complete one contain
everything it was made from, over any chain of recaps (`SoundAnswer`, `SoundDraft`).

**Turns** (`AssistantProofs`). `AssistantInvariance` for `AssistantSpec`; from it
`TurnsAreSound` (`TurnSound`), and the action property `TextIsAuthorized`
(`NoForeignText`, the part of `NothingForeign` about turns). That a reply cites only
what the model read in its round is not inductive: a document may be edited between
the search and the reply, and again between the reply and its completion. `Current`
says of each chunk found that the model was given it in this round, or that its version
has been replaced since, in which case completion does not rehydrate it; for this,
versions never go back, and a turn that reads one whole document holds only chunks of
that document. `Settled` carries the person's choice from the answer to the reply,
`Asked` ties the questions to the refinements, and `Opened` says that what is open is
what was chosen, with nothing open in a turn that resumes with an answer about files.

**Direct runs** (`DirectRunsProofs`). `DirectInvariance` for `DirectSpec`; from it
`WiresAreSound` (`WireSound`) and `AnswersAreSingle` (`OneAnswerPerRun`). A request is
busy with a run while it executes it or once it has stored an answer to it. `Linked` says
that nobody is busy with a run that waits, so the claim of a resume makes its request the
only one, and uniqueness is inductive although several requests may have read the same
pause. `SoundAsk` ties the frames sent to the context and the invocation that the request
has recorded, which gives their order, and the last frame to what the request stored. A
stream that has stored its answer and still reports a failure is the case that needs
care: `Owed` shows that its run was reopened by a stop that had read the row earlier
(`late`), which `WireSound` allows and nothing else does.

`AnswersAreSound` (`AnswersSound`) adds `AnswerKept`: an answered prompt of the
transcript keeps an answer. Several requests may have stored an answer and still have to
remove the branch they read, so the inductive invariant `TurnsInv` speaks of all subsets
of them (`Kept`): whichever of them remove what they read, every answered prompt that
stays keeps an answer that stays, and no question that stays lies between the two. For a
commit to preserve this, what an active run answers must be current (`Fresh`): its
prompt is there, is removed by none of those that have still to remove, and everything
asked since is what its own regeneration removes. That rests on `OneActive` (the index
admits one active run), and is true only while no run is `late`, which is the premise of
`AnswerKept`.

Only model-checked: liveness (`WaitEnds`, `ListenerEnds`, `CapacityReturns`, `RunEnds`,
`SweepsFinish`, `MCRevokedErased`, `MCConversationFreed`, `MCTurnEnds`), because the
prover does not treat fairness, and with them the liveness half of the refinement
`LifecycleSpec` (its safety half is `LifecycleRefined`); and `EvidenceSound` with
`NoForeignHit` (the other part of `NothingForeign`), because the rankings, the fusion
and the packing of a search are folds over sequences, and what they compute for every
input needs induction over data. `MCBytesCounted` is `BytesCounted` on the part of an
instance in which one request writes each file; `StorageIsSound` proves `BytesCounted`
for the specification of which that is a part. `CancelledHasNoReply` is refuted, see the
next section.

## Findings

- **A late expiry overwrites a finished run** (`stale_expiry`).
  `prepare_conversation_run_resume` handles an expired question with
  `mark_run_cancelled`, which overwrites any status but `cancelled`. If another
  request answered in time and the run completed between the read and the write,
  a completed run becomes `cancelled` with its reply in the transcript.

## Observations

Behaviours of the code met while modelling. The models have them; the properties are
stated so that they allow them, and no run is about them.

Where a document says otherwise:

- An old reply on a removed document is summarized again. `hidden_source_message_ids`
  looks at the 128 newest answered runs and at those the stored summary cites
  (`conversations/continuity.py:487`). When the row of a longer conversation was dropped,
  by the removal of an attachment or a pruned branch, compaction starts from the oldest
  messages, and a reply that cites a removed document goes unmasked into the new summary,
  which the turn is given; `docs/product-chat-service/36-conversation-continuity.md:29`
  says that such details are filtered. `ContextSound` excepts these replies and no
  others (`OutOfScan`); without the exception TLC finds the summary at once.
- A rejection that found its request pending is written by its key (`api/groups.py:584`).
  An approval committed in between leaves its copy in the group while the request says
  `rejected`; the docstring (`api/groups.py:581`) says that the retrieval scope is
  unchanged. No part of `PublicationsSound` is about the status such a request ends with.
- Frames that are pruned between the check of a listener's cursor and the read of its
  frames are skipped in silence (`endpoints/durable.py:478`;
  `docs/product-chat-service/42-durable-answer-generation.md:106`). `FollowerSound`
  excepts a client to which this has happened (`skipped`).
- A regeneration reads the transcript before its run is admitted
  (`endpoints/replay.py:223`, `:160`). When another message or regeneration was
  completed in between, or one that was interrupted had left messages behind its prompt,
  the later pruning removes a question or an answer that is newer than what it read, and
  a prompt may be left without an answer; the docstring of the endpoint
  (`endpoints/replay.py:121`) promises a linear transcript. `AnswerKept` is stated for
  behaviours in which no regeneration is admitted on an outdated transcript
  (`Overtaken`); without that premise TLC finds the loss with four requests.
- An erased file can come back: a finalization is retried and published while the
  first write is in flight, and a ready file gets no settling time when it is deleted
  (`api/document_files.py:427`). `MCBytesCounted` is therefore checked where one
  request writes a file.
- A queued candidate overwrites a newer edit that was accepted between the load of
  its request and its lock (`knowledge/extraction.py:148`;
  `docs/product-chat-service/44-private-document-files-and-preferences.md:162`). The
  synchronous path is safe: its final commit compares the row with the same old text.
- A mounting that is cut after its copy was made leaves a copy of a file that is not
  selected (`document_workspace/service.py:559`;
  `docs/completed/conversation-continuity.md:31`); `CopiesExact` excepts it.
- A cancelled invitation can still be accepted by a call that checked it before
  (`groups/service.py:226`).
- The fallback to recent chunks comes only when every ranking is empty, not already when
  term matching is (`knowledge/retrieval.py:201`; `docs/implementation-tracking.md:185`).
- A turn over a whole document that also refers to a missing file replies with the
  statement of that limit, and keeps the prepared coverage of a document the reply does
  not use (`agents/general_assistant/graph.py:257`, `:335`).

Runs. A worker writes its `run_interrupted` frame even when the run was stopped after
it paused. A stop of a direct run that is written after the run's end reopens it as
`cancelling`; a stop between the last check and the commit is overwritten; the cleanup
of stale runs goes by `created_at`; a replay never looks for a stop, and commits its
completion before it prunes; resumed and replayed streams report `run_failed` when
something fails after the commit; a resumed stream has no `GeneratorExit` handler, and
an error of a resumed synchronous run leaves it running; `agent_events` has no
uniqueness; the deletion of checkpoints is best effort.

Documents. An edit whose session loaded `processed_at` as NULL does not write NULL, so
after a run that completed in between the edited text stays marked as processed.

Accounts. Reset and verification tokens are consumed by a read and a later write; a
rejection does not revoke sessions; unredeemed codes of an older generation survive the
erasure of their guest after a reset.

Groups. An approval overwrites a withdrawal, a rejection or a cancellation that was
committed while it copied; two overlapping approvals make two copies; a crash in an
approval leaves its copies visible; the cleanup of a failed approval fails when a grant
or a request targets its copy; after the deletion of a published copy its base cannot
be published again; `update_member` can leave a group without an owner, and no
endpoint removes a member; the staging base is selected and then inserted.

Workspace. `assert_no_active_run` is checked before it is acted on; an expiry sweep
during mounting loses the update of the map, and a later unmount gets a 404; an unmount
may be followed by a failed mount; outputs of a recreated container are queued under
the new container's id; `prune_transcript` drops output rows without queueing their
erasure; the cleanup lease has no token, but deletion is idempotent.

Context and memories. The masked ids are computed once, at the start of
`context_events`; a context that is abandoned because its run ended returns its
messages unmasked and without the note on missing history
(`conversations/continuity.py:282`), which `ContextSound` is not about; a confirmation and a rejection of one suggestion overlap; `auto_store`
has no caller in the API; a late projection leaves a deleted text in the store until it
is reconciled (a recall does not deliver it).

Retrieval. The shortlist is cut to five before the check for uniqueness; one text may be
injected twice through different sources; an edit that keeps the length passes the
offset check.

## Not modelled

Guest access is assumed to be enabled; manual-mode request rows, nicknames, mail texts,
hashing and cookies are left out. Uniqueness of names and the backfill scripts of groups
are left out, as are token counts, prompts and formats, vectors and tokenization,
excerpts and attachment links of recaps (all answers are assumed to be recorded, and
transcript text beyond the recaps is not linked). Parsers are byte parsing, out of TLC's
reach; settings, CLI, schemas, migrations and scripts are declarations or operator
tooling. Two reapers that deadlock in the database, an exception that ends a worker's
loop, and a provider call without a timeout are outside the models. The SQLite branches
(no row locks) are not modelled.

## Plan

1. Done: all modules of the table above, the twelve runs, and the proofs above.
2. What would come next: the lemmas about rankings and packing that `EvidenceSound` needs, once a
   prover for induction over data is at hand, and the modules of the parts not modelled.

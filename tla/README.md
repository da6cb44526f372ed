# ComfyUI render server: formal models

TLA+ models of the server under `server/app` of this repository, checked with
TLC and, for the job store, the render pipeline and its bounds, the socket
rooms, the assets, the rate limit, the registration of accounts and their
credentials, the workflow builder, the listing of jobs, the log tail and the
delivery of outputs, proved with TLAPS. Paths below are relative to `server/app`
unless they start with `server/` or `api_docs/`.

## The system

A FastAPI process takes render requests, a Celery worker executes them against
one ComfyUI server, and Redis holds the job records, the broker queue, the
Socket.IO message bus and the rate-limit counters. Users, API keys and assets
are rows of an SQL database; uploads and outputs are files.

| part | state | operations | what makes it correct |
|---|---|---|---|
| job tracker (`comfy/tracking.py`) | one JSON record per job in Redis, with a TTL | create; attach_task, mark_running, update_progress, mark_retrying, mark_completed, mark_failed, mark_cancelled, each a GET of the whole record and a SET of the whole record; is_cancelled, counts, listing | overlapping calls lose writes but never mix records; a cancellation, once no older copy is in flight, is final |
| workflow execution (`services/workflow_execution.py`, `comfy/websocket.py`, `comfy/client.py`) | local variables of execute_job | post a prompt, listen on a websocket, read the history, mark the job | a job is completed only with outputs that were rendered for it; every execution ends |
| Celery tasks (`queue/tasks.py`, `queue/celery_app.py`) | the broker queue, unacknowledged messages, revoked ids, retry count in the message | run execute_job, register outputs, retry, mark failed | retries and redeliveries bound the GPU work; a failed job is over unless its message is put back |
| queue service (`queue/service.py`) | none | submit (create, publish, attach_task, emit), cancel (read, revoke, interrupt, mark, emit), monitor | a cancelled job is not rendered again |
| ComfyUI (external) | prompt queue, history, one running prompt | POST /prompt, POST /interrupt, GET /history, websocket | one prompt at a time; interrupt names no prompt |
| socket rooms (`socket/`) | rooms per connection, live events | connect, disconnect, subscribe, unsubscribe, emit | a subscriber ends with the job's current status; no entry outlives its connection |
| asset storage (`storage/`, `models/asset.py`) | files and rows | upload, register output, delete, cleanup, list | no row without a file; one row per path, as a string: two spellings of a path are two rows of one file |
| accounts (`auth/`, `dependencies.py`) | users, API keys, issued tokens | register, authenticate, create key, resolve a token or a key to a principal | one row per email; the first user is administrator, a late one never; what is revoked stays out, and no rights come from nowhere |
| rate limit (`core/rate_limit.py`) | one counter per client and path, 60 s TTL | INCR, EXPIRE | a window ends; the limit is not exceeded in it |
| workflow templates (`workflows/`) | JSON files | load, inject parameters | the graph holds what the map or the conventions say; the build fails exactly on broken map entries, keys and LoRAs, and passes over all else |
| outputs (`comfy/outputs.py`, `comfy/client.py`, `main.py`, `queue/tasks.py`) | files in ComfyUI's directories | parse a history, build URLs, register files, proxy a download; nginx serves the same directory by an alias | no output is lost; the URL of an output serves that output, escapes included, from the backend and from nginx |
| listings (`comfy/tracking.py:109-160`, `api/v1/monitoring.py`) | none | windows and counts | pages partition the list; the tail is the file's last lines |
| lifecycle, database, health, configuration | connections | start, stop, probe | everything opened is closed |

Interactions: the API handlers call the tracker and publish to the broker; the
worker calls the tracker, ComfyUI and the event bus; cancel reaches the worker
through a revoke broadcast and through the record that every
`_raise_if_cancelled` reads; ComfyUI answers over HTTP and tells the listener
over a websocket. What is hard is that none of these is synchronised with any
other: the record is read and written back in two commands, the task is
published before the record knows its task id, the retry is published before
the failed attempt is acknowledged, the websocket is connected after the prompt
is posted, and the interrupt hits whatever prompt runs. `PROJECT.json` lists
each such hazard at its line, with the properties that watch it.

## Modules

**JobTracker** models `comfy/tracking.py`. `store` is Redis, `pend[c]` the
edited record a caller has not written yet, `created` the ids `uuid4` handed
out. Each operation is an action with the guard and the edit of its method,
built from `Fetch` (GET, `_require_job`, early return, edit) and followed by
`Save` (the SET of the whole record). `Drop` loses edits (a process dies, a SET
fails), `Expire` is the TTL. A record keeps its status, task id, prompt,
retry count, outputs and error; mode, timestamps and progress numbers tell no
property anything. Outputs are represented by the prompt they were parsed from,
`NoPrompt` being the empty list, with which a job may be completed too, since
`parse()` finds no media in some histories; errors are represented by their presence.

**RenderQueue** models the pipeline. It instantiates JobTracker as `Tracker`;
its clients are the processes:

* `Submit(j)`, `Cancel(j)`: one request each of `QueueService.submit` and
  `cancel`; cancel keeps nothing of the record it read but the decision to
  revoke and to interrupt.
* a direct job `d` is its own runner: `POST /execute`, running execute_job in the
  API process with `mark_failed_on_error=True`. Its `EmitQueued` comes before the
  try of execute_job, so a failure there leaves the record queued.
* workers: `Deliver` takes a message, `ExecuteJob` is execute_job,
  `OnFailure`/`MarkRetrying`/`Retry`/`MarkFailed` are `_handle_task_failure`
  and `_mark_task_failed`, `Register` is `_register_output_assets`, `Ack` the late
  acknowledgement.

`pc` names the await a process is at. A step is one Redis command, HTTP call or
message; a tracker call is two steps, and the process moves on only after its
`Save`. Emitting an event other than job_completed or the job_queued of `POST
/execute` is folded into the step before it, because nothing in the model reads
those events; a failure of the emission is a `Raise` after that step. The
`except` clause of execute_job in a worker only decides the wording of the
exception, so it is folded into `_handle_task_failure`. The broker delivers
messages in any order (retries wait for a countdown), which includes FIFO.

External parts are modelled from the settings and the calls. A message is put
back in two ways: a worker is lost with it unacknowledged (`WorkerLost`:
`acks_late`, `task_reject_on_worker_lost`), or it stays unacknowledged longer than
the `visibility_timeout`, which is the task's time limit, while its worker lives
and goes on (`Restore`). The worker has a prefetch multiplier of 1, so what it holds
unacknowledged is the message it executes, or a retry that waits for its
countdown and then, fetched already, for another render; these are the guard of
`Restore`. `redeliveries` counts both. A hard time limit kills and acknowledges; a
revoke is a broadcast, remembered in worker memory, that kills a running task
in the prefork pool and cannot in the solo pool of `start-worker.bat`, so both
happen. ComfyUI runs one prompt at a time, tells only the websocket connected
for that prompt, and can also be interrupted from its own page.

`Raise` is an exception out of any await (Redis, ComfyUI, the event bus, the
database) or the soft time limit; `ApiRestart`, `HardTimeLimit`, `Expire` and
lost answers of queue_prompt draw on the same bound `MaxFaults`.

Definitions whose comment starts with *Variant* are not part of the system:
each is the definition after it with one plausible mistake, used to show that a
property would notice.

**SocketRooms** models `socket/`. It instantiates JobTracker too; its publishers
stand for every handler and worker and may make any tracker call in any order,
which includes what RenderQueue does. What it keeps of them is that the event of
a call is emitted by the same process after the call (`Announce`, `Save`,
`Emit`). Handlers of one connection are asyncio tasks of their own (the default
of Socket.IO's server), so a subscription can still run when its client is gone
and `disconnect` has popped its entry. The lock of the manager is never
contended, since nobody awaits while holding it, and does not appear. The Redis
channel carries live events and snapshots in the order of their publication;
a message can be lost when the listener reconnects.

**AssetStorage** models `storage/`: one action per database statement, chunk or
unlink of `store_upload`, `register_output`, `delete_asset` and
`cleanup_expired_uploads`. The path of an output is a file and a spelling
(`a.png`, `./a.png`): look-up and unique column compare the pair, as the code
compares strings, and `resolve` names the file, which is what is read and
unlinked. `pc` names what a request awaits, `rows` are the committed rows (a
session sees only those), `files` the chunks on disk. `Raise` is an exception
out of any await, `ApiRestart` ends the requests of the API and not the
registrations of the worker. Deleted rows come back never, since ids are fresh;
names of outputs do, when ComfyUI saves again under the name of a deleted file
(`Rendered`).

**RateLimit** models the middleware: `Incr` and `Expire` are the two commands,
`Tick` is time as Redis sees it. `recent` remembers the requests let through in
the last `Window` ticks, to state the limit for a sliding minute.

**Accounts** composes RateLimit with `AuthService.register_user`: a request the
middleware lets through registers, and ends with the handler. `seen` and `first`
are kept for the properties only.

**WorkflowInjection** models `workflows/`: `Load` is the loader and the clone,
`SetMappedValue`, `VisitNode`, `InjectLora` and `InjectExtra` are one turn of each
loop. A value is represented by where it comes from (the template, a parameter,
the k-th LoRA or extra parameter), which is all the injector's code depends on.
`Written` and `Broken` are the reference: what each input has to hold and what
cannot be built, defined by quantifiers over the template and the request
without following the loops.

**JobListing** models `list_jobs` and `count_by_status`: SCAN returns keys in
batches (`Scan`), each key is read by a GET of its own (`Read`), and records are
written, made and expire in between (`Change`). Of SCAN it assumes what Redis
promises: a key that is there from start to end comes, perhaps repeatedly. Text
that is no record (`Unreadable`) is passed over. A limit is at least 1, since the only
caller is the route, which refuses less.
`there` and `matching` remember the jobs that stayed; `before` is the page
before. A record is its status and `updated_at`. The sum of the counts is the size
of their disjoint union (`Counted`).

**LogTail** models the log tail: `Stat` takes the size, `ReadChunk` is one turn of
the backward loop, `Answer` decodes and selects, and the server logs on (`Log`). A
buffer is the interval of positions it was read from, since the file only
grows, and a list of lines is the positions they begin at. Carriage return, line
feed and a character that only `str.splitlines` ends a line at are told apart,
because the loop counts lines in bytes and the answer in text.

**OutputDelivery** models the way of an output: `Parse` is `comfy/outputs.py`,
`RegisterNext` one turn of `_register_output_assets`, `FollowUrl`, `ServeLocal` and
`ServeFromComfyUI` the proxy of `main.py` with its fallback to ComfyUI, `ServeAlias` the
`/outputs/` of `server/nginx/nginx.conf`. Paths are
sequences of parts; ComfyUI may or may not save where the server looks
(`shared`), and files vanish at any time. `Without` and `Follow`, the filters and path
resolution, are recursive functions, so that TLC computes with them and the
proofs can take them apart. `quote` writes an escaped name for one with reserved
characters (`Escapes`; no two names share an escape), and routing and nginx undo it
(`unquote`); `url_for` of an asset does not quote. A URL leads to one of two doors:
the backend's port, where the proxy answers, or that of nginx, whose alias
(`ServeAlias`) shows the same directory and never asks ComfyUI. `DeliveryInputs`
assumes of a history what its JSON may hold once malformed items are told apart,
that a file which ComfyUI saved is not named `.` or `..`, and that a name that looks
escaped holds a reserved character itself, the percent sign, so that it has an
escape of its own.

**Credentials** models tokens and API keys: `Authenticate` issues a token,
`PresentToken`/`GetUser` and `PresentKey`/`Touch` are the statements of the two ways to
a principal, `CreateApiKey`/`Commit`/`AnswerKey` those of the administrators' route.
`DeactivateUser`, `DeactivateKey` and `Demote` are the operator's: the tables have the
columns and the code has no operation. `Touch` writes one column, as the ORM's
unit of work does for a row of which one attribute was set. A secret is known
once its only answer was given (`told`); an expired token does not come in, for
`decode_access_token` raises.

**RequestMachines** puts WorkflowInjection, JobListing, LogTail, OutputDelivery and
Credentials side by side. They share no state; the module declares what each is
given, assumes of it what a template file, a request, a store, a log file, a
history and ids look like (`InputsAssumption`), and names the properties of all five. In
`MachinesSpec`, `machine` picks the one that moves, so a property of the run speaks
about that one. **MCRequests** gives the constants small values for the run.

**JobTrackerProofs**, **RenderQueueProofs**, **SocketRoomsProofs**, **AssetStorageProofs**
and **AccountsProofs** hold the theorems about the modules they
are named after. **RenderBoundsProofs** builds on RenderQueueProofs and counts copies and
renders; **DeliveryProofs** is about the delivery of outputs, **RequestProofs** builds on it
and is about the other machines of RequestMachines and the five together.

## Runs

| run | instance | what it shows |
|---|---|---|
| `tracker` | 1 job, 2 clients, 2 prompts, outputs or none, 1 retry | types, coherent records, finality of a settled cancellation, no downgrade of a completed job but by a stale copy |
| `cancel_retry` | 1 queued job, 1 worker, 1 cancel, 1 retry, 1 fault, fair | the pipeline implements JobTracker; a settled cancellation stops rendering for good; a failed job is over; work drains, also when a revoke kills the task, a cancellation goes unseen, or a time limit cuts an update in two |
| `lost_worker` | 1 queued job, 1 retry, 1 message put back by a lost worker or by the visibility timeout, fair | types; at most (retries+1)(redeliveries+1) renders; at most one more copy of a task per message put back; work drains |
| `shared_comfyui` | 2 direct jobs, one cancelled, fair | the global interrupt and the shared prompt queue never give a job outputs, or a job_completed event, that were not rendered for it, and each created job reaches completed, failed or cancelled |
| `terminal_not_final` | 1 queued job | violated: a terminal status is overwritten by attach_task |
| `completed_then_failed` | 1 queued job, 1 retry, 1 fault | violated: a completed job ends failed |
| `rendered_not_reported` | 1 direct job, fair | violated: a rendered job ends failed because its completion message was sent before the websocket was open |
| `storage` | 1 upload of up to 2 chunks, 1 output file with 2 spellings of its path, 2 registrations (one by the worker), 1 delete, a repeated cleanup, 1 fault, fair | rows have their files, no upload is orphaned, the removed stays removed, one asset per path string, each but where a failure, an overlap or a second spelling the property names explains it; cleanup repairs expired uploads |
| `socket_rooms` | 1 job, 2 publishers, 1 connection, 2 calls, 3 tracker calls, 1 fault | who is in a job's room learns how it ended, from the event or the snapshot; no entry outlives its connection but through a call that was late |
| `accounts` | 2 requests at a time, 1 client, limit 2, 3 ticks a window, 2 emails, 1 fault, fair | one row per email; the first user is administrator and late ones are not; at most twice the limit in any minute; a counter ends unless a command failed |
| `workflow_and_requests` | five machines: 343 templates of 3 nodes of 7 kinds, 279 mapped ones of 2 nodes and up to 2 targets, 63 requests; 3 jobs, with readable records or one that is not, 2 statuses, 3 times, limits 1 and 2, offsets 0 and 2, 1 write, 1 repeated key; log files of up to 5 characters growing to 6, chunks of 2, a limit of 3; histories of 1 node with up to 2 images of 10 forms, or with videos and gifs, or of 3 nodes; 2 users, 2 keys, 2 requests, 1 token | the injector's result is the reference's and it fails exactly where the reference says; a job that stays is listed and counted, and two pages of a store at rest fit together; the log tail is the last whole lines; every well-formed output is parsed once, in order, and its URL at either door and its asset are that file; a revoked credential is not let in, and without an administrator nobody gets such rights or a key |
| `two_administrators` | as `accounts` | violated: two overlapping first registrations both make an administrator |

Bounds. `MaxRetries` is 1 (the setting's default is 2): one retry already gives
an attempt that is not the first and one that is the last. One worker is the
deployed concurrency; two executions of one job then overlap only where a second
worker is started, which the theorems cover. One cancellation per job, since a
second finds a cancelled record. `MaxRedeliveries` (messages put back, in either
way) and `MaxFaults` of 1 give every single failure at every point. The number
of prompts is not bounded by a guard: `RenderBudget` says that it is bounded,
and `PromptIds` is what that bound allows. Two clients suffice for the tracker's
races on one job, since a GET and a SET involve one record and one caller; the
theorems remove the bound. `CHECK_DEADLOCK FALSE`: requests end and the system
then rests (in `accounts` time goes on, and deadlock is checked). In `storage`
one upload is enough for rows against files, since no two uploads share a path;
two registrations are needed for one path, and two spellings for one file. In
`socket_rooms` a connection's room membership depends on no other connection,
two calls give every overlap of a subscription with another one or with an
unsubscription, and three tracker calls let two publishers overwrite each other
and end the job. In `accounts` two requests give the overlap, and the limit of 2
lets both through; the counter stops at Limit + 1 because the code compares it
with 1 and the limit only, so clients may ask without end. In
`workflow_and_requests` three nodes let two nodes of one kind and one of another
meet in every order, and two targets or extras let writes of one input follow
each other; the loops treat each node and target alike, so longer ones add no
new case. Three jobs fill one page, two, or one and a half, one write can
remove, change or revive any job at any point of a scan, and the offset of 2
with a limit of 2 goes past the end. Five characters and chunks of two put a
chunk border before, inside and after every end of line; `MaxBytes` 3 is no
multiple of the chunk and smaller than the file. The forms of an image are an
ordinary one, one in a subfolder, a temporary one, a malformed one, subfolders
with empty parts, dots and dot-dots, and names that have to be escaped or look
escaped. Two requests let a key be touched by one while another comes in with
it, and two users make the last administrator differ from the one that is left;
`TokenLife` and `MaxClock` of 1 give a token that is valid and the same one
expired.

Fairness (`FairSpec`): weak fairness of each process's own steps and of its SETs,
of the broker's delivery, of ComfyUI starting and ending prompts, and of
`ListenTimeout`, which `asyncio.wait_for` guarantees. In `storage`, a request that
has started goes on; nothing schedules the cleanup in the code, so
`ExpiredUploadsGo` takes its repeated call as a premise. In `accounts`, time
passes and the middleware's EXPIRE is sent. Nothing is assumed of
websocket messages, users, or faults. A progress loop cannot starve the end of
a prompt or the timeout, as both stay enabled through it.

## Proofs

`JobTrackerProofs` proves, for any sets of jobs, clients and prompts and any
retry limit, from the assumptions of JobTracker (`NoPrompt` is no prompt, the
limit is a natural number):

* `TypeCorrect`: `Spec => []TypeOK`.
* `AlwaysCoherent`: `Spec => []RecordsCoherent`.
* `CancellationIsFinal`: `Spec => CancelIsFinal`.
* `CompletionKept`: `Spec => CompletedNotDowngraded`.

The argument has one lemma about the code, `CallEdits`: every operation but
create either leaves the copies in flight alone or adds one that is `Allowed` by
the record it was read from (cancelled stays cancelled, completed does not turn
retrying or failed, coherent stays coherent). The inductive invariant is
`TypeOK /\ RecordsCoherent`: it must speak of the copies in `pend` as well as of
Redis, because `Save` installs a copy made many steps earlier. `CancelSettled`
is itself inductive under `TypeOK`; this is why it mentions the copies.

`AccountsProofs` proves, for any sets of requests, clients and emails:

* `EmailsUnique`: `Spec => []OneUserPerEmail`.
* `FirstUserAdministers`: `Spec => []FirstIsAdmin`.
* `LateUsersDoNot`: `Spec => []LateIsNoAdmin`.
* `AtMostTwiceLimit`: `Spec => []TwiceLimit`.
* `AccountsAreTyped`: `Spec => []TypeOK`.

The invariant that carries them is `CountsAreTrue`: rows only come, so what a
request has seen stays true, a count of zero may be out of date and a positive
one cannot. Every action but `Commit` leaves the table alone (`TableUntouched`);
`Commit` inserts only where no row has the email, and the row it inserts first
belongs to a request that counted none.

The rate limit has an argument of its own, for any limit and window of at least
one (`LimitAssumption`). A request let through is a token at the tick it came, so
a sum over ticks is the cardinality of a set of tokens. `Within` says of each client
that the requests of the window are at most those its counter has counted
(`Used`) and as many again as the limit: a counter before the current one cannot
have let more than the limit through, and what the one before that let through is
out of the window when it goes. That needs the age of the counter (`Young` are the
ticks since its EXPIRE), and `CountersInv`: a counter without a time to live has at
most one request on its way to send EXPIRE, and a counter that is gone has no time
to live. A counter whose EXPIRE failed never ends and lets no more than the limit
through, so the bound holds with faults too.

`RenderQueueProofs` proves, for any jobs, workers and bounds, from
`BoundsAssumption` and `SentinelsAssumption` of RenderQueue (the bounds are natural
numbers; `NoJob`, `Idle` and `NoTask` are no record, write or message):

* `PipelineImplementsTracker`: `Spec => Tracking!Spec`, where `Tracking` is JobTracker
  with every positive number as a prompt, and the handlers, workers and
  cancellations of the pipeline as its clients.
* `PipelineIsCoherent`, `PipelineCancelIsFinal`: the theorems about JobTracker,
  carried over.
* `CompletedWasRendered`: `Spec => []CompletedIsRendered`.
* `CompletionAnnouncedTruly`: `Spec => []CompletedEventIsTrue`.
* `CancelledNeverRenders`: `Spec => CancelledStaysQuiet`.

The refinement rests on `WorkInv`: a runner has posted a prompt where it marks its
job running or completed, and has retries left where it marks a retry, which is
what the operations of JobTracker ask for. `TrackerStep` then takes the actions
one by one: each is an operation of the tracker or leaves the records alone. The
invariant about rendering is `RenderInv`: whoever claims that a job is completed
(the record, a copy on its way, a runner about to mark or to announce, a room
that was told) names a prompt of this job that ended with success. `PromptsStay`
is why such a claim stays true: ComfyUI's history is only added to. For
`CancelledStaysQuiet`, `NothingPosted` says that only a runner at `queue_prompt` posts,
and a runner gets there through the look at the record that finds the
cancellation.

`RenderBoundsProofs` proves, from the same assumptions:

* `CopiesStayBounded`: `Spec => []CopiesBounded`.
* `RendersStayBounded`: `Spec => []RenderBudget`.
* `FailedStaysOver`: `Spec => []FailedIsOver`.
* `PipelineIsTyped`: `Spec => []TypeOK`.
* `PipelineImplementsBounded`: `Spec => ImplementsTracker`, the refinement as the run
  checks it, with no more prompt ids than `PromptIds`.

The first three count with the same tokens. A message with `k` retries behind it
carries the tokens `F[k]`, a worker those of what it may still do (`Stage`), a
job that is not published yet those of `F[0]`. `TokensFall` is the one lemma
about all actions: tokens never become more, except that a message put back, by
the loss of a worker or the visibility timeout, adds at most `F[0]`. With one
token everywhere (`CopySpan`) the total is at least the copies of the task; with
a token for each attempt left (`AttemptSpan`), it is what the job may still
post, and a post spends one (`PostTakesToken`), so posted prompts and tokens
together stay within the budget (`BudgetInv`). `FailInv` strengthens
`FailedIsOver`: as long as no message was put back, a failed record of a queued
job, in Redis or on its way, means that no token is left, since mark_failed is
called by the one copy there is and is the last thing it does. `BrokerInv` is
what these need of the broker, that a retry is only published while attempts are
left. The types come last, because the prompt ids in records are typed only by
the budget: `TypeInv` is inductive relative to `RenderBudget`, and with it each
step is a step of the tracker that knows only those ids.

`SocketRoomsProofs` proves, for any jobs, publishers, connections, calls and
bounds, from the same kind of assumptions:

* `RoomsAreTyped`: `Spec => []TypeOK`.
* `EntriesEndWithConnection`: `Spec => []EntriesEnd`.
* `EndIsNotMissed`: `Spec => []NoMissedEnd`.

`NoMissedEnd` speaks of a job about which nothing is on its way, and is not
inductive. `TellInv` says where the news of an end is before that: heard, with the
publisher that wrote the record and still has to emit, in the channel, or with a
call of that connection that is about to read the record or has read it
(`Coming`). A step moves the news on or counts the job among the missed. The
parts about `pend` are what the order of write and event in the code gives: a
closing copy that is still to be written has its event behind it.

`AssetStorageProofs` proves, for any uploads, outputs, registrations, removals and
chunks, from `RequestsAssumption` (the sets of requests are disjoint, the bounds
natural numbers):

* `StorageIsTyped`: `Spec => []TypeOK`.
* `RemovedStaysGone`: `Spec => []RemovedIsGone`.
* `OrphansExplained`: `Spec => []NoOrphanUpload`.
* `OneAssetPerOutput`: `Spec => []SameAsset`.
* `ListedHasFile`: `Spec => []RowHasFile`.

The invariant is `StorageInv`: types; what an upload, a registration and a
removal hold at each await; and `Committed`, that a row anybody has read comes
from a request that has committed and will not do so again, which is why the
removed stays removed. `SameAsset` and `RowHasFile` each need one part more:
`AnswersAreSound` (an answered asset is still the row of its path unless a
removal read it) and `FilesAreSound` (as long as nothing failed, every row is
whole or a removal of its file, under its path or another spelling of it,
explains it).

`RequestProofs` proves, of the machines of RequestMachines, the workflow builder
for any templates and parameters of their shapes (`WorkflowInputs`), the listing for
any finite set of jobs and any statuses, times, limits and offsets (`ListingInputs`),
the log tail for any file, chunk size and byte limit (`LogInputs`), the
authentication for any users, keys and requests (`AccessInputs`: the token's life
and the bound on time are natural numbers, and no id is both a user's and a
key's), and the five side by side:

* `BuildFailsIffBroken`: `Spec => []FailsIffBroken`.
* `BuildIsReference`: `Spec => []Injected`.
* `StandingAreFound`: `Listing!Spec => []StandingJobsFound`.
* `PagesFitTogether`: `Listing!Spec => []PagesFit`.
* `TailIsTheEnd`: `Log!Spec => []TailIsTail`.
* `AccessEnds`: `Access!Spec => []RevokedAreOut`.
* `AccessStaysAway`: `Access!Spec => NoRightsReturn`.
* `BuilderIsTyped`, `ListingIsTyped`, `TailIsTyped`, `AccessIsTyped`: each machine's
  `Spec => []TypeOK`.
* `MachinesAreTyped`: `MachinesSpec => []MachineTypeOK`.
* `MachinesKeepTheirPromises`: `MachinesSpec` implies all of the properties above, and
  those of DeliveryProofs.

They rest on `InputsAssumption`, the conjunction of what each machine is given,
which TLC evaluates for the small instance of the run.

The builder's proof is that of its loops: `Progress` says what each has seen so far
(all of it was fine; the nodes collected are those of their class, in order),
`CloneInv` what each input of the graph holds when a loop is at its `i`-th turn
(`ByMap`, `ByConvention`, `ByText`, `ByLora`, `ByExtras`), and at the end these are
the reference. The last of several writes to one input is the greatest turn that
targets it, which is how a loop's order and a quantifier meet.

The listing's `ScanInv` says that a job which stood throughout and was returned by
SCAN is read or waits for its GET, that records stay at most as many as keys
returned, and that what stood throughout is still there. `PagesInv` adds, for a store
that nobody writes and a SCAN that repeats nothing, that each record read is the
job's one record; a page is then a window of the standing jobs by their
position, newest first (`Position`, a count of those no older), so that two pages
from two scans can be compared. `PositionsFill` and `WindowsFit` are the lemmas:
positions run from 1 to the number of jobs, and windows that follow each other
share none and skip none.

The tail's `TailBase` says that what was read and what is before it make up the file
as it was at `stat`. `AnswerIsTail` is the argument: the loop stops at the file's
beginning, with more line feeds than lines asked, or at the byte limit; only
the last can cut a line, and that line is the answer's first.

The authentication's invariant is `AccessInv`: types, `CallsAreSound` (what a request
holds at each await: a user before the look-up, a key before its touch, an
administrator's rights before the commit) and `RowsAreSound` (nothing the server
writes makes a revoked row active again). `RevokedAreOut` needs both: a late
request with a token is refused only because the row it finds is still
inactive, and that holds only because `Touch` writes a single column. `AccessLeave` is
the one lemma for all ways a request ends; `RightsStep` is the action property,
where a key never gives rights and a token gives those of its user's row.

The types of the machines lean on those invariants. The builder's, that every value
in the clone comes from the template or from what the request gives
(`BuilderTypes`), needs of the request that its prompt is never None, which the
schema makes a string: the prompt is the one parameter written without a look.
`MachinesRun` says that each machine runs beside the others as it does alone, which
carries every theorem over to the specification of the run.

`DeliveryProofs` proves of the delivery of outputs, for any histories as
`DeliveryInputs` says:

* `OutputsAreParsed`: `Delivery!Spec => []ParsedOutputs`.
* `UrlsServeOutputs`: `Delivery!Spec => []UrlServesOutput`.
* `DeliveryIsTyped`: `Delivery!Spec => []Delivery!TypeOK`.

What the parser and the paths compute is a matter of recursive functions over
sequences, and needs induction. The library's induction theorems take the
property as an operator, which the provers cannot instantiate; here it is the set
of numbers, or of sequences, that have it (`NumberInduction`, `SequenceInduction`), and
both follow from the fact that a set of numbers has a least one (`LeastExists`, from
`NatLessThanWellFounded`). The lemmas about `Without`, `Follow` and `FlattenSeq` give their
equations: what they make of an empty sequence and of one more element. With them
`GroupIs`, `NodeIs` and `ParseIs` follow the parser from a list to a node to the
history: the well-formed items, all of them, in order. `UrlIs`, `UrlLeads` and
`RelativeIs` do it for paths: a URL as built, the same URL with its dots resolved, and
the path the worker registers all lead to the file, whatever empty parts or dots
the subfolder has, as long as it does not ascend. `QuoteIs` and `QuotedKept` say that
quoting is undone and turns no part into a special one, and `UrlQuoted` carries the
equations of paths over to escaped ones.

The invariant is `DeliveryInv`. `ParsedInv` says what the outputs are;
`RegisterInv` that each output before the current turn is registered under a
path that leads to its file, with the same URL if nothing in it is escaped, or
was skipped, and skipped only if its file is not there; `ClientInv` that a
request under way asks for its output's file, and has lost it if it is no longer
stored. The last part is what makes `UrlServesOutput` inductive: a file may
vanish between the look at the local directory and the question to ComfyUI.
`AliasKeeps` is the step of nginx, which resolves the whole path of the URL
before it looks below its alias.

Only model-checked is liveness (`ExpiredUploadsGo`, `CounterEnds`, `WorkDrains`,
`DirectSettles`), since the prover does not handle fairness or ENABLED. Every other
property of a passing run is a theorem.

## Plan

1. JobTracker, RenderQueue and the theorems about JobTracker (done).
2. SocketRooms: subscriptions, snapshots against live events, disconnection (done).
3. AssetStorage: files against rows under upload, registration, deletion, cleanup,
   restarts and failing statements (done).
4. RateLimit and Accounts with the theorems about registration (done);
   Credentials with the theorems about revocation and rights (done).
5. WorkflowInjection against its reference, the log tail against a file that
   grows, list_jobs and count_by_status against jobs that change, outputs from
   the history to the download (done).
6. Proofs: the pipeline implements JobTracker and renders what it reports; the
   invariants of rooms and storage (done).
7. Proofs: copies, renders and failures of the pipeline for any bounds, and with
   them its types and the bounded refinement; twice the limit; the builder
   against its reference; listing and log tail (done).
8. Proofs: the delivery of outputs, by induction over the parser's loops and the
   parts of paths; the types of the five machines and their composition (done).
9. Left: the start and stop of the application.

## Not modelled

* Token signing and password hashing: library calls without state. That a
  malformed or expired token raises an error of the JWT library that no handler
  turns into a response, where `api_docs/openapi.yaml:366-367` promises a 401, is
  not a state of any model: such a request just does not come in.
* Which characters `quote` escapes and how: `Escapes` is a table from names to what is
  written for them. The content types, caching and `/uploads/` of nginx.
* `list_assets`, `get_asset` and the gauges of the queue monitor, which change nothing.
* Previews, progress numbers and the events that carry them: nothing depends on
  them.
* The start and stop of the application, connections, health probes,
  configuration, logging and schemas: straight sequences and declarations.
* The `cancel` of the execution service, which no route calls, and Celery's
  result backend, which is written and never read.

Things the models make visible and no property claims: outputs of type `temp`
have URLs without their type, so the proxy does not find them
(`UrlServesOutput` excepts them); a subfolder that the path check refuses (`/`,
`..`) ends the loop over all outputs and fails a task whose render succeeded
(`RegisterNext`); `truncated` may be false although lines were left out, when the
whole file was read, so `TailIsTail` states one direction only.

---------------------------- MODULE RenderQueue ----------------------------
(***************************************************************************)
(* The render pipeline: the API handlers that submit, execute and cancel   *)
(* jobs (server/app/queue/service.py, services/workflow_execution.py), the *)
(* Celery workers that run render_workflow (server/app/queue/tasks.py),    *)
(* the broker between them and the ComfyUI server they drive.  All of them *)
(* share the job records of JobTracker, instantiated as Tracker.           *)
(*                                                                         *)
(* A step is what one process does between two awaits that others can see: *)
(* one Redis command, one HTTP call, one message.  A tracker call is two   *)
(* steps, its GET (Tracker!Fetch) and its SET (Save); the process goes on  *)
(* after the SET.  Broker, Celery worker and ComfyUI are external and are  *)
(* modelled from the settings and calls in src.                            *)
(***************************************************************************)
EXTENDS Naturals, Sequences, FiniteSets

CONSTANTS
  Queued,           \* jobs submitted to the queue
  Direct,           \* jobs run inside the API process by POST /execute
  Workers,          \* Celery worker processes, one task at a time each
  Cancels,          \* jobs somebody cancels, once
  MaxRetries,       \* celery_task_max_retries
  MaxRedeliveries,  \* bound on messages put back: a lost worker, visibility_timeout
  MaxFaults,        \* bound on failing awaits, time limits, expiries, API crashes
  NoJob, Idle, NoTask

Jobs == Queued \cup Direct
Submit(j) == <<"submit", j>>
Cancel(j) == <<"cancel", j>>
Runners == Workers \cup Direct
Procs == Runners \cup {Submit(j) : j \in Queued} \cup {Cancel(j) : j \in Cancels}

Messages == [job : Queued, retries : 0..MaxRetries]
PromptIds == 1..(MaxRetries + 1) * (MaxRedeliveries + 1)

ASSUME BoundsAssumption ==
  /\ MaxRetries \in Nat /\ MaxRedeliveries \in Nat /\ MaxFaults \in Nat
  /\ Cancels \subseteq Jobs /\ Queued \cap Direct = {} /\ Workers \cap Jobs = {}

VARIABLES
  store, pend, created,  \* the job records: see JobTracker
  pc,            \* where each handler, worker or direct execution stands
  task,          \* worker -> the unacknowledged message it executes, or NoTask
  at,            \* runner -> prompt_id of its execute_job, a number per job
  told,          \* runner -> the closing websocket message it has received
  queue,         \* message -> copies of it in the broker, or held by a worker
                 \* that has not started them (a countdown, the prefetch)
  revoking,      \* revoke broadcasts under way to a worker
  revoked,       \* task ids in the memory of a worker
  prompts,       \* job -> state of each prompt ComfyUI accepted for it
  announced,     \* jobs whose room was sent job_completed
  redeliveries, faults

Tracker == INSTANCE JobTracker WITH
  Clients <- Procs, Prompts <- PromptIds, NoPrompt <- 0

(* The same with no bound on the numbers of prompts, for the proofs. *)
Numbered == INSTANCE JobTracker WITH
  Clients <- Procs, Prompts <- Nat \ {0}, NoPrompt <- 0

ASSUME SentinelsAssumption ==
  NoJob \notin Numbered!TrackedJob /\ Idle \notin Numbered!Write /\ NoTask \notin Messages

tracker == <<store, pend, created>>
broker == <<queue, revoking, revoked>>
comfy == <<prompts, told>>
budget == <<redeliveries, faults>>
vars == <<tracker, pc, task, at, broker, comfy, announced, budget>>

JobOf(r) == IF r \in Workers THEN task[r].job ELSE r

Execution == {"start", "queue_prompt", "check_queued", "mark_running", "connect",
              "listen", "progress", "check_done", "history", "mark_completed",
              "emit_completed", "stop"}
Handling == {"except", "mark_retrying", "retry", "mark_failed", "publish", "attach",
             "interrupt", "mark_cancelled", "emit_queued"}

Init ==
  /\ Tracker!Init
  /\ pc = [p \in Procs |-> IF p \in Workers THEN "idle" ELSE "new"]
  /\ task = [w \in Workers |-> NoTask]
  /\ at = [r \in Runners |-> 0]
  /\ told = [r \in Runners |-> "nothing"]
  /\ queue = [m \in Messages |-> 0]
  /\ revoking = {} /\ revoked = {}
  /\ prompts = [j \in Jobs |-> <<>>]
  /\ announced = {}
  /\ redeliveries = 0 /\ faults = 0

-----------------------------------------------------------------------------
(* Steps of a process that has no SET outstanding. *)
Move(p, from, to) ==
  /\ pc[p] = from
  /\ pend[p] = Idle
  /\ pc' = [pc EXCEPT ![p] = to]

(* A tracker operation on job j: KeyError when the record is missing. *)
Call(p, j, from, Operation, next, missing) ==
  /\ Move(p, from, IF store[j] = NoJob THEN missing ELSE next)
  /\ IF store[j] = NoJob THEN UNCHANGED tracker ELSE Operation
  /\ UNCHANGED <<task, at, broker, comfy, announced, budget>>

Save(p) == Tracker!Save(p) /\ UNCHANGED <<pc, task, at, broker, comfy, announced, budget>>

(* The prompt of job j ends; whoever listens to it is told.  An error is    *)
(* announced by execution_error, everything else by executing/node None,    *)
(* an interruption included, which history shows as an error.               *)
Listening(r, j, n) == /\ pc[r] \in {"listen", "progress"}
                      /\ JobOf(r) = j
                      /\ at[r] = n

EndAs(j, n, end, message) ==
  /\ prompts[j][n] = "running"
  /\ prompts' = [prompts EXCEPT ![j][n] = end]
  /\ told' = [r \in Runners |-> IF Listening(r, j, n) THEN message ELSE told[r]]

(* POST /interrupt stops whatever ComfyUI is running, no matter whose job;  *)
(* it does nothing when nothing runs, or comes too late for the prompt.     *)
interrupt ==
  \/ \E j \in Jobs : \E n \in DOMAIN prompts[j] : EndAs(j, n, "error", "completion")
  \/ UNCHANGED comfy

-----------------------------------------------------------------------------
(* execute_job.  Every _raise_if_cancelled is a GET; a cancelled job sends  *)
(* the runner to "stop".                                                    *)
RaiseIfCancelled(r, from, next) ==
  Move(r, from, IF Tracker!is_cancelled(JobOf(r)) THEN "stop" ELSE next)

(* Variant: a task renders without asking whether the job still wants it. *)
CheckStartSkipped(r) ==
  /\ Move(r, "start", "queue_prompt")
  /\ UNCHANGED <<tracker, task, at, broker, comfy, announced, budget>>

CheckStart(r) ==
  /\ RaiseIfCancelled(r, "start", "queue_prompt")
  /\ UNCHANGED <<tracker, task, at, broker, comfy, announced, budget>>

(* build() may find the template or its parameters invalid, which fails the *)
(* job at once; queue_prompt may be accepted, or accepted with the answer   *)
(* lost on the way back (other failures: Raise).                            *)
QueuePrompt(r) ==
  LET j == JobOf(r)
      posted == [prompts EXCEPT ![j] = Append(@, "queued")]
  IN /\ \/ /\ Move(r, "queue_prompt", "mark_failed")
           /\ UNCHANGED <<prompts, at, faults>>
        \/ /\ Move(r, "queue_prompt", "check_queued")
           /\ prompts' = posted
           /\ at' = [at EXCEPT ![r] = Len(posted[j])]
           /\ UNCHANGED faults
        \/ /\ faults < MaxFaults
           /\ Move(r, "queue_prompt", "except")
           /\ prompts' = posted
           /\ faults' = faults + 1
           /\ UNCHANGED at
     /\ UNCHANGED <<tracker, task, told, broker, announced, redeliveries>>

CheckQueued(r) ==
  /\ RaiseIfCancelled(r, "check_queued", "mark_running")
  /\ UNCHANGED <<tracker, task, at, broker, comfy, announced, budget>>

MarkRunning(r) ==
  Call(r, JobOf(r), "mark_running", Tracker!MarkRunning(r, JobOf(r), at[r]),
       "connect", "except")

(* websockets.connect, after job_started is emitted and only now: what      *)
(* ComfyUI sent before is gone.                                             *)
Connect(r) ==
  /\ Move(r, "connect", "listen")
  /\ told' = [told EXCEPT ![r] = "nothing"]
  /\ UNCHANGED <<tracker, task, at, broker, prompts, announced, budget>>

(* A message arrives: any message makes the listener look for a             *)
(* cancellation, a progress message of the running prompt then updates the  *)
(* record, a closing one ends the listening or raises.                      *)
Hear(r) ==
  /\ pc[r] = "listen"
  /\ \/ /\ told[r] = "nothing"
        /\ prompts[JobOf(r)][at[r]] = "running"
        /\ RaiseIfCancelled(r, "listen", "progress")
     \/ /\ told[r] = "nothing"
        /\ Tracker!is_cancelled(JobOf(r))
        /\ Move(r, "listen", "stop")
     \/ /\ told[r] = "completion"
        /\ RaiseIfCancelled(r, "listen", "check_done")
     \/ /\ told[r] = "execution_error"
        /\ RaiseIfCancelled(r, "listen", "except")
  /\ UNCHANGED <<tracker, task, at, broker, comfy, announced, budget>>

UpdateProgress(r) ==
  Call(r, JobOf(r), "progress", Tracker!UpdateProgress(r, JobOf(r)), "listen", "except")

(* A websocket closed in good order ends the iteration without an error. *)
SocketCloses(r) ==
  /\ Move(r, "listen", "check_done")
  /\ UNCHANGED <<tracker, task, at, broker, comfy, announced, budget>>

(* Variant: no wait_for around the listener. *)
ListenForever(r) == FALSE /\ UNCHANGED vars

(* asyncio.wait_for gives up, cancelling an update_progress half done. *)
ListenTimeout(r) ==
  /\ pc[r] \in {"listen", "progress"}
  /\ pc' = [pc EXCEPT ![r] = "except"]
  /\ Tracker!Drop({r})
  /\ UNCHANGED <<task, at, broker, comfy, announced, budget>>

CheckDone(r) ==
  /\ RaiseIfCancelled(r, "check_done", "history")
  /\ UNCHANGED <<tracker, task, at, broker, comfy, announced, budget>>

(* Variant: an entry in the history is taken for a success. *)
HistoryPresent(j, n) == prompts[j][n] \in {"success", "error"}

(* get_history and _raise_for_history_error: ComfyUI has no entry before    *)
(* the prompt has ended, and one in error unless it succeeded.              *)
HistoryOk(j, n) == prompts[j][n] = "success"

History(r) ==
  /\ Move(r, "history", IF HistoryOk(JobOf(r), at[r]) THEN "mark_completed" ELSE "except")
  /\ UNCHANGED <<tracker, task, at, broker, comfy, announced, budget>>

(* Variant: the completion is written without reading the record first. *)
MarkCompletedBlind(r) ==
  /\ Move(r, "mark_completed", "emit_completed")
  /\ store' = [store EXCEPT ![JobOf(r)] = [Tracker!NewJob EXCEPT
                 !.status = "completed", !.prompt = at[r], !.outputs = at[r]]]
  /\ UNCHANGED <<pend, created, task, at, broker, comfy, announced, budget>>

(* parse() may find no media in the history: mark_completed(job_id, []). *)
MarkCompleted(r) ==
  Call(r, JobOf(r), "mark_completed",
       \E found \in {0, at[r]} : Tracker!MarkCompleted(r, JobOf(r), found),
       "emit_completed", "except")

EmitCompleted(r) ==
  /\ Move(r, "emit_completed", IF r \in Workers THEN "register" ELSE "finished")
  /\ announced' = announced \cup {JobOf(r)}
  /\ UNCHANGED <<tracker, task, at, broker, comfy, budget>>

(* The call of interrupt() in _raise_if_cancelled, then its raise. *)
Stop(r) ==
  /\ Move(r, "stop", "except")
  /\ interrupt
  /\ UNCHANGED <<tracker, task, at, broker, announced, budget>>

(* Variant: a direct execution leaves the status to a caller that is not there. *)
ExceptUnmarked(d) ==
  /\ Move(d, "except", "finished")
  /\ UNCHANGED <<tracker, task, at, broker, comfy, announced, budget>>

(* except Exception of a direct execution: failed, unless it was cancelled. *)
Except(d) ==
  /\ Move(d, "except",
          IF Tracker!is_cancelled(d) THEN "finished" ELSE "mark_failed")
  /\ UNCHANGED <<tracker, task, at, broker, comfy, announced, budget>>

(* mark_failed and the job_failed event. *)
MarkFailed(r) ==
  Call(r, JobOf(r), "mark_failed", Tracker!MarkFailed(r, JobOf(r)), "finished", "finished")

ExecuteJob(r) ==
  \/ CheckStart(r) \/ QueuePrompt(r) \/ CheckQueued(r) \/ MarkRunning(r)
  \/ Connect(r) \/ Hear(r) \/ UpdateProgress(r)
  \/ CheckDone(r) \/ History(r) \/ MarkCompleted(r) \/ EmitCompleted(r)
  \/ Stop(r) \/ MarkFailed(r)

-----------------------------------------------------------------------------
(* render_workflow_task around execute_job. *)
Register(w) ==
  /\ Move(w, "register", "finished")
  /\ UNCHANGED <<tracker, task, at, broker, comfy, announced, budget>>

(* Variant: one retry too many. *)
OnFailureOffByOne(w) ==
  /\ Move(w, "except",
          IF Tracker!is_cancelled(task[w].job) THEN "finished"
          ELSE IF task[w].retries <= MaxRetries THEN "mark_retrying" ELSE "mark_failed")
  /\ UNCHANGED <<tracker, task, at, broker, comfy, announced, budget>>

(* execute_job raises for a worker whatever its except clause finds (the     *)
(* flag mark_failed_on_error is False); _handle_task_failure decides.       *)
OnFailure(w) ==
  /\ Move(w, "except",
          IF Tracker!is_cancelled(task[w].job) THEN "finished"
          ELSE IF task[w].retries < MaxRetries THEN "mark_retrying" ELSE "mark_failed")
  /\ UNCHANGED <<tracker, task, at, broker, comfy, announced, budget>>

(* Variant: the failed attempt is reported as a failed job. *)
MarkRetryingAsFailed(w) ==
  Call(w, task[w].job, "mark_retrying", Tracker!MarkFailed(w, task[w].job),
       "retry", "finished")

MarkRetrying(w) ==
  Call(w, task[w].job, "mark_retrying",
       Tracker!MarkRetrying(w, task[w].job, task[w].retries + 1), "retry", "finished")

(* Variant: the new message does not count the attempt. *)
RetryUncounted(w) ==
  /\ Move(w, "retry", "finished")
  /\ queue' = [queue EXCEPT ![task[w]] = @ + 1]
  /\ UNCHANGED <<tracker, task, at, revoking, revoked, comfy, announced, budget>>

(* Variant: the old message is put back besides publishing the new one. *)
RetryAndRequeue(w) ==
  /\ Move(w, "retry", "finished")
  /\ queue' = [queue EXCEPT ![[task[w] EXCEPT !.retries = @ + 1]] = @ + 1,
                            ![task[w]] = @ + 1]
  /\ UNCHANGED <<tracker, task, at, revoking, revoked, comfy, announced, budget>>

(* task.retry publishes the next attempt; the message of this one is still  *)
(* unacknowledged (acks_late).                                              *)
Retry(w) ==
  /\ Move(w, "retry", "finished")
  /\ queue' = [queue EXCEPT ![[task[w] EXCEPT !.retries = @ + 1]] = @ + 1]
  /\ UNCHANGED <<tracker, task, at, revoking, revoked, comfy, announced, budget>>

(* The task is over for the worker and its message acknowledged. *)
Release(w) ==
  /\ task' = [task EXCEPT ![w] = NoTask]
  /\ pc' = [pc EXCEPT ![w] = "idle"]
  /\ at' = [at EXCEPT ![w] = 0]
  /\ told' = [told EXCEPT ![w] = "nothing"]

Ack(w) ==
  /\ pc[w] = "finished"
  /\ pend[w] = Idle
  /\ Release(w)
  /\ UNCHANGED <<tracker, broker, prompts, announced, budget>>

(* A message reaches an idle worker; the order among messages is free       *)
(* (retries wait for their countdown).  A revoked task is dropped.          *)
Deliver(w, m) ==
  /\ pc[w] = "idle"
  /\ queue[m] > 0
  /\ queue' = [queue EXCEPT ![m] = @ - 1]
  /\ IF <<w, m.job>> \in revoked
     THEN UNCHANGED <<pc, task>>
     ELSE /\ task' = [task EXCEPT ![w] = m]
          /\ pc' = [pc EXCEPT ![w] = "start"]
  /\ UNCHANGED <<tracker, at, revoking, revoked, comfy, announced, budget>>

(* revoke(terminate=True) arrives: the worker remembers the id and kills    *)
(* the task if it runs, acknowledging it; the solo pool of                  *)
(* start-worker.bat cannot kill.                                            *)
DeliverRevoke(w, j) ==
  /\ <<w, j>> \in revoking
  /\ revoking' = revoking \ {<<w, j>>}
  /\ revoked' = revoked \cup {<<w, j>>}
  /\ \/ /\ task[w] # NoTask /\ JobOf(w) = j
        /\ Release(w)
        /\ Tracker!Drop({w})
     \/ UNCHANGED <<pc, task, at, told, tracker>>
  /\ UNCHANGED <<queue, prompts, announced, budget>>

Work(w) ==
  \/ Register(w) \/ OnFailure(w) \/ MarkRetrying(w) \/ Retry(w) \/ Ack(w)

-----------------------------------------------------------------------------
(* The handlers of the API process: QueueService.submit, execute, cancel. *)
CreateJob(p, j, next) ==
  /\ Move(p, "new", next)
  /\ Tracker!Create(p, j)
  /\ UNCHANGED <<task, at, broker, comfy, announced, budget>>

(* apply_async *)
Publish(j) ==
  /\ Move(Submit(j), "publish", "attach")
  /\ queue' = [queue EXCEPT ![[job |-> j, retries |-> 0]] = @ + 1]
  /\ UNCHANGED <<tracker, task, at, revoking, revoked, comfy, announced, budget>>

SubmitStep(j) ==
  \/ CreateJob(Submit(j), j, "publish")
  \/ Publish(j)
  \/ Call(Submit(j), j, "attach", Tracker!AttachTask(Submit(j), j), "finished", "finished")

(* emit_job_queued of execute comes before the try of execute_job. *)
EmitQueued(d) ==
  /\ Move(d, "emit_queued", "start")
  /\ UNCHANGED <<tracker, task, at, broker, comfy, announced, budget>>

ExecuteRequest(d) ==
  \/ CreateJob(d, d, "emit_queued")
  \/ EmitQueued(d)
  \/ Except(d)

(* The record read here decides whether to revoke and to interrupt. *)
CancelRead(j) ==
  LET job == store[j]
  IN /\ job # NoJob
     /\ Move(Cancel(j), "new",
             IF job.status = "running" /\ job.prompt # 0
             THEN "interrupt" ELSE "mark_cancelled")
     /\ revoking' = IF job.task THEN revoking \cup (Workers \X {j}) ELSE revoking
     /\ UNCHANGED <<tracker, task, at, queue, revoked, comfy, announced, budget>>

CancelInterrupt(j) ==
  /\ Move(Cancel(j), "interrupt", "mark_cancelled")
  /\ interrupt
  /\ UNCHANGED <<tracker, task, at, broker, announced, budget>>

CancelStep(j) ==
  \/ CancelRead(j)
  \/ CancelInterrupt(j)
  \/ Call(Cancel(j), j, "mark_cancelled", Tracker!MarkCancelled(Cancel(j), j),
          "finished", "finished")

-----------------------------------------------------------------------------
(* ComfyUI runs one prompt at a time; its own page can interrupt one, too.  *)
StartPrompt ==
  /\ \A j \in Jobs : \A n \in DOMAIN prompts[j] : prompts[j][n] # "running"
  /\ \E j \in Jobs : \E n \in DOMAIN prompts[j] :
       /\ prompts[j][n] = "queued"
       /\ prompts' = [prompts EXCEPT ![j][n] = "running"]
  /\ UNCHANGED <<tracker, pc, task, at, told, broker, announced, budget>>

EndPrompt(j, n) ==
  /\ \/ EndAs(j, n, "success", "completion")
     \/ EndAs(j, n, "error", "execution_error")
     \/ EndAs(j, n, "error", "completion")
  /\ UNCHANGED <<tracker, pc, task, at, broker, announced, budget>>

-----------------------------------------------------------------------------
(* What goes wrong, each kind within its bound. *)

(* An await raises (Redis, ComfyUI, the event bus, the database), or the    *)
(* soft time limit does: execute_job and the registration of outputs lead   *)
(* to the except clauses, and there, as in a handler, it is the end.        *)
Raise(p) ==
  /\ faults < MaxFaults
  /\ faults' = faults + 1
  /\ \/ /\ pc[p] \in Execution \cup {"register"}
        /\ pc' = [pc EXCEPT ![p] = "except"]
     \/ /\ pc[p] \in Handling
        /\ pc' = [pc EXCEPT ![p] = "finished"]
     \/ /\ pc[p] = "finished" /\ pend[p] # Idle
        /\ UNCHANGED pc
  /\ Tracker!Drop({p})
  /\ UNCHANGED <<task, at, broker, comfy, announced, redeliveries>>

(* The hard time limit kills the task; on_timeout acknowledges it. *)
HardTimeLimit(w) ==
  /\ faults < MaxFaults
  /\ faults' = faults + 1
  /\ task[w] # NoTask
  /\ Release(w)
  /\ Tracker!Drop({w})
  /\ UNCHANGED <<broker, prompts, announced, redeliveries>>

(* The worker dies with an unacknowledged message, which goes back to the   *)
(* queue (acks_late, reject_on_worker_lost); if all of it died it also      *)
(* forgets what was revoked.                                                *)
WorkerLost(w) ==
  /\ redeliveries < MaxRedeliveries
  /\ redeliveries' = redeliveries + 1
  /\ task[w] # NoTask
  /\ queue' = [queue EXCEPT ![task[w]] = @ + 1]
  /\ Release(w)
  /\ Tracker!Drop({w})
  /\ \/ UNCHANGED <<revoking, revoked>>
     \/ /\ revoking' = revoking \ ({w} \X Queued)
        /\ revoked' = revoked \ ({w} \X Queued)
  /\ UNCHANGED <<prompts, announced, faults>>

(* A message unacknowledged for longer than visibility_timeout goes back to *)
(* the queue although the worker that holds it is alive and keeps it: it is *)
(* executing it (the timeout is no longer than the task's time limit), or   *)
(* waits for the countdown of a retry or, after it, for another render.     *)
Restore(m) ==
  /\ redeliveries < MaxRedeliveries
  /\ redeliveries' = redeliveries + 1
  /\ \/ \E w \in Workers : task[w] = m
     \/ m.retries > 0 /\ queue[m] > 0
  /\ queue' = [queue EXCEPT ![m] = @ + 1]
  /\ UNCHANGED <<tracker, pc, task, at, revoking, revoked, comfy, announced, faults>>

(* The API process restarts: its requests are gone. *)
ApiRestart ==
  LET lost == {p \in Procs \ Workers : pc[p] # "new"}
  IN /\ faults < MaxFaults
     /\ faults' = faults + 1
     /\ pc' = [p \in Procs |-> IF p \in lost THEN "finished" ELSE pc[p]]
     /\ Tracker!Drop(lost)
     /\ UNCHANGED <<task, at, broker, comfy, announced, redeliveries>>

Expire(j) ==
  /\ faults < MaxFaults
  /\ faults' = faults + 1
  /\ Tracker!Expire(j)
  /\ UNCHANGED <<pc, task, at, broker, comfy, announced, redeliveries>>

-----------------------------------------------------------------------------
Next ==
  \/ \E p \in Procs : Save(p) \/ Raise(p)
  \/ \E r \in Runners : ExecuteJob(r) \/ SocketCloses(r) \/ ListenTimeout(r)
  \/ \E w \in Workers : \/ Work(w) \/ HardTimeLimit(w) \/ WorkerLost(w)
                        \/ \E m \in Messages : Deliver(w, m)
                        \/ \E j \in Queued : DeliverRevoke(w, j)
  \/ \E m \in Messages : Restore(m)
  \/ \E j \in Queued : SubmitStep(j)
  \/ \E d \in Direct : ExecuteRequest(d)
  \/ \E j \in Cancels : CancelStep(j)
  \/ \E j \in Jobs : Expire(j)
  \/ StartPrompt
  \/ \E j \in Jobs : \E n \in DOMAIN prompts[j] : EndPrompt(j, n)
  \/ ApiRestart

Spec == Init /\ [][Next]_vars

(* A process that can step does; a time limit is reached; the broker        *)
(* delivers; ComfyUI runs what it accepted.  Nothing is assumed of users,   *)
(* of websockets, or of faults.                                             *)
Fairness ==
  /\ \A p \in Procs : WF_vars(Save(p))
  /\ \A r \in Runners : WF_vars(ExecuteJob(r)) /\ WF_vars(ListenTimeout(r))
  /\ \A w \in Workers : WF_vars(Work(w)) /\ WF_vars(\E m \in Messages : Deliver(w, m))
  /\ \A d \in Direct : WF_vars(ExecuteRequest(d))
  /\ WF_vars(StartPrompt)
  /\ WF_vars(\E j \in Jobs : \E n \in DOMAIN prompts[j] : EndPrompt(j, n))

FairSpec == Spec /\ Fairness

-----------------------------------------------------------------------------
PC == Execution \cup Handling \cup {"idle", "new", "register", "finished"}

(* Types of the variables this module adds to the tracker's. *)
TypeOK ==
  /\ Tracker!TypeOK
  /\ pc \in [Procs -> PC]
  /\ task \in [Workers -> Messages \cup {NoTask}]
  /\ \A w \in Workers : task[w] = NoTask <=> pc[w] = "idle"
  /\ at \in [Runners -> PromptIds \cup {0}]
  /\ told \in [Runners -> {"nothing", "completion", "execution_error"}]
  /\ queue \in [Messages -> Nat]
  /\ revoking \subseteq Workers \X Queued
  /\ revoked \subseteq Workers \X Queued
  /\ \A j \in Jobs : /\ DOMAIN prompts[j] = 1..Len(prompts[j])
                     /\ \A n \in DOMAIN prompts[j] : prompts[j][n] \in
                          {"queued", "running", "success", "error"}
  /\ announced \subseteq Jobs
  /\ redeliveries \in 0..MaxRedeliveries
  /\ faults \in 0..MaxFaults

Finished(j, n) == n \in DOMAIN prompts[j] /\ prompts[j][n] = "success"

HasStatus(j, statuses) == store[j] # NoJob /\ store[j].status \in statuses

(* A prompt of job j that ended with success gave these outputs, if any. *)
Gave(j, found) == \E n \in DOMAIN prompts[j] : Finished(j, n) /\ found \in {0, n}

(* A completed job was rendered: ComfyUI finished a prompt of that very job *)
(* with success, and the outputs shown are what that prompt gave, nothing   *)
(* included, whichever attempt it was and whatever stale copies were        *)
(* written meanwhile (the history check of execute_job before               *)
(* mark_completed).                                                         *)
CompletedIsRendered ==
  \A j \in Jobs : HasStatus(j, {"completed"}) => Gave(j, store[j].outputs)

(* A job_completed event reaches the job's room only after ComfyUI finished *)
(* a prompt of it (emit_job_completed comes last in execute_job).           *)
CompletedEventIsTrue ==
  \A j \in announced : \E n \in DOMAIN prompts[j] : Finished(j, n)

(* j is cancelled for good and no runner that looked before the             *)
(* cancellation is about to post a prompt for it.                           *)
CancelledQuiet(j) ==
  /\ Tracker!is_cancelled(j)
  /\ Tracker!CancelSettled(j)
  /\ \A r \in Runners : pc[r] = "queue_prompt" => JobOf(r) # j

(* From then on no attempt, retry or redelivery of the job occupies         *)
(* ComfyUI again, for as long as Redis remembers the job: every execution   *)
(* looks for the cancellation before it posts (workflow_execution.py:69).   *)
CancelledStaysQuiet ==
  [][\A j \in Jobs : CancelledQuiet(j) =>
       /\ Len(prompts'[j]) = Len(prompts[j])
       /\ CancelledQuiet(j)' \/ store'[j] = NoJob]_vars

(* A job posts at most one prompt per attempt: retries and the messages put *)
(* back, by a lost worker or the visibility timeout, are the only reasons   *)
(* to render again, so the GPU work of a job is bounded                     *)
(* (celery_task_max_retries, retries carried in the message).               *)
RenderBudget ==
  /\ \A j \in Queued : Len(prompts[j]) <= (MaxRetries + 1) * (redeliveries + 1)
  /\ \A d \in Direct : Len(prompts[d]) <= 1

Message(j, k) == [job |-> j, retries |-> k]

(* The copies of j in the broker, and the workers that have not finished    *)
(* with theirs.                                                             *)
Waiting(j) == UNION {{k} \X (1..queue[Message(j, k)]) : k \in 0..MaxRetries}
Holding(j) == {w \in Workers : task[w] # NoTask /\ task[w].job = j /\ pc[w] # "finished"}

Copies(j) == Cardinality(Waiting(j)) + Cardinality(Holding(j))

(* Retrying moves the one copy of a task, it does not multiply it: each     *)
(* further copy, and so each overlap of two executions of a job, comes from *)
(* a message the broker put back (task.retry before the acknowledgement).   *)
CopiesBounded == \A j \in Queued : Copies(j) <= 1 + redeliveries

(* As long as the broker puts no message back, a job shown as failed is not *)
(* going to run again, so a client that stops polling misses nothing:       *)
(* mark_failed comes with the last attempt only.  A message put back, by a  *)
(* lost worker or the visibility timeout, is run again from the start.      *)
FailedIsOver ==
  redeliveries = 0 =>
    \A j \in Jobs : HasStatus(j, {"failed"}) =>
      /\ j \in Queued => \A k \in 0..MaxRetries : queue[Message(j, k)] = 0
      /\ \A r \in Runners : pc[r] \in Execution \cup {"register", "retry"} => JobOf(r) # j

(* Every write to Redis is one of the tracker's operations, made in two     *)
(* steps: the pipeline implements JobTracker, so what is proved of that     *)
(* module holds here.                                                       *)
ImplementsTracker == Tracker!Spec

(* Every submitted job is done with: no lost websocket message, no          *)
(* cancellation, seen or not, no kill by a revoke, no failing await, no cut *)
(* update and no message put back keeps a worker busy with it, or a message *)
(* waiting, for ever (the wait_for of execute_job, the bound on retries).   *)
WorkDrains == \A j \in Queued : Copies(j) > 0 ~> Copies(j) = 0

(* Without faults a job executed inside the API ends completed, failed or   *)
(* cancelled, whatever the cancel handler races with.                       *)
DirectSettles ==
  \A d \in Direct : d \in created ~> HasStatus(d, {"completed", "failed", "cancelled"})

-----------------------------------------------------------------------------
(* Claims of the documentation and the tests that the code does not keep.   *)

(* "Stop polling when `status` is completed, failed, or cancelled": those   *)
(* statuses would have to be final.                                         *)
TerminalIsFinal ==
  [][\A j \in Jobs : HasStatus(j, {"completed", "failed", "cancelled"}) =>
       store'[j] = NoJob \/ store'[j].status = store[j].status]_vars

(* "Completed job cannot be downgraded to failed": a record that carries    *)
(* outputs would never say failed.                                          *)
CompletedNeverFails ==
  \A j \in Jobs : HasStatus(j, {"failed"}) => store[j].outputs = 0

(* "When the job finishes, `status` becomes completed". *)
RenderedIsReported ==
  \A j \in Jobs : \A n \in PromptIds :
    Finished(j, n) ~> HasStatus(j, {"completed", "cancelled"})
=============================================================================

--------------------------- MODULE RenderQueueProofs ---------------------------
(***************************************************************************)
(* The pipeline, for any jobs, workers, cancellations, retries, losses and *)
(* faults: it implements JobTracker, so what is proved of the tracker      *)
(* holds of it, and a completed job was rendered.                          *)
(***************************************************************************)
EXTENDS RenderQueue, TLAPS, SequenceTheorems

(* The tracker as the pipeline uses it, with what is proved of it.          *)
Tracking == INSTANCE JobTrackerProofs WITH
  Clients <- Procs, Prompts <- Nat \ {0}, NoPrompt <- 0

(* The assumptions of JobTracker hold of this instance.                     *)
LEMMA TrackingAssumptions ==
  /\ 0 \notin Nat \ {0}
  /\ MaxRetries \in Nat
  /\ NoJob \notin Tracking!TrackedJob /\ Idle \notin Tracking!Write
BY BoundsAssumption, SentinelsAssumption
   DEF Numbered!TrackedJob, Numbered!Write, Numbered!Status,
       Tracking!TrackedJob, Tracking!Write, Tracking!Status

WorkerPlaces ==
  Execution \cup {"idle", "register", "finished", "except", "mark_retrying", "retry", "mark_failed"}

(* Where a runner has posted its prompt and not yet completed the job. *)
Posted == {"check_queued", "mark_running", "connect", "listen", "progress", "check_done",
           "history", "mark_completed"}

PromptStates == {"queued", "running", "success", "error"}

(* What the processes hold when they call the tracker. *)
WorkInv ==
  /\ pc \in [Procs -> PC]
  /\ task \in [Workers -> Messages \cup {NoTask}]
  /\ at \in [Runners -> Nat]
  /\ prompts \in [Jobs -> Seq(PromptStates)]
  /\ \A w \in Workers :
       /\ pc[w] \in WorkerPlaces
       /\ pc[w] # "idle" => task[w] \in Messages
       /\ pc[w] = "mark_retrying" => task[w].retries < MaxRetries
  /\ \A r \in Runners : pc[r] \in Posted => at[r] > 0

(* WorkInv holds at first: nobody has posted. *)
LEMMA InitWork ==
  ASSUME Init
  PROVE  WorkInv
<1>1. pc \in [Procs -> PC]
  BY DEF Init, PC
<1>2. \A r \in Runners : r \in Procs
  BY DEF Procs
<1>3. \A r \in Runners : pc[r] \in {"idle", "new"} /\ (r \in Workers => pc[r] = "idle")
  BY <1>2 DEF Init
<1>4. prompts \in [Jobs -> Seq(PromptStates)]
  BY DEF Init
<1> QED
  BY <1>1, <1>3, <1>4 DEF Init, WorkInv, WorkerPlaces, Posted, Runners

(* One process goes on. *)
LEMMA MoveWork ==
  ASSUME WorkInv, NEW p \in Procs, NEW x \in PC,
         pc' = [pc EXCEPT ![p] = x], UNCHANGED <<task, at>>,
         prompts' \in [Jobs -> Seq(PromptStates)],
         p \in Workers => /\ x \in WorkerPlaces \ {"idle"} /\ pc[p] # "idle"
                          /\ x = "mark_retrying" => task[p].retries < MaxRetries,
         p \in Runners => (x \in Posted => pc[p] \in Posted)
  PROVE  WorkInv'
BY DEF WorkInv, Runners, Procs

(* Ending a prompt keeps the types of all prompts. *)
LEMMA EndedTyped ==
  ASSUME WorkInv, NEW j \in Jobs, NEW n \in DOMAIN prompts[j], NEW end \in PromptStates,
         prompts' = [prompts EXCEPT ![j][n] = end]
  PROVE  prompts' \in [Jobs -> Seq(PromptStates)]
<1>1. prompts[j] \in Seq(PromptStates) /\ n \in 1..Len(prompts[j])
  BY DEF WorkInv
<1>2. [prompts[j] EXCEPT ![n] = end] \in Seq(PromptStates)
  BY <1>1, ExceptSeq
<1> QED
  BY <1>2 DEF WorkInv

(* So does the interrupt. *)
LEMMA InterruptTyped ==
  ASSUME WorkInv, interrupt
  PROVE  prompts' \in [Jobs -> Seq(PromptStates)]
<1>1. CASE UNCHANGED comfy
  BY <1>1 DEF comfy, WorkInv
<1>2. CASE \E j \in Jobs : \E n \in DOMAIN prompts[j] : EndAs(j, n, "error", "completion")
  BY <1>2, EndedTyped DEF EndAs, PromptStates
<1> QED
  BY <1>1, <1>2 DEF interrupt

(* A runner that is not idle has a job. *)
LEMMA JobOfRunner ==
  ASSUME WorkInv, NEW r \in Runners, pc[r] # "idle"
  PROVE  JobOf(r) \in Jobs /\ r \in Procs
BY DEF WorkInv, JobOf, Runners, Jobs, Messages, Procs

(* execute_job; only the post of the prompt touches more than the place.    *)
LEMMA ExecuteWork ==
  ASSUME WorkInv, NEW r \in Runners, ExecuteJob(r)
  PROVE  WorkInv'
<1> USE DEF Execution, Handling, PC, WorkerPlaces, Posted, Move, Call, RaiseIfCancelled
<1>1. r \in Procs /\ (pc[r] # "idle" => JobOf(r) \in Jobs)
  BY JobOfRunner DEF Procs
<1>2. CASE CheckStart(r) \/ CheckQueued(r) \/ MarkRunning(r) \/ UpdateProgress(r)
           \/ CheckDone(r) \/ History(r) \/ MarkCompleted(r) \/ MarkFailed(r)
  <2> DEFINE Goes(x) == /\ pc' = [pc EXCEPT ![r] = x] /\ x \in PC
                        /\ x \in WorkerPlaces \ {"idle", "mark_retrying"} /\ pc[r] # "idle"
                        /\ x \in Posted => pc[r] \in Posted
  <2>1. \E x : Goes(x)
    <3>1. CASE CheckStart(r)
      <4>1. pc[r] # "idle" /\ \E x \in {"stop", "queue_prompt"} : pc' = [pc EXCEPT ![r] = x]
        BY <3>1 DEF CheckStart
      <4> QED
        BY <3>1, <4>1 DEF CheckStart
    <3>2. CASE CheckQueued(r)
      <4>1. pc[r] # "idle" /\ \E x \in {"stop", "mark_running"} : pc' = [pc EXCEPT ![r] = x]
        BY <3>2 DEF CheckQueued
      <4> QED
        BY <3>2, <4>1 DEF CheckQueued
    <3>3. CASE MarkRunning(r)
      <4>1. pc[r] # "idle" /\ \E x \in {"connect", "except"} : pc' = [pc EXCEPT ![r] = x]
        BY <3>3 DEF MarkRunning
      <4> QED
        BY <3>3, <4>1 DEF MarkRunning
    <3>4. CASE UpdateProgress(r)
      <4>1. pc[r] # "idle" /\ \E x \in {"listen", "except"} : pc' = [pc EXCEPT ![r] = x]
        BY <3>4 DEF UpdateProgress
      <4> QED
        BY <3>4, <4>1 DEF UpdateProgress
    <3>5. CASE CheckDone(r)
      <4>1. pc[r] # "idle" /\ \E x \in {"stop", "history"} : pc' = [pc EXCEPT ![r] = x]
        BY <3>5 DEF CheckDone
      <4> QED
        BY <3>5, <4>1 DEF CheckDone
    <3>6. CASE History(r)
      <4>1. pc[r] # "idle" /\ \E x \in {"mark_completed", "except"} : pc' = [pc EXCEPT ![r] = x]
        BY <3>6 DEF History
      <4> QED
        BY <3>6, <4>1 DEF History
    <3>7. CASE MarkCompleted(r)
      <4>1. pc[r] # "idle" /\ \E x \in {"emit_completed", "except"} : pc' = [pc EXCEPT ![r] = x]
        BY <3>7 DEF MarkCompleted
      <4> QED
        BY <3>7, <4>1 DEF MarkCompleted
    <3>8. CASE MarkFailed(r)
      <4>1. pc[r] # "idle" /\ pc' = [pc EXCEPT ![r] = "finished"]
        BY <3>8 DEF MarkFailed
      <4>2. Goes("finished")
        BY <3>8, <4>1 DEF MarkFailed
      <4> QED
        BY <4>2
    <3> QED
      BY <1>2, <3>1, <3>2, <3>3, <3>4, <3>5, <3>6, <3>7, <3>8
  <2>2. UNCHANGED <<task, at, prompts>>
    BY <1>2 DEF CheckStart, CheckQueued, MarkRunning, UpdateProgress, CheckDone, History,
                MarkCompleted, MarkFailed, comfy
  <2>3. PICK x : Goes(x)
    BY <2>1
  <2> QED
    BY <1>1, <2>2, <2>3, MoveWork DEF WorkInv
<1>3. CASE Hear(r)
  <2>1. UNCHANGED <<task, at, prompts>>
    BY <1>3 DEF Hear, comfy
  <2>2. PICK x \in {"stop", "progress", "check_done", "except"} : pc' = [pc EXCEPT ![r] = x]
    BY <1>3 DEF Hear
  <2>3. pc[r] = "listen"
    BY <1>3 DEF Hear
  <2> QED
    BY <1>1, <2>1, <2>2, <2>3, MoveWork DEF WorkInv
<1>4. CASE Connect(r)
  BY <1>1, <1>4, MoveWork DEF Connect, WorkInv
<1>5. CASE EmitCompleted(r)
  <2>1. PICK x \in {"register", "finished"} : pc' = [pc EXCEPT ![r] = x]
    BY <1>5 DEF EmitCompleted
  <2> QED
    BY <1>1, <1>5, <2>1, MoveWork DEF EmitCompleted, comfy, WorkInv
<1>6. CASE Stop(r)
  BY <1>1, <1>6, MoveWork, InterruptTyped DEF Stop
<1>7. CASE QueuePrompt(r)
  <2> DEFINE j == JobOf(r)
             posted == [prompts EXCEPT ![j] = Append(@, "queued")]
  <2>1. pc[r] = "queue_prompt" /\ j \in Jobs
    BY <1>1, <1>7 DEF QueuePrompt
  <2>2. /\ Append(prompts[j], "queued") \in Seq(PromptStates)
        /\ Len(Append(prompts[j], "queued")) = Len(prompts[j]) + 1
        /\ Len(prompts[j]) \in Nat
    <3>1. prompts[j] \in Seq(PromptStates) /\ "queued" \in PromptStates
      BY <2>1 DEF WorkInv, PromptStates
    <3> QED
      BY <3>1, AppendProperties, LenProperties
  <2>3. posted \in [Jobs -> Seq(PromptStates)] /\ posted[j] = Append(prompts[j], "queued")
    BY <2>1, <2>2 DEF WorkInv
  <2>4. UNCHANGED task /\ (prompts' = prompts \/ prompts' = posted)
    BY <1>7 DEF QueuePrompt
  <2>5. CASE pc' = [pc EXCEPT ![r] = "mark_failed"] /\ at' = at
    BY <1>1, <2>1, <2>3, <2>4, <2>5, MoveWork DEF WorkInv
  <2>6. CASE pc' = [pc EXCEPT ![r] = "except"] /\ at' = at
    BY <1>1, <2>1, <2>3, <2>4, <2>6, MoveWork DEF WorkInv
  <2>7. CASE pc' = [pc EXCEPT ![r] = "check_queued"] /\ at' = [at EXCEPT ![r] = Len(posted[j])]
    <3>1. Len(posted[j]) \in Nat /\ Len(posted[j]) > 0
      BY <2>2, <2>3
    <3>2. at' \in [Runners -> Nat] /\ at'[r] > 0 /\ \A q \in Runners : q # r => at'[q] = at[q]
      BY <2>7, <3>1 DEF WorkInv
    <3>3. /\ pc' \in [Procs -> PC] /\ pc'[r] = "check_queued"
          /\ \A q \in Procs : q # r => pc'[q] = pc[q]
      BY <1>1, <2>7 DEF WorkInv
    <3>4. prompts' \in [Jobs -> Seq(PromptStates)] /\ task' = task
      BY <2>3, <2>4 DEF WorkInv
    <3>5. \A q \in Runners : q \in Procs
      BY DEF Procs
    <3> QED
      BY <2>1, <3>2, <3>3, <3>4, <3>5 DEF WorkInv, Runners
  <2> QED
    BY <1>7, <2>5, <2>6, <2>7 DEF QueuePrompt
<1> QED
  BY <1>2, <1>3, <1>4, <1>5, <1>6, <1>7 DEF ExecuteJob

(* A worker around execute_job. *)
LEMMA WorkerWork ==
  ASSUME WorkInv, NEW w \in Workers,
         \/ Work(w) \/ HardTimeLimit(w) \/ WorkerLost(w)
         \/ \E m \in Messages : Deliver(w, m)
         \/ \E j \in Queued : DeliverRevoke(w, j)
  PROVE  WorkInv'
<1> USE DEF Execution, Handling, PC, WorkerPlaces, Posted, Move, Call
<1>1. w \in Runners /\ w \in Procs
  BY DEF Runners, Procs
<1>2. ASSUME Release(w), UNCHANGED prompts
      PROVE  WorkInv'
  BY <1>1, <1>2 DEF Release, WorkInv, Runners
<1>3. CASE Register(w) \/ Retry(w) \/ MarkRetrying(w)
  <2>1. UNCHANGED <<task, at, prompts>>
    BY <1>3 DEF Register, Retry, MarkRetrying, comfy
  <2>2. PICK x \in {"retry", "finished"} : pc' = [pc EXCEPT ![w] = x]
    BY <1>3 DEF Register, Retry, MarkRetrying
  <2>3. pc[w] # "idle"
    BY <1>3 DEF Register, Retry, MarkRetrying
  <2> QED
    BY <1>1, <2>1, <2>2, <2>3, MoveWork DEF WorkInv
<1>4. CASE OnFailure(w)
  <2>1. UNCHANGED <<task, at, prompts>> /\ pc[w] = "except"
    BY <1>4 DEF OnFailure, comfy
  <2>2. PICK x \in {"finished", "mark_retrying", "mark_failed"} :
          pc' = [pc EXCEPT ![w] = x] /\ (x = "mark_retrying" => task[w].retries < MaxRetries)
    BY <1>4 DEF OnFailure
  <2> QED
    BY <1>1, <2>1, <2>2, MoveWork DEF WorkInv
<1>5. CASE Ack(w)
  BY <1>2, <1>5 DEF Ack
<1>6. CASE HardTimeLimit(w) \/ WorkerLost(w)
  BY <1>2, <1>6 DEF HardTimeLimit, WorkerLost
<1>7. ASSUME NEW m \in Messages, Deliver(w, m)
      PROVE  WorkInv'
  <2>1. UNCHANGED <<at, prompts>>
    BY <1>7 DEF Deliver, comfy
  <2>2. CASE UNCHANGED <<pc, task>>
    BY <2>1, <2>2 DEF WorkInv
  <2>3. CASE task' = [task EXCEPT ![w] = m] /\ pc' = [pc EXCEPT ![w] = "start"]
    BY <1>1, <2>1, <2>3 DEF WorkInv, Runners
  <2> QED
    BY <1>7, <2>2, <2>3 DEF Deliver
<1>8. ASSUME NEW j \in Queued, DeliverRevoke(w, j)
      PROVE  WorkInv'
  <2>1. CASE Release(w)
    BY <1>2, <1>8, <2>1 DEF DeliverRevoke
  <2>2. CASE UNCHANGED <<pc, task, at>>
    BY <1>8, <2>2 DEF DeliverRevoke, WorkInv
  <2> QED
    BY <1>8, <2>1, <2>2 DEF DeliverRevoke
<1> QED
  BY <1>3, <1>4, <1>5, <1>6, <1>7, <1>8 DEF Work

(* Handlers, direct requests and what interrupts a process. *)
LEMMA HandlerWork ==
  ASSUME WorkInv,
         \/ \E j \in Queued : SubmitStep(j)
         \/ \E d \in Direct : ExecuteRequest(d)
         \/ \E j \in Cancels : CancelStep(j)
         \/ \E r \in Runners : SocketCloses(r) \/ ListenTimeout(r)
         \/ \E p \in Procs : Raise(p)
  PROVE  WorkInv'
<1> USE DEF Execution, Handling, PC, WorkerPlaces, Posted, Move, Call
<1>1. ASSUME NEW p \in Procs, NEW x \in {"publish", "start", "attach", "finished", "interrupt",
                                        "mark_cancelled", "mark_failed", "emit_queued"},
             pc' = [pc EXCEPT ![p] = x], UNCHANGED <<task, at>>,
             prompts' \in [Jobs -> Seq(PromptStates)],
             \/ pc[p] \in {"new", "publish", "attach", "interrupt", "mark_cancelled",
                          "emit_queued"}
             \/ x \in {"finished", "mark_failed"} /\ pc[p] # "idle"
      PROVE  WorkInv'
  <2>1. p \in Workers => x \in {"finished", "mark_failed"} /\ pc[p] # "idle"
    BY <1>1 DEF WorkInv
  <2> QED
    BY <1>1, <2>1, MoveWork
<1>2. ASSUME NEW j \in Queued, SubmitStep(j)
      PROVE  WorkInv'
  <2>1. Submit(j) \in Procs
    BY DEF Procs
  <2>2. UNCHANGED <<task, at, prompts>>
    BY <1>2 DEF SubmitStep, CreateJob, Publish, comfy
  <2>3. PICK x \in {"publish", "attach", "finished"} : pc' = [pc EXCEPT ![Submit(j)] = x]
    BY <1>2 DEF SubmitStep, CreateJob, Publish
  <2>4. pc[Submit(j)] \in {"new", "publish", "attach"}
    BY <1>2 DEF SubmitStep, CreateJob, Publish
  <2> QED
    BY <1>1, <2>1, <2>2, <2>3, <2>4 DEF WorkInv
<1>3. ASSUME NEW d \in Direct, ExecuteRequest(d)
      PROVE  WorkInv'
  <2>1. d \in Procs
    BY DEF Procs, Runners
  <2>2. UNCHANGED <<task, at, prompts>>
    BY <1>3 DEF ExecuteRequest, CreateJob, EmitQueued, Except, comfy
  <2>3. PICK x \in {"emit_queued", "start", "finished", "mark_failed"} :
          /\ pc' = [pc EXCEPT ![d] = x]
          /\ \/ pc[d] \in {"new", "emit_queued"}
             \/ x \in {"finished", "mark_failed"} /\ pc[d] = "except"
    BY <1>3 DEF ExecuteRequest, CreateJob, EmitQueued, Except
  <2> QED
    BY <1>1, <2>1, <2>2, <2>3 DEF WorkInv
<1>4. ASSUME NEW j \in Cancels, CancelStep(j)
      PROVE  WorkInv'
  <2>1. Cancel(j) \in Procs
    BY DEF Procs
  <2>2. UNCHANGED <<task, at>>
    BY <1>4 DEF CancelStep, CancelRead, CancelInterrupt
  <2>3. prompts' \in [Jobs -> Seq(PromptStates)]
    BY <1>4, InterruptTyped DEF CancelStep, CancelRead, CancelInterrupt, comfy, WorkInv
  <2>4. PICK x \in {"interrupt", "mark_cancelled", "finished"} : pc' = [pc EXCEPT ![Cancel(j)] = x]
    BY <1>4 DEF CancelStep, CancelRead, CancelInterrupt
  <2>5. pc[Cancel(j)] \in {"new", "interrupt", "mark_cancelled"}
    BY <1>4 DEF CancelStep, CancelRead, CancelInterrupt
  <2> QED
    BY <1>1, <2>1, <2>2, <2>3, <2>4, <2>5
<1>5. ASSUME NEW r \in Runners, SocketCloses(r) \/ ListenTimeout(r)
      PROVE  WorkInv'
  <2>1. PICK x \in {"check_done", "except"} : pc' = [pc EXCEPT ![r] = x]
    BY <1>5 DEF SocketCloses, ListenTimeout
  <2>2. pc[r] \in {"listen", "progress"} /\ UNCHANGED <<task, at, prompts>>
    BY <1>5 DEF SocketCloses, ListenTimeout, comfy
  <2> QED
    BY <2>1, <2>2, MoveWork DEF WorkInv, Procs
<1>6. ASSUME NEW p \in Procs, Raise(p)
      PROVE  WorkInv'
  <2>1. UNCHANGED <<task, at, prompts>>
    BY <1>6 DEF Raise, comfy
  <2>2. CASE pc[p] \in Execution \cup {"register"} /\ pc' = [pc EXCEPT ![p] = "except"]
    BY <2>1, <2>2, MoveWork DEF WorkInv
  <2>3. CASE pc[p] \in Handling /\ pc' = [pc EXCEPT ![p] = "finished"]
    BY <1>1, <2>1, <2>3 DEF WorkInv
  <2>4. CASE UNCHANGED pc
    BY <2>1, <2>4 DEF WorkInv
  <2> QED
    BY <1>6, <2>2, <2>3, <2>4 DEF Raise
<1> QED
  BY <1>2, <1>3, <1>4, <1>5, <1>6

(* WorkInv is inductive. *)
LEMMA WorkStep ==
  ASSUME WorkInv, [Next]_vars
  PROVE  WorkInv'
<1>1. CASE UNCHANGED vars
  BY <1>1 DEF vars, comfy, WorkInv
<1>2. ASSUME \/ \E p \in Procs : Save(p)
             \/ \E j \in Jobs : Expire(j)
             \/ \E m \in Messages : Restore(m)
      PROVE  WorkInv'
  BY <1>2 DEF Save, Expire, Restore, comfy, WorkInv
<1>3. ASSUME \/ StartPrompt
             \/ \E j \in Jobs : \E n \in DOMAIN prompts[j] : EndPrompt(j, n)
      PROVE  WorkInv'
  <2>1. PICK j \in Jobs : \E n \in DOMAIN prompts[j], end \in PromptStates :
          prompts' = [prompts EXCEPT ![j][n] = end]
    BY <1>3 DEF StartPrompt, EndPrompt, EndAs, PromptStates
  <2>2. PICK n \in DOMAIN prompts[j], end \in PromptStates :
          prompts' = [prompts EXCEPT ![j][n] = end]
    BY <2>1
  <2>3. prompts' \in [Jobs -> Seq(PromptStates)]
    BY <2>2, EndedTyped
  <2> QED
    BY <1>3, <2>3 DEF StartPrompt, EndPrompt, WorkInv
<1>4. ASSUME ApiRestart
      PROVE  WorkInv'
  BY <1>4 DEF ApiRestart, comfy, WorkInv, PC, Posted, Runners, Procs
<1> QED
  BY <1>1, <1>2, <1>3, <1>4, ExecuteWork, WorkerWork, HandlerWork DEF Next

-----------------------------------------------------------------------------
(* What a step of the pipeline may do to the job records: one operation of  *)
(* the tracker; mark_running with the prompt posted, mark_completed with    *)
(* what the history that was read shows, mark_failed by a runner that is    *)
(* done.                                                                    *)
Edit(c, j) ==
  \/ Tracking!Create(c, j) \/ Tracking!UpdateProgress(c, j) \/ Tracking!MarkCancelled(c, j)
  \/ j \in Queued /\ Tracking!AttachTask(c, j)
  \/ \E n \in 1..MaxRetries : Tracking!MarkRetrying(c, j, n)

Begin(r) == pc[r] = "mark_running" /\ Tracking!MarkRunning(r, JobOf(r), at[r])

Fail(r) == MarkFailed(r) /\ Tracking!MarkFailed(r, JobOf(r))

Complete(r) ==
  /\ pc[r] = "mark_completed"
  /\ \E found \in {0, at[r]} : Tracking!MarkCompleted(r, JobOf(r), found)

TrackerNext ==
  \/ \E c \in Procs, j \in Jobs : Edit(c, j)
  \/ \E r \in Runners : Begin(r) \/ Fail(r) \/ Complete(r)
  \/ \E c \in Procs : Tracking!Save(c)
  \/ \E cs \in SUBSET Procs : Tracking!Drop(cs)
  \/ \E j \in Jobs : Tracking!Expire(j)

(* The operations below are the tracker's. *)
LEMMA TrackerNextIsNext ==
  ASSUME WorkInv, TrackerNext
  PROVE  Tracking!Next
<1>1. ASSUME NEW r \in Runners, Complete(r) PROVE Tracking!Next
  <2>1. r \in Procs /\ JobOf(r) \in Jobs /\ at[r] \in Nat \ {0}
    BY <1>1, JobOfRunner DEF Complete, WorkInv, Posted
  <2> QED
    BY <1>1, <2>1 DEF Complete, Tracking!Next, Tracking!Call
<1>2. ASSUME NEW c \in Procs, NEW j \in Jobs, Edit(c, j) PROVE Tracking!Next
  BY <1>2 DEF Edit, Tracking!Next, Tracking!Call
<1>3. ASSUME NEW r \in Runners, Begin(r) PROVE Tracking!Next
  <2>1. r \in Procs /\ JobOf(r) \in Jobs /\ at[r] \in Nat \ {0}
    BY <1>3, JobOfRunner DEF Begin, WorkInv, Posted
  <2> QED
    BY <1>3, <2>1 DEF Begin, Tracking!Next, Tracking!Call
<1>4. ASSUME NEW r \in Runners, Fail(r) PROVE Tracking!Next
  <2>1. r \in Procs /\ JobOf(r) \in Jobs
    BY <1>4, JobOfRunner DEF Fail, MarkFailed, Call, Move
  <2> QED
    BY <1>4, <2>1 DEF Fail, Tracking!Next, Tracking!Call
<1> QED
  BY <1>1, <1>2, <1>3, <1>4 DEF TrackerNext, Tracking!Next

(* The calls of the bounded instance are among them. *)
LEMMA CallIsCall ==
  ASSUME NEW c \in Procs, NEW j \in Jobs,
         \/ Tracker!Create(c, j) \/ Tracker!UpdateProgress(c, j) \/ Tracker!MarkCancelled(c, j)
         \/ j \in Queued /\ Tracker!AttachTask(c, j)
         \/ \E n \in 1..MaxRetries : Tracker!MarkRetrying(c, j, n)
  PROVE  TrackerNext
<1>1. Edit(c, j)
  BY DEF Edit, Tracking!Create, Tracking!AttachTask, Tracking!UpdateProgress,
         Tracking!MarkCancelled, Tracking!MarkRetrying, Tracking!Fetch, Tracking!NewJob,
         Tracker!Create, Tracker!AttachTask, Tracker!UpdateProgress,
         Tracker!MarkCancelled, Tracker!MarkRetrying, Tracker!Fetch, Tracker!NewJob
<1> QED
  BY <1>1 DEF TrackerNext

(* Every step of the pipeline is one of those or leaves the records alone.  *)
LEMMA TrackerStep ==
  ASSUME WorkInv, [Next]_vars
  PROVE  TrackerNext \/ UNCHANGED tracker
<1> DEFINE Stays == UNCHANGED tracker
           Goal == Stays \/ TrackerNext
<1> USE DEF Move
<1>1. \A cs \in SUBSET Procs : Tracker!Drop(cs) => TrackerNext
  BY DEF Tracker!Drop, Tracking!Drop, TrackerNext
<1>2. \A p \in Procs : Tracker!Drop({p}) => TrackerNext
  BY <1>1
<1>3. \A r \in Runners : r \in Procs /\ (pc[r] # "idle" => JobOf(r) \in Jobs)
  BY JobOfRunner DEF Procs
<1>4. \A w \in Workers : w \in Runners /\ JobOf(w) = task[w].job
  BY DEF Runners, JobOf
<1>5. ASSUME NEW p \in Procs, Save(p) PROVE Goal
  BY <1>5 DEF Save, Tracker!Save, Tracking!Save, TrackerNext
<1>6. ASSUME NEW p \in Procs, Raise(p) PROVE Goal
  BY <1>2, <1>6 DEF Raise
<1>7. ASSUME NEW r \in Runners, ExecuteJob(r) PROVE Goal
  <2>1. CASE MarkRunning(r)
    BY <2>1 DEF MarkRunning, Call, TrackerNext, Begin, Tracker!MarkRunning, Tracker!Fetch,
                Tracking!MarkRunning, Tracking!Fetch
  <2>2. CASE UpdateProgress(r)
    <3>1. JobOf(r) \in Jobs
      BY <1>3, <2>2 DEF UpdateProgress, Call
    <3> QED
      BY <1>3, <2>2, <3>1, CallIsCall DEF UpdateProgress, Call
  <2>5. CASE MarkFailed(r)
    <3>1. Stays \/ Tracker!MarkFailed(r, JobOf(r))
      BY <2>5 DEF MarkFailed, Call
    <3>2. Tracker!MarkFailed(r, JobOf(r)) => Fail(r)
      BY <2>5 DEF Fail, Tracker!MarkFailed, Tracker!Fetch, Tracking!MarkFailed, Tracking!Fetch
    <3> QED
      BY <3>1, <3>2 DEF TrackerNext
  <2>3. CASE MarkCompleted(r)
    BY <2>3 DEF MarkCompleted, Call, TrackerNext, Complete, Tracker!MarkCompleted,
                Tracker!Fetch, Tracking!MarkCompleted, Tracking!Fetch
  <2>4. CASE \/ CheckStart(r) \/ QueuePrompt(r) \/ CheckQueued(r) \/ Connect(r)
             \/ Hear(r) \/ CheckDone(r) \/ History(r) \/ EmitCompleted(r) \/ Stop(r)
    BY <2>4 DEF CheckStart, QueuePrompt, CheckQueued, Connect, Hear, CheckDone, History,
                EmitCompleted, Stop
  <2> QED
    BY <1>7, <2>1, <2>2, <2>3, <2>4, <2>5 DEF ExecuteJob
<1>8. ASSUME NEW r \in Runners, SocketCloses(r) \/ ListenTimeout(r) PROVE Goal
  BY <1>2, <1>3, <1>8 DEF SocketCloses, ListenTimeout
<1>9. ASSUME NEW w \in Workers, Work(w) PROVE Goal
  <2>1. CASE MarkRetrying(w)
    <3>1. task[w] \in Messages /\ task[w].retries < MaxRetries
      BY <2>1 DEF MarkRetrying, Call, WorkInv
    <3>2. task[w].retries + 1 \in 1..MaxRetries /\ task[w].job \in Jobs
      BY <3>1, BoundsAssumption DEF Messages, Jobs
    <3> QED
      BY <1>3, <1>4, <2>1, <3>2, CallIsCall DEF MarkRetrying, Call
  <2>2. CASE Register(w) \/ OnFailure(w) \/ Retry(w) \/ Ack(w)
    BY <2>2 DEF Register, OnFailure, Retry, Ack
  <2> QED
    BY <1>9, <2>1, <2>2 DEF Work
<1>10. ASSUME NEW w \in Workers,
              \/ HardTimeLimit(w) \/ WorkerLost(w)
              \/ \E m \in Messages : Deliver(w, m)
              \/ \E j \in Queued : DeliverRevoke(w, j)
       PROVE Goal
  BY <1>2, <1>3, <1>4, <1>10 DEF HardTimeLimit, WorkerLost, Deliver, DeliverRevoke
<1>11. ASSUME NEW j \in Queued, SubmitStep(j) PROVE Goal
  BY <1>11, CallIsCall DEF SubmitStep, CreateJob, Publish, Call, Procs, Jobs
<1>12. ASSUME NEW d \in Direct, ExecuteRequest(d) PROVE Goal
  BY <1>12, CallIsCall DEF ExecuteRequest, CreateJob, EmitQueued, Except, Procs, Runners, Jobs
<1>13. ASSUME NEW j \in Cancels, CancelStep(j) PROVE Goal
  BY <1>13, CallIsCall, BoundsAssumption
     DEF CancelStep, CancelRead, CancelInterrupt, Call, Procs, Jobs
<1>14. ASSUME NEW j \in Jobs, Expire(j) PROVE Goal
  BY <1>14 DEF Expire, Tracker!Expire, Tracking!Expire, TrackerNext
<1>15. ASSUME \/ StartPrompt
              \/ \E j \in Jobs : \E n \in DOMAIN prompts[j] : EndPrompt(j, n)
       PROVE Goal
  <2>1. StartPrompt => Stays
    BY DEF StartPrompt, tracker
  <2>2. ASSUME NEW j \in Jobs, NEW n \in DOMAIN prompts[j], EndPrompt(j, n) PROVE Stays
    BY <2>2 DEF EndPrompt, tracker
  <2> QED
    BY <1>15, <2>1, <2>2
<1>16. ASSUME ApiRestart PROVE Goal
  <2>1. PICK cs \in SUBSET Procs : Tracker!Drop(cs)
    BY <1>16 DEF ApiRestart
  <2> QED
    BY <1>1, <2>1
<1>17. ASSUME UNCHANGED vars \/ \E m \in Messages : Restore(m) PROVE Goal
  BY <1>17 DEF vars, tracker, Restore
<1> HIDE DEF Move, Goal
<1>18. Next => Goal
  BY <1>5, <1>6, <1>7, <1>8, <1>9, <1>10, <1>11, <1>12, <1>13, <1>14, <1>15, <1>16, <1>17
     DEF Next
<1>19. Goal
  BY <1>17, <1>18
<1> QED
  BY <1>19 DEF Goal

-----------------------------------------------------------------------------
(* The pipeline implements JobTracker with any number of prompts: whatever  *)
(* handlers, workers and faults do, each write to Redis is one operation of *)
(* the tracker, read and written in two steps.                              *)
THEOREM PipelineImplementsTracker == Spec => Tracking!Spec
<1>1. Init => Tracking!Init /\ WorkInv
  BY InitWork DEF Init, Tracker!Init, Tracking!Init
<1>2. WorkInv /\ [Next]_vars => WorkInv'
  BY WorkStep
<1>3. WorkInv /\ [Next]_vars => [Tracking!Next]_(Tracking!vars)
  BY TrackerStep, TrackerNextIsNext DEF tracker, Tracking!vars
<1> QED
  BY <1>1, <1>2, <1>3, PTL DEF Spec, Tracking!Spec

-----------------------------------------------------------------------------
(* Types of the records, carried over from the tracker.                     *)
LEMMA TrackingTyped ==
  ASSUME WorkInv, Tracking!TypeOK, [Next]_vars
  PROVE  Tracking!TypeOK'
<1>1. [Tracking!Next]_(Tracking!vars)
  BY TrackerStep, TrackerNextIsNext DEF tracker, Tracking!vars
<1> QED
  BY <1>1, TrackingAssumptions, Tracking!TypeStep

(* Whatever copies overlap, the pipeline never leaves a record that         *)
(* contradicts itself, in Redis or on its way there.                        *)
THEOREM PipelineIsCoherent == Spec => []Tracking!RecordsCoherent
<1>1. Tracking!Spec => []Tracking!RecordsCoherent
  BY TrackingAssumptions, Tracking!AlwaysCoherent
<1> QED
  BY <1>1, PipelineImplementsTracker, PTL

(* In the pipeline, too, a settled cancellation is final.                   *)
THEOREM PipelineCancelIsFinal == Spec => Tracking!CancelIsFinal
<1>1. Tracking!Spec => Tracking!CancelIsFinal
  BY TrackingAssumptions, Tracking!CancellationIsFinal
<1> QED
  BY <1>1, PipelineImplementsTracker, PTL

-----------------------------------------------------------------------------
(* What a step may do to the prompts: end one, or start it; or post one.    *)
EndsOne ==
  \E j \in Jobs : \E n \in DOMAIN prompts[j], end \in PromptStates :
    prompts[j][n] # "success" /\ prompts' = [prompts EXCEPT ![j][n] = end]

(* Prompts change by ending one, or by the post of a runner. *)
LEMMA PromptsChange ==
  ASSUME [Next]_vars
  PROVE  UNCHANGED prompts \/ EndsOne \/ \E r \in Runners : QueuePrompt(r)
<1> DEFINE Goal == UNCHANGED prompts \/ EndsOne \/ \E r \in Runners : QueuePrompt(r)
<1>1. interrupt => UNCHANGED prompts \/ EndsOne
  BY DEF interrupt, comfy, EndAs, EndsOne, PromptStates
<1>2. ASSUME NEW r \in Runners, ExecuteJob(r) PROVE Goal
  BY <1>1, <1>2
     DEF ExecuteJob, CheckStart, CheckQueued, MarkRunning, Connect, Hear, UpdateProgress,
         CheckDone, History, MarkCompleted, EmitCompleted, Stop, MarkFailed, Call, comfy
<1>3. ASSUME NEW j \in Cancels, CancelStep(j) PROVE Goal
  BY <1>1, <1>3 DEF CancelStep, CancelRead, CancelInterrupt, Call, comfy
<1>4. StartPrompt => EndsOne
  BY DEF StartPrompt, EndsOne, PromptStates
<1>5. ASSUME NEW j \in Jobs, NEW n \in DOMAIN prompts[j], EndPrompt(j, n) PROVE EndsOne
  BY <1>5 DEF EndPrompt, EndAs, EndsOne, PromptStates
<1>6. ASSUME \/ \E p \in Procs : Save(p) \/ Raise(p)
             \/ \E r \in Runners : SocketCloses(r) \/ ListenTimeout(r)
             \/ \E w \in Workers : \/ Work(w) \/ HardTimeLimit(w) \/ WorkerLost(w)
                                   \/ \E l \in Messages : Deliver(w, l)
                                   \/ \E j \in Queued : DeliverRevoke(w, j)
             \/ \E j \in Queued : SubmitStep(j)
             \/ \E d \in Direct : ExecuteRequest(d)
             \/ \E j \in Jobs : Expire(j)
             \/ \E l \in Messages : Restore(l)
             \/ ApiRestart
             \/ UNCHANGED vars
      PROVE  UNCHANGED prompts
  BY <1>6 DEF Save, Raise, SocketCloses, ListenTimeout, Work, Register, OnFailure, MarkRetrying,
              Retry, Ack, HardTimeLimit, WorkerLost, Deliver, DeliverRevoke, SubmitStep,
              CreateJob, Publish, ExecuteRequest, EmitQueued, Except, Expire, Restore, ApiRestart,
              Call, comfy, vars
<1>7. Next => Goal
  BY <1>2, <1>3, <1>4, <1>5, <1>6 DEF Next
<1> QED
  BY <1>6, <1>7

(* A post appends to the prompts of the runner's job. *)
LEMMA PostAppends ==
  ASSUME WorkInv, NEW r \in Runners, QueuePrompt(r)
  PROVE  /\ pc[r] = "queue_prompt" /\ JobOf(r) \in Jobs
         /\ \/ prompts' = prompts
            \/ prompts' = [prompts EXCEPT ![JobOf(r)] = Append(@, "queued")]
         /\ Append(prompts[JobOf(r)], "queued") \in Seq(PromptStates)
<1>1. pc[r] = "queue_prompt" /\ JobOf(r) \in Jobs
  BY JobOfRunner DEF QueuePrompt, Move
<1>2. prompts[JobOf(r)] \in Seq(PromptStates) /\ "queued" \in PromptStates
  BY <1>1 DEF WorkInv, PromptStates
<1> QED
  BY <1>1, <1>2, AppendProperties DEF QueuePrompt

(* A prompt ComfyUI accepted is never forgotten, and one that succeeded     *)
(* stays so.                                                                *)
PromptStays(k, m) ==
  /\ m \in DOMAIN prompts'[k]
  /\ prompts[k][m] = "success" => prompts'[k][m] = "success"

(* No step takes a prompt back or undoes a success. *)
LEMMA PromptsStay ==
  ASSUME WorkInv, [Next]_vars, NEW k \in Jobs, NEW m \in DOMAIN prompts[k]
  PROVE  PromptStays(k, m)
<1>1. CASE UNCHANGED prompts
  BY <1>1 DEF PromptStays
<1>2. CASE EndsOne
  BY <1>2 DEF EndsOne, WorkInv, PromptStays
<1>3. ASSUME NEW r \in Runners, QueuePrompt(r)
      PROVE  PromptStays(k, m)
  <2>1. CASE k = JobOf(r) /\ prompts' # prompts
    <3>1. prompts[k] \in Seq(PromptStates) /\ "queued" \in PromptStates /\ m \in 1..Len(prompts[k])
      BY DEF WorkInv, PromptStates
    <3>2. prompts'[k] = Append(prompts[k], "queued")
      BY <1>3, <2>1, PostAppends DEF WorkInv
    <3>3. m \in DOMAIN prompts'[k] /\ prompts'[k][m] = prompts[k][m]
      BY <3>1, <3>2, AppendProperties
    <3> QED
      BY <3>3 DEF PromptStays
  <2>2. CASE k # JobOf(r) \/ prompts' = prompts
    BY <1>3, <2>2, PostAppends DEF WorkInv, PromptStays
  <2> QED
    BY <2>1, <2>2
<1> QED
  BY <1>1, <1>2, <1>3, PromptsChange

(* Ending one leaves their number. *)
LEMMA EndingKeepsLength ==
  ASSUME WorkInv, EndsOne, NEW k \in Jobs
  PROVE  Len(prompts'[k]) = Len(prompts[k])
<1>1. PICK j \in Jobs : \E n \in DOMAIN prompts[j], end \in PromptStates :
        prompts' = [prompts EXCEPT ![j][n] = end]
  BY DEF EndsOne
<1>2. PICK n \in DOMAIN prompts[j], end \in PromptStates :
        prompts' = [prompts EXCEPT ![j][n] = end]
  BY <1>1
<1>3. CASE j = k
  <2>1. prompts[k] \in Seq(PromptStates) /\ n \in 1..Len(prompts[k])
    BY <1>3 DEF WorkInv
  <2>2. prompts'[k] = [prompts[k] EXCEPT ![n] = end]
    BY <1>2, <1>3 DEF WorkInv
  <2> QED
    BY <2>1, <2>2, ExceptSeq
<1>4. CASE j # k
  BY <1>2, <1>4 DEF WorkInv
<1> QED
  BY <1>3, <1>4

(* Only a post makes ComfyUI do more for a job. *)
Posts(r, k) ==
  QueuePrompt(r) /\ JobOf(r) = k /\ prompts' = [prompts EXCEPT ![k] = Append(@, "queued")]

(* Only a post adds to the prompts of a job. *)
LEMMA OnlyPostsAdd ==
  ASSUME WorkInv, [Next]_vars, NEW k \in Jobs
  PROVE  Len(prompts'[k]) = Len(prompts[k]) \/ \E r \in Runners : Posts(r, k)
<1>1. UNCHANGED prompts \/ EndsOne \/ \E r \in Runners : QueuePrompt(r)
  BY PromptsChange
<1>2. ASSUME NEW r \in Runners, QueuePrompt(r)
      PROVE  Len(prompts'[k]) = Len(prompts[k]) \/ Posts(r, k)
  BY <1>2, PostAppends DEF WorkInv, Posts
<1> QED
  BY <1>1, <1>2, EndingKeepsLength

(* Only a runner about to post does. *)
LEMMA NothingPosted ==
  ASSUME WorkInv, [Next]_vars, NEW k \in Jobs,
         \A r \in Runners : pc[r] = "queue_prompt" => JobOf(r) # k
  PROVE  Len(prompts'[k]) = Len(prompts[k])
BY OnlyPostsAdd DEF Posts, QueuePrompt, Move

-----------------------------------------------------------------------------
Confirmed == {"mark_completed", "emit_completed"}

Kept(r) == pc'[r] = pc[r] /\ at'[r] = at[r] /\ JobOf(r)' = JobOf(r)

(* How a runner comes to post a prompt, and to a place where it holds one:  *)
(* it looks for a cancellation first; it posts, it finds its prompt         *)
(* successful in the history, or it held it before.                         *)
LEMMA RunnerStep ==
  ASSUME WorkInv, [Next]_vars, NEW r \in Runners,
         pc'[r] \in {"queue_prompt"} \cup Posted \cup Confirmed
  PROVE  /\ JobOf(r)' = JobOf(r) /\ pc[r] # "idle"
         /\ \/ /\ pc'[r] = "queue_prompt"
               /\ pc[r] = "queue_prompt" \/ ~Tracker!is_cancelled(JobOf(r))
            \/ pc'[r] = "check_queued" /\ at'[r] \in DOMAIN prompts'[JobOf(r)]
            \/ /\ pc'[r] # "queue_prompt"
               /\ at'[r] = at[r] /\ pc[r] \in Posted \cup Confirmed
               /\ pc'[r] \in Confirmed =>
                    \/ pc[r] \in Confirmed
                    \/ pc[r] = "history" /\ HistoryOk(JobOf(r), at[r])
<1> DEFINE Places == {"queue_prompt"} \cup Posted \cup Confirmed
           Goal == /\ JobOf(r)' = JobOf(r) /\ pc[r] # "idle"
                   /\ \/ /\ pc'[r] = "queue_prompt"
                         /\ pc[r] = "queue_prompt" \/ ~Tracker!is_cancelled(JobOf(r))
                      \/ pc'[r] = "check_queued" /\ at'[r] \in DOMAIN prompts'[JobOf(r)]
                      \/ /\ pc'[r] # "queue_prompt"
                         /\ at'[r] = at[r] /\ pc[r] \in Posted \cup Confirmed
                         /\ pc'[r] \in Confirmed =>
                              \/ pc[r] \in Confirmed
                              \/ pc[r] = "history" /\ HistoryOk(JobOf(r), at[r])
<1> USE DEF Posted, Confirmed, Move, Call
<1>1. Kept(r) => Goal
  BY DEF Kept
<1>2. UNCHANGED task => JobOf(r)' = JobOf(r)
  BY DEF JobOf
<1>3. ASSUME NEW p \in Procs, NEW x, pc' = [pc EXCEPT ![p] = x], UNCHANGED <<task, at>>,
             x \notin Places \/ p # r
      PROVE  Goal
  BY <1>1, <1>2, <1>3 DEF WorkInv, Kept, Procs
<1>4. ASSUME UNCHANGED <<pc, task, at>> PROVE Goal
  BY <1>1, <1>2, <1>4 DEF Kept
<1>5. ASSUME NEW q \in Runners, ExecuteJob(q) PROVE Goal
  <2>1. q \in Procs
    BY DEF Procs
  <2>2. CASE q # r
    <3>1. UNCHANGED task /\ at'[r] = at[r] /\ pc'[r] = pc[r]
      BY <1>5, <2>1, <2>2
         DEF ExecuteJob, CheckStart, QueuePrompt, CheckQueued, MarkRunning, Connect, Hear,
             UpdateProgress, CheckDone, History, MarkCompleted, EmitCompleted, Stop, MarkFailed,
             RaiseIfCancelled, WorkInv, Procs
    <3> QED
      BY <1>1, <1>2, <3>1 DEF Kept
  <2>3. CASE q = r /\ QueuePrompt(r)
    <3>1. CASE pc'[r] # "check_queued"
      BY <2>1, <2>3, <3>1 DEF QueuePrompt, WorkInv
    <3>2. CASE pc'[r] = "check_queued"
      <4> DEFINE j == JobOf(r)
      <4>1. /\ UNCHANGED task /\ pc[r] = "queue_prompt"
            /\ prompts' = [prompts EXCEPT ![j] = Append(@, "queued")]
            /\ at' = [at EXCEPT ![r] = Len([prompts EXCEPT ![j] = Append(@, "queued")][j])]
        BY <2>1, <2>3, <3>2 DEF QueuePrompt, WorkInv
      <4>2. j \in Jobs
        BY <4>1, JobOfRunner
      <4>3. prompts'[j] = Append(prompts[j], "queued") /\ prompts'[j] \in Seq(PromptStates)
        BY <4>1, <4>2, AppendProperties DEF WorkInv, PromptStates
      <4>4. at'[r] = Len(prompts'[j])
        BY <4>1 DEF WorkInv
      <4>5. Len(prompts'[j]) \in DOMAIN prompts'[j]
        BY <4>2, <4>3, AppendProperties, LenProperties DEF WorkInv, PromptStates
      <4> QED
        BY <1>2, <3>2, <4>1, <4>4, <4>5
    <3> QED
      BY <3>1, <3>2
  <2>4. CASE q = r /\ ~QueuePrompt(r)
    <3>1. UNCHANGED <<task, at>>
      BY <1>5, <2>4
         DEF ExecuteJob, CheckStart, CheckQueued, MarkRunning, Connect, Hear, UpdateProgress,
             CheckDone, History, MarkCompleted, EmitCompleted, Stop, MarkFailed
    <3>2. /\ pc[r] # "idle"
          /\ pc'[r] = "queue_prompt" => ~Tracker!is_cancelled(JobOf(r))
          /\ pc'[r] \in Posted \cup Confirmed => pc[r] \in Posted \cup Confirmed
          /\ pc'[r] \in Confirmed =>
               \/ pc[r] \in Confirmed
               \/ pc[r] = "history" /\ HistoryOk(JobOf(r), at[r])
      BY <1>5, <2>1, <2>4
         DEF ExecuteJob, CheckStart, CheckQueued, MarkRunning, Connect, Hear, UpdateProgress,
             CheckDone, History, MarkCompleted, EmitCompleted, Stop, MarkFailed,
             RaiseIfCancelled, WorkInv
    <3> QED
      BY <1>2, <3>1, <3>2
  <2> QED
    BY <2>2, <2>3, <2>4
<1>6. ASSUME NEW w \in Workers, Release(w) PROVE Goal
  BY <1>1, <1>6 DEF Release, Kept, JobOf, WorkInv, Runners, Procs
<1>7. ASSUME NEW w \in Workers, Work(w) PROVE Goal
  <2>1. w \in Procs
    BY DEF Procs, Runners
  <2>2. CASE Ack(w)
    BY <1>6, <2>2 DEF Ack
  <2> QED
    BY <1>3, <1>7, <2>1, <2>2 DEF Work, Register, OnFailure, MarkRetrying, Retry
<1>8. ASSUME NEW w \in Workers,
             \/ HardTimeLimit(w) \/ WorkerLost(w) \/ \E j \in Queued : DeliverRevoke(w, j)
      PROVE  Goal
  BY <1>4, <1>6, <1>8 DEF HardTimeLimit, WorkerLost, DeliverRevoke
<1>9. ASSUME NEW w \in Workers, NEW m \in Messages, Deliver(w, m) PROVE Goal
  <2>1. CASE UNCHANGED <<pc, task>>
    BY <1>4, <1>9, <2>1 DEF Deliver
  <2>2. CASE task' = [task EXCEPT ![w] = m] /\ pc' = [pc EXCEPT ![w] = "start"]
    BY <1>1, <1>9, <2>2 DEF Deliver, Kept, JobOf, WorkInv, Runners, Procs
  <2> QED
    BY <1>9, <2>1, <2>2 DEF Deliver
<1>10. ASSUME NEW j \in Queued, SubmitStep(j) PROVE Goal
  BY <1>3, <1>10 DEF SubmitStep, CreateJob, Publish, Procs
<1>11. ASSUME NEW d \in Direct, ExecuteRequest(d) PROVE Goal
  BY <1>3, <1>11 DEF ExecuteRequest, CreateJob, EmitQueued, Except, Procs, Runners
<1>12. ASSUME NEW j \in Cancels, CancelStep(j) PROVE Goal
  BY <1>3, <1>12 DEF CancelStep, CancelRead, CancelInterrupt, Procs
<1>13. ASSUME NEW q \in Runners, SocketCloses(q) \/ ListenTimeout(q) PROVE Goal
  <2>1. CASE q # r
    BY <1>3, <1>13, <2>1 DEF SocketCloses, ListenTimeout, Procs
  <2>2. CASE q = r
    BY <1>2, <1>13, <2>2 DEF SocketCloses, ListenTimeout, WorkInv, Procs
  <2> QED
    BY <2>1, <2>2
<1>14. ASSUME NEW p \in Procs, Raise(p) PROVE Goal
  BY <1>3, <1>4, <1>14 DEF Raise
<1>15. ASSUME ApiRestart PROVE Goal
  BY <1>1, <1>2, <1>15 DEF ApiRestart, Kept, Procs
<1>16. ASSUME \/ \E p \in Procs : Save(p)
              \/ \E j \in Jobs : Expire(j)
              \/ \E m \in Messages : Restore(m)
              \/ StartPrompt
              \/ \E j \in Jobs : \E n \in DOMAIN prompts[j] : EndPrompt(j, n)
              \/ UNCHANGED vars
       PROVE  Goal
  <2>1. UNCHANGED <<pc, task, at>>
    BY <1>16 DEF Save, Expire, Restore, StartPrompt, EndPrompt, vars
  <2> QED
    BY <1>4, <2>1
<1> HIDE DEF Goal
<1>17. Next => Goal
  BY <1>5, <1>7, <1>8, <1>9, <1>10, <1>11, <1>12, <1>13, <1>14, <1>15, <1>16 DEF Next
<1>18. Goal
  BY <1>16, <1>17
<1> QED
  BY <1>18 DEF Goal

-----------------------------------------------------------------------------
(* Every claim that a job is completed - in Redis, in a copy on its way     *)
(* there, or in the hands of a runner - stands for a prompt of the job that *)
(* ComfyUI finished, and the outputs it names, if any, are that prompt's.   *)
RenderInv ==
  /\ \A j \in Jobs : store[j] # NoJob /\ store[j].status = "completed"
                       => Gave(j, store[j].outputs)
  /\ \A p \in Procs : pend[p] # Idle /\ pend[p].rec.status = "completed"
                        => Gave(pend[p].job, pend[p].rec.outputs)
  /\ \A r \in Runners : pc[r] \in Posted \cup Confirmed => at[r] \in DOMAIN prompts[JobOf(r)]
  /\ \A r \in Runners : pc[r] \in Confirmed => Finished(JobOf(r), at[r])
  /\ CompletedEventIsTrue

(* A success stays in the history. *)
LEMMA FinishedStays ==
  ASSUME WorkInv, [Next]_vars, NEW k \in Jobs, NEW m, Finished(k, m)
  PROVE  Finished(k, m)'
BY PromptsStay DEF Finished, PromptStays

(* And so does what a prompt gave. *)
LEMMA GaveStays ==
  ASSUME WorkInv, [Next]_vars, NEW k \in Jobs, NEW found, Gave(k, found)
  PROVE  \E n \in DOMAIN prompts'[k] : Finished(k, n)' /\ found \in {0, n}
<1>1. PICK n : Finished(k, n) /\ found \in {0, n}
  BY DEF Gave
<1>2. Finished(k, n)'
  BY <1>1, FinishedStays
<1> QED
  BY <1>1, <1>2 DEF Finished

(* The prompts that runners hold stay what they claim. *)
LEMMA RunnersHold ==
  ASSUME WorkInv, RenderInv, [Next]_vars, NEW r \in Runners
  PROVE  /\ pc'[r] \in Posted \cup Confirmed => at'[r] \in DOMAIN prompts'[JobOf(r)']
         /\ pc'[r] \in Confirmed => Finished(JobOf(r), at[r])'
<1> SUFFICES ASSUME pc'[r] \in Posted \cup Confirmed
             PROVE  /\ at'[r] \in DOMAIN prompts'[JobOf(r)']
                    /\ pc'[r] \in Confirmed => Finished(JobOf(r), at[r])'
  BY DEF Posted, Confirmed
<1>1. JobOf(r)' = JobOf(r) /\ JobOf(r) \in Jobs
  BY RunnerStep, JobOfRunner
<1>2. CASE pc'[r] = "check_queued" /\ at'[r] \in DOMAIN prompts'[JobOf(r)]
  BY <1>1, <1>2 DEF Confirmed
<1>3. CASE /\ at'[r] = at[r] /\ pc[r] \in Posted \cup Confirmed
           /\ pc'[r] \in Confirmed =>
                \/ pc[r] \in Confirmed
                \/ pc[r] = "history" /\ HistoryOk(JobOf(r), at[r])
  <2>1. at[r] \in DOMAIN prompts[JobOf(r)]
    BY <1>3 DEF RenderInv
  <2>2. at[r] \in DOMAIN prompts'[JobOf(r)]
    BY <1>1, <2>1, PromptsStay DEF PromptStays
  <2>3. ASSUME pc'[r] \in Confirmed PROVE Finished(JobOf(r), at[r])
    BY <1>3, <2>1, <2>3 DEF RenderInv, Finished, HistoryOk
  <2>4. ASSUME pc'[r] \in Confirmed PROVE Finished(JobOf(r), at[r])'
    <3>1. at[r] \in DOMAIN prompts'[JobOf(r)] /\ prompts'[JobOf(r)][at[r]] = "success"
      BY <1>1, <2>1, <2>3, <2>4, PromptsStay DEF PromptStays, Finished
    <3> QED
      BY <1>1, <1>3, <3>1 DEF Finished
  <2> QED
    BY <1>1, <1>3, <2>2, <2>4
<1> QED
  BY <1>2, <1>3, RunnerStep DEF Posted, Confirmed

(* So do the prompts in records and in copies. *)
LEMMA RecordsHold ==
  ASSUME WorkInv, Tracking!TypeOK, RenderInv, [Next]_vars
  PROVE  /\ \A j \in Jobs : store'[j] # NoJob /\ store'[j].status = "completed"
                              => Gave(j, store[j].outputs)'
         /\ \A p \in Procs : pend'[p] # Idle /\ pend'[p].rec.status = "completed"
                               => Gave(pend[p].job, pend[p].rec.outputs)'
<1> DEFINE Sound(j, rec) == rec.status = "completed" => Gave(j, rec.outputs)
           Stored == \A j \in Jobs : store'[j] # NoJob => Sound(j, store'[j])
           Carried == \A p \in Procs : pend'[p] # Idle => Sound(pend'[p].job, pend'[p].rec)
           Goal == Stored /\ Carried
<1>1. /\ \A j \in Jobs : store[j] # NoJob => Sound(j, store[j]) /\ store[j] \in Tracking!TrackedJob
      /\ \A p \in Procs : pend[p] # Idle => Sound(pend[p].job, pend[p].rec)
                                            /\ pend[p] \in Tracking!Write
      /\ store \in [Jobs -> Tracking!TrackedJob \cup {NoJob}]
      /\ pend \in [Procs -> Tracking!Write \cup {Idle}]
  BY DEF RenderInv, Tracking!TypeOK
<1> HIDE DEF Sound
<1>2. ASSUME NEW c \in Procs, NEW j \in Jobs, NEW refused, NEW rec,
             Tracking!Fetch(c, j, refused, rec),
             store[j].status \notin refused => Sound(j, rec)
      PROVE  Goal
  BY <1>1, <1>2 DEF Tracking!Fetch
<1>3. ASSUME NEW c \in Procs, NEW j \in Jobs, Edit(c, j) PROVE Goal
  <2>1. CASE Tracking!Create(c, j)
    BY <1>1, <2>1 DEF Tracking!Create, Tracking!NewJob, Sound
  <2>2. CASE ~Tracking!Create(c, j)
    <3>1. store[j] # NoJob => store[j] \in Tracking!TrackedJob
      BY <1>1
    <3>2. CASE Tracking!AttachTask(c, j)
      <4>1. store[j] # NoJob => Sound(j, [store[j] EXCEPT !.task = TRUE])
        BY <1>1, <3>1 DEF Sound, Tracking!TrackedJob
      <4>2. Tracking!Fetch(c, j, {}, [store[j] EXCEPT !.task = TRUE])
        BY <3>2 DEF Tracking!AttachTask
      <4>3. store[j] # NoJob
        BY <4>2 DEF Tracking!Fetch
      <4> QED
        BY <1>2, <4>1, <4>2, <4>3
    <3>3. CASE Tracking!UpdateProgress(c, j)
      <4>1. store[j] # NoJob => Sound(j, [store[j] EXCEPT !.status = "running"])
        BY <3>1 DEF Sound, Tracking!TrackedJob
      <4> QED
        BY <1>2, <3>3, <4>1 DEF Tracking!UpdateProgress, Tracking!Fetch
    <3>5. CASE Tracking!MarkCancelled(c, j)
      <4>1. store[j] # NoJob => Sound(j, [store[j] EXCEPT !.status = "cancelled"])
        BY <3>1 DEF Sound, Tracking!TrackedJob
      <4>2. Tracking!Fetch(c, j, {}, [store[j] EXCEPT !.status = "cancelled"])
        BY <3>5 DEF Tracking!MarkCancelled
      <4>3. store[j] # NoJob
        BY <4>2 DEF Tracking!Fetch
      <4> QED
        BY <1>2, <4>1, <4>2, <4>3
    <3>6. ASSUME NEW n \in 1..MaxRetries, Tracking!MarkRetrying(c, j, n) PROVE Goal
      <4>1. store[j] # NoJob => Sound(j, [store[j] EXCEPT !.status = "retrying", !.error = TRUE,
                                                          !.retry_count = n])
        BY <3>1 DEF Sound, Tracking!TrackedJob
      <4> QED
        BY <1>2, <3>6, <4>1 DEF Tracking!MarkRetrying, Tracking!Fetch
    <3> QED
      BY <1>3, <2>2, <3>2, <3>3, <3>5, <3>6 DEF Edit
  <2> QED
    BY <2>1, <2>2
<1>4. ASSUME NEW r \in Runners, Complete(r) PROVE Goal
  <2>1. r \in Procs /\ JobOf(r) \in Jobs /\ Finished(JobOf(r), at[r])
    BY <1>4, JobOfRunner DEF Complete, RenderInv, Confirmed
  <2>2. PICK found \in {0, at[r]} : Tracking!MarkCompleted(r, JobOf(r), found)
    BY <1>4 DEF Complete
  <2>3. Gave(JobOf(r), found)
    BY <2>1, <2>2 DEF Gave, Finished
  <2>4. store[JobOf(r)] # NoJob =>
          Sound(JobOf(r), [store[JobOf(r)] EXCEPT !.status = "completed", !.outputs = found,
                                                  !.error = FALSE])
    BY <1>1, <2>1, <2>3 DEF Sound, Tracking!TrackedJob
  <2> QED
    BY <1>2, <2>1, <2>2, <2>4 DEF Tracking!MarkCompleted, Tracking!Fetch
<1>13. ASSUME NEW r \in Runners, Begin(r) PROVE Goal
  <2>1. r \in Procs /\ JobOf(r) \in Jobs
    BY <1>13, JobOfRunner DEF Begin
  <2>2. store[JobOf(r)] # NoJob =>
          Sound(JobOf(r), [store[JobOf(r)] EXCEPT !.prompt = at[r], !.status = "running"])
    BY <1>1, <2>1 DEF Sound, Tracking!TrackedJob
  <2> QED
    BY <1>2, <1>13, <2>1, <2>2 DEF Begin, Tracking!MarkRunning, Tracking!Fetch
<1>14. ASSUME NEW r \in Runners, Fail(r) PROVE Goal
  <2>1. r \in Procs /\ JobOf(r) \in Jobs
    BY <1>14, JobOfRunner DEF Fail, MarkFailed, Call, Move
  <2>2. store[JobOf(r)] # NoJob =>
          Sound(JobOf(r), [store[JobOf(r)] EXCEPT !.status = "failed", !.error = TRUE])
    BY <1>1, <2>1 DEF Sound, Tracking!TrackedJob
  <2> QED
    BY <1>2, <1>14, <2>1, <2>2 DEF Fail, Tracking!MarkFailed, Tracking!Fetch
<1>5. ASSUME NEW p \in Procs, Tracking!Save(p) PROVE Goal
  BY <1>1, <1>5 DEF Tracking!Save, Tracking!Write
<1>6. ASSUME NEW cs \in SUBSET Procs, Tracking!Drop(cs) PROVE Goal
  BY <1>1, <1>6 DEF Tracking!Drop
<1>7. ASSUME NEW j \in Jobs, Tracking!Expire(j) PROVE Goal
  BY <1>1, <1>7 DEF Tracking!Expire
<1>8. ASSUME UNCHANGED tracker PROVE Goal
  BY <1>1, <1>8 DEF tracker
<1>9. Stored /\ Carried
  <2> HIDE DEF Stored, Carried
  <2> QED
    BY <1>3, <1>4, <1>5, <1>6, <1>7, <1>8, <1>13, <1>14, TrackerStep DEF TrackerNext
<1>10. Tracking!TypeOK'
  BY TrackingTyped
<1>11. \A p \in Procs : pend'[p] # Idle => pend'[p].job \in Jobs
  BY <1>10 DEF Tracking!TypeOK, Tracking!Write
<1>12. \A k \in Jobs : \A found : Gave(k, found) =>
         \E n \in DOMAIN prompts'[k] : Finished(k, n)' /\ found \in {0, n}
  BY GaveStays
<1> QED
  BY <1>9, <1>11, <1>12 DEF Sound, Gave, Finished

(* So do those that rooms were told. *)
LEMMA EventHolds ==
  ASSUME WorkInv, RenderInv, announced \subseteq Jobs, [Next]_vars
  PROVE  announced' \subseteq Jobs /\ CompletedEventIsTrue'
<1>1. announced' \subseteq announced \cup
        {JobOf(r) : r \in {q \in Runners : pc[q] = "emit_completed"}}
  <2>1. ASSUME NEW r \in Runners, EmitCompleted(r)
        PROVE  pc[r] = "emit_completed" /\ announced' = announced \cup {JobOf(r)}
    BY <2>1 DEF EmitCompleted, Move
  <2>2. ASSUME [Next]_vars, \A r \in Runners : ~EmitCompleted(r) PROVE UNCHANGED announced
    BY <2>2
       DEF Next, vars, Save, Raise, ExecuteJob, CheckStart, QueuePrompt, CheckQueued, MarkRunning,
           Connect, Hear, UpdateProgress, CheckDone, History, MarkCompleted, Stop, MarkFailed,
           SocketCloses, ListenTimeout, Work, Register, OnFailure, MarkRetrying, Retry, Ack,
           HardTimeLimit, WorkerLost, Deliver, DeliverRevoke, SubmitStep, CreateJob, Publish,
           ExecuteRequest, EmitQueued, Except, CancelStep, CancelRead, CancelInterrupt, Expire,
           Restore, StartPrompt, EndPrompt, ApiRestart, Call
  <2> QED
    BY <2>1, <2>2
<1>2. ASSUME NEW j \in announced'
      PROVE  j \in Jobs /\ \E n : Finished(j, n)
  <2>1. CASE j \in announced
    BY <2>1 DEF RenderInv, CompletedEventIsTrue
  <2>2. ASSUME NEW r \in Runners, pc[r] = "emit_completed", j = JobOf(r)
        PROVE  j \in Jobs /\ \E n : Finished(j, n)
    BY <2>2, JobOfRunner DEF RenderInv, Confirmed
  <2> QED
    BY <1>1, <2>1, <2>2
<1>3. ASSUME NEW j \in announced'
      PROVE  \E n \in DOMAIN prompts'[j] : Finished(j, n)'
  <2>1. PICK n : Finished(j, n)
    BY <1>2
  <2>2. Finished(j, n)'
    BY <1>2, <2>1, FinishedStays
  <2> QED
    BY <2>2 DEF Finished
<1> QED
  BY <1>2, <1>3 DEF CompletedEventIsTrue

-----------------------------------------------------------------------------
PipelineInv == WorkInv /\ Tracking!TypeOK /\ announced \subseteq Jobs /\ RenderInv

(* PipelineInv is inductive. *)
LEMMA PipelineStep ==
  ASSUME PipelineInv, [Next]_vars
  PROVE  PipelineInv'
<1> USE DEF PipelineInv
<1>1. WorkInv' /\ Tracking!TypeOK'
  BY WorkStep, TrackingTyped
<1>2. announced' \subseteq Jobs /\ CompletedEventIsTrue'
  BY EventHolds
<1>3. RenderInv'
  BY <1>2, RunnersHold, RecordsHold DEF RenderInv
<1> QED
  BY <1>1, <1>2, <1>3

LEMMA PipelineInit ==
  ASSUME Init
  PROVE  PipelineInv
<1>1. Tracking!TypeOK
  BY DEF Init, Tracker!Init, Tracking!TypeOK
<1>2. \A r \in Runners : pc[r] \in {"idle", "new"}
  BY DEF Init, Procs
<1>3. RenderInv
  BY <1>2 DEF Init, Tracker!Init, RenderInv, Posted, Confirmed, CompletedEventIsTrue
<1> QED
  BY <1>1, <1>3, InitWork DEF Init, PipelineInv

LEMMA PipelineHolds == Spec => []PipelineInv
<1>1. PipelineInv /\ [Next]_vars => PipelineInv'
  BY PipelineStep
<1> QED
  BY <1>1, PipelineInit, PTL DEF Spec

(* However many attempts, redeliveries, cancellations and stale copies      *)
(* overlap, a completed job had a prompt which ComfyUI finished, and the    *)
(* outputs it shows, if any, come from that prompt.                         *)
THEOREM CompletedWasRendered == Spec => []CompletedIsRendered
<1>1. PipelineInv => CompletedIsRendered
  BY DEF PipelineInv, RenderInv, CompletedIsRendered, HasStatus
<1> QED
  BY <1>1, PipelineHolds, PTL

(* No room is told that a job is completed before a prompt of it finished.  *)
THEOREM CompletionAnnouncedTruly == Spec => []CompletedEventIsTrue
<1>1. PipelineInv => CompletedEventIsTrue
  BY DEF PipelineInv, RenderInv
<1> QED
  BY <1>1, PipelineHolds, PTL

(* Once a job is cancelled for good and no runner that looked before is     *)
(* about to post, no attempt, retry or redelivery occupies ComfyUI again.   *)
THEOREM CancelledNeverRenders == Spec => CancelledStaysQuiet
<1>1. ASSUME PipelineInv, [Next]_vars, NEW j \in Jobs, CancelledQuiet(j)
      PROVE  /\ Len(prompts'[j]) = Len(prompts[j])
             /\ CancelledQuiet(j)' \/ store'[j] = NoJob
  <2>1. WorkInv /\ Tracking!TypeOK
    BY <1>1 DEF PipelineInv
  <2>2. Len(prompts'[j]) = Len(prompts[j])
    BY <1>1, <2>1, NothingPosted DEF CancelledQuiet
  <2>3. Tracking!CancelSettled(j)'
    <3>1. [Tracking!Next]_(Tracking!vars)
      BY <1>1, <2>1, TrackerStep, TrackerNextIsNext DEF tracker, Tracking!vars
    <3>2. Tracking!CancelSettled(j)
      BY <1>1 DEF CancelledQuiet, Tracker!CancelSettled, Tracking!CancelSettled
    <3> QED
      BY <2>1, <3>1, <3>2, TrackingAssumptions, Tracking!CancelStep
  <2>4. Tracker!CancelSettled(j)'
    BY <2>3 DEF Tracker!CancelSettled, Tracking!CancelSettled
  <2>5. ASSUME NEW r \in Runners, pc'[r] = "queue_prompt" PROVE JobOf(r)' # j
    <3>1. JobOf(r)' = JobOf(r) /\ (pc[r] = "queue_prompt" \/ ~Tracker!is_cancelled(JobOf(r)))
      BY <1>1, <2>1, <2>5, RunnerStep DEF Posted, Confirmed
    <3> QED
      BY <1>1, <3>1 DEF CancelledQuiet
  <2>6. store'[j] # NoJob => Tracker!is_cancelled(j)'
    BY <2>4 DEF Tracker!CancelSettled, Tracker!is_cancelled
  <2> QED
    BY <2>2, <2>4, <2>5, <2>6 DEF CancelledQuiet
<1>2. PipelineInv /\ [Next]_vars
        => [\A j \in Jobs : CancelledQuiet(j) =>
              /\ Len(prompts'[j]) = Len(prompts[j])
              /\ CancelledQuiet(j)' \/ store'[j] = NoJob]_vars
  BY <1>1
<1> QED
  BY <1>2, PipelineHolds, PTL DEF Spec, CancelledStaysQuiet
=============================================================================

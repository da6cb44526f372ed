----------------------------- MODULE JobTracker -----------------------------
(***************************************************************************)
(* ComfyUIJobTracker (server/app/comfy/tracking.py): one JSON record per   *)
(* job under a Redis key.  Every operation but create reads the whole      *)
(* record (GET), edits it in memory and writes it back (SET), with nothing *)
(* between the two that would make the pair atomic.  The API process and   *)
(* the Celery workers share the keys, so the two halves are two steps      *)
(* here, and `pend` holds the edited copy a client has not written yet.    *)
(*                                                                         *)
(* Abstracted: mode, timestamps and the progress numbers of a record;      *)
(* outputs are the prompt they were parsed from, or NoPrompt for an empty  *)
(* list; error is whether there is a message, task whether a task_id is    *)
(* attached.                                                               *)
(***************************************************************************)
EXTENDS Naturals

CONSTANTS
  Jobs,        \* job ids, each made by one uuid4()
  Clients,     \* the callers of the tracker: handlers of the API, workers
  Prompts,     \* ComfyUI prompt ids
  NoPrompt,    \* prompt_id is None / outputs is []
  MaxRetries,  \* celery_task_max_retries
  NoJob,       \* what GET returns for a missing key
  Idle         \* the client is not between a GET and its SET

ASSUME PromptAssumption == NoPrompt \notin Prompts
ASSUME RetriesAssumption == MaxRetries \in Nat

VARIABLES
  store,    \* job id -> record in Redis, or NoJob
  pend,     \* client -> the write it is about to issue, or Idle
  created   \* the job ids handed out so far

vars == <<store, pend, created>>

Status == {"queued", "running", "retrying", "completed", "failed", "cancelled"}

TrackedJob == [status : Status, task : BOOLEAN, prompt : Prompts \cup {NoPrompt},
               retry_count : 0..MaxRetries, outputs : Prompts \cup {NoPrompt},
               error : BOOLEAN]

Write == [job : Jobs, rec : TrackedJob]

NewJob == [status |-> "queued", task |-> FALSE, prompt |-> NoPrompt,
           retry_count |-> 0, outputs |-> NoPrompt, error |-> FALSE]

ASSUME SentinelAssumption == NoJob \notin TrackedJob /\ Idle \notin Write

Init ==
  /\ store = [j \in Jobs |-> NoJob]
  /\ pend = [c \in Clients |-> Idle]
  /\ created = {}

-----------------------------------------------------------------------------
(* create: a plain SET under a key nobody has used before. *)
Create(c, j) ==
  /\ pend[c] = Idle
  /\ j \notin created
  /\ store' = [store EXCEPT ![j] = NewJob]
  /\ created' = created \cup {j}
  /\ UNCHANGED pend

(* The GET half of an operation: _require_job raises KeyError for a missing *)
(* key; a record in a status the operation refuses is returned unsaved;     *)
(* otherwise the edited record is on its way to _save.                      *)
Fetch(c, j, refused, edited) ==
  /\ pend[c] = Idle
  /\ store[j] # NoJob
  /\ pend' = IF store[j].status \in refused THEN pend
             ELSE [pend EXCEPT ![c] = [job |-> j, rec |-> edited]]
  /\ UNCHANGED <<store, created>>

AttachTask(c, j) ==
  Fetch(c, j, {}, [store[j] EXCEPT !.task = TRUE])

MarkRunning(c, j, p) ==
  Fetch(c, j, {"cancelled"}, [store[j] EXCEPT !.prompt = p, !.status = "running"])

(* Variant: update_progress without its CANCELLED guard. *)
UpdateProgressUnguarded(c, j) ==
  Fetch(c, j, {}, [store[j] EXCEPT !.status = "running"])

UpdateProgress(c, j) ==
  Fetch(c, j, {"cancelled"}, [store[j] EXCEPT !.status = "running"])

(* Variant: the retry being scheduled is counted twice. *)
MarkRetryingOverCounted(c, j, n) ==
  Fetch(c, j, {"cancelled", "completed"},
        [store[j] EXCEPT !.status = "retrying", !.error = TRUE, !.retry_count = n + 1])

MarkRetrying(c, j, n) ==
  Fetch(c, j, {"cancelled", "completed"},
        [store[j] EXCEPT !.status = "retrying", !.error = TRUE, !.retry_count = n])

(* Variant: the error of an earlier attempt is kept. *)
MarkCompletedKeepsError(c, j, found) ==
  Fetch(c, j, {"cancelled"},
        [store[j] EXCEPT !.status = "completed", !.outputs = found])

(* The outputs found in the history of a prompt, or [] if it lists none. *)
MarkCompleted(c, j, found) ==
  Fetch(c, j, {"cancelled"},
        [store[j] EXCEPT !.status = "completed", !.outputs = found, !.error = FALSE])

(* Variant: mark_failed refuses only a cancelled job. *)
MarkFailedAlways(c, j) ==
  Fetch(c, j, {"cancelled"},
        [store[j] EXCEPT !.status = "failed", !.error = TRUE])

MarkFailed(c, j) ==
  Fetch(c, j, {"cancelled", "completed"},
        [store[j] EXCEPT !.status = "failed", !.error = TRUE])

MarkCancelled(c, j) ==
  Fetch(c, j, {}, [store[j] EXCEPT !.status = "cancelled"])

(* The SET half: the whole record, whatever the key holds by now. *)
Save(c) ==
  /\ pend[c] # Idle
  /\ store' = [store EXCEPT ![pend[c].job] = pend[c].rec]
  /\ pend' = [pend EXCEPT ![c] = Idle]
  /\ UNCHANGED created

(* The processes of cs die or their SETs fail: the edits are gone. *)
Drop(cs) ==
  /\ pend' = [c \in Clients |-> IF c \in cs THEN Idle ELSE pend[c]]
  /\ UNCHANGED <<store, created>>

(* The TTL given to SET runs out. *)
Expire(j) ==
  /\ store[j] # NoJob
  /\ store' = [store EXCEPT ![j] = NoJob]
  /\ UNCHANGED <<pend, created>>

is_cancelled(j) == store[j] # NoJob /\ store[j].status = "cancelled"

Call(c, j) ==
  \/ Create(c, j)
  \/ AttachTask(c, j)
  \/ \E p \in Prompts : MarkRunning(c, j, p)
  \/ UpdateProgress(c, j)
  \/ \E n \in 1..MaxRetries : MarkRetrying(c, j, n)
  \/ \E found \in Prompts \cup {NoPrompt} : MarkCompleted(c, j, found)
  \/ MarkFailed(c, j)
  \/ MarkCancelled(c, j)

Next ==
  \/ \E c \in Clients, j \in Jobs : Call(c, j)
  \/ \E c \in Clients : Save(c)
  \/ \E cs \in SUBSET Clients : Drop(cs)
  \/ \E j \in Jobs : Expire(j)

Spec == Init /\ [][Next]_vars

-----------------------------------------------------------------------------
(* Types of the key space and of the copies in flight. *)
TypeOK ==
  /\ store \in [Jobs -> TrackedJob \cup {NoJob}]
  /\ pend \in [Clients -> Write \cup {Idle}]
  /\ created \subseteq Jobs

Coherent(rec) ==
  /\ rec.status = "queued" => rec = [NewJob EXCEPT !.task = rec.task]
  /\ rec.status = "completed" => ~rec.error
  /\ rec.status \in {"retrying", "failed"} => rec.error
  /\ rec.status = "retrying" => rec.retry_count > 0

(* Whatever copies overlap, every record in Redis and every copy on its     *)
(* way there tells one story: a queued job shows nothing of an execution,   *)
(* not even when the late attach_task of submit takes a running one back,   *)
(* a completed one no error, a retrying or failed one its error.  The races *)
(* lose whole writes; they never mix the fields of two.                     *)
RecordsCoherent ==
  /\ \A j \in Jobs : store[j] # NoJob => Coherent(store[j])
  /\ \A c \in Clients : pend[c] # Idle => Coherent(pend[c].rec)

(* j is cancelled, or its record expired, and no older copy of it in        *)
(* another status is on its way to Redis.                                   *)
CancelSettled(j) ==
  /\ j \in created
  /\ store[j] = NoJob \/ store[j].status = "cancelled"
  /\ \A c \in Clients :
       pend[c] # Idle /\ pend[c].job = j => pend[c].rec.status = "cancelled"

(* Cancellation is final once no operation that began before it is still    *)
(* to write: from then on neither a worker's progress, completion, failure  *)
(* or retry, nor the late attach_task of submit, nor expiry brings the job  *)
(* back (the CANCELLED guards of tracking.py).                              *)
CancelIsFinal == [][\A j \in Jobs : CancelSettled(j) => CancelSettled(j)']_vars

StaleFailure(j) == \E c \in Clients : /\ pend[c] # Idle
                                      /\ pend[c].job = j
                                      /\ pend[c].rec.status \in {"retrying", "failed"}

(* A completed job is downgraded to retrying or failed only by a copy that  *)
(* was read before it completed: mark_retrying and mark_failed refuse it,   *)
(* and no new such copy arises while it stays completed                     *)
(* (server/tests/test_job_tracker_lifecycle.py).                            *)
CompletedNotDowngraded ==
  [][\A j \in Jobs :
       store[j] # NoJob /\ store[j].status = "completed" /\ ~StaleFailure(j)
         => /\ store'[j] # NoJob => store'[j].status \notin {"retrying", "failed"}
            /\ ~StaleFailure(j)']_vars
=============================================================================

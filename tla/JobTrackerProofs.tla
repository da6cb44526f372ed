-------------------------- MODULE JobTrackerProofs --------------------------
(***************************************************************************)
(* What holds of the job store for any set of clients, jobs and prompts.   *)
(* The argument rests on one lemma, CallEdits: a tracker call either       *)
(* leaves the copies in flight alone or puts one new copy there, and that  *)
(* copy never contradicts the record it was read from.                     *)
(***************************************************************************)
EXTENDS JobTracker, TLAPS

(* What a call may make of the record it read: a cancelled one stays        *)
(* cancelled, a completed one does not become retrying or failed, and a     *)
(* coherent one stays coherent.                                             *)
Allowed(old, new) ==
  /\ old.status = "cancelled" => new.status = "cancelled"
  /\ old.status = "completed" => new.status \notin {"retrying", "failed"}
  /\ Coherent(old) => Coherent(new)

(* The guards and edits of the seven read-edit-write operations, taken      *)
(* together.                                                                *)
LEMMA CallEdits ==
  ASSUME TypeOK, NEW c \in Clients, NEW j \in Jobs, Call(c, j), ~Create(c, j)
  PROVE  /\ UNCHANGED <<store, created>>
         /\ \/ pend' = pend
            \/ /\ store[j] # NoJob
               /\ \E rec \in TrackedJob :
                    /\ Allowed(store[j], rec)
                    /\ pend' = [pend EXCEPT ![c] = [job |-> j, rec |-> rec]]
<1> DEFINE Goal == /\ UNCHANGED <<store, created>>
                   /\ \/ pend' = pend
                      \/ /\ store[j] # NoJob
                         /\ \E rec \in TrackedJob :
                              /\ Allowed(store[j], rec)
                              /\ pend' = [pend EXCEPT ![c] = [job |-> j, rec |-> rec]]
<1>1. store[j] # NoJob => store[j] \in TrackedJob
  BY DEF TypeOK
<1>2. CASE AttachTask(c, j)
  BY <1>1, <1>2 DEF AttachTask, Fetch, TrackedJob, Allowed, Coherent
<1>3. ASSUME NEW p \in Prompts, MarkRunning(c, j, p) PROVE Goal
  BY <1>1, <1>3 DEF MarkRunning, Fetch, TrackedJob, Status, Allowed, Coherent
<1>4. CASE UpdateProgress(c, j)
  BY <1>1, <1>4 DEF UpdateProgress, Fetch, TrackedJob, Status, Allowed, Coherent
<1>5. ASSUME NEW n \in 1..MaxRetries, MarkRetrying(c, j, n) PROVE Goal
  <2> DEFINE rec == [store[j] EXCEPT !.status = "retrying", !.error = TRUE,
                                     !.retry_count = n]
  <2>1. store[j] \in TrackedJob /\ n \in 0..MaxRetries /\ n > 0
    BY <1>1, <1>5, RetriesAssumption DEF MarkRetrying, Fetch
  <2>2. /\ rec \in TrackedJob
        /\ rec.status = "retrying" /\ rec.error = TRUE /\ rec.retry_count = n
    BY <2>1 DEF TrackedJob, Status
  <2>3. store[j].status \notin {"cancelled", "completed"} => Allowed(store[j], rec)
    BY <2>1, <2>2 DEF Allowed, Coherent
  <2> QED
    BY <1>5, <2>2, <2>3 DEF MarkRetrying, Fetch
<1>6. ASSUME NEW found \in Prompts \cup {NoPrompt}, MarkCompleted(c, j, found) PROVE Goal
  BY <1>1, <1>6
     DEF MarkCompleted, Fetch, TrackedJob, Status, Allowed, Coherent
<1>7. CASE MarkFailed(c, j)
  BY <1>1, <1>7 DEF MarkFailed, Fetch, TrackedJob, Status, Allowed, Coherent
<1>8. CASE MarkCancelled(c, j)
  BY <1>1, <1>8 DEF MarkCancelled, Fetch, TrackedJob, Status, Allowed, Coherent
<1> QED
  BY <1>2, <1>3, <1>4, <1>5, <1>6, <1>7, <1>8 DEF Call

-----------------------------------------------------------------------------
(* The typing argument of one step. *)
LEMMA TypeStep == TypeOK /\ [Next]_vars => TypeOK'
<1> SUFFICES ASSUME TypeOK, [Next]_vars PROVE TypeOK'
  OBVIOUS
<1>1. ASSUME NEW c \in Clients, NEW j \in Jobs, Create(c, j) PROVE TypeOK'
  <2>1. NewJob \in TrackedJob
    BY RetriesAssumption DEF NewJob, TrackedJob, Status
  <2> QED
    BY <1>1, <2>1 DEF Create, TypeOK
<1>2. ASSUME NEW c \in Clients, NEW j \in Jobs, Call(c, j), ~Create(c, j)
      PROVE  TypeOK'
  <2>1. CASE pend' = pend
    BY <1>2, <2>1, CallEdits DEF TypeOK
  <2>2. CASE pend' # pend
    <3>1. PICK rec \in TrackedJob : pend' = [pend EXCEPT ![c] = [job |-> j, rec |-> rec]]
      BY <1>2, <2>2, CallEdits
    <3>2. [job |-> j, rec |-> rec] \in Write
      BY DEF Write
    <3> QED
      BY <1>2, <3>1, <3>2, CallEdits DEF TypeOK
  <2> QED
    BY <2>1, <2>2
<1>3. ASSUME NEW c \in Clients, Save(c) PROVE TypeOK'
  <2>1. pend[c] \in Write
    BY <1>3 DEF Save, TypeOK
  <2>2. pend[c].job \in Jobs /\ pend[c].rec \in TrackedJob
    BY <2>1 DEF Write
  <2> QED
    BY <1>3, <2>2 DEF Save, TypeOK
<1>4. ASSUME NEW cs \in SUBSET Clients, Drop(cs) PROVE TypeOK'
  BY <1>4 DEF Drop, TypeOK
<1>5. ASSUME NEW j \in Jobs, Expire(j) PROVE TypeOK'
  BY <1>5 DEF Expire, TypeOK
<1>6. CASE UNCHANGED vars
  BY <1>6 DEF vars, TypeOK
<1> QED
  BY <1>1, <1>2, <1>3, <1>4, <1>5, <1>6 DEF Next

(* Redis only ever holds well-typed records, and so do the copies in        *)
(* flight; in particular retry_count never exceeds celery_task_max_retries. *)
THEOREM TypeCorrect == Spec => []TypeOK
<1>1. Init => TypeOK
  BY DEF Init, TypeOK
<1> QED
  BY <1>1, TypeStep, PTL DEF Spec

-----------------------------------------------------------------------------
(* RecordsCoherent is inductive once the types are known: a SET installs a  *)
(* copy that was coherent when it was made, and an edit of a coherent       *)
(* record is coherent.                                                      *)
LEMMA CoherentStep == TypeOK /\ RecordsCoherent /\ [Next]_vars => RecordsCoherent'
<1> SUFFICES ASSUME TypeOK, RecordsCoherent, [Next]_vars PROVE RecordsCoherent'
  OBVIOUS
<1> USE DEF RecordsCoherent
<1>1. ASSUME NEW c \in Clients, NEW j \in Jobs, Create(c, j) PROVE RecordsCoherent'
  <2>1. Coherent(NewJob)
    BY DEF Coherent, NewJob
  <2> QED
    BY <1>1, <2>1 DEF Create, TypeOK
<1>2. ASSUME NEW c \in Clients, NEW j \in Jobs, Call(c, j), ~Create(c, j)
      PROVE  RecordsCoherent'
  <2>1. CASE pend' = pend
    BY <1>2, <2>1, CallEdits
  <2>2. CASE pend' # pend
    <3>1. PICK rec \in TrackedJob :
            /\ store[j] # NoJob
            /\ Allowed(store[j], rec)
            /\ pend' = [pend EXCEPT ![c] = [job |-> j, rec |-> rec]]
      BY <1>2, <2>2, CallEdits
    <3>2. Coherent(rec)
      BY <3>1 DEF Allowed
    <3> QED
      BY <1>2, <3>1, <3>2, CallEdits DEF TypeOK
  <2> QED
    BY <2>1, <2>2
<1>3. ASSUME NEW c \in Clients, Save(c) PROVE RecordsCoherent'
  BY <1>3 DEF Save, TypeOK
<1>4. ASSUME NEW cs \in SUBSET Clients, Drop(cs) PROVE RecordsCoherent'
  BY <1>4 DEF Drop, TypeOK
<1>5. ASSUME NEW j \in Jobs, Expire(j) PROVE RecordsCoherent'
  BY <1>5 DEF Expire, TypeOK
<1>6. CASE UNCHANGED vars
  BY <1>6 DEF vars
<1> QED
  BY <1>1, <1>2, <1>3, <1>4, <1>5, <1>6 DEF Next

(* No interleaving of the tracker's callers ever leaves a completed job     *)
(* with an error, a failed one without, or a queued one with anything of an *)
(* execution.                                                               *)
THEOREM AlwaysCoherent == Spec => []RecordsCoherent
<1>1. Init => TypeOK /\ RecordsCoherent
  BY DEF Init, TypeOK, RecordsCoherent
<1>2. TypeOK /\ RecordsCoherent /\ [Next]_vars => (TypeOK /\ RecordsCoherent)'
  BY TypeStep, CoherentStep
<1> QED
  BY <1>1, <1>2, PTL DEF Spec

-----------------------------------------------------------------------------
(* The step behind CancelIsFinal: a copy that could undo the cancellation   *)
(* would have to be read from a record that is not cancelled.               *)
LEMMA CancelStep ==
  ASSUME TypeOK, [Next]_vars, NEW j \in Jobs, CancelSettled(j)
  PROVE  CancelSettled(j)'
<1> USE DEF CancelSettled
<1>1. ASSUME NEW c \in Clients, NEW k \in Jobs, Create(c, k) PROVE CancelSettled(j)'
  <2>1. k # j
    BY <1>1 DEF Create
  <2> QED
    BY <1>1, <2>1 DEF Create, TypeOK
<1>2. ASSUME NEW c \in Clients, NEW k \in Jobs, Call(c, k), ~Create(c, k)
      PROVE  CancelSettled(j)'
  <2>1. CASE pend' = pend
    BY <1>2, <2>1, CallEdits
  <2>2. CASE pend' # pend
    <3>1. PICK rec \in TrackedJob :
            /\ store[k] # NoJob
            /\ Allowed(store[k], rec)
            /\ pend' = [pend EXCEPT ![c] = [job |-> k, rec |-> rec]]
      BY <1>2, <2>2, CallEdits
    <3>2. k = j => rec.status = "cancelled"
      BY <3>1 DEF Allowed
    <3> QED
      BY <1>2, <3>1, <3>2, CallEdits DEF TypeOK
  <2> QED
    BY <2>1, <2>2
<1>3. ASSUME NEW c \in Clients, Save(c) PROVE CancelSettled(j)'
  BY <1>3 DEF Save, TypeOK
<1>4. ASSUME NEW cs \in SUBSET Clients, Drop(cs) PROVE CancelSettled(j)'
  BY <1>4 DEF Drop, TypeOK
<1>5. ASSUME NEW k \in Jobs, Expire(k) PROVE CancelSettled(j)'
  BY <1>5 DEF Expire, TypeOK
<1>6. CASE UNCHANGED vars
  BY <1>6 DEF vars
<1> QED
  BY <1>1, <1>2, <1>3, <1>4, <1>5, <1>6 DEF Next

(* Once a cancelled job has no older copy in flight, no caller of the       *)
(* tracker ever brings it back.                                             *)
THEOREM CancellationIsFinal == Spec => CancelIsFinal
<1>1. TypeOK /\ [Next]_vars
        => [\A j \in Jobs : CancelSettled(j) => CancelSettled(j)']_vars
  BY CancelStep
<1> QED
  BY <1>1, TypeCorrect, PTL DEF Spec, CancelIsFinal

-----------------------------------------------------------------------------
(* What CompletedNotDowngraded asks of one step. *)
NotDowngraded(j) ==
  store[j] # NoJob /\ store[j].status = "completed" /\ ~StaleFailure(j)
    => /\ store'[j] # NoJob => store'[j].status \notin {"retrying", "failed"}
       /\ ~StaleFailure(j)'

(* The step behind it: mark_retrying and mark_failed refuse a completed     *)
(* record, so a copy that says otherwise was read before.                   *)
LEMMA CompletedStep ==
  ASSUME TypeOK, [Next]_vars, NEW j \in Jobs
  PROVE  NotDowngraded(j)
<1> SUFFICES ASSUME store[j] # NoJob, store[j].status = "completed", ~StaleFailure(j)
             PROVE  /\ store'[j] # NoJob => store'[j].status \notin {"retrying", "failed"}
                    /\ ~StaleFailure(j)'
  BY DEF NotDowngraded
<1> DEFINE Goal == /\ store'[j] # NoJob => store'[j].status \notin {"retrying", "failed"}
                   /\ ~StaleFailure(j)'
<1> USE DEF StaleFailure
<1>1. ASSUME NEW c \in Clients, NEW k \in Jobs, Create(c, k) PROVE Goal
  BY <1>1 DEF Create, TypeOK, NewJob
<1>2. ASSUME NEW c \in Clients, NEW k \in Jobs, Call(c, k), ~Create(c, k) PROVE Goal
  <2>1. CASE pend' = pend
    BY <1>2, <2>1, CallEdits
  <2>2. CASE pend' # pend
    <3>1. PICK rec \in TrackedJob :
            /\ store[k] # NoJob
            /\ Allowed(store[k], rec)
            /\ pend' = [pend EXCEPT ![c] = [job |-> k, rec |-> rec]]
      BY <1>2, <2>2, CallEdits
    <3>2. k = j => rec.status \notin {"retrying", "failed"}
      BY <3>1 DEF Allowed
    <3> QED
      BY <1>2, <3>1, <3>2, CallEdits DEF TypeOK
  <2> QED
    BY <2>1, <2>2
<1>3. ASSUME NEW c \in Clients, Save(c) PROVE Goal
  BY <1>3 DEF Save, TypeOK
<1>4. ASSUME NEW cs \in SUBSET Clients, Drop(cs) PROVE Goal
  BY <1>4 DEF Drop, TypeOK
<1>5. ASSUME NEW k \in Jobs, Expire(k) PROVE Goal
  BY <1>5 DEF Expire, TypeOK
<1>6. CASE UNCHANGED vars
  BY <1>6 DEF vars
<1> QED
  BY <1>1, <1>2, <1>3, <1>4, <1>5, <1>6 DEF Next

(* For any number of clients, a completed job is downgraded to retrying or  *)
(* failed only by a copy read before it completed.                          *)
THEOREM CompletionKept == Spec => CompletedNotDowngraded
<1>1. TypeOK /\ [Next]_vars => [\A j \in Jobs : NotDowngraded(j)]_vars
  BY CompletedStep
<1>2. TypeOK /\ [Next]_vars
        => [\A j \in Jobs :
              store[j] # NoJob /\ store[j].status = "completed" /\ ~StaleFailure(j)
                => /\ store'[j] # NoJob => store'[j].status \notin {"retrying", "failed"}
                   /\ ~StaleFailure(j)']_vars
  BY <1>1 DEF NotDowngraded
<1> QED
  BY <1>2, TypeCorrect, PTL DEF Spec, CompletedNotDowngraded
=============================================================================

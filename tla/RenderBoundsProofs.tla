------------------------- MODULE RenderBoundsProofs -------------------------
(***************************************************************************)
(* How often a job can run: the copies of its task and the prompts it      *)
(* posts, for any jobs, workers, retries, redeliveries and faults.         *)
(*                                                                         *)
(* Both bounds come from one count.  A message with k retries behind it    *)
(* carries the tokens F[k], a worker the tokens of what it may still do.   *)
(* With one token each the tokens are the copies; with one for each        *)
(* attempt left, k..MaxRetries, they are the prompts still to be posted.   *)
(* No step adds tokens but the publication of a task and the return of a   *)
(* message to the queue, and each of those adds at most F[0].              *)
(***************************************************************************)
EXTENDS RenderQueueProofs, FiniteSetTheorems

(* The tracker with the prompt ids a bounded pipeline can hand out. *)
Bounded == INSTANCE JobTrackerProofs WITH
  Clients <- Procs, Prompts <- PromptIds, NoPrompt <- 0

(* What the bounds need to know besides WorkInv. *)
BrokerInv ==
  /\ queue \in [Messages -> Nat]
  /\ redeliveries \in 0..MaxRedeliveries
  /\ \A w \in Workers : /\ pc[w] = "idle" <=> task[w] = NoTask
                        /\ pc[w] = "retry" => task[w].retries < MaxRetries

(* Tokens that never grow with the number of retries. *)
Spans == {F \in [0..MaxRetries + 1 -> SUBSET (0..MaxRetries)] :
            \A k \in 0..MaxRetries : F[k + 1] \subseteq F[k] /\ F[k] \subseteq F[0]}

InQueue(j, F) ==
  {t \in ((0..MaxRetries) \X Nat) \X (0..MaxRetries) :
     /\ t[1][2] \in 1..queue[Message(j, t[1][1])]
     /\ t[2] \in F[t[1][1]]}

(* The retries behind a worker, its own post included. *)
Stage(w) == IF pc[w] \in {"start", "queue_prompt"} THEN task[w].retries ELSE task[w].retries + 1

Held(j, F) ==
  {t \in Workers \X (0..MaxRetries) : t[1] \in Holding(j) /\ t[2] \in F[Stage(t[1])]}

(* The submission has not reached apply_async. *)
Unpublished(j) == pc[Submit(j)] \in {"new", "publish"}

FiniteTokens(j, F) == IsFiniteSet(InQueue(j, F)) /\ IsFiniteSet(Held(j, F))

Total(j, F) == Cardinality(InQueue(j, F)) + Cardinality(Held(j, F))
               + (IF Unpublished(j) THEN Cardinality(F[0]) ELSE 0)

-----------------------------------------------------------------------------
(* Spans are finite sets of tokens. *)
LEMMA SpanFinite ==
  ASSUME NEW F \in Spans, NEW k \in 0..MaxRetries + 1
  PROVE  /\ F[k] \subseteq 0..MaxRetries
         /\ IsFiniteSet(F[k]) /\ Cardinality(F[k]) \in Nat
<1>1. F[k] \subseteq 0..MaxRetries
  BY DEF Spans
<1>2. IsFiniteSet(0..MaxRetries)
  BY FS_Interval, BoundsAssumption
<1> QED
  BY <1>1, <1>2, FS_Subset, FS_CardinalityType

(* A further retry adds no token, and the first attempt has all. *)
LEMMA SpanShrinks ==
  ASSUME NEW F \in Spans, NEW k \in 0..MaxRetries
  PROVE  /\ Cardinality(F[k + 1]) <= Cardinality(F[k])
         /\ Cardinality(F[k]) <= Cardinality(F[0])
<1>1. /\ F[k + 1] \subseteq F[k] /\ F[k] \subseteq F[0]
      /\ k \in 0..MaxRetries + 1 /\ 0 \in 0..MaxRetries + 1
  BY BoundsAssumption DEF Spans
<1>2. IsFiniteSet(F[k]) /\ IsFiniteSet(F[0])
  BY <1>1, SpanFinite
<1> QED
  BY <1>1, <1>2, FS_Subset

(* One carrier more or less. *)
LEMMA BlockCount ==
  ASSUME NEW x, NEW S, IsFiniteSet(S)
  PROVE  IsFiniteSet({x} \X S) /\ Cardinality({x} \X S) = Cardinality(S)
<1>1. IsFiniteSet({x}) /\ Cardinality({x}) = 1
  BY FS_Singleton
<1>2. Cardinality(S) \in Nat
  BY FS_CardinalityType
<1>3. Cardinality({x} \X S) = 1 * Cardinality(S)
  BY <1>1, FS_Product
<1> QED
  BY <1>1, <1>2, <1>3, FS_Product

(* A set that gains at most one block of tokens grows by at most the block. *)
LEMMA AddBlock ==
  ASSUME NEW A, IsFiniteSet(A), NEW x, NEW S, IsFiniteSet(S),
         NEW B \in SUBSET (A \cup ({x} \X S))
  PROVE  IsFiniteSet(B) /\ Cardinality(B) <= Cardinality(A) + Cardinality(S)
<1> DEFINE X == {x} \X S
<1>1. IsFiniteSet(X) /\ Cardinality(X) = Cardinality(S)
  BY BlockCount
<1> HIDE DEF X
<1>2. /\ IsFiniteSet(A \cup X) /\ IsFiniteSet(A \cap X)
      /\ Cardinality(A \cup X) = Cardinality(A) + Cardinality(X) - Cardinality(A \cap X)
  BY <1>1, FS_Union, FS_Intersection
<1>3. IsFiniteSet(B) /\ Cardinality(B) <= Cardinality(A \cup X)
  BY <1>2, FS_Subset DEF X
<1>4. /\ Cardinality(A) \in Nat /\ Cardinality(X) \in Nat
      /\ Cardinality(A \cap X) \in Nat /\ Cardinality(B) \in Nat
  BY <1>1, <1>2, <1>3, FS_CardinalityType
<1> QED
  BY <1>1, <1>2, <1>3, <1>4

(* A set that loses a block shrinks by the block. *)
LEMMA TakeBlock ==
  ASSUME NEW A, IsFiniteSet(A), NEW x, NEW S, {x} \X S \subseteq A,
         NEW B \in SUBSET (A \ ({x} \X S)), IsFiniteSet(S)
  PROVE  IsFiniteSet(B) /\ Cardinality(B) + Cardinality(S) <= Cardinality(A)
<1> DEFINE X == {x} \X S
<1>1. IsFiniteSet(X) /\ Cardinality(X) = Cardinality(S) /\ A \cap X = X
  BY BlockCount
<1> HIDE DEF X
<1>2. IsFiniteSet(A \ X) /\ Cardinality(A \ X) = Cardinality(A) - Cardinality(X)
  <2>1. IsFiniteSet(A \ X) /\ Cardinality(A \ X) = Cardinality(A) - Cardinality(A \cap X)
    BY FS_Difference
  <2> QED
    BY <1>1, <2>1
<1>3. IsFiniteSet(B) /\ Cardinality(B) <= Cardinality(A \ X)
  BY <1>2, FS_Subset DEF X
<1>4. Cardinality(A) \in Nat /\ Cardinality(X) \in Nat /\ Cardinality(B) \in Nat
  BY <1>1, <1>3, FS_CardinalityType
<1> QED
  BY <1>1, <1>2, <1>3, <1>4

(* The queue gains or loses a message with k retries. *)
LEMMA QueueGains ==
  ASSUME BrokerInv, NEW j \in Queued, NEW F \in Spans, IsFiniteSet(InQueue(j, F)),
         NEW i \in Queued, NEW k \in 0..MaxRetries,
         queue' = [queue EXCEPT ![Message(i, k)] = @ + 1]
  PROVE  /\ IsFiniteSet(InQueue(j, F)')
         /\ Cardinality(InQueue(j, F)') <=
              Cardinality(InQueue(j, F)) + (IF i = j THEN Cardinality(F[k]) ELSE 0)
         /\ i # j => InQueue(j, F)' = InQueue(j, F)
<1> DEFINE x == <<k, queue[Message(i, k)] + 1>>
<1>1. \A h \in Queued, n \in 0..MaxRetries : /\ Message(h, n) \in Messages
                                            /\ Message(h, n).job = h
                                            /\ Message(h, n).retries = n
  BY DEF Message, Messages
<1>2. \A n \in 0..MaxRetries : /\ queue[Message(j, n)] \in Nat
                               /\ queue'[Message(j, n)] = queue[Message(j, n)]
                                    + (IF i = j /\ k = n THEN 1 ELSE 0)
  BY <1>1 DEF BrokerInv
<1>3. CASE i # j
  <2>1. InQueue(j, F)' = InQueue(j, F)
    BY <1>2, <1>3 DEF InQueue
  <2>2. Cardinality(InQueue(j, F)) \in Nat
    BY FS_CardinalityType
  <2> QED
    BY <1>3, <2>1, <2>2
<1>4. CASE i = j
  <2>1. InQueue(j, F)' \subseteq InQueue(j, F) \cup ({x} \X F[k])
    <3> SUFFICES ASSUME NEW t \in InQueue(j, F)'
                 PROVE  t \in InQueue(j, F) \/ t \in {x} \X F[k]
      OBVIOUS
    <3>1. PICK n \in 0..MaxRetries, m \in Nat, a \in 0..MaxRetries :
            t = <<<<n, m>>, a>> /\ m \in 1..queue'[Message(j, n)] /\ a \in F[n]
      BY DEF InQueue
    <3>2. CASE m \in 1..queue[Message(j, n)]
      BY <3>1, <3>2 DEF InQueue
    <3>3. CASE m \notin 1..queue[Message(j, n)]
      <4>1. n = k /\ m = queue[Message(j, n)] + 1
        BY <1>2, <3>1, <3>3
      <4> QED
        BY <1>4, <3>1, <4>1
    <3> QED
      BY <3>2, <3>3
  <2>2. IsFiniteSet(F[k])
    BY SpanFinite, BoundsAssumption
  <2> HIDE DEF x
  <2> QED
    BY <1>4, <2>1, <2>2, AddBlock
<1> QED
  BY <1>3, <1>4

(* A delivery takes the tokens of the delivered copy out of the queue. *)
LEMMA QueueLoses ==
  ASSUME BrokerInv, NEW j \in Queued, NEW F \in Spans, IsFiniteSet(InQueue(j, F)),
         NEW i \in Queued, NEW k \in 0..MaxRetries, queue[Message(i, k)] > 0,
         queue' = [queue EXCEPT ![Message(i, k)] = @ - 1]
  PROVE  /\ IsFiniteSet(InQueue(j, F)')
         /\ Cardinality(InQueue(j, F)') + (IF i = j THEN Cardinality(F[k]) ELSE 0)
              <= Cardinality(InQueue(j, F))
<1> DEFINE x == <<k, queue[Message(i, k)]>>
<1>1. \A h \in Queued, n \in 0..MaxRetries : /\ Message(h, n) \in Messages
                                            /\ Message(h, n).job = h
                                            /\ Message(h, n).retries = n
  BY DEF Message, Messages
<1>2. \A n \in 0..MaxRetries : /\ queue[Message(j, n)] \in Nat
                               /\ queue'[Message(j, n)] = queue[Message(j, n)]
                                    - (IF i = j /\ k = n THEN 1 ELSE 0)
  BY <1>1 DEF BrokerInv
<1>3. CASE i # j
  <2>1. InQueue(j, F)' = InQueue(j, F)
    BY <1>2, <1>3 DEF InQueue
  <2>2. Cardinality(InQueue(j, F)) \in Nat
    BY FS_CardinalityType
  <2> QED
    BY <1>3, <2>1, <2>2
<1>4. CASE i = j
  <2>1. F[k] \subseteq 0..MaxRetries /\ IsFiniteSet(F[k])
    BY SpanFinite, BoundsAssumption
  <2>2. {x} \X F[k] \subseteq InQueue(j, F)
    BY <1>2, <1>4, <2>1 DEF InQueue
  <2>3. InQueue(j, F)' \subseteq InQueue(j, F) \ ({x} \X F[k])
    <3> SUFFICES ASSUME NEW t \in InQueue(j, F)'
                 PROVE  t \in InQueue(j, F) /\ t \notin {x} \X F[k]
      OBVIOUS
    <3>1. PICK n \in 0..MaxRetries, m \in Nat, a \in 0..MaxRetries :
            t = <<<<n, m>>, a>> /\ m \in 1..queue'[Message(j, n)] /\ a \in F[n]
      BY DEF InQueue
    <3>2. m \in 1..queue[Message(j, n)] /\ (n = k => m # queue[Message(j, k)])
      BY <1>2, <1>4, <3>1
    <3> QED
      BY <1>4, <3>1, <3>2 DEF InQueue
  <2> HIDE DEF x
  <2> QED
    BY <1>4, <2>1, <2>2, <2>3, TakeBlock
<1> QED
  BY <1>3, <1>4
-----------------------------------------------------------------------------
(* A worker goes on with its task, or leaves it. *)
GoesOn(w) ==
  /\ w \in Workers
  /\ task'[w] # NoTask /\ pc'[w] # "finished" =>
       /\ task'[w] = task[w] /\ pc[w] # "finished"
       /\ pc'[w] \in {"start", "queue_prompt"} => pc[w] \in {"start", "queue_prompt"}

(* What a worker holds, in tokens. *)
Hand(w, F) == {w} \X F[Stage(w)]

(* A worker that holds a task is at some attempt of it. *)
LEMMA StageTyped ==
  ASSUME WorkInv, BrokerInv, NEW w \in Workers, task[w] # NoTask
  PROVE  /\ task[w] \in Messages /\ task[w].job \in Queued
         /\ task[w].retries \in 0..MaxRetries
         /\ Stage(w) \in 0..MaxRetries + 1
BY BoundsAssumption DEF WorkInv, Messages, Stage

(* What a worker has in hand counts for the job of its task. *)
LEMMA HandHeld ==
  ASSUME WorkInv, BrokerInv, NEW w \in Workers, task[w] # NoTask, pc[w] # "finished",
         NEW F \in Spans
  PROVE  Hand(w, F) \subseteq Held(task[w].job, F)
BY StageTyped, SpanFinite DEF Hand, Held, Holding

(* A worker that goes on with its task gains no token. *)
LEMMA WorkersGoOn ==
  ASSUME WorkInv, BrokerInv, WorkInv', BrokerInv', NEW j \in Queued, NEW F \in Spans,
         NEW w \in Workers, GoesOn(w), NEW a \in 0..MaxRetries, <<w, a>> \in Held(j, F)'
  PROVE  <<w, a>> \in Held(j, F)
<1>1. w \in Holding(j)' /\ a \in F[Stage(w)']
  BY DEF Held
<1>2. w \in Holding(j) /\ task'[w] = task[w]
  BY <1>1 DEF Holding, GoesOn
<1>3. task[w].retries \in 0..MaxRetries
  BY <1>2, StageTyped DEF Holding
<1>4. \/ Stage(w)' = Stage(w)
      \/ Stage(w) = task[w].retries /\ Stage(w)' = task[w].retries + 1
  BY <1>1, <1>2 DEF Stage, GoesOn, Holding
<1>5. a \in F[Stage(w)]
  BY <1>1, <1>3, <1>4 DEF Spans
<1> QED
  BY <1>2, <1>5 DEF Held

(* Only w changes more than that. *)
LEMMA HeldWithin ==
  ASSUME WorkInv, BrokerInv, WorkInv', BrokerInv', NEW j \in Queued, NEW F \in Spans,
         NEW w, \A v \in Workers : v # w => GoesOn(v)
  PROVE  \A t \in Held(j, F)' : t[1] # w => t \in Held(j, F)
<1> SUFFICES ASSUME NEW t \in Held(j, F)', t[1] # w
             PROVE  t \in Held(j, F)
  OBVIOUS
<1>1. t[1] \in Workers /\ t[2] \in 0..MaxRetries /\ t = <<t[1], t[2]>>
  BY DEF Held
<1> QED
  BY <1>1, WorkersGoOn

-----------------------------------------------------------------------------
(* What a step may do to the tokens.                                        *)
Steady == /\ UNCHANGED <<queue, redeliveries>>
          /\ \A w \in Workers : GoesOn(w)

Published(j) ==
  /\ Unpublished(j) /\ ~Unpublished(j)'
  /\ queue' = [queue EXCEPT ![Message(j, 0)] = @ + 1]
  /\ UNCHANGED redeliveries
  /\ \A w \in Workers : GoesOn(w)

Taken(w, m) ==
  /\ queue[m] > 0
  /\ queue' = [queue EXCEPT ![m] = @ - 1]
  /\ UNCHANGED redeliveries
  /\ \A v \in Workers : v # w => GoesOn(v)
  /\ task'[w] # NoTask => task'[w] = m /\ pc'[w] = "start"

Retried(w) ==
  /\ task[w] # NoTask /\ pc[w] = "retry" /\ pc'[w] = "finished"
  /\ queue' = [queue EXCEPT ![Message(task[w].job, task[w].retries + 1)] = @ + 1]
  /\ UNCHANGED redeliveries
  /\ \A v \in Workers : v # w => GoesOn(v)

PutBack(m) ==
  /\ queue' = [queue EXCEPT ![m] = @ + 1]
  /\ redeliveries' = redeliveries + 1
  /\ \A v \in Workers : GoesOn(v)

TokenStep ==
  \/ Steady
  \/ \E j \in Queued : Published(j)
  \/ \E m \in Messages : PutBack(m)
  \/ \E w \in Workers : Retried(w) \/ \E m \in Messages : Taken(w, m)

(* A handler or a direct execution goes through its places once: it does    *)
(* not submit again, post again, or come back once it has finished.         *)
Before == {"new", "publish"}
Unposted == {"new", "emit_queued", "start", "queue_prompt"}

Onward(from, to) ==
  /\ to \in Before => from \in Before
  /\ to \in Unposted => from \in Unposted
  /\ from = "finished" => to = "finished"

NoWayBack == \A p \in Procs \ Workers : Onward(pc[p], pc'[p])

(* Every step of the pipeline is one of the steps that tokens tell apart, *)
(* and no handler goes back.                                              *)
LEMMA NextIsTokenStep ==
  ASSUME WorkInv, BrokerInv, [Next]_vars
  PROVE  TokenStep /\ NoWayBack /\ BrokerInv'
<1> DEFINE Goal == TokenStep /\ NoWayBack /\ BrokerInv'
           Goes(p, x) ==
             /\ pc' = [pc EXCEPT ![p] = x]
             /\ p \notin Workers => Onward(pc[p], x)
             /\ p \in Workers =>
                  /\ pc[p] # "idle" /\ x # "idle"
                  /\ x = "retry" => pc[p] = "mark_retrying"
                  /\ \/ x = "finished"
                     \/ /\ pc[p] # "finished"
                        /\ x \in {"start", "queue_prompt"} => pc[p] \in {"start", "queue_prompt"}
<1> USE DEF Move, Call, RaiseIfCancelled
<1>1. \A w \in Workers : w \in Procs /\ w \in Runners
  BY DEF Procs, Runners
<1>2. \A r \in Runners : r \in Procs
  BY DEF Procs
<1>3. /\ pc \in [Procs -> PC] /\ task \in [Workers -> Messages \cup {NoTask}]
      /\ \A j \in Queued : Submit(j) \in Procs
      /\ \A w \in Workers : pc[w] \in WorkerPlaces
      /\ \A w \in Workers : pc[w] # "idle" <=> task[w] # NoTask
      /\ \A w \in Workers : pc[w] = "mark_retrying" => task[w].retries < MaxRetries
  BY DEF WorkInv, BrokerInv, Procs
<1>4. ASSUME UNCHANGED <<pc, task, queue, redeliveries>> PROVE Goal
  BY <1>4 DEF TokenStep, Steady, GoesOn, NoWayBack, Onward, BrokerInv
<1>5. ASSUME NEW p \in Procs, NEW x, Goes(p, x), UNCHANGED <<task, queue, redeliveries>>
      PROVE  Goal
  <2>1. \A q \in Procs : pc'[q] = IF q = p THEN x ELSE pc[q]
    BY <1>3, <1>5
  <2>2. Steady
    BY <1>1, <1>5, <2>1 DEF Steady, GoesOn
  <2>3. NoWayBack
    BY <1>3, <1>5, <2>1 DEF NoWayBack, Onward
  <2>4. BrokerInv'
    BY <1>1, <1>3, <1>5, <2>1 DEF BrokerInv
  <2> QED
    BY <2>2, <2>3, <2>4 DEF TokenStep
<1>6. ASSUME NEW w \in Workers, Release(w)
      PROVE  /\ \A v \in Workers : GoesOn(v)
             /\ NoWayBack
             /\ \A v \in Workers : /\ pc'[v] = "idle" <=> task'[v] = NoTask
                                   /\ pc'[v] = "retry" => task'[v].retries < MaxRetries
  <2>1. \A q \in Procs : pc'[q] = IF q = w THEN "idle" ELSE pc[q]
    BY <1>3, <1>6 DEF Release
  <2>2. \A v \in Workers : task'[v] = IF v = w THEN NoTask ELSE task[v]
    BY <1>3, <1>6 DEF Release
  <2> QED
    BY <1>1, <1>3, <2>1, <2>2 DEF GoesOn, NoWayBack, Onward, BrokerInv
<1>7. ASSUME NEW w \in Workers, Release(w), UNCHANGED <<queue, redeliveries>> PROVE Goal
  BY <1>6, <1>7 DEF TokenStep, Steady, BrokerInv
<1> USE DEF Execution, Handling, Onward, Before, Unposted
<1>8. ASSUME NEW r \in Runners, ExecuteJob(r) \/ SocketCloses(r) \/ ListenTimeout(r) PROVE Goal
  <2>1. UNCHANGED <<task, queue, redeliveries>>
    BY <1>8 DEF ExecuteJob, CheckStart, QueuePrompt, CheckQueued, MarkRunning, Connect, Hear,
                UpdateProgress, CheckDone, History, MarkCompleted, EmitCompleted, Stop, MarkFailed,
                SocketCloses, ListenTimeout, broker, budget
  <2>2. PICK x \in Execution \cup {"register", "finished", "except", "mark_failed"} :
          /\ pc' = [pc EXCEPT ![r] = x]
          /\ pc[r] \in Execution \cup {"mark_failed"}
          /\ x = "queue_prompt" => pc[r] = "start"
          /\ x # "start"
    BY <1>8 DEF ExecuteJob, CheckStart, QueuePrompt, CheckQueued, MarkRunning, Connect, Hear,
                UpdateProgress, CheckDone, History, MarkCompleted, EmitCompleted, Stop, MarkFailed,
                SocketCloses, ListenTimeout
  <2> QED
    BY <1>2, <1>5, <2>1, <2>2
<1>9. ASSUME NEW w \in Workers, Register(w) \/ OnFailure(w) \/ MarkRetrying(w) PROVE Goal
  <2>1. UNCHANGED <<task, queue, redeliveries>>
    BY <1>9 DEF Register, OnFailure, MarkRetrying, broker, budget
  <2>2. PICK x \in {"finished", "mark_retrying", "mark_failed", "retry"} :
          /\ pc' = [pc EXCEPT ![w] = x]
          /\ pc[w] \in {"register", "except", "mark_retrying"}
          /\ x = "retry" => pc[w] = "mark_retrying"
    BY <1>9 DEF Register, OnFailure, MarkRetrying
  <2> QED
    BY <1>1, <1>5, <2>1, <2>2
<1>10. ASSUME NEW w \in Workers, Retry(w) PROVE Goal
  <2>1. /\ pc[w] = "retry" /\ pc' = [pc EXCEPT ![w] = "finished"] /\ task' = task
        /\ queue' = [queue EXCEPT ![[task[w] EXCEPT !.retries = @ + 1]] = @ + 1]
        /\ redeliveries' = redeliveries
    BY <1>10 DEF Retry, budget
  <2>2. task[w] \in Messages /\ task[w].retries < MaxRetries
    BY <1>3, <2>1 DEF BrokerInv
  <2>3. /\ [task[w] EXCEPT !.retries = @ + 1] = Message(task[w].job, task[w].retries + 1)
        /\ Message(task[w].job, task[w].retries + 1) \in Messages
    BY <2>2, BoundsAssumption DEF Messages, Message
  <2>4. \A q \in Procs : pc'[q] = IF q = w THEN "finished" ELSE pc[q]
    BY <1>3, <2>1
  <2>5. Retried(w)
    BY <1>1, <1>3, <2>1, <2>3, <2>4 DEF Retried, GoesOn
  <2>6. NoWayBack
    BY <1>3, <2>4 DEF NoWayBack, Onward
  <2>7. BrokerInv'
    BY <1>1, <1>3, <2>1, <2>3, <2>4 DEF BrokerInv
  <2> QED
    BY <2>5, <2>6, <2>7 DEF TokenStep
<1>11. ASSUME NEW w \in Workers, Ack(w) \/ HardTimeLimit(w) PROVE Goal
  <2>1. Release(w) /\ UNCHANGED <<queue, redeliveries>>
    BY <1>11 DEF Ack, HardTimeLimit, broker, budget
  <2> QED
    BY <1>7, <2>1
<1>12. ASSUME NEW w \in Workers, WorkerLost(w) PROVE Goal
  <2>1. /\ Release(w) /\ task[w] # NoTask /\ redeliveries < MaxRedeliveries
        /\ redeliveries' = redeliveries + 1
        /\ queue' = [queue EXCEPT ![task[w]] = @ + 1]
    BY <1>12 DEF WorkerLost
  <2>2. task[w] \in Messages
    BY <1>3, <2>1
  <2>3. PutBack(task[w]) /\ NoWayBack
    BY <1>6, <2>1 DEF PutBack
  <2>4. BrokerInv'
    BY <1>6, <2>1, <2>2, BoundsAssumption DEF BrokerInv
  <2> QED
    BY <2>2, <2>3, <2>4 DEF TokenStep
<1>21. ASSUME NEW m \in Messages, Restore(m) PROVE Goal
  <2>1. /\ UNCHANGED <<pc, task>> /\ redeliveries < MaxRedeliveries
        /\ redeliveries' = redeliveries + 1
        /\ queue' = [queue EXCEPT ![m] = @ + 1]
    BY <1>21 DEF Restore
  <2>2. PutBack(m) /\ NoWayBack
    BY <2>1 DEF PutBack, GoesOn, NoWayBack, Onward
  <2>3. BrokerInv'
    BY <2>1, BoundsAssumption DEF BrokerInv
  <2> QED
    BY <2>2, <2>3 DEF TokenStep
<1>13. ASSUME NEW w \in Workers, NEW m \in Messages, Deliver(w, m) PROVE Goal
  <2>1. /\ pc[w] = "idle" /\ task[w] = NoTask /\ queue[m] > 0 /\ redeliveries' = redeliveries
        /\ queue' = [queue EXCEPT ![m] = @ - 1]
    BY <1>3, <1>13 DEF Deliver, budget
  <2>2. /\ queue' \in [Messages -> Nat]
    BY <2>1 DEF BrokerInv
  <2>3. CASE UNCHANGED <<pc, task>>
    BY <1>3, <2>1, <2>2, <2>3
       DEF TokenStep, Taken, GoesOn, NoWayBack, Onward, BrokerInv
  <2>4. CASE task' = [task EXCEPT ![w] = m] /\ pc' = [pc EXCEPT ![w] = "start"]
    <3>1. \A q \in Procs : pc'[q] = IF q = w THEN "start" ELSE pc[q]
      BY <1>3, <2>4
    <3>2. \A v \in Workers : task'[v] = IF v = w THEN m ELSE task[v]
      BY <1>3, <2>4
    <3>3. Taken(w, m)
      BY <1>1, <2>1, <3>1, <3>2 DEF Taken, GoesOn
    <3>4. NoWayBack
      BY <1>3, <3>1 DEF NoWayBack, Onward
    <3>5. BrokerInv'
      BY <1>1, <1>3, <2>1, <2>2, <3>1, <3>2, SentinelsAssumption DEF BrokerInv
    <3> QED
      BY <3>3, <3>4, <3>5 DEF TokenStep
  <2> QED
    BY <1>13, <2>3, <2>4 DEF Deliver
<1>14. ASSUME NEW w \in Workers, NEW j \in Queued, DeliverRevoke(w, j) PROVE Goal
  <2>1. UNCHANGED <<queue, redeliveries>> /\ (Release(w) \/ UNCHANGED <<pc, task>>)
    BY <1>14 DEF DeliverRevoke, budget
  <2> QED
    BY <1>4, <1>7, <2>1
<1>15. ASSUME NEW j \in Queued, SubmitStep(j) PROVE Goal
  <2>1. CASE Publish(j)
    <3>1. /\ pc[Submit(j)] = "publish" /\ pc' = [pc EXCEPT ![Submit(j)] = "attach"]
          /\ task' = task /\ redeliveries' = redeliveries
          /\ queue' = [queue EXCEPT ![Message(j, 0)] = @ + 1]
      BY <2>1 DEF Publish, budget, Message
    <3>2. \A q \in Procs : pc'[q] = IF q = Submit(j) THEN "attach" ELSE pc[q]
      BY <1>3, <3>1
    <3>3. \A w \in Workers : w # Submit(j)
      BY <1>3, <3>1 DEF WorkerPlaces
    <3>4. Published(j)
      BY <1>1, <1>3, <3>1, <3>2, <3>3 DEF Published, GoesOn, Unpublished
    <3>5. NoWayBack
      BY <1>3, <3>1, <3>2 DEF NoWayBack, Onward
    <3>6. Message(j, 0) \in Messages
      BY BoundsAssumption DEF Messages, Message
    <3>7. BrokerInv'
      BY <1>1, <1>3, <3>1, <3>2, <3>3, <3>6 DEF BrokerInv
    <3> QED
      BY <3>4, <3>5, <3>7 DEF TokenStep
  <2>2. CASE ~Publish(j)
    <3>1. UNCHANGED <<task, queue, redeliveries>>
      BY <1>15, <2>2 DEF SubmitStep, CreateJob, broker, budget
    <3>2. PICK x \in {"publish", "finished"} :
            /\ pc' = [pc EXCEPT ![Submit(j)] = x]
            /\ pc[Submit(j)] \in {"new", "attach"}
            /\ x = "publish" => pc[Submit(j)] = "new"
      BY <1>15, <2>2 DEF SubmitStep, CreateJob
    <3>3. Submit(j) \notin Workers
      BY <1>3, <3>2 DEF WorkerPlaces
    <3> QED
      BY <1>3, <1>5, <3>1, <3>2, <3>3
  <2> QED
    BY <2>1, <2>2
<1>16. ASSUME NEW d \in Direct, ExecuteRequest(d) PROVE Goal
  <2>1. d \in Procs /\ d \notin Workers
    BY BoundsAssumption DEF Procs, Runners, Jobs
  <2>2. UNCHANGED <<task, queue, redeliveries>>
    BY <1>16 DEF ExecuteRequest, CreateJob, EmitQueued, Except, broker, budget
  <2>3. PICK x \in {"emit_queued", "start", "finished", "mark_failed"} :
          /\ pc' = [pc EXCEPT ![d] = x]
          /\ pc[d] \in {"new", "emit_queued", "except"}
          /\ x = "emit_queued" => pc[d] = "new"
          /\ x = "start" => pc[d] = "emit_queued"
    BY <1>16 DEF ExecuteRequest, CreateJob, EmitQueued, Except
  <2> QED
    BY <1>5, <2>1, <2>2, <2>3
<1>17. ASSUME NEW j \in Cancels, CancelStep(j) PROVE Goal
  <2>1. UNCHANGED <<task, queue, redeliveries>>
    BY <1>17 DEF CancelStep, CancelRead, CancelInterrupt, broker, budget
  <2>2. PICK x \in {"interrupt", "mark_cancelled", "finished"} :
          /\ pc' = [pc EXCEPT ![Cancel(j)] = x]
          /\ pc[Cancel(j)] \in {"new", "interrupt", "mark_cancelled"}
    BY <1>17 DEF CancelStep, CancelRead, CancelInterrupt
  <2>3. Cancel(j) \in Procs /\ Cancel(j) \notin Workers
    BY <1>3, <2>2 DEF Procs, WorkerPlaces
  <2> QED
    BY <1>5, <2>1, <2>2, <2>3
<1>18. ASSUME NEW p \in Procs, Raise(p) PROVE Goal
  <2>1. UNCHANGED <<task, queue, redeliveries>>
    BY <1>18 DEF Raise, broker
  <2>2. CASE UNCHANGED pc
    BY <1>4, <2>1, <2>2
  <2>3. ASSUME NEW x \in {"except", "finished"}, pc' = [pc EXCEPT ![p] = x],
               pc[p] \in Execution \cup {"register"} \cup Handling
        PROVE  Goal
    <3>1. Goes(p, x)
      BY <2>3
    <3> QED
      BY <1>5, <2>1, <3>1
  <2> QED
    BY <1>18, <2>2, <2>3 DEF Raise
<1>19. ASSUME ApiRestart PROVE Goal
  <2>1. /\ UNCHANGED <<task, queue, redeliveries>>
        /\ \A q \in Procs : pc'[q] = pc[q] \/ (q \notin Workers /\ pc'[q] = "finished")
    BY <1>19 DEF ApiRestart, broker
  <2>2. \A w \in Workers : pc'[w] = pc[w]
    BY <1>1, <2>1
  <2>3. Steady
    BY <2>1, <2>2 DEF Steady, GoesOn
  <2>4. NoWayBack
    BY <1>3, <2>1 DEF NoWayBack, Onward
  <2>5. BrokerInv'
    BY <2>1, <2>2 DEF BrokerInv
  <2> QED
    BY <2>3, <2>4, <2>5 DEF TokenStep
<1>20. ASSUME \/ \E p \in Procs : Save(p)
              \/ \E j \in Jobs : Expire(j)
              \/ StartPrompt
              \/ \E j \in Jobs : \E n \in DOMAIN prompts[j] : EndPrompt(j, n)
              \/ UNCHANGED vars
       PROVE  Goal
  <2>1. UNCHANGED <<pc, task, queue, redeliveries>>
    BY <1>20 DEF Save, Expire, StartPrompt, EndPrompt, vars, broker, budget
  <2> QED
    BY <1>4, <2>1
<1> HIDE DEF Goal
<1>22. Next => Goal
  BY <1>8, <1>9, <1>10, <1>11, <1>12, <1>13, <1>14, <1>15, <1>16, <1>17, <1>18, <1>19, <1>20,
     <1>21
     DEF Next, Work
<1>23. Goal
  BY <1>20, <1>22
<1> QED
  BY <1>23 DEF Goal

(* Tokens never become more, but by those of the new copy when a message   *)
(* is put back.                                                            *)
LEMMA TokensFall ==
  ASSUME WorkInv, BrokerInv, WorkInv', BrokerInv', TokenStep, NEW j \in Queued,
         NEW F \in Spans, NoWayBack, FiniteTokens(j, F)
  PROVE  /\ FiniteTokens(j, F)'
         /\ \/ redeliveries' = redeliveries /\ Total(j, F)' <= Total(j, F)
            \/ redeliveries' = redeliveries + 1
               /\ Total(j, F)' <= Total(j, F) + Cardinality(F[0])
<1> DEFINE Q == InQueue(j, F)
           H == Held(j, F)
           N == Cardinality(F[0])
<1> USE DEF FiniteTokens
<1>0. /\ N \in Nat /\ Cardinality(Q) \in Nat /\ Cardinality(H) \in Nat
      /\ redeliveries \in Nat
  BY SpanFinite, BoundsAssumption, FS_CardinalityType DEF BrokerInv
<1>8. Unpublished(j)' => Unpublished(j)
  <2>1. Submit(j) \in Procs
    BY DEF Procs
  <2>2. Unpublished(j)' => Submit(j) \notin Workers
    BY DEF WorkInv, WorkerPlaces, Execution, Unpublished
  <2> QED
    BY <2>1, <2>2 DEF NoWayBack, Onward, Before, Unpublished
<1>1. ASSUME \A w \in Workers : GoesOn(w)
      PROVE  IsFiniteSet(H') /\ Cardinality(H') <= Cardinality(H) /\ Cardinality(H') \in Nat
  <2>1. H' \subseteq H
    <3>1. \A t \in H' : t \in Workers \X (0..MaxRetries) /\ t = <<t[1], t[2]>>
      BY DEF Held
    <3> QED
      BY <1>1, <3>1, WorkersGoOn
  <2> QED
    BY <2>1, FS_Subset, FS_CardinalityType
<1> HIDE DEF N, Q, H
<1>2. ASSUME IsFiniteSet(Q'), IsFiniteSet(H'),
             \/ /\ Cardinality(Q') + Cardinality(H') <= Cardinality(Q) + Cardinality(H)
                /\ redeliveries' = redeliveries
             \/ /\ Cardinality(Q') + Cardinality(H') <= Cardinality(Q) + Cardinality(H) + N
                /\ \/ redeliveries' = redeliveries + 1
                   \/ redeliveries' = redeliveries /\ Unpublished(j) /\ ~Unpublished(j)'
      PROVE  /\ FiniteTokens(j, F)'
             /\ \/ redeliveries' = redeliveries /\ Total(j, F)' <= Total(j, F)
                \/ redeliveries' = redeliveries + 1 /\ Total(j, F)' <= Total(j, F) + N
  <2>1. Cardinality(Q') \in Nat /\ Cardinality(H') \in Nat
    BY <1>2, FS_CardinalityType
  <2>2. /\ Total(j, F) = Cardinality(Q) + Cardinality(H) + (IF Unpublished(j) THEN N ELSE 0)
        /\ Total(j, F)' = Cardinality(Q') + Cardinality(H')
                             + (IF Unpublished(j)' THEN N ELSE 0)
    BY DEF Total, Q, H, N
  <2> QED
    BY <1>0, <1>2, <1>8, <2>1, <2>2 DEF Q, H
<1>3. CASE Steady
  <2>1. Q' = Q /\ IsFiniteSet(Q) /\ IsFiniteSet(H)
    BY <1>3 DEF Steady, Q, H, InQueue
  <2> QED
    BY <1>0, <1>1, <1>2, <1>3, <2>1 DEF Steady, N
<1>4. ASSUME NEW i \in Queued, Published(i)
      PROVE  /\ FiniteTokens(j, F)'
             /\ \/ redeliveries' = redeliveries /\ Total(j, F)' <= Total(j, F)
                \/ redeliveries' = redeliveries + 1 /\ Total(j, F)' <= Total(j, F) + N
  <2>1. /\ IsFiniteSet(Q')
        /\ Cardinality(Q') <= Cardinality(Q) + (IF i = j THEN N ELSE 0)
    <3>1. 0 \in 0..MaxRetries
      BY BoundsAssumption
    <3> QED
      BY <1>4, <3>1, QueueGains DEF Published, Q, N
  <2>2. Cardinality(Q') \in Nat
    BY <2>1, FS_CardinalityType
  <2> QED
    BY <1>0, <1>1, <1>2, <1>4, <2>1, <2>2 DEF Published
<1>5. ASSUME NEW m \in Messages, PutBack(m)
      PROVE  /\ FiniteTokens(j, F)'
             /\ \/ redeliveries' = redeliveries /\ Total(j, F)' <= Total(j, F)
                \/ redeliveries' = redeliveries + 1 /\ Total(j, F)' <= Total(j, F) + N
  <2> DEFINE i == m.job
             k == m.retries
  <2>1. i \in Queued /\ k \in 0..MaxRetries /\ m = Message(i, k)
    BY DEF Messages, Message
  <2>2. /\ IsFiniteSet(Q')
        /\ Cardinality(Q') <= Cardinality(Q) + (IF i = j THEN Cardinality(F[k]) ELSE 0)
    BY <1>5, <2>1, QueueGains DEF PutBack, Q
  <2>3. Cardinality(F[k]) \in Nat /\ Cardinality(F[k]) <= N
    BY <2>1, SpanFinite, SpanShrinks, BoundsAssumption DEF N
  <2>4. Cardinality(Q') \in Nat
    BY <2>2, FS_CardinalityType
  <2> QED
    BY <1>0, <1>1, <1>2, <1>5, <2>2, <2>3, <2>4 DEF PutBack
<1>6. ASSUME NEW w \in Workers, Retried(w)
      PROVE  /\ FiniteTokens(j, F)'
             /\ \/ redeliveries' = redeliveries /\ Total(j, F)' <= Total(j, F)
                \/ redeliveries' = redeliveries + 1 /\ Total(j, F)' <= Total(j, F) + N
  <2>1. PICK i \in Queued, k \in 0..MaxRetries :
          /\ i = task[w].job /\ k = task[w].retries + 1 /\ Stage(w) = k
          /\ queue' = [queue EXCEPT ![Message(i, k)] = @ + 1]
    <3>1. task[w].job \in Queued /\ task[w].retries + 1 \in 0..MaxRetries
      BY <1>6, StageTyped, BoundsAssumption DEF Retried, BrokerInv
    <3> QED
      BY <1>6, <3>1 DEF Retried, Stage
  <2> DEFINE K == Cardinality(F[k])
  <2>2. /\ IsFiniteSet(Q')
        /\ Cardinality(Q') <= Cardinality(Q) + (IF i = j THEN K ELSE 0)
    BY <2>1, QueueGains DEF Q
  <2>3. IsFiniteSet(F[k]) /\ K \in Nat
    BY SpanFinite, BoundsAssumption
  <2>4. Cardinality(Q') \in Nat
    BY <2>2, FS_CardinalityType
  <2>5. \A t \in H' : t \in H /\ t \notin Hand(w, F)
    <3>1. \A t \in H' : t[1] # w
      BY <1>6 DEF Retried, H, Held, Holding
    <3> QED
      BY <1>6, <3>1, HeldWithin DEF Retried, H, Hand
  <2>6. /\ IsFiniteSet(H') /\ Cardinality(H') \in Nat
        /\ Cardinality(H') + (IF i = j THEN K ELSE 0) <= Cardinality(H)
    <3>1. CASE i = j
      <4>1. Hand(w, F) \subseteq H
        BY <1>6, <2>1, <3>1, HandHeld DEF Retried, H
      <4>2. Hand(w, F) = {w} \X F[k]
        BY <2>1 DEF Hand
      <4>3. H' \in SUBSET (H \ ({w} \X F[k])) /\ {w} \X F[k] \subseteq H
        BY <2>5, <4>1, <4>2
      <4>4. IsFiniteSet(H') /\ Cardinality(H') + K <= Cardinality(H)
        BY <2>3, <4>3, TakeBlock DEF H
      <4> QED
        BY <3>1, <4>4, FS_CardinalityType
    <3>2. CASE i # j
      <4>1. H' \in SUBSET H /\ IsFiniteSet(H)
        BY <2>5 DEF H
      <4>2. IsFiniteSet(H') /\ Cardinality(H') <= Cardinality(H)
        BY <4>1, FS_Subset
      <4> QED
        BY <1>0, <3>2, <4>2, FS_CardinalityType
    <3> QED
      BY <3>1, <3>2
  <2> HIDE DEF K
  <2> QED
    BY <1>0, <1>2, <1>6, <2>2, <2>3, <2>4, <2>6 DEF Retried
<1>7. ASSUME NEW w \in Workers, NEW m \in Messages, Taken(w, m)
      PROVE  /\ FiniteTokens(j, F)'
             /\ \/ redeliveries' = redeliveries /\ Total(j, F)' <= Total(j, F)
                \/ redeliveries' = redeliveries + 1 /\ Total(j, F)' <= Total(j, F) + N
  <2> DEFINE i == m.job
             k == m.retries
             K == Cardinality(F[k])
  <2>1. i \in Queued /\ k \in 0..MaxRetries /\ m = Message(i, k)
    BY DEF Messages, Message
  <2>2. /\ IsFiniteSet(Q')
        /\ Cardinality(Q') + (IF i = j THEN K ELSE 0) <= Cardinality(Q)
    BY <1>7, <2>1, QueueLoses DEF Taken, Q
  <2>3. IsFiniteSet(F[k]) /\ K \in Nat
    BY <2>1, SpanFinite, BoundsAssumption
  <2>4. Cardinality(Q') \in Nat
    BY <2>2, FS_CardinalityType
  <2>5. \A t \in H' : t[1] # w => t \in H
    BY <1>7, HeldWithin DEF Taken, H
  <2>6. \A t \in H' : t[1] = w => i = j /\ t \in {w} \X F[k]
    <3> SUFFICES ASSUME NEW t \in H', t[1] = w
                 PROVE  i = j /\ t \in {w} \X F[k]
      OBVIOUS
    <3>1. t = <<w, t[2]>> /\ w \in Holding(j)' /\ t[2] \in F[Stage(w)']
      BY DEF H, Held
    <3>2. task'[w] = m /\ pc'[w] = "start"
      BY <1>7, <3>1 DEF Taken, Holding
    <3> QED
      BY <3>1, <3>2 DEF Holding, Stage
  <2>7. /\ IsFiniteSet(H') /\ Cardinality(H') \in Nat
        /\ Cardinality(H') <= Cardinality(H) + (IF i = j THEN K ELSE 0)
    <3>1. CASE i = j
      <4>1. H' \in SUBSET (H \cup ({w} \X F[k])) /\ IsFiniteSet(H)
        BY <2>5, <2>6 DEF H
      <4>2. IsFiniteSet(H') /\ Cardinality(H') <= Cardinality(H) + K
        BY <2>3, <4>1, AddBlock
      <4> QED
        BY <3>1, <4>2, FS_CardinalityType
    <3>2. CASE i # j
      <4>1. H' \in SUBSET H /\ IsFiniteSet(H)
        BY <2>5, <2>6, <3>2 DEF H
      <4>2. IsFiniteSet(H') /\ Cardinality(H') <= Cardinality(H)
        BY <4>1, FS_Subset
      <4> QED
        BY <1>0, <3>2, <4>2, FS_CardinalityType
    <3> QED
      BY <3>1, <3>2
  <2> HIDE DEF K, i
  <2> QED
    BY <1>0, <1>2, <1>7, <2>2, <2>3, <2>4, <2>7 DEF Taken
<1> QED
  BY <1>3, <1>4, <1>5, <1>6, <1>7 DEF TokenStep, N
-----------------------------------------------------------------------------
(* One token for a copy; one for each attempt left.                         *)
CopySpan == [k \in 0..MaxRetries + 1 |-> {0}]
AttemptSpan == [k \in 0..MaxRetries + 1 |-> k..MaxRetries]

(* The two ways to count: the copies, and the attempts that are left. *)
LEMMA SpansAre ==
  /\ CopySpan \in Spans /\ Cardinality(CopySpan[0]) = 1
  /\ AttemptSpan \in Spans /\ Cardinality(AttemptSpan[0]) = MaxRetries + 1
<1>1. 0 \in 0..MaxRetries /\ 0 \in 0..MaxRetries + 1
  BY BoundsAssumption
<1>2. Cardinality({0}) = 1
  BY FS_Singleton
<1>3. Cardinality(0..MaxRetries) = MaxRetries + 1
  BY FS_Interval, BoundsAssumption
<1>4. CopySpan \in Spans
  BY <1>1, BoundsAssumption DEF CopySpan, Spans
<1>5. AttemptSpan \in Spans
  BY <1>1, BoundsAssumption DEF AttemptSpan, Spans
<1> QED
  BY <1>1, <1>2, <1>3, <1>4, <1>5 DEF CopySpan, AttemptSpan

(* At first only the publication to come holds tokens. *)
LEMMA InitTokens ==
  ASSUME Init, NEW j \in Queued, NEW F \in Spans
  PROVE  /\ BrokerInv
         /\ FiniteTokens(j, F)
         /\ Total(j, F) <= Cardinality(F[0])
<1>1. BrokerInv
  <2>1. \A w \in Workers : w \in Procs /\ pc[w] = "idle" /\ task[w] = NoTask
    BY DEF Init, Procs, Runners
  <2> QED
    BY <2>1, BoundsAssumption DEF Init, BrokerInv
<1>2. InQueue(j, F) = {}
  <2>1. \A k \in 0..MaxRetries : queue[Message(j, k)] = 0
    BY DEF Init, Message, Messages
  <2> QED
    BY <2>1 DEF InQueue
<1>3. Held(j, F) = {}
  BY DEF Init, Held, Holding
<1>4. Cardinality(F[0]) \in Nat
  BY SpanFinite, BoundsAssumption
<1>5. IsFiniteSet({}) /\ Cardinality({}) = 0
  BY FS_EmptySet
<1> QED
  BY <1>1, <1>2, <1>3, <1>4, <1>5 DEF FiniteTokens, Total

-----------------------------------------------------------------------------
CopiesInv ==
  \A j \in Queued : FiniteTokens(j, CopySpan) /\ Total(j, CopySpan) <= 1 + redeliveries

BoundsBase == WorkInv /\ BrokerInv

(* WorkInv and BrokerInv are inductive together. *)
LEMMA BaseStep ==
  ASSUME BoundsBase, [Next]_vars
  PROVE  BoundsBase' /\ TokenStep /\ NoWayBack
BY WorkStep, NextIsTokenStep DEF BoundsBase

(* Finite tokens have a number. *)
LEMMA TotalTyped ==
  ASSUME NEW j, NEW F \in Spans, FiniteTokens(j, F)
  PROVE  Total(j, F) \in Nat
<1>1. Cardinality(F[0]) \in Nat
  BY SpanFinite, BoundsAssumption
<1>2. Cardinality(InQueue(j, F)) \in Nat /\ Cardinality(Held(j, F)) \in Nat
  BY FS_CardinalityType DEF FiniteTokens
<1> QED
  BY <1>1, <1>2 DEF Total

(* The same after a step. *)
LEMMA TotalTypedNext ==
  ASSUME NEW j, NEW F \in Spans, FiniteTokens(j, F)'
  PROVE  Total(j, F)' \in Nat
<1>1. Cardinality(F[0]) \in Nat
  BY SpanFinite, BoundsAssumption
<1>2. Cardinality(InQueue(j, F)') \in Nat /\ Cardinality(Held(j, F)') \in Nat
  BY FS_CardinalityType DEF FiniteTokens
<1> QED
  BY <1>1, <1>2 DEF Total

(* CopiesInv is inductive. *)
LEMMA CopiesStep ==
  ASSUME BoundsBase, CopiesInv, [Next]_vars
  PROVE  CopiesInv'
<1> SUFFICES ASSUME NEW j \in Queued
             PROVE  /\ FiniteTokens(j, CopySpan)'
                    /\ Total(j, CopySpan)' <= 1 + redeliveries'
  BY DEF CopiesInv, CopySpan, FiniteTokens, Total, InQueue, Held
<1>1. BoundsBase' /\ TokenStep /\ NoWayBack
  BY BaseStep
<1>2. /\ FiniteTokens(j, CopySpan)'
      /\ \/ redeliveries' = redeliveries /\ Total(j, CopySpan)' <= Total(j, CopySpan)
         \/ redeliveries' = redeliveries + 1 /\ Total(j, CopySpan)' <= Total(j, CopySpan) + 1
  BY <1>1, SpansAre, TokensFall DEF CopiesInv, BoundsBase
<1>3. Total(j, CopySpan) \in Nat /\ Total(j, CopySpan)' \in Nat
  BY <1>2, SpansAre, TotalTyped, TotalTypedNext DEF CopiesInv
<1> QED
  BY <1>2, <1>3 DEF CopiesInv, BoundsBase, BrokerInv

(* The copies of a task are no more than its tokens. *)
LEMMA CopiesAreTokens ==
  ASSUME NEW j \in Queued, WorkInv, BrokerInv, FiniteTokens(j, CopySpan)
  PROVE  Copies(j) \in Nat /\ Copies(j) <= Total(j, CopySpan)
<1>1. \A k \in 0..MaxRetries + 1 : CopySpan[k] = {0}
  BY DEF CopySpan
<1>2. IsFiniteSet(Waiting(j)) /\ Cardinality(Waiting(j)) <= Cardinality(InQueue(j, CopySpan))
  <2> DEFINE f == [x \in Waiting(j) |-> <<x, 0>>]
  <2>1. \A x \in Waiting(j) : <<x, 0>> \in InQueue(j, CopySpan)
    <3> SUFFICES ASSUME NEW x \in Waiting(j) PROVE <<x, 0>> \in InQueue(j, CopySpan)
      OBVIOUS
    <3>1. PICK k \in 0..MaxRetries : x \in {k} \X (1..queue[Message(j, k)])
      BY DEF Waiting
    <3>2. PICK n \in 1..queue[Message(j, k)] : x = <<k, n>>
      BY <3>1
    <3>3. queue[Message(j, k)] \in Nat /\ n \in Nat
      <4>1. queue[Message(j, k)] \in Nat
        BY DEF BrokerInv, Message, Messages
      <4> QED
        BY <4>1
    <3>4. 0 \in 0..MaxRetries /\ CopySpan[k] = {0}
      BY <1>1, BoundsAssumption
    <3> QED
      BY <3>2, <3>3, <3>4 DEF InQueue
  <2>2. f \in Injection(Waiting(j), InQueue(j, CopySpan))
    BY <2>1 DEF Injection, IsInjective
  <2> QED
    BY <2>2, FS_Injection DEF FiniteTokens
<1>3. IsFiniteSet(Holding(j)) /\ Cardinality(Holding(j)) <= Cardinality(Held(j, CopySpan))
  <2> DEFINE f == [w \in Holding(j) |-> <<w, 0>>]
  <2>1. \A w \in Holding(j) : <<w, 0>> \in Held(j, CopySpan)
    <3> SUFFICES ASSUME NEW w \in Holding(j) PROVE <<w, 0>> \in Held(j, CopySpan)
      OBVIOUS
    <3>1. w \in Workers /\ task[w] # NoTask
      BY DEF Holding
    <3>2. Stage(w) \in 0..MaxRetries + 1
      BY <3>1, StageTyped
    <3> QED
      BY <1>1, <3>1, <3>2, BoundsAssumption DEF Held
  <2>2. f \in Injection(Holding(j), Held(j, CopySpan))
    BY <2>1 DEF Injection, IsInjective
  <2> QED
    BY <2>2, FS_Injection DEF FiniteTokens
<1>4. /\ Cardinality(Waiting(j)) \in Nat /\ Cardinality(InQueue(j, CopySpan)) \in Nat
      /\ Cardinality(Holding(j)) \in Nat /\ Cardinality(Held(j, CopySpan)) \in Nat
  BY <1>2, <1>3, FS_CardinalityType DEF FiniteTokens
<1>5. Cardinality(CopySpan[0]) = 1
  BY SpansAre
<1> QED
  BY <1>2, <1>3, <1>4, <1>5 DEF Copies, Total

LEMMA BoundsBaseHolds == Spec => []BoundsBase
<1>1. Init => BoundsBase
  <2>1. \A w \in Workers : w \in Procs
    BY DEF Procs, Runners
  <2> QED
    BY <2>1, InitWork, BoundsAssumption DEF Init, BoundsBase, BrokerInv
<1>2. BoundsBase /\ [Next]_vars => BoundsBase'
  BY BaseStep
<1> QED
  BY <1>1, <1>2, PTL DEF Spec

LEMMA CopiesInvHolds == Spec => []CopiesInv
<1>1. Init => CopiesInv
  BY InitTokens, SpansAre, BoundsAssumption DEF CopiesInv, Init
<1>2. BoundsBase /\ CopiesInv /\ [Next]_vars => CopiesInv'
  BY CopiesStep
<1> QED
  BY <1>1, <1>2, BoundsBaseHolds, PTL DEF Spec

(* There is never more than one copy of a task, in the broker or at work,   *)
(* but for those a lost worker or the visibility timeout put back: retrying *)
(* moves a task, and so do delivery, revocation and time limits, or they    *)
(* end it.                                                                  *)
THEOREM CopiesStayBounded == Spec => []CopiesBounded
<1>1. BoundsBase /\ CopiesInv => CopiesBounded
  <2> SUFFICES ASSUME BoundsBase, CopiesInv, NEW j \in Queued
               PROVE  Copies(j) <= 1 + redeliveries
    BY DEF CopiesBounded
  <2>1. FiniteTokens(j, CopySpan) /\ Total(j, CopySpan) <= 1 + redeliveries
    BY DEF CopiesInv
  <2>2. Copies(j) \in Nat /\ Copies(j) <= Total(j, CopySpan) /\ Total(j, CopySpan) \in Nat
    BY <2>1, CopiesAreTokens, TotalTyped, SpansAre DEF BoundsBase
  <2>3. redeliveries \in Nat
    BY BoundsAssumption DEF BoundsBase, BrokerInv
  <2> QED
    BY <2>1, <2>2, <2>3
<1> QED
  BY <1>1, BoundsBaseHolds, CopiesInvHolds, PTL
-----------------------------------------------------------------------------
(* A prompt uses up one of the attempts that are left. *)
BudgetInv ==
  /\ \A j \in Queued :
       /\ FiniteTokens(j, AttemptSpan)
       /\ Len(prompts[j]) + Total(j, AttemptSpan) <= (MaxRetries + 1) * (redeliveries + 1)
  /\ \A d \in Direct : /\ Len(prompts[d]) <= 1
                       /\ pc[d] \in Unposted => Len(prompts[d]) = 0

(* A post moves its runner only, and the broker not at all. *)
LEMMA PostPlaces ==
  ASSUME WorkInv, NEW k \in Jobs, NEW r \in Runners, Posts(r, k)
  PROVE  /\ pc[r] = "queue_prompt" /\ pc'[r] \in {"check_queued", "except"}
         /\ \A q \in Procs : q # r => pc'[q] = pc[q]
         /\ UNCHANGED <<task, queue, redeliveries>>
         /\ Len(prompts'[k]) = Len(prompts[k]) + 1 /\ Len(prompts[k]) \in Nat
<1>1. r \in Procs
  BY DEF Procs
<1>2. prompts[k] \in Seq(PromptStates) /\ "queued" \in PromptStates
  BY DEF WorkInv, PromptStates
<1>3. prompts'[k] = Append(prompts[k], "queued")
  BY DEF Posts, WorkInv
<1>4. Len(prompts'[k]) = Len(prompts[k]) + 1 /\ Len(prompts[k]) \in Nat
  BY <1>2, <1>3, AppendProperties, LenProperties
<1>5. prompts' # prompts
  BY <1>4
<1>6. PICK x \in {"check_queued", "except"} : pc' = [pc EXCEPT ![r] = x]
  BY <1>5 DEF Posts, QueuePrompt, Move
<1> QED
  BY <1>1, <1>4, <1>6 DEF Posts, QueuePrompt, Move, WorkInv, broker

(* A worker gives up a token, and nothing else changes. *)
LEMMA TokenSpent ==
  ASSUME BoundsBase, BoundsBase', NEW j \in Queued, NEW F \in Spans, FiniteTokens(j, F),
         UNCHANGED queue, \A w \in Workers : GoesOn(w), Unpublished(j)' = Unpublished(j),
         NEW r \in Workers, NEW k \in 0..MaxRetries,
         <<r, k>> \in Held(j, F), <<r, k>> \notin Held(j, F)'
  PROVE  FiniteTokens(j, F)' /\ Total(j, F)' + 1 <= Total(j, F)
<1> DEFINE H == Held(j, F)
<1> USE DEF BoundsBase
<1>1. InQueue(j, F)' = InQueue(j, F)
  BY DEF InQueue
<1>2. H' \in SUBSET (H \ ({r} \X {k})) /\ {r} \X {k} \subseteq H
  <2> SUFFICES ASSUME NEW t \in H' PROVE t \in H /\ t # <<r, k>>
    OBVIOUS
  <2>1. t[1] \in Workers /\ t[2] \in 0..MaxRetries /\ t = <<t[1], t[2]>>
    BY DEF Held
  <2> QED
    BY <2>1, WorkersGoOn
<1>3. IsFiniteSet(H)
  BY DEF FiniteTokens
<1> HIDE DEF H
<1>4. IsFiniteSet(H') /\ Cardinality(H') + 1 <= Cardinality(H)
  <2>1. IsFiniteSet({k}) /\ Cardinality({k}) = 1
    BY FS_Singleton
  <2> QED
    BY <1>2, <1>3, <2>1, TakeBlock
<1>5. FiniteTokens(j, F)'
  BY <1>1, <1>4 DEF FiniteTokens, H
<1>6. /\ Cardinality(H) \in Nat /\ Cardinality(H') \in Nat /\ Cardinality(F[0]) \in Nat
      /\ Cardinality(InQueue(j, F)) \in Nat
  BY <1>3, <1>4, FS_CardinalityType, SpanFinite, BoundsAssumption DEF FiniteTokens
<1>7. /\ Total(j, F) = Cardinality(InQueue(j, F)) + Cardinality(H)
                        + (IF Unpublished(j) THEN Cardinality(F[0]) ELSE 0)
      /\ Total(j, F)' = Cardinality(InQueue(j, F)) + Cardinality(H')
                         + (IF Unpublished(j) THEN Cardinality(F[0]) ELSE 0)
  BY <1>1 DEF Total, H
<1>8. Total(j, F)' + 1 <= Total(j, F)
  BY <1>4, <1>6, <1>7
<1> QED
  BY <1>5, <1>8

(* A post spends the token of its attempt. *)
LEMMA PostTakesToken ==
  ASSUME BoundsBase, BoundsBase', NEW j \in Queued, NEW r \in Runners, Posts(r, j),
         FiniteTokens(j, AttemptSpan)
  PROVE  /\ FiniteTokens(j, AttemptSpan)'
         /\ Total(j, AttemptSpan)' + 1 <= Total(j, AttemptSpan)
<1> DEFINE F == AttemptSpan
           k == task[r].retries
<1> USE DEF BoundsBase
<1>1. j \in Jobs /\ F \in Spans
  BY SpansAre DEF Jobs
<1>2. /\ pc[r] = "queue_prompt" /\ pc'[r] \in {"check_queued", "except"}
      /\ \A q \in Procs : q # r => pc'[q] = pc[q]
      /\ UNCHANGED <<task, queue, redeliveries>>
  BY <1>1, PostPlaces
<1>3. r \in Workers /\ task[r] # NoTask /\ task[r].job = j /\ k \in 0..MaxRetries
  <2>1. r \in Workers
    BY BoundsAssumption DEF Posts, JobOf, Runners
  <2>2. task[r] # NoTask /\ task[r].job = j
    BY <1>2, <2>1 DEF BrokerInv, Posts, JobOf
  <2> QED
    BY <2>1, <2>2, StageTyped
<1>4. Unpublished(j)' = Unpublished(j)
  <2>1. Submit(j) \in Procs
    BY DEF Procs
  <2> QED
    BY <1>2, <2>1 DEF Unpublished
<1>5. \A w \in Workers : GoesOn(w)
  <2>1. \A w \in Workers : w \in Procs
    BY DEF Procs, Runners
  <2> QED
    BY <1>2, <2>1 DEF GoesOn
<1>6. Stage(r) = k /\ Stage(r)' = k + 1
  BY <1>2 DEF Stage
<1>7. k \in F[k] /\ k \notin F[k + 1]
  BY <1>3, BoundsAssumption DEF AttemptSpan
<1> HIDE DEF F
<1>8. <<r, k>> \in Held(j, F) /\ <<r, k>> \notin Held(j, F)'
  BY <1>2, <1>3, <1>6, <1>7 DEF Held, Holding
<1>9. FiniteTokens(j, F) /\ UNCHANGED queue
  BY <1>2 DEF F
<1> HIDE DEF k
<1>10. FiniteTokens(j, F)' /\ Total(j, F)' + 1 <= Total(j, F)
  BY <1>1, <1>3, <1>4, <1>5, <1>8, <1>9, TokenSpent
<1> QED
  BY <1>10 DEF F, AttemptSpan

(* One more message put back buys one more series of attempts. *)
LEMMA BudgetSum ==
  ASSUME NEW n \in Nat, NEW L \in Nat, NEW T \in Nat, L + T <= (MaxRetries + 1) * (n + 1),
         NEW n2, NEW L2, NEW T2 \in Nat,
         \/ n2 = n /\ L2 = L /\ T2 <= T
         \/ n2 = n /\ L2 = L + 1 /\ T2 + 1 <= T
         \/ n2 = n + 1 /\ L2 = L /\ T2 <= T + (MaxRetries + 1)
  PROVE  L2 + T2 <= (MaxRetries + 1) * (n2 + 1)
<1> DEFINE B == (MaxRetries + 1) * (n + 1)
<1>1. B \in Nat /\ MaxRetries + 1 \in Nat
  BY BoundsAssumption
<1>2. (MaxRetries + 1) * (n + 1 + 1) = B + (MaxRetries + 1)
  BY BoundsAssumption
<1>3. CASE n2 = n
  <2>1. L2 + T2 <= L + T
    BY <1>3
  <2> QED
    BY <1>1, <1>3, <2>1
<1>4. CASE n2 = n + 1 /\ L2 = L /\ T2 <= T + (MaxRetries + 1)
  <2>1. (MaxRetries + 1) * (n2 + 1) = B + (MaxRetries + 1)
    BY <1>2, <1>4
  <2> HIDE DEF B
  <2>2. L + T <= B
    BY DEF B
  <2> QED
    BY <1>1, <1>4, <2>1, <2>2
<1> QED
  BY <1>3, <1>4

(* BudgetInv is inductive. *)
LEMMA BudgetStep ==
  ASSUME BoundsBase, BudgetInv, [Next]_vars
  PROVE  BudgetInv'
<1> USE DEF BoundsBase
<1>1. BoundsBase' /\ TokenStep /\ NoWayBack
  BY BaseStep
<1>2. ASSUME NEW j \in Queued
      PROVE  /\ FiniteTokens(j, AttemptSpan)'
             /\ Len(prompts'[j]) + Total(j, AttemptSpan)'
                  <= (MaxRetries + 1) * (redeliveries' + 1)
  <2> DEFINE T == Total(j, AttemptSpan)
             L == Len(prompts[j])
  <2>1. j \in Jobs /\ redeliveries \in Nat /\ L \in Nat
    BY LenProperties, BoundsAssumption DEF Jobs, BrokerInv, WorkInv
  <2>2. FiniteTokens(j, AttemptSpan) /\ L + T <= (MaxRetries + 1) * (redeliveries + 1) /\ T \in Nat
    BY SpansAre, TotalTyped DEF BudgetInv
  <2>3. ASSUME NEW r \in Runners, Posts(r, j)
        PROVE  /\ FiniteTokens(j, AttemptSpan)' /\ T' + 1 <= T /\ L' = L + 1
               /\ redeliveries' = redeliveries
    BY <1>1, <2>1, <2>2, <2>3, PostTakesToken, PostPlaces
  <2>4. ASSUME L' = L
        PROVE  /\ FiniteTokens(j, AttemptSpan)'
               /\ \/ redeliveries' = redeliveries /\ T' <= T
                  \/ redeliveries' = redeliveries + 1 /\ T' <= T + (MaxRetries + 1)
    BY <1>1, <2>2, SpansAre, TokensFall
  <2>5. L' = L \/ \E r \in Runners : Posts(r, j)
    BY <2>1, OnlyPostsAdd
  <2>6. FiniteTokens(j, AttemptSpan)' /\ T' \in Nat
    BY <2>3, <2>4, <2>5, SpansAre, TotalTypedNext
  <2>7. \/ redeliveries' = redeliveries /\ L' = L /\ T' <= T
        \/ redeliveries' = redeliveries /\ L' = L + 1 /\ T' + 1 <= T
        \/ redeliveries' = redeliveries + 1 /\ L' = L /\ T' <= T + (MaxRetries + 1)
    <3>1. CASE L' = L
      BY <2>4, <3>1
    <3>2. CASE \E r \in Runners : Posts(r, j)
      BY <2>3, <3>2
    <3> QED
      BY <2>5, <3>1, <3>2
  <2> HIDE DEF T, L
  <2>8. L' + T' <= (MaxRetries + 1) * (redeliveries' + 1)
    BY <2>1, <2>2, <2>6, <2>7, BudgetSum
  <2> QED
    BY <2>6, <2>8 DEF T, L
<1>3. ASSUME NEW d \in Direct
      PROVE  /\ Len(prompts'[d]) <= 1
             /\ pc'[d] \in Unposted => Len(prompts'[d]) = 0
  <2>1. d \in Jobs /\ d \in Procs /\ d \notin Workers
    BY BoundsAssumption DEF Jobs, Procs, Runners
  <2>2. ASSUME NEW r \in Runners, Posts(r, d)
        PROVE  r = d
    <3>1. pc[r] = "queue_prompt"
      BY <2>1, <2>2, PostPlaces
    <3>2. r \in Workers => task[r].job \in Queued
      BY <3>1, StageTyped DEF BrokerInv
    <3> QED
      BY <2>2, <3>2, BoundsAssumption DEF Posts, JobOf
  <2>5. /\ pc'[d] \in Unposted => pc[d] \in Unposted
        /\ Len(prompts[d]) <= 1
        /\ pc[d] \in Unposted => Len(prompts[d]) = 0
    BY <1>1, <2>1 DEF NoWayBack, Onward, BudgetInv
  <2>3. CASE Len(prompts'[d]) = Len(prompts[d])
    BY <2>3, <2>5
  <2>4. CASE \E r \in Runners : Posts(r, d)
    <3>1. d \in Runners /\ Posts(d, d)
      BY <2>2, <2>4
    <3>2. /\ pc[d] = "queue_prompt" /\ pc'[d] \in {"check_queued", "except"}
          /\ Len(prompts'[d]) = Len(prompts[d]) + 1
      BY <2>1, <3>1, PostPlaces
    <3> QED
      BY <2>5, <3>2 DEF Unposted
  <2> QED
    BY <2>1, <2>3, <2>4, OnlyPostsAdd
<1> QED
  BY <1>2, <1>3 DEF BudgetInv, AttemptSpan, FiniteTokens, Total, InQueue, Held

LEMMA BudgetInvHolds == Spec => []BudgetInv
<1>1. Init => BudgetInv
  <2> SUFFICES ASSUME Init PROVE BudgetInv
    OBVIOUS
  <2>1. \A j \in Jobs : Len(prompts[j]) = 0
    BY DEF Init
  <2>2. \A j \in Queued : /\ FiniteTokens(j, AttemptSpan)
                          /\ Total(j, AttemptSpan) <= MaxRetries + 1
                          /\ Total(j, AttemptSpan) \in Nat
    BY InitTokens, SpansAre, TotalTyped
  <2>3. (MaxRetries + 1) * (redeliveries + 1) = MaxRetries + 1
    BY BoundsAssumption DEF Init
  <2> QED
    BY <2>1, <2>2, <2>3, BoundsAssumption DEF BudgetInv, Jobs
<1>2. BoundsBase /\ BudgetInv /\ [Next]_vars => BudgetInv'
  BY BudgetStep
<1> QED
  BY <1>1, <1>2, BoundsBaseHolds, PTL DEF Spec

(* ComfyUI is given at most one prompt for each attempt of a job, and the   *)
(* attempts are bounded: those of the retries, and as many again for each   *)
(* message a lost worker or the visibility timeout put back; a direct       *)
(* execution posts one.                                                     *)
THEOREM RendersStayBounded == Spec => []RenderBudget
<1>1. BoundsBase /\ BudgetInv => RenderBudget
  <2> SUFFICES ASSUME BoundsBase, BudgetInv
               PROVE  \A j \in Queued : Len(prompts[j]) <= (MaxRetries + 1) * (redeliveries + 1)
    BY DEF RenderBudget, BudgetInv
  <2> TAKE j \in Queued
  <2>1. Total(j, AttemptSpan) \in Nat
    BY SpansAre, TotalTyped DEF BudgetInv
  <2>2. Len(prompts[j]) \in Nat /\ redeliveries \in Nat
    BY LenProperties, BoundsAssumption DEF BoundsBase, WorkInv, BrokerInv, Jobs
  <2>3. (MaxRetries + 1) * (redeliveries + 1) \in Nat
    BY <2>2, BoundsAssumption
  <2> QED
    BY <2>1, <2>2, <2>3 DEF BudgetInv
<1> QED
  BY <1>1, BoundsBaseHolds, BudgetInvHolds, PTL
-----------------------------------------------------------------------------
(* The types of the pipeline: the prompt ids of the records, too, are those *)
(* the budget leaves room for.                                              *)
SocketMessages == {"nothing", "completion", "execution_error"}

TypeInv ==
  /\ at \in [Runners -> PromptIds \cup {0}]
  /\ Bounded!TypeOK
  /\ told \in [Runners -> SocketMessages]
  /\ revoking \subseteq Workers \X Queued
  /\ revoked \subseteq Workers \X Queued
  /\ faults \in 0..MaxFaults

(* The assumptions of JobTracker hold with the bounded ids. *)
LEMMA BoundedAssumptions ==
  /\ 0 \notin PromptIds
  /\ MaxRetries \in Nat
  /\ NoJob \notin Bounded!TrackedJob /\ Idle \notin Bounded!Write
<1>1. PromptIds \subseteq Nat \ {0}
  BY BoundsAssumption DEF PromptIds
<1>2. Bounded!TrackedJob \subseteq Numbered!TrackedJob
  BY <1>1 DEF Numbered!TrackedJob, Numbered!Status, Bounded!TrackedJob, Bounded!Status
<1>3. Bounded!Write \subseteq Numbered!Write
  BY <1>2 DEF Numbered!Write, Bounded!Write
<1> QED
  BY <1>1, <1>2, <1>3, BoundsAssumption, SentinelsAssumption

(* A number within the budget is one of the prompt ids. *)
LEMMA PromptNumbered ==
  ASSUME NEW n \in 0..MaxRedeliveries, NEW L \in Nat, L > 0,
         L <= (MaxRetries + 1) * (n + 1) \/ L <= 1
  PROVE  L \in PromptIds
<1> DEFINE B == (MaxRetries + 1) * (MaxRedeliveries + 1)
           C == (MaxRetries + 1) * (n + 1)
<1>1. PICK m \in Nat : MaxRedeliveries = n + m
  <2>1. MaxRedeliveries - n \in Nat /\ MaxRedeliveries = n + (MaxRedeliveries - n)
    BY BoundsAssumption
  <2> QED
    BY <2>1
<1> DEFINE D == (MaxRetries + 1) * m
<1>2. B = C + D /\ B \in Nat /\ B >= 1 /\ C \in Nat /\ D \in Nat
  BY <1>1, BoundsAssumption
<1>3. L <= C \/ L <= 1
  OBVIOUS
<1>4. PromptIds = 1..B
  BY DEF PromptIds
<1> HIDE DEF B, C, D
<1> QED
  BY <1>2, <1>3, <1>4

(* What becomes of the prompt id a runner holds. *)
LEMMA AtChange ==
  ASSUME WorkInv, [Next]_vars
  PROVE  \/ UNCHANGED at
         \/ \E r \in Runners : at' = [at EXCEPT ![r] = 0]
         \/ \E r \in Runners : /\ JobOf(r) \in Jobs
                              /\ at' = [at EXCEPT ![r] = Len(prompts'[JobOf(r)])]
                              /\ Len(prompts'[JobOf(r)]) > 0
<1> DEFINE Goal == \/ UNCHANGED at
                   \/ \E r \in Runners : at' = [at EXCEPT ![r] = 0]
                   \/ \E r \in Runners : /\ JobOf(r) \in Jobs
                                        /\ at' = [at EXCEPT ![r] = Len(prompts'[JobOf(r)])]
                                        /\ Len(prompts'[JobOf(r)]) > 0
<1>1. ASSUME NEW r \in Runners, QueuePrompt(r) PROVE Goal
  <2> DEFINE j == JobOf(r)
             posted == [prompts EXCEPT ![j] = Append(@, "queued")]
  <2>1. j \in Jobs /\ Append(prompts[j], "queued") \in Seq(PromptStates)
    BY <1>1, PostAppends
  <2>2. Len(posted[j]) > 0
    <3>1. posted[j] = Append(prompts[j], "queued")
      BY <2>1 DEF WorkInv
    <3>2. prompts[j] \in Seq(PromptStates) /\ "queued" \in PromptStates
      BY <2>1 DEF WorkInv, PromptStates
    <3> QED
      BY <3>1, <3>2, AppendProperties, LenProperties
  <2>3. UNCHANGED at \/ (prompts' = posted /\ at' = [at EXCEPT ![r] = Len(posted[j])])
    BY <1>1 DEF QueuePrompt
  <2> QED
    BY <2>1, <2>2, <2>3
<1>2. ASSUME NEW r \in Runners, ExecuteJob(r), ~QueuePrompt(r) PROVE UNCHANGED at
  BY <1>2 DEF ExecuteJob, CheckStart, CheckQueued, MarkRunning, Connect, Hear, UpdateProgress,
              CheckDone, History, MarkCompleted, EmitCompleted, Stop, MarkFailed, Call
<1>3. ASSUME NEW w \in Workers,
             \/ Work(w) \/ HardTimeLimit(w) \/ WorkerLost(w)
             \/ \E m \in Messages : Deliver(w, m)
             \/ \E j \in Queued : DeliverRevoke(w, j)
      PROVE  Goal
  <2>1. w \in Runners
    BY DEF Runners
  <2>2. UNCHANGED at \/ at' = [at EXCEPT ![w] = 0]
    BY <1>3 DEF Work, Register, OnFailure, MarkRetrying, Retry, Ack, HardTimeLimit, WorkerLost,
                Deliver, DeliverRevoke, Release, Call
  <2> QED
    BY <2>1, <2>2
<1>4. ASSUME \/ \E p \in Procs : Save(p) \/ Raise(p)
             \/ \E r \in Runners : SocketCloses(r) \/ ListenTimeout(r)
             \/ \E j \in Queued : SubmitStep(j)
             \/ \E d \in Direct : ExecuteRequest(d)
             \/ \E j \in Cancels : CancelStep(j)
             \/ \E j \in Jobs : Expire(j)
             \/ \E m \in Messages : Restore(m)
             \/ StartPrompt
             \/ \E j \in Jobs : \E n \in DOMAIN prompts[j] : EndPrompt(j, n)
             \/ ApiRestart
             \/ UNCHANGED vars
      PROVE  UNCHANGED at
  BY <1>4 DEF Save, Raise, SocketCloses, ListenTimeout, SubmitStep, CreateJob, Publish,
              ExecuteRequest, EmitQueued, Except, CancelStep, CancelRead, CancelInterrupt, Expire,
              Restore, StartPrompt, EndPrompt, ApiRestart, Call, vars
<1> HIDE DEF Goal
<1>5. UNCHANGED at => Goal
  BY DEF Goal
<1>6. Next => Goal
  BY <1>1, <1>2, <1>3, <1>4, <1>5 DEF Next
<1>7. Goal
  BY <1>4, <1>5, <1>6
<1> QED
  BY <1>7 DEF Goal

(* The prompt a runner holds is one that the budget has room for. *)
LEMMA AtTyped ==
  ASSUME BoundsBase, BoundsBase', RenderBudget', TypeInv, [Next]_vars
  PROVE  at' \in [Runners -> PromptIds \cup {0}]
<1>1. ASSUME NEW r \in Runners, JobOf(r) \in Jobs, Len(prompts'[JobOf(r)]) > 0
      PROVE  Len(prompts'[JobOf(r)]) \in PromptIds
  <2>1. PICK j \in Jobs : j = JobOf(r)
    BY <1>1
  <2>2. redeliveries' \in 0..MaxRedeliveries
    BY DEF BoundsBase, BrokerInv
  <2>3. Len(prompts'[j]) \in Nat
    BY LenProperties DEF BoundsBase, WorkInv
  <2>4. \/ Len(prompts'[j]) <= (MaxRetries + 1) * (redeliveries' + 1)
        \/ Len(prompts'[j]) <= 1
    BY DEF RenderBudget, Jobs
  <2> QED
    BY <1>1, <2>1, <2>2, <2>3, <2>4, PromptNumbered
<1>2. at \in [Runners -> PromptIds \cup {0}]
  BY DEF TypeInv
<1>3. WorkInv
  BY DEF BoundsBase
<1> QED
  BY <1>1, <1>2, <1>3, AtChange

(* The bounded ids are enough: a step of the pipeline is one of the tracker *)
(* that knows no others.                                                    *)
LEMMA BoundedStep ==
  ASSUME BoundsBase, TypeInv, [Next]_vars
  PROVE  [Bounded!Next]_(Bounded!vars)
<1>1. WorkInv
  BY DEF BoundsBase
<1>2. ASSUME NEW c \in Procs, NEW j \in Jobs, Edit(c, j) PROVE Bounded!Next
  <2>1. Bounded!Call(c, j)
    BY <1>2 DEF Edit, Bounded!Call, Bounded!Fetch, Bounded!Create, Bounded!AttachTask,
                Bounded!UpdateProgress, Bounded!MarkCancelled, Bounded!MarkRetrying, Bounded!NewJob,
                Tracking!Fetch, Tracking!Create, Tracking!AttachTask,
                Tracking!UpdateProgress, Tracking!MarkCancelled, Tracking!MarkRetrying,
                Tracking!NewJob
  <2> QED
    BY <2>1 DEF Bounded!Next
<1>3. ASSUME NEW r \in Runners, Begin(r) \/ Fail(r) \/ Complete(r) PROVE Bounded!Next
  <2>1. r \in Procs /\ JobOf(r) \in Jobs
    BY <1>1, <1>3, JobOfRunner DEF Begin, Fail, MarkFailed, Call, Move, Complete
  <2>2. /\ Begin(r) => at[r] \in PromptIds
        /\ \A found \in {0, at[r]} : Complete(r) => found \in PromptIds \cup {0}
    BY <1>1 DEF Begin, Complete, WorkInv, Posted, TypeInv
  <2>3. Bounded!Call(r, JobOf(r))
    BY <1>3, <2>2
       DEF Begin, Fail, Complete, Bounded!Call, Bounded!Fetch, Bounded!MarkRunning,
           Bounded!MarkFailed, Bounded!MarkCompleted, Tracking!Fetch, Tracking!MarkRunning,
           Tracking!MarkFailed, Tracking!MarkCompleted
  <2> QED
    BY <2>1, <2>3 DEF Bounded!Next
<1>4. ASSUME \/ \E c \in Procs : Tracking!Save(c)
             \/ \E cs \in SUBSET Procs : Tracking!Drop(cs)
             \/ \E j \in Jobs : Tracking!Expire(j)
      PROVE  Bounded!Next
  BY <1>4 DEF Bounded!Next, Tracking!Save, Tracking!Drop, Tracking!Expire, Bounded!Save,
              Bounded!Drop, Bounded!Expire
<1> QED
  BY <1>1, <1>2, <1>3, <1>4, TrackerStep DEF TrackerNext, tracker, Bounded!vars

(* So the records keep the types of that tracker. *)
LEMMA BoundedTyped ==
  ASSUME BoundsBase, TypeInv, [Next]_vars
  PROVE  Bounded!TypeOK'
  BY BoundedStep, BoundedAssumptions, Bounded!TypeStep DEF TypeInv

(* The rest: messages to the runners, revocations, faults. *)
LEMMA ToldTyped ==
  ASSUME WorkInv, TypeInv, [Next]_vars
  PROVE  told' \in [Runners -> SocketMessages]
<1> DEFINE Goal == told' \in [Runners -> SocketMessages]
<1>1. told \in [Runners -> SocketMessages]
  BY DEF TypeInv
<1>2. UNCHANGED told => Goal
  BY <1>1
<1>3. ASSUME NEW j, NEW n, NEW end, NEW message \in SocketMessages, EndAs(j, n, end, message)
      PROVE  Goal
  BY <1>1, <1>3 DEF EndAs
<1>4. interrupt => Goal
  BY <1>2, <1>3 DEF interrupt, comfy, SocketMessages
<1>5. ASSUME NEW w \in Workers, Release(w) PROVE Goal
  BY <1>1, <1>5 DEF Release, SocketMessages
<1>6. ASSUME NEW r \in Runners, ExecuteJob(r) PROVE Goal
  <2>1. CASE Connect(r)
    BY <1>1, <2>1 DEF Connect, SocketMessages
  <2>2. CASE Stop(r)
    BY <1>4, <2>2 DEF Stop
  <2>3. CASE ~Connect(r) /\ ~Stop(r)
    BY <1>2, <1>6, <2>3
       DEF ExecuteJob, CheckStart, QueuePrompt, CheckQueued, MarkRunning, Hear, UpdateProgress,
           CheckDone, History, MarkCompleted, EmitCompleted, MarkFailed, Call, comfy
  <2> QED
    BY <2>1, <2>2, <2>3
<1>7. ASSUME NEW w \in Workers, Work(w) PROVE Goal
  <2>1. CASE Ack(w)
    BY <1>5, <2>1 DEF Ack
  <2>2. CASE ~Ack(w)
    BY <1>2, <1>7, <2>2 DEF Work, Register, OnFailure, MarkRetrying, Retry, Call, comfy
  <2> QED
    BY <2>1, <2>2
<1>8. ASSUME NEW w \in Workers,
             \/ HardTimeLimit(w) \/ WorkerLost(w)
             \/ \E m \in Messages : Deliver(w, m)
             \/ \E j \in Queued : DeliverRevoke(w, j)
      PROVE  Goal
  BY <1>2, <1>5, <1>8 DEF HardTimeLimit, WorkerLost, Deliver, DeliverRevoke, comfy
<1>9. ASSUME NEW j \in Cancels, CancelStep(j) PROVE Goal
  BY <1>2, <1>4, <1>9 DEF CancelStep, CancelRead, CancelInterrupt, Call, comfy
<1>10. ASSUME NEW j \in Jobs, NEW n \in DOMAIN prompts[j], EndPrompt(j, n) PROVE Goal
  BY <1>3, <1>10 DEF EndPrompt, SocketMessages
<1>11. ASSUME \/ \E p \in Procs : Save(p) \/ Raise(p)
              \/ \E r \in Runners : SocketCloses(r) \/ ListenTimeout(r)
              \/ \E j \in Queued : SubmitStep(j)
              \/ \E d \in Direct : ExecuteRequest(d)
              \/ \E j \in Jobs : Expire(j)
              \/ \E m \in Messages : Restore(m)
              \/ StartPrompt
              \/ ApiRestart
              \/ UNCHANGED vars
       PROVE  UNCHANGED told
  BY <1>11 DEF Save, Raise, SocketCloses, ListenTimeout, SubmitStep, CreateJob, Publish,
               ExecuteRequest, EmitQueued, Except, Expire, Restore, StartPrompt, ApiRestart, Call,
               comfy, vars
<1> HIDE DEF Goal
<1>12. Next => Goal
  BY <1>2, <1>6, <1>7, <1>8, <1>9, <1>10, <1>11 DEF Next
<1>13. Goal
  BY <1>2, <1>11, <1>12
<1> QED
  BY <1>13 DEF Goal

(* The records of a job, in Redis and on their way there.                    *)
Records(j) == (IF store[j] = NoJob THEN {} ELSE {store[j]})
              \cup {pend[p].rec : p \in {q \in Procs : pend[q] # Idle /\ pend[q].job = j}}

(* Where a record comes from, as far as its failure and its task go. *)
LEMMA RecordsCome ==
  ASSUME WorkInv, Tracking!TypeOK, [Next]_vars, NEW j \in Jobs, NEW rec \in Records(j)'
  PROVE  \/ rec \in Records(j)
         \/ rec.status # "failed" /\ ~rec.task
         \/ \E old \in Records(j) :
              /\ \/ rec.status = "failed" => old.status = "failed"
                 \/ \E r \in Runners : Fail(r) /\ JobOf(r) = j
              /\ rec.task => old.task \/ j \in Queued
<1> DEFINE Failing == \E r \in Runners : Fail(r) /\ JobOf(r) = j
           From(old, new) == /\ (new.status = "failed" => old.status = "failed") \/ Failing
                             /\ new.task => old.task \/ j \in Queued
           Goal == \/ rec \in Records(j)
                   \/ rec.status # "failed" /\ ~rec.task
                   \/ \E old \in Records(j) : From(old, rec)
<1>1. /\ store \in [Jobs -> Tracking!TrackedJob \cup {NoJob}]
      /\ pend \in [Procs -> Tracking!Write \cup {Idle}]
  BY DEF Tracking!TypeOK
<1>2. store[j] # NoJob => store[j] \in Tracking!TrackedJob /\ store[j] \in Records(j)
  BY <1>1 DEF Records
<1>3. ASSUME NEW c \in Procs, NEW k \in Jobs, NEW refused, NEW new,
             Tracking!Fetch(c, k, refused, new)
      PROVE  rec \in Records(j) \/ (k = j /\ rec = new /\ store[j] # NoJob)
  BY <1>1, <1>3 DEF Tracking!Fetch, Records
<1>4. ASSUME NEW c \in Procs, NEW refused, NEW new, Tracking!Fetch(c, j, refused, new),
             store[j] # NoJob => From(store[j], new)
      PROVE  Goal
  <2> HIDE DEF From
  <2> QED
    BY <1>2, <1>3, <1>4
<1>5. ASSUME NEW c \in Procs, NEW k \in Jobs, k # j, NEW refused, NEW new,
             Tracking!Fetch(c, k, refused, new)
      PROVE  Goal
  BY <1>3, <1>5
<1>6. ASSUME NEW c \in Procs, NEW k \in Jobs, Edit(c, k), k # j PROVE Goal
  <2>1. CASE Tracking!Create(c, k)
    BY <1>1, <1>6, <2>1 DEF Tracking!Create, Records
  <2>2. CASE ~Tracking!Create(c, k)
    BY <1>5, <1>6, <2>2 DEF Edit, Tracking!AttachTask, Tracking!UpdateProgress,
                            Tracking!MarkCancelled, Tracking!MarkRetrying
  <2> QED
    BY <2>1, <2>2
<1>7. ASSUME NEW c \in Procs, Edit(c, j) PROVE Goal
  <2>1. CASE Tracking!Create(c, j)
    <3>1. rec \in Records(j) \/ rec = Tracking!NewJob
      BY <1>1, <2>1 DEF Tracking!Create, Records
    <3> QED
      BY <3>1 DEF Tracking!NewJob
  <2>2. CASE j \in Queued /\ Tracking!AttachTask(c, j)
    <3>1. store[j] # NoJob => From(store[j], [store[j] EXCEPT !.task = TRUE])
      BY <1>2, <2>2 DEF Tracking!TrackedJob
    <3> QED
      BY <1>4, <2>2, <3>1 DEF Tracking!AttachTask
  <2>3. CASE Tracking!UpdateProgress(c, j)
    <3>1. store[j] # NoJob => From(store[j], [store[j] EXCEPT !.status = "running"])
      BY <1>2 DEF Tracking!TrackedJob
    <3> QED
      BY <1>4, <2>3, <3>1 DEF Tracking!UpdateProgress
  <2>4. CASE Tracking!MarkCancelled(c, j)
    <3>1. store[j] # NoJob => From(store[j], [store[j] EXCEPT !.status = "cancelled"])
      BY <1>2 DEF Tracking!TrackedJob
    <3> QED
      BY <1>4, <2>4, <3>1 DEF Tracking!MarkCancelled
  <2>5. ASSUME NEW n \in 1..MaxRetries, Tracking!MarkRetrying(c, j, n) PROVE Goal
    <3>1. store[j] # NoJob => From(store[j], [store[j] EXCEPT !.status = "retrying",
                                                              !.error = TRUE, !.retry_count = n])
      BY <1>2 DEF Tracking!TrackedJob
    <3> QED
      BY <1>4, <2>5, <3>1 DEF Tracking!MarkRetrying
  <2> QED
    BY <1>7, <2>1, <2>2, <2>3, <2>4, <2>5 DEF Edit
<1>8. ASSUME NEW r \in Runners, Begin(r) \/ Fail(r) \/ Complete(r) PROVE Goal
  <2>1. r \in Procs /\ JobOf(r) \in Jobs
    BY <1>8, JobOfRunner DEF Begin, Fail, MarkFailed, Call, Move, Complete
  <2>2. CASE JobOf(r) # j
    BY <1>5, <1>8, <2>1, <2>2 DEF Begin, Fail, Complete, Tracking!MarkRunning,
                                  Tracking!MarkFailed, Tracking!MarkCompleted
  <2>3. CASE JobOf(r) = j /\ Begin(r)
    <3>1. store[j] # NoJob =>
            From(store[j], [store[j] EXCEPT !.prompt = at[r], !.status = "running"])
      BY <1>2 DEF Tracking!TrackedJob
    <3> QED
      BY <1>4, <2>1, <2>3, <3>1 DEF Begin, Tracking!MarkRunning
  <2>4. CASE JobOf(r) = j /\ Fail(r)
    <3>1. store[j] # NoJob => From(store[j], [store[j] EXCEPT !.status = "failed", !.error = TRUE])
      BY <1>2, <2>4 DEF Tracking!TrackedJob
    <3> QED
      BY <1>4, <2>1, <2>4, <3>1 DEF Fail, Tracking!MarkFailed
  <2>5. CASE JobOf(r) = j /\ Complete(r)
    <3>1. PICK found : Tracking!MarkCompleted(r, j, found)
      BY <2>5 DEF Complete
    <3>2. store[j] # NoJob => From(store[j], [store[j] EXCEPT !.status = "completed",
                                                              !.outputs = found, !.error = FALSE])
      BY <1>2 DEF Tracking!TrackedJob
    <3> QED
      BY <1>4, <2>1, <3>1, <3>2 DEF Tracking!MarkCompleted
  <2> QED
    BY <1>8, <2>2, <2>3, <2>4, <2>5
<1>9. ASSUME NEW p \in Procs, Tracking!Save(p) PROVE Goal
  BY <1>1, <1>9 DEF Tracking!Save, Records
<1>10. ASSUME NEW cs \in SUBSET Procs, Tracking!Drop(cs) PROVE Goal
  BY <1>1, <1>10 DEF Tracking!Drop, Records
<1>11. ASSUME NEW k \in Jobs, Tracking!Expire(k) PROVE Goal
  BY <1>1, <1>11 DEF Tracking!Expire, Records
<1>12. ASSUME UNCHANGED tracker PROVE Goal
  BY <1>12 DEF tracker, Records
<1> HIDE DEF Goal
<1>13. Goal
  BY <1>6, <1>7, <1>8, <1>9, <1>10, <1>11, <1>12, TrackerStep DEF TrackerNext
<1> QED
  BY <1>13 DEF Goal

(* Only a job of the queue has a task id. *)
TaskInv == \A d \in Direct : \A rec \in Records(d) : ~rec.task

(* TaskInv is inductive: nothing attaches a task to a direct job. *)
LEMMA TaskStep ==
  ASSUME WorkInv, Tracking!TypeOK, TaskInv, [Next]_vars
  PROVE  TaskInv'
<1> SUFFICES ASSUME NEW d \in Direct, NEW rec \in Records(d)' PROVE ~rec.task
  BY DEF TaskInv
<1>1. d \in Jobs /\ d \notin Queued
  BY BoundsAssumption DEF Jobs
<1>2. \/ rec \in Records(d)
      \/ ~rec.task
      \/ \E old \in Records(d) : rec.task => old.task
  BY <1>1, RecordsCome
<1> QED
  BY <1>2 DEF TaskInv

(* Only tasks of queued jobs are revoked, since only they have one. *)
LEMMA RevocationsTyped ==
  ASSUME WorkInv, TypeInv, TaskInv, [Next]_vars
  PROVE  /\ revoking' \subseteq Workers \X Queued
         /\ revoked' \subseteq Workers \X Queued
<1> DEFINE Goal == /\ revoking' \subseteq Workers \X Queued
                   /\ revoked' \subseteq Workers \X Queued
<1>1. revoking \subseteq Workers \X Queued /\ revoked \subseteq Workers \X Queued
  BY DEF TypeInv
<1>2. UNCHANGED <<revoking, revoked>> => Goal
  BY <1>1
<1>3. ASSUME NEW w \in Workers, NEW j \in Queued, DeliverRevoke(w, j) PROVE Goal
  BY <1>1, <1>3 DEF DeliverRevoke
<1>4. ASSUME NEW w \in Workers, WorkerLost(w) PROVE Goal
  BY <1>1, <1>4 DEF WorkerLost
<1>5. ASSUME NEW j \in Cancels, CancelStep(j) PROVE Goal
  <2>1. CASE CancelRead(j)
    <3>1. j \in Jobs /\ store[j] \in Records(j)
      BY <2>1, BoundsAssumption DEF CancelRead, Records
    <3>2. store[j].task => j \in Queued
      BY <3>1 DEF TaskInv, Jobs
    <3> QED
      BY <1>1, <2>1, <3>2 DEF CancelRead
  <2>2. CASE ~CancelRead(j)
    BY <1>2, <1>5, <2>2 DEF CancelStep, CancelInterrupt, Call, broker
  <2> QED
    BY <2>1, <2>2
<1>6. ASSUME \/ \E p \in Procs : Save(p) \/ Raise(p)
             \/ \E r \in Runners : ExecuteJob(r) \/ SocketCloses(r) \/ ListenTimeout(r)
             \/ \E w \in Workers : \/ Work(w) \/ HardTimeLimit(w)
                                   \/ \E m \in Messages : Deliver(w, m)
             \/ \E j \in Queued : SubmitStep(j)
             \/ \E d \in Direct : ExecuteRequest(d)
             \/ \E j \in Jobs : Expire(j)
             \/ \E m \in Messages : Restore(m)
             \/ StartPrompt
             \/ \E j \in Jobs : \E n \in DOMAIN prompts[j] : EndPrompt(j, n)
             \/ ApiRestart
             \/ UNCHANGED vars
      PROVE  UNCHANGED <<revoking, revoked>>
  BY <1>6 DEF Save, Raise, ExecuteJob, CheckStart, QueuePrompt, CheckQueued, MarkRunning,
              Connect, Hear, UpdateProgress, CheckDone, History, MarkCompleted, EmitCompleted,
              Stop, MarkFailed, SocketCloses, ListenTimeout, Work, Register, OnFailure,
              MarkRetrying, Retry, Ack, HardTimeLimit, Deliver, SubmitStep, CreateJob, Publish,
              ExecuteRequest, EmitQueued, Except, Expire, Restore, StartPrompt, EndPrompt,
              ApiRestart, Call, broker, vars
<1> HIDE DEF Goal
<1>7. Next => Goal
  BY <1>2, <1>3, <1>4, <1>5, <1>6 DEF Next
<1>8. Goal
  BY <1>2, <1>6, <1>7
<1> QED
  BY <1>8 DEF Goal

(* Every fault is counted against the bound. *)
LEMMA FaultsTyped ==
  ASSUME TypeInv, [Next]_vars
  PROVE  faults' \in 0..MaxFaults
<1>1. \/ UNCHANGED faults
      \/ faults < MaxFaults /\ faults' = faults + 1
  BY DEF Next, vars, Save, Raise, ExecuteJob, CheckStart, QueuePrompt, CheckQueued, MarkRunning,
         Connect, Hear, UpdateProgress, CheckDone, History, MarkCompleted, EmitCompleted,
         Stop, MarkFailed, SocketCloses, ListenTimeout, Work, Register, OnFailure,
         MarkRetrying, Retry, Ack, HardTimeLimit, WorkerLost, Deliver, DeliverRevoke, SubmitStep,
         CreateJob, Publish, ExecuteRequest, EmitQueued, Except, CancelStep, CancelRead,
         CancelInterrupt, Expire, Restore, StartPrompt, EndPrompt, ApiRestart, Call, budget
<1> QED
  BY <1>1, BoundsAssumption DEF TypeInv
-----------------------------------------------------------------------------
TypeBase == PipelineInv /\ BoundsBase /\ RenderBudget

LEMMA TypeBaseHolds == Spec => []TypeBase
BY PipelineHolds, BoundsBaseHolds, RendersStayBounded, PTL DEF TypeBase

LEMMA TypeInvHolds == Spec => [](TypeInv /\ TaskInv)
<1>1. Init => TypeInv /\ TaskInv
  <2> SUFFICES ASSUME Init PROVE TypeInv /\ TaskInv
    OBVIOUS
  <2>1. Bounded!TypeOK
    BY DEF Init, Tracker!Init, Bounded!TypeOK
  <2>2. TaskInv
    BY DEF Init, Tracker!Init, TaskInv, Records, Jobs
  <2> QED
    BY <2>1, <2>2, BoundsAssumption DEF Init, TypeInv, SocketMessages
<1>2. TypeBase /\ TypeBase' /\ TypeInv /\ TaskInv /\ [Next]_vars => TypeInv' /\ TaskInv'
  <2> SUFFICES ASSUME TypeBase, TypeBase', TypeInv, TaskInv, [Next]_vars
               PROVE  TypeInv' /\ TaskInv'
    OBVIOUS
  <2>1. WorkInv /\ Tracking!TypeOK /\ BoundsBase /\ BoundsBase' /\ RenderBudget'
    BY DEF TypeBase, PipelineInv
  <2> QED
    BY <2>1, AtTyped, BoundedTyped, ToldTyped, RevocationsTyped, FaultsTyped, TaskStep
       DEF TypeInv
<1> QED
  BY <1>1, <1>2, TypeBaseHolds, PTL DEF Spec

(* Every variable of the pipeline keeps its type, whatever the number of    *)
(* jobs, workers and faults: a task in the hands of a worker that is not    *)
(* idle, prompt ids within the budget, in the records too, and revocations  *)
(* for jobs of the queue only.                                              *)
THEOREM PipelineIsTyped == Spec => []TypeOK
<1>1. TypeBase /\ TypeInv => TypeOK
  <2> SUFFICES ASSUME TypeBase, TypeInv PROVE TypeOK
    OBVIOUS
  <2>1. Tracker!TypeOK
    BY DEF TypeInv, Bounded!TypeOK, Tracker!TypeOK, Bounded!TrackedJob, Tracker!TrackedJob,
           Bounded!Write, Tracker!Write, Bounded!Status, Tracker!Status
  <2>2. \A j \in Jobs : /\ DOMAIN prompts[j] = 1..Len(prompts[j])
                        /\ \A n \in DOMAIN prompts[j] : prompts[j][n] \in PromptStates
    BY DEF TypeBase, BoundsBase, WorkInv
  <2>3. /\ pc \in [Procs -> PC] /\ task \in [Workers -> Messages \cup {NoTask}]
        /\ queue \in [Messages -> Nat] /\ redeliveries \in 0..MaxRedeliveries
        /\ \A w \in Workers : task[w] = NoTask <=> pc[w] = "idle"
        /\ announced \subseteq Jobs
    BY DEF TypeBase, BoundsBase, WorkInv, BrokerInv, PipelineInv
  <2> QED
    BY <2>1, <2>2, <2>3 DEF TypeOK, TypeInv, PromptStates, SocketMessages
<1> QED
  BY <1>1, TypeBaseHolds, TypeInvHolds, PTL

(* Both instances substitute the same, so their actions are the same. *)
LEMMA BoundedIsTracker == Bounded!Next => Tracker!Next
<1>1. ASSUME NEW c \in Procs, NEW j \in Jobs, Bounded!Call(c, j) PROVE Tracker!Call(c, j)
  BY <1>1 DEF Bounded!Call, Bounded!Fetch, Bounded!Create, Bounded!AttachTask,
              Bounded!MarkRunning, Bounded!UpdateProgress, Bounded!MarkRetrying,
              Bounded!MarkCompleted, Bounded!MarkFailed, Bounded!MarkCancelled,
              Bounded!NewJob,
              Tracker!Call, Tracker!Fetch, Tracker!Create, Tracker!AttachTask,
              Tracker!MarkRunning, Tracker!UpdateProgress, Tracker!MarkRetrying,
              Tracker!MarkCompleted, Tracker!MarkFailed, Tracker!MarkCancelled,
              Tracker!NewJob
<1> QED
  BY <1>1 DEF Bounded!Next, Bounded!Save, Bounded!Drop, Bounded!Expire,
              Tracker!Next, Tracker!Save, Tracker!Drop, Tracker!Expire

(* The refinement that TLC checks: the pipeline implements JobTracker with  *)
(* no more prompt ids than the render budget allows, whatever the bounds.   *)
THEOREM PipelineImplementsBounded == Spec => ImplementsTracker
<1>1. Init => Tracker!Init
  BY DEF Init
<1>2. TypeBase /\ TypeInv /\ [Next]_vars => [Tracker!Next]_(Tracker!vars)
  BY BoundedStep, BoundedIsTracker DEF TypeBase, Bounded!vars, Tracker!vars
<1> QED
  BY <1>1, <1>2, TypeBaseHolds, TypeInvHolds, PTL DEF Spec, ImplementsTracker, Tracker!Spec

-----------------------------------------------------------------------------
(* A failed record means that no copy of the task is left, unless one was   *)
(* put back, and that a direct execution is over.                           *)
FailedIn(j) == \E rec \in Records(j) : rec.status = "failed"

FailInv ==
  /\ redeliveries = 0 =>
       \A j \in Queued : FailedIn(j) => Total(j, CopySpan) = 0
  /\ \A d \in Direct : FailedIn(d) => pc[d] = "finished"

(* mark_failed is the last thing a task does.                               *)
LEMMA FailureSpends ==
  ASSUME BoundsBase, BoundsBase', NEW j \in Queued, FiniteTokens(j, CopySpan),
         NEW r \in Runners, Fail(r), JobOf(r) = j
  PROVE  FiniteTokens(j, CopySpan)' /\ Total(j, CopySpan)' + 1 <= Total(j, CopySpan)
<1> USE DEF BoundsBase
<1>1. /\ pc[r] = "mark_failed" /\ pc' = [pc EXCEPT ![r] = "finished"]
      /\ UNCHANGED <<task, queue>>
  BY DEF Fail, MarkFailed, Call, Move, broker
<1>2. r \in Workers /\ r \in Procs /\ task[r] # NoTask /\ task[r].job = j
  <2>1. r \in Workers /\ r \in Procs
    BY BoundsAssumption DEF JobOf, Runners, Procs
  <2> QED
    BY <1>1, <2>1 DEF BrokerInv, JobOf
<1>3. \A q \in Procs : pc'[q] = IF q = r THEN "finished" ELSE pc[q]
  BY <1>1, <1>2 DEF WorkInv
<1>4. Unpublished(j)' = Unpublished(j)
  BY <1>1, <1>3 DEF Unpublished, Procs
<1>5. \A w \in Workers : GoesOn(w)
  BY <1>1, <1>3 DEF GoesOn, Procs, Runners
<1>6. 0 \in 0..MaxRetries /\ CopySpan[Stage(r)] = {0}
  BY <1>2, StageTyped, BoundsAssumption DEF CopySpan
<1>7. <<r, 0>> \in Held(j, CopySpan)
  BY <1>1, <1>2, <1>6 DEF Held, Holding
<1>8. <<r, 0>> \notin Held(j, CopySpan)'
  BY <1>2, <1>3 DEF Held, Holding
<1>9. UNCHANGED queue
  BY <1>1
<1> DEFINE F == CopySpan
<1>10. /\ F \in Spans /\ FiniteTokens(j, F)
       /\ <<r, 0>> \in Held(j, F) /\ <<r, 0>> \notin Held(j, F)'
  BY <1>7, <1>8, SpansAre DEF CopySpan
<1> HIDE DEF F
<1>11. FiniteTokens(j, F)' /\ Total(j, F)' + 1 <= Total(j, F)
  BY <1>2, <1>4, <1>5, <1>6, <1>9, <1>10, TokenSpent
<1> QED
  BY <1>11 DEF F, CopySpan

(* FailInv is inductive. *)
LEMMA FailStep ==
  ASSUME BoundsBase, Tracking!TypeOK, CopiesInv, FailInv, [Next]_vars
  PROVE  FailInv'
<1> USE DEF BoundsBase
<1>1. BoundsBase' /\ TokenStep /\ NoWayBack
  BY BaseStep
<1>2. ASSUME NEW j \in Jobs, FailedIn(j)'
      PROVE  FailedIn(j) \/ \E r \in Runners : Fail(r) /\ JobOf(r) = j
  <2>1. PICK rec \in Records(j)' : rec.status = "failed"
    BY <1>2 DEF FailedIn
  <2> QED
    BY <2>1, RecordsCome DEF FailedIn
<1>3. ASSUME redeliveries' = 0, NEW j \in Queued, FailedIn(j)'
      PROVE  Total(j, CopySpan)' = 0
  <2> DEFINE T == Total(j, CopySpan)
  <2>1. /\ FiniteTokens(j, CopySpan) /\ T <= 1 + redeliveries /\ T \in Nat
        /\ redeliveries \in Nat
    BY SpansAre, TotalTyped, BoundsAssumption DEF CopiesInv, BrokerInv
  <2>2. /\ FiniteTokens(j, CopySpan)'
        /\ \/ redeliveries' = redeliveries /\ T' <= T
           \/ redeliveries' = redeliveries + 1
    BY <1>1, <2>1, SpansAre, TokensFall
  <2>3. redeliveries = 0 /\ T' <= T
    BY <1>3, <2>1, <2>2
  <2>4. T' \in Nat
    BY <2>2, SpansAre, TotalTypedNext
  <2>5. CASE FailedIn(j)
    <3>1. T = 0
      BY <2>3, <2>5 DEF FailInv
    <3> HIDE DEF T
    <3>2. T' = 0
      BY <2>1, <2>3, <2>4, <3>1
    <3> QED
      BY <3>2 DEF T
  <2>6. CASE \E r \in Runners : Fail(r) /\ JobOf(r) = j
    <3>1. T' + 1 <= T
      BY <1>1, <2>1, <2>6, FailureSpends
    <3>2. T <= 1
      BY <2>1, <2>3
    <3> DEFINE U == T'
    <3>3. T \in Nat /\ U \in Nat /\ U + 1 <= T /\ T <= 1
      BY <2>1, <2>4, <3>1, <3>2
    <3> HIDE DEF U, T
    <3>4. U = 0
      BY <3>3
    <3> QED
      BY <3>4 DEF U, T
  <2> QED
    BY <1>2, <1>3, <2>5, <2>6 DEF Jobs
<1>4. ASSUME NEW d \in Direct, FailedIn(d)'
      PROVE  pc'[d] = "finished"
  <2>1. d \in Jobs /\ d \in Procs /\ d \notin Workers
    BY BoundsAssumption DEF Jobs, Procs, Runners
  <2>2. CASE FailedIn(d)
    BY <1>1, <2>1, <2>2 DEF FailInv, NoWayBack, Onward
  <2>3. ASSUME NEW r \in Runners, Fail(r), JobOf(r) = d
        PROVE  pc'[d] = "finished"
    <3>1. pc[r] = "mark_failed" /\ pc' = [pc EXCEPT ![r] = "finished"]
      BY <2>3 DEF Fail, MarkFailed, Call, Move
    <3>2. r = d
      BY <2>3, <3>1, StageTyped, BoundsAssumption DEF JobOf, BrokerInv
    <3> QED
      BY <2>1, <3>1, <3>2 DEF WorkInv
  <2> QED
    BY <1>2, <1>4, <2>1, <2>2, <2>3
<1> QED
  BY <1>3, <1>4 DEF FailInv, CopySpan, Total, InQueue, Held

LEMMA FailInvHolds == Spec => []FailInv
<1>1. Init => FailInv
  BY DEF Init, Tracker!Init, FailInv, FailedIn, Records, Jobs
<1>2. TypeBase /\ CopiesInv /\ FailInv /\ [Next]_vars => FailInv'
  BY FailStep DEF TypeBase, PipelineInv
<1> QED
  BY <1>1, <1>2, TypeBaseHolds, CopiesInvHolds, PTL DEF Spec

(* A job shown as failed does not run again as long as the broker put no    *)
(* message back: with at most one copy of the task, the copy that reports   *)
(* the failure is the last, and it is spent.                                *)
THEOREM FailedStaysOver == Spec => []FailedIsOver
<1>1. BoundsBase /\ CopiesInv /\ FailInv => FailedIsOver
  <2> SUFFICES ASSUME BoundsBase, CopiesInv, FailInv, redeliveries = 0,
                      NEW j \in Jobs, HasStatus(j, {"failed"})
               PROVE  /\ j \in Queued => \A k \in 0..MaxRetries : queue[Message(j, k)] = 0
                      /\ \A r \in Runners :
                           pc[r] \in Execution \cup {"register", "retry"} => JobOf(r) # j
    BY DEF FailedIsOver
  <2> USE DEF BoundsBase
  <2>1. FailedIn(j)
    BY DEF HasStatus, FailedIn, Records
  <2>2. j \in Queued => InQueue(j, CopySpan) = {} /\ Held(j, CopySpan) = {}
    <3> SUFFICES ASSUME j \in Queued
                 PROVE  InQueue(j, CopySpan) = {} /\ Held(j, CopySpan) = {}
      OBVIOUS
    <3>1. Total(j, CopySpan) = 0 /\ FiniteTokens(j, CopySpan)
      BY <2>1 DEF FailInv, CopiesInv
    <3>2. Cardinality(InQueue(j, CopySpan)) \in Nat /\ Cardinality(Held(j, CopySpan)) \in Nat
      BY <3>1, FS_CardinalityType DEF FiniteTokens
    <3>3. Cardinality(CopySpan[0]) = 1
      BY SpansAre
    <3>4. Cardinality(InQueue(j, CopySpan)) = 0 /\ Cardinality(Held(j, CopySpan)) = 0
      BY <3>1, <3>2, <3>3 DEF Total
    <3> QED
      BY <3>1, <3>4, FS_EmptySet DEF FiniteTokens
  <2>3. ASSUME j \in Queued, NEW k \in 0..MaxRetries
        PROVE  queue[Message(j, k)] = 0
    <3>1. queue[Message(j, k)] \in Nat
      BY <2>3 DEF BrokerInv, Message, Messages
    <3>2. 0 \in 0..MaxRetries /\ 0 \in CopySpan[k]
      BY BoundsAssumption DEF CopySpan
    <3>3. queue[Message(j, k)] > 0 => <<<<k, 1>>, 0>> \in InQueue(j, CopySpan)
      BY <3>1, <3>2 DEF InQueue
    <3> QED
      BY <2>2, <2>3, <3>1, <3>3
  <2>4. ASSUME NEW r \in Runners, pc[r] \in Execution \cup {"register", "retry"}, JobOf(r) = j
        PROVE  FALSE
    <3>1. pc[r] # "idle" /\ pc[r] # "finished"
      BY <2>4 DEF Execution
    <3>2. CASE r \in Workers
      <4>1. task[r] # NoTask /\ task[r].job = j
        BY <2>4, <3>1, <3>2 DEF BrokerInv, JobOf
      <4>2. j \in Queued /\ Stage(r) \in 0..MaxRetries + 1
        BY <3>2, <4>1, StageTyped
      <4>3. <<r, 0>> \in Held(j, CopySpan)
        BY <3>1, <3>2, <4>1, <4>2, BoundsAssumption DEF Held, Holding, CopySpan
      <4> QED
        BY <2>2, <4>2, <4>3
    <3>3. CASE r \notin Workers
      BY <2>1, <2>4, <3>1, <3>3 DEF JobOf, Runners, FailInv
    <3> QED
      BY <3>2, <3>3
  <2> QED
    BY <2>3, <2>4
<1> QED
  BY <1>1, BoundsBaseHolds, CopiesInvHolds, FailInvHolds, PTL
=============================================================================

--------------------------- MODULE SocketRoomsProofs ---------------------------
(***************************************************************************)
(* The realtime layer, for any jobs, publishers, connections and calls:    *)
(* whoever is in a job's room learns how the job ended, and the connection *)
(* manager keeps nothing of a closed connection but through a late call.   *)
(***************************************************************************)
EXTENDS SocketRooms, TLAPS, SequenceTheorems

Says(p, j, says) == news' = [news EXCEPT ![p] = [job |-> j, to |-> "room", says |-> says]]

(* What a tracker call of publisher p on job j and its announcement do: a   *)
(* record is created, or a copy of the edited one is on its way, and where  *)
(* that copy ends the job the event to come tells it.                       *)
LEMMA PublishEffect ==
  ASSUME TypeOK, NEW p \in Publishers, NEW j \in Jobs, Publish(p, j)
  PROVE  /\ news[p] = NoNews /\ ops < MaxOps /\ ops' = ops + 1
         /\ UNCHANGED <<channel, server, heard, missed, faults>>
         /\ created' \subseteq created \cup {j}
         /\ news' = news \/ \E says \in Status : Says(p, j, says)
         /\ \/ store' = [store EXCEPT ![j] = Tracker!NewJob] /\ pend' = pend
            \/ UNCHANGED <<store, pend>>
            \/ /\ UNCHANGED store
               /\ \E rec \in Tracker!TrackedJob :
                    /\ pend' = [pend EXCEPT ![p] = [job |-> j, rec |-> rec]]
                    /\ rec.status \in Terminal =>
                         \E says \in Status : Says(p, j, says) /\ Tells(says, rec.status)
<1> DEFINE Goal == /\ news[p] = NoNews /\ ops < MaxOps /\ ops' = ops + 1
                   /\ UNCHANGED <<channel, server, heard, missed, faults>>
                   /\ created' \subseteq created \cup {j}
                   /\ news' = news \/ \E says \in Status : Says(p, j, says)
                   /\ \/ store' = [store EXCEPT ![j] = Tracker!NewJob] /\ pend' = pend
                      \/ UNCHANGED <<store, pend>>
                      \/ /\ UNCHANGED store
                         /\ \E rec \in Tracker!TrackedJob :
                              /\ pend' = [pend EXCEPT ![p] = [job |-> j, rec |-> rec]]
                              /\ rec.status \in Terminal =>
                                   \E says \in Status : Says(p, j, says) /\ Tells(says, rec.status)
<1> USE DEF Status, Tracker!Status
<1>1. ASSUME NEW says \in Status, NEW refused, NEW rec,
             Announce(p, j, Tracker!Fetch(p, j, refused, rec), says),
             store[j] # NoJob => rec \in Tracker!TrackedJob,
             rec.status \in Terminal => Tells(says, rec.status)
      PROVE  Goal
  BY <1>1 DEF Announce, Says, Tracker!Fetch
<1>2. store[j] # NoJob => store[j] \in Tracker!TrackedJob
  BY DEF TypeOK, Tracker!TypeOK
<1>3. CASE Queued(p, j)
  <2>1. CASE Announce(p, j, Tracker!Create(p, j), "queued")
    BY <2>1 DEF Announce, Says, Tracker!Create
  <2>2. CASE store[j] # NoJob /\ Announce(p, j, Tracker!AttachTask(p, j), store[j].status)
    <3> DEFINE rec == [store[j] EXCEPT !.task = TRUE]
    <3>1. rec \in Tracker!TrackedJob /\ rec.status = store[j].status /\ store[j].status \in Status
      BY <1>2, <2>2 DEF Tracker!TrackedJob
    <3>2. Announce(p, j, Tracker!Fetch(p, j, {}, rec), store[j].status)
      BY <2>2 DEF Announce, Tracker!AttachTask
    <3> QED
      BY <1>1, <3>1, <3>2 DEF Tells
  <2> QED
    BY <1>3, <2>1, <2>2 DEF Queued
<1>4. CASE Started(p, j)
  <2> DEFINE rec == [store[j] EXCEPT !.prompt = 1, !.status = "running"]
             says == IF store[j].status = "cancelled" THEN "cancelled" ELSE "running"
  <2>1. rec \in Tracker!TrackedJob /\ rec.status = "running"
    BY <1>2, <1>4 DEF Started, Tracker!TrackedJob
  <2>2. Announce(p, j, Tracker!Fetch(p, j, {"cancelled"}, rec), says)
    BY <1>4 DEF Started, Announce, Tracker!MarkRunning
  <2> QED
    BY <1>1, <2>1, <2>2 DEF Terminal
<1>5. CASE Completed(p, j)
  <2> DEFINE rec == [store[j] EXCEPT !.status = "completed", !.outputs = 1, !.error = FALSE]
  <2>1. store[j] # NoJob /\ rec \in Tracker!TrackedJob /\ rec.status = "completed"
    BY <1>2, <1>5 DEF Completed, Announce, Tracker!MarkCompleted, Tracker!Fetch, Tracker!TrackedJob
  <2>2. Announce(p, j, Tracker!Fetch(p, j, {"cancelled"}, rec), "completed")
    BY <1>5 DEF Completed, Announce, Tracker!MarkCompleted
  <2> QED
    BY <1>1, <2>1, <2>2 DEF Tells
<1>6. CASE Announce(p, j, Tracker!MarkFailed(p, j), "failed")
  <2> DEFINE rec == [store[j] EXCEPT !.status = "failed", !.error = TRUE]
  <2>1. store[j] # NoJob /\ rec \in Tracker!TrackedJob /\ rec.status = "failed"
    BY <1>2, <1>6 DEF Announce, Tracker!MarkFailed, Tracker!Fetch, Tracker!TrackedJob
  <2>2. Announce(p, j, Tracker!Fetch(p, j, {"cancelled", "completed"}, rec), "failed")
    BY <1>6 DEF Announce, Tracker!MarkFailed
  <2> QED
    BY <1>1, <2>1, <2>2 DEF Tells
<1>7. CASE Announce(p, j, Tracker!MarkCancelled(p, j), "failed")
  <2> DEFINE rec == [store[j] EXCEPT !.status = "cancelled"]
  <2>1. store[j] # NoJob /\ rec \in Tracker!TrackedJob /\ rec.status = "cancelled"
    BY <1>2, <1>7 DEF Announce, Tracker!MarkCancelled, Tracker!Fetch, Tracker!TrackedJob
  <2>2. Announce(p, j, Tracker!Fetch(p, j, {}, rec), "failed")
    BY <1>7 DEF Announce, Tracker!MarkCancelled
  <2> QED
    BY <1>1, <2>1, <2>2 DEF Tells
<1>8. CASE Retrying(p, j)
  <2> DEFINE rec == [store[j] EXCEPT !.status = "retrying", !.error = TRUE, !.retry_count = 1]
  <2>1. store[j] # NoJob /\ rec \in Tracker!TrackedJob /\ rec.status = "retrying"
    <3>1. store[j] # NoJob /\ store[j] \in Tracker!TrackedJob
      BY <1>2, <1>8 DEF Retrying, Tracker!MarkRetrying, Tracker!Fetch
    <3>2. 1 \in 0..1
      OBVIOUS
    <3> QED
      BY <3>1, <3>2 DEF Tracker!TrackedJob
  <2>2. /\ Tracker!Fetch(p, j, {"cancelled", "completed"}, rec)
        /\ news[p] = NoNews /\ ops < MaxOps /\ ops' = ops + 1
        /\ UNCHANGED <<news, channel, server, heard, missed, faults>>
    BY <1>8 DEF Retrying, Tracker!MarkRetrying
  <2>3. rec.status \notin Terminal
    BY <2>1 DEF Terminal
  <2>4. \/ UNCHANGED <<store, pend, created>>
        \/ UNCHANGED <<store, created>> /\ pend' = [pend EXCEPT ![p] = [job |-> j, rec |-> rec]]
    BY <2>2 DEF Tracker!Fetch
  <2> HIDE DEF rec
  <2> QED
    BY <2>1, <2>2, <2>3, <2>4
<1> QED
  BY <1>3, <1>4, <1>5, <1>6, <1>7, <1>8 DEF Publish, Failed

-----------------------------------------------------------------------------
LEMMA RecordTyped ==
  ASSUME TypeOK, NEW c \in Calls, call[c] # NoCall
  PROVE  /\ call[c] \in CallRecords
         /\ call[c].sid \in Sids /\ call[c].job \in Jobs
         /\ call[c].snapshot \in Status \cup {NoJob}
         /\ \A place \in Places, snapshot \in Status \cup {NoJob} :
              [call[c] EXCEPT !.at = place, !.snapshot = snapshot] \in CallRecords
         /\ \A place \in Places : [call[c] EXCEPT !.at = place] \in CallRecords
BY DEF TypeOK, CallRecords

(* A snapshot about to be sent has been read. *)
SnapshotsRead == \A c \in Calls : At(c, "send") => call[c].snapshot \in Status

LEMMA InitTyped ==
  ASSUME Init
  PROVE  TypeOK /\ SnapshotsRead
BY BoundsAssumption DEF Init, TypeOK, SnapshotsRead, At, Tracker!Init, Tracker!TypeOK

(* Typing, one actor at a time. *)
LEMMA PublisherTyped ==
  ASSUME TypeOK, NEW p \in Publishers,
         (\E j \in Jobs : Publish(p, j)) \/ Save(p) \/ Emit(p) \/ PublisherFails(p)
  PROVE  TypeOK'
<1>1. ASSUME NEW j \in Jobs, Publish(p, j)
      PROVE  TypeOK'
  <2>1. \A says \in Status : [job |-> j, to |-> "room", says |-> says] \in Events
    BY DEF Events
  <2>2. news' \in [Publishers -> Events \cup {NoNews}]
    BY <1>1, <2>1, PublishEffect DEF TypeOK, Says
  <2>3. Tracker!NewJob \in Tracker!TrackedJob
    BY DEF Tracker!NewJob, Tracker!TrackedJob, Tracker!Status
  <2>4. \A rec \in Tracker!TrackedJob : [job |-> j, rec |-> rec] \in Tracker!Write
    BY DEF Tracker!Write
  <2>5. Tracker!TypeOK'
    <3>1. CASE store' = [store EXCEPT ![j] = Tracker!NewJob] /\ pend' = pend
      BY <1>1, <2>3, <3>1, PublishEffect DEF TypeOK, Tracker!TypeOK
    <3>2. CASE UNCHANGED <<store, pend>>
      BY <1>1, <3>2, PublishEffect DEF TypeOK, Tracker!TypeOK
    <3>3. CASE UNCHANGED store /\ \E rec \in Tracker!TrackedJob :
                 pend' = [pend EXCEPT ![p] = [job |-> j, rec |-> rec]]
      <4>1. PICK rec \in Tracker!TrackedJob :
              pend' = [pend EXCEPT ![p] = [job |-> j, rec |-> rec]]
        BY <3>3
      <4>2. created' \subseteq Jobs
        BY <1>1, PublishEffect DEF TypeOK, Tracker!TypeOK
      <4> QED
        BY <2>4, <3>3, <4>1, <4>2 DEF TypeOK, Tracker!TypeOK
    <3> QED
      BY <1>1, <3>1, <3>2, <3>3, PublishEffect
  <2>6. ops' \in 0..MaxOps
    BY <1>1, PublishEffect, BoundsAssumption DEF TypeOK
  <2> QED
    BY <1>1, <2>2, <2>5, <2>6, PublishEffect DEF TypeOK, server
<1>2. CASE Save(p)
  <2>1. pend[p] \in Tracker!Write
    BY <1>2 DEF Save, Tracker!Save, TypeOK, Tracker!TypeOK
  <2>2. Tracker!TypeOK'
    BY <1>2, <2>1 DEF Save, Tracker!Save, TypeOK, Tracker!TypeOK, Tracker!Write
  <2> QED
    BY <1>2, <2>2 DEF Save, TypeOK, server
<1>3. CASE Emit(p)
  <2>1. news[p] \in Events /\ channel \in Seq(Events)
    BY <1>3 DEF Emit, TypeOK
  <2>2. channel' \in Seq(Events)
    BY <1>3, <2>1, AppendProperties DEF Emit
  <2> QED
    BY <1>3, <2>2 DEF Emit, TypeOK, server, tracker, Tracker!TypeOK
<1>4. CASE PublisherFails(p)
  <2>1. news[p] \in Events
    BY <1>4 DEF PublisherFails, TypeOK
  <2>2. Tracker!TypeOK' /\ missed' \subseteq Jobs /\ faults' \in 0..MaxFaults
    BY <1>4, <2>1, BoundsAssumption
       DEF PublisherFails, TypeOK, Tracker!Drop, Tracker!TypeOK, Events
  <2> QED
    BY <1>4, <2>2 DEF PublisherFails, TypeOK, server
<1> QED
  BY <1>1, <1>2, <1>3, <1>4

LEMMA ChannelTyped ==
  ASSUME TypeOK, Deliver \/ MessageLost
  PROVE  TypeOK'
<1>1. channel \in Seq(Events) /\ channel # <<>>
  BY DEF Deliver, MessageLost, TypeOK
<1>2. Head(channel) \in Events /\ Tail(channel) \in Seq(Events)
  BY <1>1, HeadTailProperties
<1>3. /\ Head(channel).job \in Jobs /\ Head(channel).says \in Status
      /\ Head(channel).to \in Sids \cup {"room"}
  BY <1>2 DEF Events
<1>4. CASE Deliver
  <2>1. heard' \in [Sids -> [Jobs -> SUBSET Status]]
    BY <1>3, <1>4 DEF Deliver, TypeOK
  <2> QED
    BY <1>2, <1>4, <2>1 DEF Deliver, TypeOK, server, tracker, Tracker!TypeOK
<1>5. CASE MessageLost
  <2>1. missed' \subseteq Jobs /\ faults' \in 0..MaxFaults
    BY <1>3, <1>5, BoundsAssumption DEF MessageLost, TypeOK
  <2> QED
    BY <1>2, <1>5, <2>1 DEF MessageLost, TypeOK, server, tracker, Tracker!TypeOK
<1> QED
  BY <1>4, <1>5

LEMMA ConnectionTyped ==
  ASSUME TypeOK, NEW s \in Sids, connect(s) \/ disconnect(s)
  PROVE  TypeOK'
<1>1. CASE connect(s)
  BY <1>1 DEF connect, TypeOK, tracker, Tracker!TypeOK
<1>2. CASE disconnect(s)
  BY <1>2 DEF disconnect, TypeOK, tracker, Tracker!TypeOK
<1> QED
  BY <1>1, <1>2

LEMMA CallTyped ==
  ASSUME TypeOK, SnapshotsRead, NEW c \in Calls,
         \/ \E s \in Sids, j \in Jobs, place \in {"enter", "leave"} : Request(c, s, j, place)
         \/ subscribe_job(c) \/ unsubscribe_job(c) \/ CallFails(c)
  PROVE  TypeOK'
<1> USE DEF At, MoveTo
<1>1. ASSUME NEW s \in Sids, NEW j \in Jobs, NEW place \in {"enter", "leave"},
             Request(c, s, j, place)
      PROVE  TypeOK'
  <2>1. [sid |-> s, job |-> j, at |-> place, snapshot |-> NoJob] \in CallRecords
    BY DEF CallRecords, Places
  <2> QED
    BY <1>1, <2>1 DEF Request, TypeOK, tracker, Tracker!TypeOK
<1>2. CASE EnterRoom(c)
  <2>1. call' \in [Calls -> CallRecords \cup {NoCall}]
    BY <1>2, RecordTyped DEF EnterRoom, TypeOK, Places
  <2>2. rooms' \in [Jobs -> SUBSET Sids]
    BY <1>2, RecordTyped DEF EnterRoom, TypeOK
  <2>3. client_rooms' \in [Sids -> {NoEntry} \cup SUBSET Jobs]
    BY <1>2, RecordTyped DEF EnterRoom, TypeOK, Entry
  <2> QED
    BY <1>2, <2>1, <2>2, <2>3 DEF EnterRoom, TypeOK, tracker, Tracker!TypeOK
<1>3. CASE ReadSnapshot(c)
  <2>1. call[c].job \in Jobs
    BY <1>3, RecordTyped DEF ReadSnapshot
  <2>2. store[call[c].job] # NoJob => store[call[c].job].status \in Status
    BY <2>1 DEF TypeOK, Tracker!TypeOK, Tracker!TrackedJob, Status
  <2>3. call' \in [Calls -> CallRecords \cup {NoCall}]
    <3>1. call[c] # NoCall /\ "send" \in Places /\ "done" \in Places
      BY <1>3 DEF ReadSnapshot, Places
    <3>2. CASE store[call[c].job] = NoJob
      <4>1. call' = [call EXCEPT ![c].at = "done"]
        BY <1>3, <3>2 DEF ReadSnapshot
      <4> QED
        BY <3>1, <4>1, RecordTyped DEF TypeOK
    <3>3. CASE store[call[c].job] # NoJob
      <4> DEFINE status == store[call[c].job].status
      <4>1. call' = [call EXCEPT ![c] = [call[c] EXCEPT !.at = "send", !.snapshot = status]]
        BY <1>3, <3>3 DEF ReadSnapshot, TypeOK
      <4> HIDE DEF status
      <4>2. status \in Status
        BY <2>2, <3>3 DEF status
      <4> QED
        BY <3>1, <4>1, <4>2, RecordTyped DEF TypeOK
    <3> QED
      BY <3>2, <3>3
  <2> QED
    BY <1>3, <2>3 DEF ReadSnapshot, TypeOK, tracker, Tracker!TypeOK
<1>4. CASE unsubscribe_job(c)
  <2>1. call' \in [Calls -> CallRecords \cup {NoCall}]
    BY <1>4, RecordTyped DEF unsubscribe_job, TypeOK, Places
  <2>2. rooms' \in [Jobs -> SUBSET Sids]
    BY <1>4, RecordTyped DEF unsubscribe_job, TypeOK
  <2>3. client_rooms' \in [Sids -> {NoEntry} \cup SUBSET Jobs]
    BY <1>4, RecordTyped DEF unsubscribe_job, TypeOK, Entry
  <2>4. heard' \in [Sids -> [Jobs -> SUBSET Status]]
    BY <1>4, RecordTyped DEF unsubscribe_job, TypeOK
  <2> QED
    BY <1>4, <2>1, <2>2, <2>3, <2>4 DEF unsubscribe_job, TypeOK, tracker, Tracker!TypeOK
<1>5. CASE CallFails(c)
  <2>1. call[c] # NoCall /\ MoveTo(c, "done")
    BY <1>5 DEF CallFails
  <2>2. call' \in [Calls -> CallRecords \cup {NoCall}]
    BY <2>1, RecordTyped DEF TypeOK, Places
  <2>3. missed' \subseteq Jobs
    BY <1>5, <2>1, RecordTyped DEF CallFails, TypeOK
  <2>4. faults' \in 0..MaxFaults
    BY <1>5, BoundsAssumption DEF CallFails, TypeOK
  <2> QED
    BY <1>5, <2>2, <2>3, <2>4 DEF CallFails, TypeOK, tracker, Tracker!TypeOK
<1>6. CASE SendSnapshot(c)
  <2>1. call' \in [Calls -> CallRecords \cup {NoCall}]
    BY <1>6, RecordTyped DEF SendSnapshot, TypeOK, Places
  <2>2. [job |-> call[c].job, to |-> call[c].sid, says |-> call[c].snapshot] \in Events
    BY <1>6, RecordTyped DEF SendSnapshot, SnapshotsRead, Events
  <2>3. channel' \in Seq(Events)
    BY <1>6, <2>2, AppendProperties DEF SendSnapshot, TypeOK
  <2> QED
    BY <1>6, <2>1, <2>3 DEF SendSnapshot, TypeOK, tracker, Tracker!TypeOK
<1> QED
  BY <1>1, <1>2, <1>3, <1>4, <1>5, <1>6 DEF subscribe_job

LEMMA TypeStep ==
  ASSUME TypeOK, SnapshotsRead, [Next]_vars
  PROVE  TypeOK'
<1>1. ASSUME NEW j \in Jobs, Expire(j) PROVE TypeOK'
  <2>1. Tracker!TypeOK' /\ faults' \in 0..MaxFaults
    BY <1>1, BoundsAssumption DEF Expire, Tracker!Expire, TypeOK, Tracker!TypeOK
  <2> QED
    BY <1>1, <2>1 DEF Expire, TypeOK, server
<1>2. CASE UNCHANGED vars
  BY <1>2 DEF vars, tracker, server, TypeOK, Tracker!TypeOK
<1> QED
  BY <1>1, <1>2, PublisherTyped, ChannelTyped, ConnectionTyped, CallTyped DEF Next

(* Only the calls themselves change the calls. *)
LEMMA CallsChange ==
  ASSUME TypeOK, [Next]_vars
  PROVE  \/ UNCHANGED call
         \/ \E c \in Calls :
              \/ subscribe_job(c) \/ unsubscribe_job(c) \/ CallFails(c)
              \/ \E s \in Sids, j \in Jobs, place \in {"enter", "leave"} : Request(c, s, j, place)
<1>1. ASSUME \/ \E p \in Publishers : \/ \E j \in Jobs : Publish(p, j)
                                      \/ Save(p) \/ Emit(p) \/ PublisherFails(p)
             \/ Deliver \/ MessageLost
             \/ \E s \in Sids : connect(s) \/ disconnect(s)
             \/ \E j \in Jobs : Expire(j)
             \/ UNCHANGED vars
      PROVE  UNCHANGED call
  BY <1>1, PublishEffect
     DEF Save, Emit, PublisherFails, Deliver, MessageLost, connect, disconnect, Expire, vars, server
<1> QED
  BY <1>1 DEF Next

LEMMA SnapshotsStep ==
  ASSUME TypeOK, SnapshotsRead, [Next]_vars
  PROVE  SnapshotsRead'
<1>1. ASSUME UNCHANGED call PROVE SnapshotsRead'
  BY <1>1 DEF SnapshotsRead, At
<1>2. ASSUME NEW c \in Calls, ReadSnapshot(c) PROVE SnapshotsRead'
  <2>1. store[call[c].job] # NoJob => store[call[c].job].status \in Status
    BY <1>2, RecordTyped
       DEF ReadSnapshot, At, TypeOK, Tracker!TypeOK, Tracker!TrackedJob, Status
  <2>2. call[c] \in CallRecords /\ call \in [Calls -> CallRecords \cup {NoCall}]
    BY <1>2, RecordTyped DEF ReadSnapshot, At, TypeOK
  <2> QED
    BY <1>2, <2>1, <2>2 DEF ReadSnapshot, At, MoveTo, SnapshotsRead, CallRecords
<1>3. ASSUME NEW c \in Calls, NEW x \in Places \ {"send"}, call[c] # NoCall, MoveTo(c, x)
      PROVE  SnapshotsRead'
  BY <1>3, RecordTyped DEF MoveTo, At, SnapshotsRead, TypeOK, CallRecords
<1>4. ASSUME NEW c \in Calls, EnterRoom(c) \/ SendSnapshot(c) \/ unsubscribe_job(c) \/ CallFails(c)
      PROVE  SnapshotsRead'
  BY <1>3, <1>4 DEF EnterRoom, SendSnapshot, unsubscribe_job, CallFails, At, Places
<1>5. ASSUME NEW c \in Calls, NEW s \in Sids, NEW j \in Jobs, NEW place \in {"enter", "leave"},
             Request(c, s, j, place)
      PROVE  SnapshotsRead'
  BY <1>5 DEF Request, At, SnapshotsRead, TypeOK
<1> QED
  BY <1>1, <1>2, <1>4, <1>5, CallsChange DEF subscribe_job

(* The rooms, the entries, the channel and the calls hold what they should. *)
THEOREM RoomsAreTyped == Spec => []TypeOK
<1>1. TypeOK /\ SnapshotsRead /\ [Next]_vars => (TypeOK /\ SnapshotsRead)'
  BY TypeStep, SnapshotsStep
<1> QED
  BY <1>1, InitTyped, PTL DEF Spec

-----------------------------------------------------------------------------
(* Calls that have not finished when their connection goes are late, and    *)
(* a late call was made.                                                    *)
LateInv ==
  /\ \A c \in Calls : Unfinished(c) /\ connection[call[c].sid] = "down" => c \in late
  /\ \A c \in late : call[c] # NoCall

(* A call keeps its sid and does not become unfinished again. *)
LEMMA CallsGoOn ==
  ASSUME TypeOK, [Next]_vars, NEW c \in Calls, call[c] # NoCall
  PROVE  /\ call'[c] # NoCall /\ call'[c].sid = call[c].sid /\ call'[c].job = call[c].job
         /\ Unfinished(c)' => Unfinished(c)
<1> DEFINE Goal == /\ call'[c] # NoCall /\ call'[c].sid = call[c].sid /\ call'[c].job = call[c].job
                   /\ Unfinished(c)' => Unfinished(c)
<1>1. call[c] \in CallRecords /\ call \in [Calls -> CallRecords \cup {NoCall}]
  BY DEF TypeOK
<1>2. ASSUME UNCHANGED call PROVE Goal
  BY <1>2 DEF Unfinished
<1>3. ASSUME NEW d \in Calls, NEW x \in Places, MoveTo(d, x), call[d] # NoCall, call[d].at # "done"
      PROVE  Goal
  <2>1. [call[c] EXCEPT !.at = x] \in CallRecords
    BY <1>1 DEF CallRecords
  <2> QED
    BY <1>1, <1>3, <2>1, SentinelsAssumption DEF MoveTo, Unfinished, CallRecords
<1>4. ASSUME NEW d \in Calls, EnterRoom(d) \/ SendSnapshot(d) \/ unsubscribe_job(d) \/ CallFails(d)
      PROVE  Goal
  <2>1. \E x \in Places : MoveTo(d, x) /\ call[d] # NoCall /\ call[d].at # "done"
    BY <1>4 DEF EnterRoom, SendSnapshot, unsubscribe_job, CallFails, At, Places
  <2> QED
    BY <1>3, <2>1
<1>5. ASSUME NEW d \in Calls, ReadSnapshot(d) PROVE Goal
  <2>1. CASE MoveTo(d, "done")
    BY <1>3, <1>5, <2>1 DEF ReadSnapshot, At, Places
  <2>2. CASE ~MoveTo(d, "done")
    <3> DEFINE status == store[call[d].job].status
    <3>1. call' = [call EXCEPT ![d] = [call[d] EXCEPT !.at = "send", !.snapshot = status]]
      BY <1>1, <1>5, <2>2 DEF ReadSnapshot, MoveTo
    <3>2. call[d] \in CallRecords /\ call[d].at = "read"
      BY <1>1, <1>5 DEF ReadSnapshot, At
    <3>3. status \in Status
      BY <1>5, <2>2, <3>2
         DEF ReadSnapshot, CallRecords, TypeOK, Tracker!TypeOK, Tracker!TrackedJob, Status
    <3> HIDE DEF status
    <3>4. [call[d] EXCEPT !.at = "send", !.snapshot = status] \in CallRecords
      BY <3>2, <3>3 DEF CallRecords, Places
    <3> QED
      BY <1>1, <3>1, <3>2, <3>4, SentinelsAssumption DEF Unfinished, CallRecords
  <2> QED
    BY <2>1, <2>2
<1>6. ASSUME NEW d \in Calls, NEW s \in Sids, NEW j \in Jobs, NEW place \in {"enter", "leave"},
             Request(d, s, j, place)
      PROVE  Goal
  BY <1>1, <1>6 DEF Request, Unfinished
<1> QED
  BY <1>2, <1>4, <1>5, <1>6, CallsChange DEF subscribe_job

(* What touches connections, and what touches entries. *)
LEMMA ConnectionsChange ==
  ASSUME TypeOK, [Next]_vars
  PROVE  \/ UNCHANGED <<connection, late, client_rooms>>
         \/ \E s \in Sids : connect(s) \/ disconnect(s)
         \/ /\ UNCHANGED <<connection, late>>
            /\ \E c \in Calls : /\ Unfinished(c)
                               /\ \A s \in Sids : s # call[c].sid => client_rooms'[s] = client_rooms[s]
<1>1. ASSUME NEW c \in Calls, EnterRoom(c) \/ unsubscribe_job(c)
      PROVE  /\ UNCHANGED <<connection, late>> /\ Unfinished(c)
             /\ \A s \in Sids : s # call[c].sid => client_rooms'[s] = client_rooms[s]
  BY <1>1 DEF EnterRoom, unsubscribe_job, At, Unfinished, TypeOK
<1>2. ASSUME NEW c \in Calls,
             \/ \E s \in Sids, j \in Jobs, place \in {"enter", "leave"} : Request(c, s, j, place)
             \/ ReadSnapshot(c) \/ SendSnapshot(c) \/ CallFails(c)
      PROVE  UNCHANGED <<connection, late, client_rooms>>
  BY <1>2 DEF Request, ReadSnapshot, SendSnapshot, CallFails
<1>3. ASSUME \/ \E p \in Publishers : \/ \E j \in Jobs : Publish(p, j)
                                      \/ Save(p) \/ Emit(p) \/ PublisherFails(p)
             \/ Deliver \/ MessageLost
             \/ \E j \in Jobs : Expire(j)
             \/ UNCHANGED vars
      PROVE  UNCHANGED <<connection, late, client_rooms>>
  BY <1>3, PublishEffect
     DEF Save, Emit, PublisherFails, Deliver, MessageLost, Expire, vars, server
<1> QED
  BY <1>1, <1>2, <1>3 DEF Next, subscribe_job

LEMMA LateStep ==
  ASSUME TypeOK, LateInv, [Next]_vars
  PROVE  LateInv'
<1>1. late \subseteq Calls
  BY DEF TypeOK
<1>2. ASSUME NEW c \in Calls, Unfinished(c)', connection'[call'[c].sid] = "down"
      PROVE  c \in late'
  <2>1. CASE call[c] = NoCall
    <3>1. PICK s \in Sids : call'[c].sid = s /\ connection[s] = "up" /\ UNCHANGED connection
      <4>1. call' # call
        BY <1>2, <2>1 DEF Unfinished
      <4>2. ASSUME NEW d \in Calls,
                   \/ EnterRoom(d) \/ ReadSnapshot(d) \/ SendSnapshot(d)
                   \/ unsubscribe_job(d) \/ CallFails(d)
            PROVE  call'[c] = call[c]
        BY <2>1, <4>2
           DEF EnterRoom, ReadSnapshot, SendSnapshot, unsubscribe_job, CallFails, At, MoveTo, TypeOK
      <4>3. PICK d \in Calls, s \in Sids :
              \E j \in Jobs, place \in {"enter", "leave"} : Request(d, s, j, place)
        <5>1. call'[c] # call[c]
          BY <1>2, <2>1 DEF Unfinished
        <5> QED
          BY <4>1, <4>2, <5>1, CallsChange DEF subscribe_job
      <4>4. PICK j \in Jobs, place \in {"enter", "leave"} : Request(d, s, j, place)
        BY <4>3
      <4> QED
        BY <1>2, <2>1, <4>4 DEF Request, Unfinished, TypeOK
    <3> QED
      BY <1>2, <3>1
  <2>2. CASE call[c] # NoCall
    <3>1. Unfinished(c) /\ call'[c].sid = call[c].sid
      BY <1>2, <2>2, CallsGoOn
    <3>2. CASE UNCHANGED <<connection, late>>
      BY <1>2, <3>1, <3>2 DEF LateInv
    <3>3. ASSUME NEW s \in Sids, connect(s) \/ disconnect(s)
          PROVE  c \in late'
      <4>1. CASE connection[call[c].sid] = "down"
        BY <3>1, <3>3, <4>1 DEF LateInv, connect, disconnect
      <4>2. CASE connection[call[c].sid] # "down"
        <5>1. call[c].sid \in Sids /\ connection'[call[c].sid] = "down"
          BY <1>2, <2>2, <3>1, RecordTyped
        <5>2. disconnect(s) /\ s = call[c].sid
          BY <3>3, <4>2, <5>1 DEF connect, disconnect, TypeOK
        <5> QED
          BY <3>1, <5>2 DEF disconnect
      <4> QED
        BY <4>1, <4>2
    <3> QED
      BY <3>2, <3>3, ConnectionsChange
  <2> QED
    BY <2>1, <2>2
<1>3. ASSUME NEW c \in late' PROVE call'[c] # NoCall
  <2>1. c \in Calls /\ call[c] # NoCall
    <3>1. CASE c \in late
      BY <1>1, <3>1 DEF LateInv
    <3>2. CASE c \notin late
      BY <1>3, <3>2, ConnectionsChange DEF connect, disconnect, Unfinished
    <3> QED
      BY <3>1, <3>2
  <2> QED
    BY <2>1, CallsGoOn
<1> QED
  BY <1>2, <1>3 DEF LateInv

LEMMA EntriesStep ==
  ASSUME TypeOK, LateInv, EntriesEnd, [Next]_vars
  PROVE  EntriesEnd'
<1> SUFFICES ASSUME NEW s \in Sids, connection'[s] = "down", client_rooms'[s] # NoEntry
             PROVE  \E c \in late' : call'[c].sid = s
  BY DEF EntriesEnd
<1>1. ASSUME NEW c \in late, call[c].sid = s, late \subseteq late'
      PROVE  \E d \in late' : call'[d].sid = s
  BY <1>1, CallsGoOn DEF LateInv, TypeOK
<1>2. CASE UNCHANGED <<connection, late, client_rooms>>
  BY <1>1, <1>2 DEF EntriesEnd
<1>3. ASSUME NEW t \in Sids, connect(t) \/ disconnect(t)
      PROVE  \E c \in late' : call'[c].sid = s
  <2>1. s # t
    BY <1>3 DEF connect, disconnect, TypeOK
  <2>2. connection[s] = "down" /\ client_rooms[s] # NoEntry /\ late \subseteq late'
    BY <1>3, <2>1 DEF connect, disconnect, TypeOK
  <2> QED
    BY <1>1, <2>2 DEF EntriesEnd
<1>4. ASSUME NEW c \in Calls, Unfinished(c), UNCHANGED <<connection, late>>,
             \A t \in Sids : t # call[c].sid => client_rooms'[t] = client_rooms[t]
      PROVE  \E d \in late' : call'[d].sid = s
  <2>1. CASE s = call[c].sid
    BY <1>1, <1>4, <2>1 DEF LateInv
  <2>2. CASE s # call[c].sid
    BY <1>1, <1>4, <2>2 DEF EntriesEnd
  <2> QED
    BY <2>1, <2>2
<1> QED
  BY <1>2, <1>3, <1>4, ConnectionsChange

(* For any connections and calls, the manager keeps nothing of a closed     *)
(* connection, except through a call that had not finished by then.         *)
THEOREM EntriesEndWithConnection == Spec => []EntriesEnd
<1> DEFINE Inv == TypeOK /\ SnapshotsRead /\ LateInv /\ EntriesEnd
<1>1. Init => Inv
  BY InitTyped DEF Init, LateInv, EntriesEnd, Unfinished
<1>2. Inv /\ [Next]_vars => Inv'
  BY TypeStep, SnapshotsStep, LateStep, EntriesStep
<1> QED
  BY <1>1, <1>2, PTL DEF Spec

-----------------------------------------------------------------------------
(* Where the news that job j ended with a status can be, for connection s:  *)
(* heard already, still with a publisher, in the channel, or with a call    *)
(* that is about to read the record or to send what it read.                *)
HeardOf(s, j, status) == \E says \in heard[s][j] : Tells(says, status)

NewsOf(j, status) == \E p \in Publishers :
  news[p] # NoNews /\ news[p].job = j /\ Tells(news[p].says, status)

SentTo(s, j, status) == \E n \in DOMAIN channel :
  channel[n].job = j /\ channel[n].to \in {"room", s} /\ Tells(channel[n].says, status)

AskedBy(s, j, status) == \E c \in Calls :
  /\ call[c] # NoCall /\ call[c].sid = s /\ call[c].job = j
  /\ call[c].at = "read" \/ (call[c].at = "send" /\ Tells(call[c].snapshot, status))

Coming(s, j, status) ==
  HeardOf(s, j, status) \/ NewsOf(j, status) \/ SentTo(s, j, status) \/ AskedBy(s, j, status)

Ended(s, j) ==
  /\ connection[s] = "up" /\ s \in rooms[j] /\ j \notin missed
  /\ store[j] # NoJob /\ store[j].status \in Terminal

TellInv ==
  /\ \A p \in Publishers : news[p] # NoNews => news[p].to = "room"
  /\ \A p \in Publishers : pend[p] # Idle /\ pend[p].rec.status \in Terminal =>
       /\ news[p] # NoNews /\ news[p].job = pend[p].job
       /\ Tells(news[p].says, pend[p].rec.status)
  /\ \A j \in Jobs : \A s \in rooms[j] : connection[s] = "up"
  /\ \A s \in Sids, j \in Jobs : Ended(s, j) => Coming(s, j, store[j].status)

(* An event to come belongs to the copy its publisher still has to write.   *)
LEMMA NewsStep ==
  ASSUME TypeOK, TellInv, [Next]_vars, NEW p \in Publishers
  PROVE  /\ news'[p] # NoNews => news'[p].to = "room"
         /\ pend'[p] # Idle /\ pend'[p].rec.status \in Terminal =>
              /\ news'[p] # NoNews /\ news'[p].job = pend'[p].job
              /\ Tells(news'[p].says, pend'[p].rec.status)
<1> DEFINE Goal == /\ news'[p] # NoNews => news'[p].to = "room"
                   /\ pend'[p] # Idle /\ pend'[p].rec.status \in Terminal =>
                        /\ news'[p] # NoNews /\ news'[p].job = pend'[p].job
                        /\ Tells(news'[p].says, pend'[p].rec.status)
<1>1. ASSUME news'[p] = news[p], pend'[p] = pend[p] PROVE Goal
  BY <1>1 DEF TellInv
<1>2. /\ pend \in [Publishers -> Tracker!Write \cup {Idle}]
      /\ news \in [Publishers -> Events \cup {NoNews}]
  BY DEF TypeOK, Tracker!TypeOK
<1>3. ASSUME NEW q \in Publishers, NEW k \in Jobs, Publish(q, k) PROVE Goal
  <2>1. CASE q # p
    BY <1>1, <1>2, <1>3, <2>1, PublishEffect DEF Says
  <2>2. CASE q = p
    <3>1. news[p] = NoNews /\ (pend[p] # Idle => pend[p].rec.status \notin Terminal)
      BY <1>3, <2>2, PublishEffect DEF TellInv
    <3>2. \A says \in Status : [job |-> k, to |-> "room", says |-> says] # NoNews
      BY SentinelsAssumption DEF Events
    <3>3. news'[p] # NoNews => news'[p].to = "room"
      BY <1>2, <1>3, <2>2, <3>1, PublishEffect DEF Says
    <3>4. CASE pend' = pend
      BY <3>1, <3>3, <3>4
    <3>5. CASE pend' # pend
      <4>1. PICK rec \in Tracker!TrackedJob :
              /\ pend' = [pend EXCEPT ![p] = [job |-> k, rec |-> rec]]
              /\ rec.status \in Terminal =>
                   \E says \in Status : Says(p, k, says) /\ Tells(says, rec.status)
        BY <1>3, <2>2, <3>5, PublishEffect
      <4>2. pend'[p].job = k /\ pend'[p].rec = rec
        BY <1>2, <4>1
      <4> QED
        BY <1>2, <3>2, <3>3, <4>1, <4>2 DEF Says
    <3> QED
      BY <3>4, <3>5
  <2> QED
    BY <2>1, <2>2
<1>4. ASSUME NEW q \in Publishers, Save(q) PROVE Goal
  BY <1>2, <1>4 DEF Save, Tracker!Save, TellInv
<1>5. ASSUME NEW q \in Publishers, Emit(q) PROVE Goal
  BY <1>2, <1>5 DEF Emit, tracker, TellInv
<1>6. ASSUME NEW q \in Publishers, PublisherFails(q) PROVE Goal
  BY <1>2, <1>6 DEF PublisherFails, Tracker!Drop, TellInv
<1>7. ASSUME \/ Deliver \/ MessageLost
             \/ \E s \in Sids : connect(s) \/ disconnect(s)
             \/ \E j \in Jobs : Expire(j)
             \/ UNCHANGED vars
      PROVE  UNCHANGED <<news, pend>>
  BY <1>7 DEF Deliver, MessageLost, connect, disconnect, Expire, Tracker!Expire, vars, tracker
<1>8. ASSUME NEW c \in Calls,
             \/ \E s \in Sids, j \in Jobs, place \in {"enter", "leave"} : Request(c, s, j, place)
             \/ subscribe_job(c) \/ unsubscribe_job(c) \/ CallFails(c)
      PROVE  UNCHANGED <<news, pend>>
  BY <1>8 DEF Request, subscribe_job, EnterRoom, ReadSnapshot, SendSnapshot, unsubscribe_job,
              CallFails, tracker
<1> HIDE DEF Goal
<1>9. Goal
  BY <1>1, <1>3, <1>4, <1>5, <1>6, <1>7, <1>8 DEF Next
<1> QED
  BY <1>9 DEF Goal

LEMMA RoomsStep ==
  ASSUME TypeOK, TellInv, [Next]_vars, NEW j \in Jobs, NEW s \in rooms'[j]
  PROVE  connection'[s] = "up"
<1>1. s \in rooms[j] => connection[s] = "up"
  BY DEF TellInv
<1>2. ASSUME NEW t \in Sids, connect(t) PROVE connection'[s] = "up"
  BY <1>1, <1>2 DEF connect, TypeOK
<1>3. ASSUME NEW t \in Sids, disconnect(t) PROVE connection'[s] = "up"
  <2>1. s \in rooms[j] /\ s # t
    BY <1>3 DEF disconnect
  <2> QED
    BY <1>1, <1>3, <2>1 DEF disconnect, TypeOK
<1>4. ASSUME NEW c \in Calls, EnterRoom(c) PROVE connection'[s] = "up"
  <2>1. call[c].sid \in Sids /\ call[c].job \in Jobs
    BY <1>4, RecordTyped DEF EnterRoom, At
  <2>2. connection' = connection
    BY <1>4 DEF EnterRoom
  <2>3. CASE connection[call[c].sid] = "up"
    <3>1. rooms' = [rooms EXCEPT ![call[c].job] = @ \cup {call[c].sid}]
      BY <1>4, <2>3 DEF EnterRoom
    <3>2. s \in rooms[j] \/ s = call[c].sid
      BY <2>1, <3>1 DEF TypeOK
    <3> QED
      BY <1>1, <2>2, <2>3, <3>2
  <2>4. CASE connection[call[c].sid] # "up"
    BY <1>1, <1>4, <2>2, <2>4 DEF EnterRoom
  <2> QED
    BY <2>3, <2>4
<1>5. ASSUME NEW c \in Calls, unsubscribe_job(c) PROVE connection'[s] = "up"
  <2>1. call[c].job \in Jobs
    BY <1>5, RecordTyped DEF unsubscribe_job, At
  <2>2. rooms' = [rooms EXCEPT ![call[c].job] = @ \ {call[c].sid}] /\ connection' = connection
    BY <1>5 DEF unsubscribe_job
  <2>3. s \in rooms[j]
    BY <2>1, <2>2 DEF TypeOK
  <2> QED
    BY <1>1, <2>2, <2>3
<1>6. ASSUME NEW c \in Calls,
             \/ \E t \in Sids, k \in Jobs, place \in {"enter", "leave"} : Request(c, t, k, place)
             \/ ReadSnapshot(c) \/ SendSnapshot(c) \/ CallFails(c)
      PROVE  UNCHANGED <<connection, rooms>>
  BY <1>6 DEF Request, ReadSnapshot, SendSnapshot, CallFails
<1>7. ASSUME \/ \E p \in Publishers : \/ \E k \in Jobs : Publish(p, k)
                                      \/ Save(p) \/ Emit(p) \/ PublisherFails(p)
             \/ Deliver \/ MessageLost
             \/ \E k \in Jobs : Expire(k)
             \/ UNCHANGED vars
      PROVE  UNCHANGED <<connection, rooms>>
  BY <1>7, PublishEffect
     DEF Save, Emit, PublisherFails, Deliver, MessageLost, Expire, vars, server
<1> QED
  BY <1>1, <1>2, <1>3, <1>4, <1>5, <1>6, <1>7 DEF Next, subscribe_job

(* What already held of a job that ended holds after a step that leaves     *)
(* the job's record and the connection's membership alone and loses none of *)
(* the places where the news can be.                                        *)
LEMMA StillCovered ==
  ASSUME TellInv, NEW s \in Sids, NEW j \in Jobs, Ended(s, j)',
         store'[j] = store[j], connection'[s] = connection[s],
         s \in rooms'[j] => s \in rooms[j], missed \subseteq missed'
  PROVE  Ended(s, j) /\ Coming(s, j, store'[j].status)
<1>1. Ended(s, j)
  BY DEF Ended
<1> QED
  BY <1>1 DEF TellInv

(* A publisher that has written a closing copy still has its event.         *)
LEMMA PublisherCovers ==
  ASSUME TypeOK, TellInv, NEW s \in Sids, NEW j \in Jobs, Ended(s, j)',
         NEW p \in Publishers,
         (\E k \in Jobs : Publish(p, k)) \/ Save(p) \/ Emit(p) \/ PublisherFails(p)
  PROVE  Coming(s, j, store[j].status)'
<1>1. /\ pend \in [Publishers -> Tracker!Write \cup {Idle}]
      /\ news \in [Publishers -> Events \cup {NoNews}]
      /\ store \in [Jobs -> Tracker!TrackedJob \cup {NoJob}]
  BY DEF TypeOK, Tracker!TypeOK
<1>2. ASSUME NEW k \in Jobs, Publish(p, k) PROVE Coming(s, j, store[j].status)'
  <2>1. store'[j] = store[j]
    <3>1. CASE store' = [store EXCEPT ![k] = Tracker!NewJob]
      BY <1>1, <3>1 DEF Ended, Tracker!NewJob, Terminal
    <3> QED
      BY <1>2, <3>1, PublishEffect
  <2>2. UNCHANGED <<channel, server, heard, missed>> /\ news[p] = NoNews
    BY <1>2, PublishEffect
  <2>3. Coming(s, j, store'[j].status)
    BY <2>1, <2>2, StillCovered DEF server
  <2>4. ASSUME NEW q \in Publishers, q # p PROVE news'[q] = news[q]
    BY <1>1, <1>2, <2>4, PublishEffect DEF Says
  <2>5. NewsOf(j, store'[j].status) => NewsOf(j, store[j].status)'
    BY <2>2, <2>4 DEF NewsOf
  <2> QED
    BY <2>2, <2>3, <2>5 DEF Coming, HeardOf, SentTo, AskedBy, server
<1>3. CASE Save(p)
  <2>1. UNCHANGED <<channel, server, heard, missed, news>>
    BY <1>3 DEF Save
  <2>2. CASE pend[p].job = j
    <3>1. store'[j] = pend[p].rec /\ pend[p] # Idle
      BY <1>1, <1>3, <2>2 DEF Save, Tracker!Save
    <3>2. pend[p].rec.status \in Terminal
      BY <3>1 DEF Ended
    <3>3. NewsOf(j, store'[j].status)
      BY <2>2, <3>1, <3>2 DEF TellInv, NewsOf
    <3> QED
      BY <2>1, <3>3 DEF Coming, NewsOf
  <2>3. CASE pend[p].job # j
    <3>1. store'[j] = store[j]
      BY <1>1, <1>3, <2>3 DEF Save, Tracker!Save
    <3>2. Coming(s, j, store'[j].status)
      BY <2>1, <3>1, StillCovered DEF server
    <3> QED
      BY <2>1, <3>2 DEF Coming, HeardOf, NewsOf, SentTo, AskedBy, server
  <2> QED
    BY <2>2, <2>3
<1>4. CASE Emit(p)
  <2>1. /\ UNCHANGED <<tracker, server, heard, missed>>
        /\ channel' = Append(channel, news[p])
        /\ news' = [news EXCEPT ![p] = NoNews]
        /\ news[p] \in Events /\ channel \in Seq(Events)
    BY <1>1, <1>4 DEF Emit, TypeOK
  <2>2. Coming(s, j, store'[j].status)
    BY <2>1, StillCovered DEF server, tracker
  <2>3. /\ DOMAIN channel \subseteq DOMAIN channel'
        /\ \A n \in DOMAIN channel : channel'[n] = channel[n]
        /\ Len(channel) + 1 \in DOMAIN channel'
        /\ channel'[Len(channel) + 1] = news[p]
    BY <2>1, AppendProperties
  <2>4. CASE SentTo(s, j, store'[j].status)
    BY <2>3, <2>4 DEF Coming, SentTo
  <2>5. CASE NewsOf(j, store'[j].status)
    <3>1. PICK q \in Publishers :
            news[q] # NoNews /\ news[q].job = j /\ Tells(news[q].says, store'[j].status)
      BY <2>5 DEF NewsOf
    <3>2. CASE q = p
      <4>1. news[p].to = "room"
        BY <3>1, <3>2 DEF TellInv
      <4> QED
        BY <2>3, <3>1, <3>2, <4>1 DEF Coming, SentTo
    <3>3. CASE q # p
      BY <1>1, <2>1, <3>1, <3>3 DEF Coming, NewsOf
    <3> QED
      BY <3>2, <3>3
  <2> QED
    BY <2>1, <2>2, <2>4, <2>5 DEF Coming, HeardOf, AskedBy, server
<1>5. CASE PublisherFails(p)
  <2>1. /\ UNCHANGED <<channel, server, heard, store>>
        /\ missed' = missed \cup {news[p].job}
        /\ news' = [news EXCEPT ![p] = NoNews]
    BY <1>5 DEF PublisherFails, Tracker!Drop
  <2>2. Coming(s, j, store'[j].status) /\ news[p].job # j
    BY <2>1, StillCovered DEF server, Ended
  <2>3. NewsOf(j, store'[j].status) => NewsOf(j, store[j].status)'
    BY <1>1, <2>1, <2>2 DEF NewsOf
  <2> QED
    BY <2>1, <2>2, <2>3 DEF Coming, HeardOf, SentTo, AskedBy, server
<1> QED
  BY <1>2, <1>3, <1>4, <1>5

(* What leaves the channel is heard by whoever is in the room, or missed.   *)
LEMMA ChannelCovers ==
  ASSUME TypeOK, TellInv, NEW s \in Sids, NEW j \in Jobs, Ended(s, j)', Deliver \/ MessageLost
  PROVE  Coming(s, j, store[j].status)'
<1> DEFINE m == Head(channel)
<1>1. /\ UNCHANGED <<tracker, news, server>>
      /\ channel \in Seq(Events) /\ channel # <<>>
      /\ channel' = Tail(channel) /\ missed \subseteq missed'
  BY DEF Deliver, MessageLost, TypeOK
<1>2. Ended(s, j) /\ Coming(s, j, store'[j].status)
  BY <1>1, StillCovered DEF server, tracker
<1>3. /\ m = channel[1] /\ m \in Events
      /\ \A n \in DOMAIN channel : n # 1 => n - 1 \in DOMAIN channel' /\ channel'[n - 1] = channel[n]
  BY <1>1, HeadTailProperties
<1>4. heard \in [Sids -> [Jobs -> SUBSET Status]] /\ m.job \in Jobs
  BY <1>3 DEF TypeOK, Events
<1>5. heard[s][j] \subseteq heard'[s][j]
  BY <1>4 DEF Deliver, MessageLost
<1>6. CASE SentTo(s, j, store'[j].status)
  <2>1. PICK n \in DOMAIN channel :
          channel[n].job = j /\ channel[n].to \in {"room", s} /\ Tells(channel[n].says, store'[j].status)
    BY <1>6 DEF SentTo
  <2>2. CASE n # 1
    BY <1>3, <2>1, <2>2 DEF Coming, SentTo
  <2>3. CASE n = 1 /\ Deliver
    <3>1. s \in Audience(m) /\ m.job = j
      BY <1>2, <1>3, <2>1, <2>3 DEF Audience, Ended
    <3>2. heard'[s] = [heard[s] EXCEPT ![m.job] = @ \cup {m.says}]
      BY <2>3, <3>1 DEF Deliver
    <3>3. m.says \in heard'[s][j]
      BY <1>4, <3>1, <3>2
    <3> QED
      BY <1>3, <2>1, <2>3, <3>3 DEF Coming, HeardOf
  <2>4. CASE n = 1 /\ MessageLost
    BY <1>3, <2>1, <2>4 DEF MessageLost, Ended
  <2> QED
    BY <2>2, <2>3, <2>4
<1>7. HeardOf(s, j, store'[j].status) => HeardOf(s, j, store[j].status)'
  BY <1>5 DEF HeardOf
<1> QED
  BY <1>1, <1>2, <1>6, <1>7 DEF Coming, NewsOf, AskedBy, server, tracker

(* A connection that comes up is in no room, and one that goes leaves them. *)
LEMMA ConnectionCovers ==
  ASSUME TypeOK, TellInv, NEW s \in Sids, NEW j \in Jobs, Ended(s, j)',
         NEW t \in Sids, connect(t) \/ disconnect(t)
  PROVE  Coming(s, j, store[j].status)'
<1>1. UNCHANGED <<tracker, news, channel, call, missed>>
  BY DEF connect, disconnect
<1>2. rooms \in [Jobs -> SUBSET Sids] /\ connection \in [Sids -> {"new", "up", "down"}]
  BY DEF TypeOK
<1>3. CASE connect(t)
  <2>1. s \in rooms[j] /\ UNCHANGED <<rooms, heard>>
    BY <1>3 DEF connect, Ended
  <2>2. s # t
    BY <1>3, <2>1 DEF connect, TellInv
  <2>3. connection'[s] = connection[s]
    BY <1>2, <1>3, <2>2 DEF connect
  <2>4. Coming(s, j, store'[j].status)
    BY <1>1, <2>1, <2>3, StillCovered DEF tracker
  <2> QED
    BY <1>1, <2>1, <2>4 DEF Coming, HeardOf, NewsOf, SentTo, AskedBy, tracker
<1>4. CASE disconnect(t)
  <2>1. s \in rooms[j] /\ s # t
    BY <1>4 DEF disconnect, Ended
  <2>2. connection'[s] = connection[s] /\ heard'[s] = heard[s]
    BY <1>2, <1>4, <2>1 DEF disconnect, TypeOK
  <2>3. Coming(s, j, store'[j].status)
    BY <1>1, <2>1, <2>2, StillCovered DEF tracker
  <2> QED
    BY <1>1, <2>2, <2>3 DEF Coming, HeardOf, NewsOf, SentTo, AskedBy, tracker
<1> QED
  BY <1>3, <1>4

(* A call that fails has its job missed; any other goes on to read the      *)
(* record after it has entered the room, and sends what it read.            *)
LEMMA CallCovers ==
  ASSUME TypeOK, SnapshotsRead, TellInv, NEW s \in Sids, NEW j \in Jobs, Ended(s, j)',
         NEW c \in Calls,
         \/ \E t \in Sids, k \in Jobs, place \in {"enter", "leave"} : Request(c, t, k, place)
         \/ subscribe_job(c) \/ unsubscribe_job(c) \/ CallFails(c)
  PROVE  Coming(s, j, store[j].status)'
<1> DEFINE status == store'[j].status
<1>1. UNCHANGED <<tracker, news, connection>> /\ missed \subseteq missed'
  BY DEF Request, subscribe_job, EnterRoom, ReadSnapshot, SendSnapshot, unsubscribe_job, CallFails
<1>2. /\ call \in [Calls -> CallRecords \cup {NoCall}]
      /\ rooms \in [Jobs -> SUBSET Sids]
      /\ heard \in [Sids -> [Jobs -> SUBSET Status]]
  BY DEF TypeOK
<1>3. ASSUME s \in rooms[j] PROVE Ended(s, j) /\ Coming(s, j, status)
  BY <1>1, <1>3, StillCovered DEF tracker
<1> HIDE DEF status
<1>4. (NewsOf(j, status) => NewsOf(j, store[j].status)')
  BY <1>1 DEF NewsOf, status
<1>5. ASSUME NEW d \in Calls, d # c PROVE call'[d] = call[d]
  BY <1>2, <1>5 DEF Request, subscribe_job, EnterRoom, ReadSnapshot, SendSnapshot,
                    unsubscribe_job, CallFails, MoveTo
<1>6. ASSUME NEW t \in Sids, NEW k \in Jobs, NEW place \in {"enter", "leave"},
             Request(c, t, k, place)
      PROVE  Coming(s, j, store[j].status)'
  <2>1. UNCHANGED <<rooms, heard, channel>> /\ call[c] = NoCall
    BY <1>6 DEF Request
  <2>2. Coming(s, j, status)
    BY <1>3, <2>1 DEF Ended
  <2>3. AskedBy(s, j, status) => AskedBy(s, j, store[j].status)'
    BY <1>5, <2>1 DEF AskedBy, status
  <2> QED
    BY <1>4, <2>1, <2>2, <2>3 DEF Coming, HeardOf, SentTo, status
<1>7. CASE EnterRoom(c)
  <2>1. call[c].sid \in Sids /\ call[c].job \in Jobs /\ At(c, "enter")
    BY <1>7, RecordTyped DEF EnterRoom, At
  <2>2. UNCHANGED <<heard, channel>> /\ call' = [call EXCEPT ![c].at = "read"]
    BY <1>7 DEF EnterRoom, MoveTo
  <2>3. /\ call'[c] # NoCall /\ call'[c].at = "read"
        /\ call'[c].sid = call[c].sid /\ call'[c].job = call[c].job
    <3>1. call[c] # NoCall /\ call'[c] = [call[c] EXCEPT !.at = "read"]
      BY <1>2, <2>1, <2>2 DEF At
    <3>2. call[c] \in CallRecords /\ call'[c] \in CallRecords
      BY <3>1, RecordTyped DEF Places
    <3> QED
      BY <3>1, <3>2, SentinelsAssumption DEF CallRecords
  <2>4. CASE s = call[c].sid /\ j = call[c].job
    BY <2>3, <2>4 DEF Coming, AskedBy
  <2>5. CASE ~(s = call[c].sid /\ j = call[c].job)
    <3>1. s \in rooms[j]
      BY <1>2, <1>7, <2>1, <2>5 DEF EnterRoom, Ended
    <3>2. AskedBy(s, j, status) => AskedBy(s, j, store[j].status)'
      BY <1>5, <2>5 DEF AskedBy, status
    <3> QED
      BY <1>3, <1>4, <2>2, <3>1, <3>2 DEF Coming, HeardOf, SentTo, status
  <2> QED
    BY <2>4, <2>5
<1>8. CASE ReadSnapshot(c)
  <2>1. UNCHANGED <<rooms, heard, channel>> /\ call[c] # NoCall /\ call[c].at = "read"
    BY <1>8 DEF ReadSnapshot, At
  <2>2. Coming(s, j, status)
    BY <1>3, <2>1 DEF Ended
  <2>3. CASE call[c].job = j
    <3>1. store[j] # NoJob /\ store[j].status = status
      BY <1>1 DEF Ended, status, tracker
    <3>2. call' = [call EXCEPT ![c].at = "send", ![c].snapshot = status]
      BY <1>8, <2>3, <3>1 DEF ReadSnapshot
    <3>3. call'[c] = [call[c] EXCEPT !.at = "send", !.snapshot = status]
      BY <1>2, <3>2
    <3>4. status \in Status
      BY <3>1 DEF TypeOK, Tracker!TypeOK, Tracker!TrackedJob, Status
    <3>5. call[c] \in CallRecords /\ call'[c] \in CallRecords
      <4>1. /\ call[c] \in CallRecords
            /\ \A place \in Places, snapshot \in Status \cup {NoJob} :
                 [call[c] EXCEPT !.at = place, !.snapshot = snapshot] \in CallRecords
        BY <2>1, RecordTyped
      <4>2. "send" \in Places
        BY DEF Places
      <4>3. [call[c] EXCEPT !.at = "send", !.snapshot = status] \in CallRecords
        BY <3>4, <4>1, <4>2
      <4> QED
        BY <3>3, <4>1, <4>3
    <3>6. /\ call'[c] # NoCall /\ call'[c].at = "send" /\ call'[c].snapshot = status
          /\ call'[c].sid = call[c].sid /\ call'[c].job = call[c].job
      BY <3>3, <3>5, SentinelsAssumption DEF CallRecords
    <3>7. Tells(status, status)
      BY DEF Tells
    <3>8. AskedBy(s, j, status) => AskedBy(s, j, store[j].status)'
      BY <1>5, <3>6, <3>7 DEF AskedBy, status
    <3> QED
      BY <1>4, <2>1, <2>2, <3>8 DEF Coming, HeardOf, SentTo, status
  <2>4. CASE call[c].job # j
    <3>1. AskedBy(s, j, status) => AskedBy(s, j, store[j].status)'
      BY <1>5, <2>4 DEF AskedBy, status
    <3> QED
      BY <1>4, <2>1, <2>2, <3>1 DEF Coming, HeardOf, SentTo, status
  <2> QED
    BY <2>3, <2>4
<1>9. CASE SendSnapshot(c)
  <2> DEFINE m == [job |-> call[c].job, to |-> call[c].sid, says |-> call[c].snapshot]
  <2>1. /\ UNCHANGED <<rooms, heard>> /\ call[c] # NoCall /\ call[c].at = "send"
        /\ channel' = Append(channel, m)
    BY <1>9 DEF SendSnapshot, At
  <2>2. Coming(s, j, status)
    BY <1>3, <2>1 DEF Ended
  <2>3. m \in Events /\ channel \in Seq(Events)
    BY <1>9, <2>1, RecordTyped DEF SendSnapshot, SnapshotsRead, Events, TypeOK
  <2>4. /\ DOMAIN channel \subseteq DOMAIN channel'
        /\ \A n \in DOMAIN channel : channel'[n] = channel[n]
        /\ Len(channel) + 1 \in DOMAIN channel'
        /\ channel'[Len(channel) + 1] = m
    BY <2>1, <2>3, AppendProperties
  <2>5. SentTo(s, j, status) => SentTo(s, j, store[j].status)'
    BY <2>4 DEF SentTo, status
  <2>6. ASSUME AskedBy(s, j, status) PROVE Coming(s, j, store[j].status)'
    <3>1. PICK d \in Calls :
            /\ call[d] # NoCall /\ call[d].sid = s /\ call[d].job = j
            /\ call[d].at = "read" \/ (call[d].at = "send" /\ Tells(call[d].snapshot, status))
      BY <2>6 DEF AskedBy
    <3>2. CASE d = c
      BY <2>1, <2>4, <3>1, <3>2 DEF Coming, SentTo, status
    <3>3. CASE d # c
      BY <1>5, <3>1, <3>3 DEF Coming, AskedBy, status
    <3> QED
      BY <3>2, <3>3
  <2> QED
    BY <1>4, <2>1, <2>2, <2>5, <2>6 DEF Coming, HeardOf, status
<1>10. CASE unsubscribe_job(c)
  <2>1. call[c].sid \in Sids /\ call[c].job \in Jobs /\ At(c, "leave")
    BY <1>10, RecordTyped DEF unsubscribe_job, At
  <2>2. /\ rooms' = [rooms EXCEPT ![call[c].job] = @ \ {call[c].sid}]
        /\ heard' = [heard EXCEPT ![call[c].sid][call[c].job] = {}]
        /\ UNCHANGED channel
    BY <1>10 DEF unsubscribe_job
  <2>3. s \in rooms[j] /\ ~(s = call[c].sid /\ j = call[c].job)
    BY <1>2, <2>1, <2>2 DEF Ended
  <2>4. heard'[s][j] = heard[s][j]
    BY <1>2, <2>1, <2>2, <2>3
  <2>5. AskedBy(s, j, status) => AskedBy(s, j, store[j].status)'
    BY <1>5, <2>3 DEF AskedBy, status
  <2> QED
    BY <1>3, <1>4, <2>2, <2>3, <2>4, <2>5 DEF Coming, HeardOf, SentTo, status
<1>11. CASE CallFails(c)
  <2>1. UNCHANGED <<rooms, heard, channel>> /\ call[c].job # j
    BY <1>11 DEF CallFails, Ended
  <2>2. Coming(s, j, status)
    BY <1>3, <2>1 DEF Ended
  <2>3. AskedBy(s, j, status) => AskedBy(s, j, store[j].status)'
    BY <1>5, <2>1 DEF AskedBy, status
  <2> QED
    BY <1>4, <2>1, <2>2, <2>3 DEF Coming, HeardOf, SentTo, status
<1> QED
  BY <1>6, <1>7, <1>8, <1>9, <1>10, <1>11 DEF subscribe_job

LEMMA CoveredStep ==
  ASSUME TypeOK, SnapshotsRead, TellInv, [Next]_vars,
         NEW s \in Sids, NEW j \in Jobs, Ended(s, j)'
  PROVE  Coming(s, j, store[j].status)'
<1>1. ASSUME NEW k \in Jobs, Expire(k) PROVE Coming(s, j, store[j].status)'
  <2>1. UNCHANGED <<news, channel, server, heard, missed>>
    BY <1>1 DEF Expire
  <2>2. store'[j] = store[j]
    BY <1>1 DEF Expire, Tracker!Expire, Ended, TypeOK, Tracker!TypeOK
  <2>3. Coming(s, j, store'[j].status)
    BY <2>1, <2>2, StillCovered DEF server
  <2> QED
    BY <2>1, <2>3 DEF Coming, HeardOf, NewsOf, SentTo, AskedBy, server
<1>2. CASE UNCHANGED vars
  BY <1>2 DEF TellInv, Ended, Coming, HeardOf, NewsOf, SentTo, AskedBy, vars, tracker, server
<1> QED
  BY <1>1, <1>2, PublisherCovers, ChannelCovers, ConnectionCovers, CallCovers DEF Next

(* Nobody who is in a job's room misses how the job ended: see NoMissedEnd. *)
(* The news of the end is always somewhere, and once nothing about the job  *)
(* is on its way any more it can only have been heard.                      *)
THEOREM EndIsNotMissed == Spec => []NoMissedEnd
<1> DEFINE Inv == TypeOK /\ SnapshotsRead /\ TellInv
<1>1. Init => Inv
  BY InitTyped DEF Init, TellInv, Ended, Tracker!Init
<1>2. Inv /\ [Next]_vars => Inv'
  <2> SUFFICES ASSUME Inv, [Next]_vars PROVE Inv'
    OBVIOUS
  <2>1. TypeOK' /\ SnapshotsRead'
    BY TypeStep, SnapshotsStep
  <2>2. TellInv'
    BY NewsStep, RoomsStep, CoveredStep DEF TellInv
  <2> QED
    BY <2>1, <2>2
<1>3. Inv => NoMissedEnd
  <2> SUFFICES ASSUME Inv, NEW s \in Sids, NEW j \in Jobs, Ended(s, j), Quiet(j)
               PROVE  \E says \in heard[s][j] : Tells(says, store[j].status)
    BY DEF NoMissedEnd, Ended
  <2>1. Coming(s, j, store[j].status)
    BY DEF TellInv
  <2> QED
    BY <2>1 DEF Coming, HeardOf, NewsOf, SentTo, AskedBy, Quiet, Unfinished
<1> QED
  BY <1>1, <1>2, <1>3, PTL DEF Spec
=============================================================================

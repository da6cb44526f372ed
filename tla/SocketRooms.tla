----------------------------- MODULE SocketRooms -----------------------------
(***************************************************************************)
(* The realtime layer (server/app/socket): connections that subscribe to   *)
(* job rooms, snapshots, and the events that API handlers and workers      *)
(* publish through Redis.  The publishers share the records of JobTracker, *)
(* instantiated as Tracker, and may make any tracker call in any order:    *)
(* what the code fixes is that the event of a call is emitted by the same  *)
(* process after the call has returned.                                    *)
(*                                                                         *)
(* Handlers are asyncio tasks; a step is what runs between two awaits.     *)
(* Redis pub/sub is one channel: live events and snapshots arrive in the   *)
(* order in which they were published.  Progress and preview events, which *)
(* carry no status, are left out.                                          *)
(***************************************************************************)
EXTENDS Naturals, Sequences

CONSTANTS
  Jobs,
  Publishers,  \* handlers and workers that change records and publish events
  Sids,        \* connections; a client that reconnects gets a new sid
  Calls,       \* subscribe_job and unsubscribe_job handlers
  MaxOps,      \* bound on tracker calls
  MaxFaults,   \* bound on lost messages, failing publishers and expiries
  NoJob, Idle,
  NoEntry,     \* _client_rooms has no such key
  NoCall, NoNews

VARIABLES
  store, pend, created,  \* the job records: see JobTracker
  news,         \* publisher -> the event it emits when its call has returned
  channel,      \* the Redis channel of the Socket.IO manager
  connection,   \* sid -> state of the connection
  rooms,        \* job -> sids the Socket.IO server has in the job's room
  client_rooms, \* sid -> _client_rooms of the connection manager
  call,         \* call -> its sid, job and place
  heard,        \* sid -> job -> statuses told since it entered the room
  late,         \* calls that had not finished when their sid was popped
  missed,       \* jobs of which an event or a snapshot was lost
  ops, faults

Tracker == INSTANCE JobTracker WITH
  Clients <- Publishers, Prompts <- {1}, NoPrompt <- 0, MaxRetries <- 1

tracker == <<store, pend, created>>
server == <<connection, rooms, client_rooms, call, late>>
vars == <<tracker, news, channel, server, heard, missed, ops, faults>>

Status == Tracker!Status
Terminal == {"completed", "failed", "cancelled"}

(* An event goes to the room of its job or to one connection.  It says a    *)
(* status: the one in its payload, or the one its name stands for.          *)
Events == [job : Jobs, to : Sids \cup {"room"}, says : Status]

Places == {"enter", "read", "send", "leave", "done"}
CallRecords == [sid : Sids, job : Jobs, at : Places, snapshot : Status \cup {NoJob}]

ASSUME BoundsAssumption == MaxOps \in Nat /\ MaxFaults \in Nat
ASSUME SentinelsAssumption ==
  /\ NoJob \notin Tracker!TrackedJob /\ Idle \notin Tracker!Write
  /\ \A joined \in SUBSET Jobs : NoEntry # joined
  /\ NoCall \notin CallRecords /\ NoNews \notin Events

Init ==
  /\ Tracker!Init
  /\ news = [p \in Publishers |-> NoNews]
  /\ channel = <<>>
  /\ connection = [s \in Sids |-> "new"]
  /\ rooms = [j \in Jobs |-> {}]
  /\ client_rooms = [s \in Sids |-> NoEntry]
  /\ call = [c \in Calls |-> NoCall]
  /\ heard = [s \in Sids |-> [j \in Jobs |-> {}]]
  /\ late = {} /\ missed = {}
  /\ ops = 0 /\ faults = 0

-----------------------------------------------------------------------------
(* A tracker call by publisher p and the event that will follow it.  The    *)
(* call may refuse to change the record; the event is emitted all the same. *)
Announce(p, j, Operation, says) ==
  /\ news[p] = NoNews
  /\ ops < MaxOps
  /\ ops' = ops + 1
  /\ Operation
  /\ news' = [news EXCEPT ![p] = [job |-> j, to |-> "room", says |-> says]]
  /\ UNCHANGED <<channel, server, heard, missed, faults>>

(* job_queued and job_started carry the record the call returned, which is  *)
(* the unchanged one when mark_running refuses a cancelled job.             *)
Queued(p, j) ==
  \/ Announce(p, j, Tracker!Create(p, j), "queued")
  \/ store[j] # NoJob /\ Announce(p, j, Tracker!AttachTask(p, j), store[j].status)

Started(p, j) ==
  /\ store[j] # NoJob
  /\ Announce(p, j, Tracker!MarkRunning(p, j, 1),
              IF store[j].status = "cancelled" THEN "cancelled" ELSE "running")

Completed(p, j) == Announce(p, j, Tracker!MarkCompleted(p, j, 1), "completed")

Failed(p, j) ==
  \/ Announce(p, j, Tracker!MarkFailed(p, j), "failed")
  \/ Announce(p, j, Tracker!MarkCancelled(p, j), "failed")

(* mark_retrying is not announced. *)
Retrying(p, j) ==
  /\ news[p] = NoNews
  /\ ops < MaxOps
  /\ ops' = ops + 1
  /\ Tracker!MarkRetrying(p, j, 1)
  /\ UNCHANGED <<news, channel, server, heard, missed, faults>>

Save(p) ==
  /\ Tracker!Save(p)
  /\ UNCHANGED <<news, channel, server, heard, missed, ops, faults>>

(* Variant: the event is published before the record is written. *)
EmitBeforeSave(p) ==
  /\ news[p] # NoNews
  /\ channel' = Append(channel, news[p])
  /\ news' = [news EXCEPT ![p] = NoNews]
  /\ UNCHANGED <<tracker, server, heard, missed, ops, faults>>

Emit(p) ==
  /\ news[p] # NoNews
  /\ pend[p] = Idle
  /\ channel' = Append(channel, news[p])
  /\ news' = [news EXCEPT ![p] = NoNews]
  /\ UNCHANGED <<tracker, server, heard, missed, ops, faults>>

(* The server reads the channel and sends to whoever is in the room now. *)
Audience(m) ==
  {s \in Sids : connection[s] = "up" /\ (m.to = s \/ (m.to = "room" /\ s \in rooms[m.job]))}

Deliver ==
  /\ channel # <<>>
  /\ LET m == Head(channel)
     IN heard' = [s \in Sids |-> IF s \in Audience(m)
                                 THEN [heard[s] EXCEPT ![m.job] = @ \cup {m.says}]
                                 ELSE heard[s]]
  /\ channel' = Tail(channel)
  /\ UNCHANGED <<tracker, news, server, missed, ops, faults>>

-----------------------------------------------------------------------------
(* SocketConnectionManager.  Its lock is never contended, since nobody      *)
(* awaits while holding it, and entering a room does not suspend: what      *)
(* comes before the next emit or GET is one step.                           *)
connect(s) ==
  /\ connection[s] = "new"
  /\ connection' = [connection EXCEPT ![s] = "up"]
  /\ client_rooms' = [client_rooms EXCEPT ![s] = {}]
  /\ UNCHANGED <<tracker, news, channel, rooms, call, heard, late, missed, ops, faults>>

Unfinished(c) == call[c] # NoCall /\ call[c].at # "done"

(* Variant: the entry of the sid is read and left where it is. *)
disconnect_keeping(s) ==
  /\ connection[s] = "up"
  /\ connection' = [connection EXCEPT ![s] = "down"]
  /\ rooms' = [j \in Jobs |-> rooms[j] \ {s}]
  /\ late' = late \cup {c \in Calls : Unfinished(c) /\ call[c].sid = s}
  /\ heard' = [heard EXCEPT ![s] = [j \in Jobs |-> {}]]
  /\ UNCHANGED <<tracker, news, channel, client_rooms, call, missed, ops, faults>>

(* The client goes: its entry is popped, and Socket.IO, to which the sid is *)
(* not connected any more, takes it out of every room.                      *)
disconnect(s) ==
  /\ connection[s] = "up"
  /\ connection' = [connection EXCEPT ![s] = "down"]
  /\ client_rooms' = [client_rooms EXCEPT ![s] = NoEntry]
  /\ rooms' = [j \in Jobs |-> rooms[j] \ {s}]
  /\ late' = late \cup {c \in Calls : Unfinished(c) /\ call[c].sid = s}
  /\ heard' = [heard EXCEPT ![s] = [j \in Jobs |-> {}]]
  /\ UNCHANGED <<tracker, news, channel, call, missed, ops, faults>>

(* A client that knows a job calls; the handler becomes a task of its own,  *)
(* which may start after the client is gone.                                *)
Request(c, s, j, place) ==
  /\ call[c] = NoCall
  /\ connection[s] = "up"
  /\ j \in created
  /\ call' = [call EXCEPT ![c] = [sid |-> s, job |-> j, at |-> place, snapshot |-> NoJob]]
  /\ UNCHANGED <<tracker, news, channel, connection, rooms, client_rooms, heard, late,
                 missed, ops, faults>>

At(c, place) == call[c] # NoCall /\ call[c].at = place
MoveTo(c, place) == call' = [call EXCEPT ![c].at = place]

(* setdefault makes the entry if there is none. *)
Entry(s) == IF client_rooms[s] = NoEntry THEN {} ELSE client_rooms[s]

(* A sid that is not connected any more enters no room, without an error. *)
EnterRoom(c) ==
  LET s == call[c].sid
      j == call[c].job
  IN /\ At(c, "enter")
     /\ MoveTo(c, "read")
     /\ rooms' = IF connection[s] = "up" THEN [rooms EXCEPT ![j] = @ \cup {s}] ELSE rooms
     /\ client_rooms' = [client_rooms EXCEPT ![s] = Entry(s) \cup {j}]
     /\ UNCHANGED <<tracker, news, channel, connection, heard, late, missed, ops, faults>>

(* Variant: a missing record is not noticed. *)
ReadSnapshotUnchecked(c) ==
  /\ At(c, "read")
  /\ call' = [call EXCEPT ![c].at = "send",
                          ![c].snapshot = IF store[call[c].job] = NoJob THEN NoJob
                                          ELSE store[call[c].job].status]
  /\ UNCHANGED <<tracker, news, channel, connection, rooms, client_rooms, heard, late,
                 missed, ops, faults>>

(* _emit_current_snapshot: a missing record ends the call. *)
ReadSnapshot(c) ==
  LET job == store[call[c].job]
  IN /\ At(c, "read")
     /\ IF job = NoJob THEN MoveTo(c, "done")
        ELSE call' = [call EXCEPT ![c].at = "send", ![c].snapshot = job.status]
     /\ UNCHANGED <<tracker, news, channel, connection, rooms, client_rooms, heard, late,
                    missed, ops, faults>>

SendSnapshot(c) ==
  /\ At(c, "send")
  /\ MoveTo(c, "done")
  /\ channel' = Append(channel, [job |-> call[c].job, to |-> call[c].sid,
                                 says |-> call[c].snapshot])
  /\ UNCHANGED <<tracker, news, connection, rooms, client_rooms, heard, late, missed, ops, faults>>

unsubscribe_job(c) ==
  LET s == call[c].sid
      j == call[c].job
  IN /\ At(c, "leave")
     /\ MoveTo(c, "done")
     /\ rooms' = [rooms EXCEPT ![j] = @ \ {s}]
     /\ client_rooms' = [client_rooms EXCEPT ![s] = Entry(s) \ {j}]
     /\ heard' = [heard EXCEPT ![s][j] = {}]
     /\ UNCHANGED <<tracker, news, channel, connection, late, missed, ops, faults>>

subscribe_job(c) == EnterRoom(c) \/ ReadSnapshot(c) \/ SendSnapshot(c)

-----------------------------------------------------------------------------
(* A publisher dies, or its SET or its emission fails. *)
PublisherFails(p) ==
  /\ faults < MaxFaults
  /\ faults' = faults + 1
  /\ news[p] # NoNews
  /\ missed' = missed \cup {news[p].job}
  /\ news' = [news EXCEPT ![p] = NoNews]
  /\ Tracker!Drop({p})
  /\ UNCHANGED <<channel, server, heard, ops>>

(* The listener of the channel reconnects: a message is lost. *)
MessageLost ==
  /\ channel # <<>>
  /\ faults < MaxFaults
  /\ faults' = faults + 1
  /\ missed' = missed \cup {Head(channel).job}
  /\ channel' = Tail(channel)
  /\ UNCHANGED <<tracker, news, server, heard, ops>>

(* Reading or sending the snapshot raises. *)
CallFails(c) ==
  /\ At(c, "read") \/ At(c, "send")
  /\ faults < MaxFaults
  /\ faults' = faults + 1
  /\ missed' = missed \cup {call[c].job}
  /\ MoveTo(c, "done")
  /\ UNCHANGED <<tracker, news, channel, connection, rooms, client_rooms, late, heard, ops>>

Expire(j) ==
  /\ faults < MaxFaults
  /\ faults' = faults + 1
  /\ Tracker!Expire(j)
  /\ UNCHANGED <<news, channel, server, heard, missed, ops>>

Publish(p, j) ==
  Queued(p, j) \/ Started(p, j) \/ Completed(p, j) \/ Failed(p, j) \/ Retrying(p, j)

Next ==
  \/ \E p \in Publishers : \/ \E j \in Jobs : Publish(p, j)
                           \/ Save(p) \/ Emit(p) \/ PublisherFails(p)
  \/ Deliver \/ MessageLost
  \/ \E s \in Sids : connect(s) \/ disconnect(s)
  \/ \E c \in Calls : \/ \E s \in Sids, j \in Jobs, place \in {"enter", "leave"} :
                           Request(c, s, j, place)
                      \/ subscribe_job(c) \/ unsubscribe_job(c) \/ CallFails(c)
  \/ \E j \in Jobs : Expire(j)

Spec == Init /\ [][Next]_vars

-----------------------------------------------------------------------------
(* Types of the variables this module adds to the tracker's. *)
TypeOK ==
  /\ Tracker!TypeOK
  /\ news \in [Publishers -> Events \cup {NoNews}]
  /\ channel \in Seq(Events)
  /\ connection \in [Sids -> {"new", "up", "down"}]
  /\ rooms \in [Jobs -> SUBSET Sids]
  /\ client_rooms \in [Sids -> {NoEntry} \cup SUBSET Jobs]
  /\ call \in [Calls -> CallRecords \cup {NoCall}]
  /\ heard \in [Sids -> [Jobs -> SUBSET Status]]
  /\ late \subseteq Calls
  /\ missed \subseteq Jobs
  /\ ops \in 0..MaxOps
  /\ faults \in 0..MaxFaults

(* Nothing about job j is on its way any more. *)
Quiet(j) ==
  /\ \A p \in Publishers : /\ pend[p] # Idle => pend[p].job # j
                           /\ news[p] # NoNews => news[p].job # j
  /\ \A n \in DOMAIN channel : channel[n].job # j
  /\ \A c \in Calls : Unfinished(c) => call[c].job # j

Tells(says, status) == says = status \/ (says = "failed" /\ status = "cancelled")

(* Whoever is in a job's room learns how the job ended, whenever it         *)
(* subscribed: either the closing event finds it in the room, or the        *)
(* snapshot, read after it entered, shows the status, since the record is   *)
(* written before the event is emitted.  This holds even where overlapping  *)
(* calls overwrite each other's records.                                    *)
NoMissedEnd ==
  \A s \in Sids, j \in Jobs :
    /\ connection[s] = "up" /\ s \in rooms[j]
    /\ Quiet(j) /\ j \notin missed
    /\ store[j] # NoJob
    /\ store[j].status \in Terminal
    => \E says \in heard[s][j] : Tells(says, store[j].status)

(* _client_rooms keeps nothing of a closed connection, except through a     *)
(* call that was still running when disconnect popped the entry: that call  *)
(* puts it back and nobody removes it.                                      *)
EntriesEnd ==
  \A s \in Sids : connection[s] = "down" /\ client_rooms[s] # NoEntry =>
    \E c \in late : call[c].sid = s
=============================================================================

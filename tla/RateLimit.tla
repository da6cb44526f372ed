------------------------------ MODULE RateLimit ------------------------------
(***************************************************************************)
(* rate_limit_middleware (server/app/core/rate_limit.py): a counter in     *)
(* Redis for each client and path, which INCR makes and EXPIRE, a second   *)
(* command of the first request only, gives its lifetime.                  *)
(*                                                                         *)
(* Time is counted in ticks, Window of them to the 60 seconds.  A counter  *)
(* above the limit stays at Limit + 1: the code compares it with 1 and     *)
(* with the limit only.                                                    *)
(***************************************************************************)
EXTENDS Naturals, FiniteSets

CONSTANTS
  Requests,   \* requests that can be under way at one time
  Clients,    \* client hosts; one path
  Limit,      \* rate_limit_requests_per_minute
  Window,     \* lifetime of a counter, in ticks
  MaxFaults,  \* bound on failing Redis commands and handlers
  NoClient

(* What Limit, Window and NoClient have to be is assumed where they get      *)
(* their values, in the module that instantiates this one.                   *)
VARIABLES
  count,   \* client -> its counter, 0 when there is no key
  ttl,     \* client -> ticks until the key goes, 0 when no expiry is set
  place,   \* request -> where it stands in the middleware
  client,  \* request -> its client
  recent,  \* client -> requests let through in each of the last Window ticks
  faults

vars == <<count, ttl, place, client, recent, faults>>

Slots == 0..Window - 1

Init ==
  /\ count = [c \in Clients |-> 0]
  /\ ttl = [c \in Clients |-> 0]
  /\ place = [r \in Requests |-> "idle"]
  /\ client = [r \in Requests |-> NoClient]
  /\ recent = [c \in Clients |-> [t \in Slots |-> 0]]
  /\ faults = 0

-----------------------------------------------------------------------------
(* Variant: one request too many. *)
ExceededLate(n) == n > Limit + 1

Exceeded(n) == n > Limit

(* Variant: every request sets the lifetime anew. *)
SetsExpiryAlways(n) == TRUE

SetsExpiry(n) == n = 1

(* The request leaves the middleware: to its handler, or with a 429. *)
Decide(r, c, n) ==
  /\ place' = [place EXCEPT ![r] = IF Exceeded(n) THEN "idle" ELSE "passed"]
  /\ client' = [client EXCEPT ![r] = IF Exceeded(n) THEN NoClient ELSE c]
  /\ recent' = IF Exceeded(n) THEN recent ELSE [recent EXCEPT ![c][0] = @ + 1]

Counted(c) == IF count[c] > Limit THEN count[c] ELSE count[c] + 1

(* INCR answers with the new value; only the first request awaits again. *)
Incr(r, c) ==
  /\ place[r] = "idle"
  /\ count' = [count EXCEPT ![c] = Counted(c)]
  /\ IF SetsExpiry(Counted(c))
     THEN /\ place' = [place EXCEPT ![r] = "expire"]
          /\ client' = [client EXCEPT ![r] = c]
          /\ UNCHANGED recent
     ELSE Decide(r, c, Counted(c))
  /\ UNCHANGED <<ttl, faults>>

Expire(r) ==
  /\ place[r] = "expire"
  /\ ttl' = [ttl EXCEPT ![client[r]] = Window]
  /\ Decide(r, client[r], 1)
  /\ UNCHANGED <<count, faults>>

Leave(r) ==
  /\ place' = [place EXCEPT ![r] = "idle"]
  /\ client' = [client EXCEPT ![r] = NoClient]

Finish(r) ==
  /\ place[r] = "passed"
  /\ Leave(r)
  /\ UNCHANGED <<count, ttl, recent, faults>>

(* The connection to Redis breaks, or the API stops, before or after the    *)
(* command was executed: the request ends with an error.                    *)
IncrFails(r, c) ==
  /\ faults < MaxFaults
  /\ faults' = faults + 1
  /\ place[r] = "idle"
  /\ count' = [count EXCEPT ![c] = Counted(c)]
  /\ UNCHANGED <<ttl, place, client, recent>>

ExpireFails(r) ==
  /\ faults < MaxFaults
  /\ faults' = faults + 1
  /\ place[r] = "expire"
  /\ Leave(r)
  /\ ttl' \in {ttl, [ttl EXCEPT ![client[r]] = Window]}
  /\ UNCHANGED <<count, recent>>

(* One tick: Redis removes the keys whose lifetime is over. *)
Tick ==
  /\ ttl' = [c \in Clients |-> IF ttl[c] = 0 THEN 0 ELSE ttl[c] - 1]
  /\ count' = [c \in Clients |-> IF ttl[c] = 1 THEN 0 ELSE count[c]]
  /\ recent' = [c \in Clients |-> [t \in Slots |-> IF t = 0 THEN 0 ELSE recent[c][t - 1]]]
  /\ UNCHANGED <<place, client, faults>>

Middleware(r) == Expire(r) \/ ExpireFails(r) \/ \E c \in Clients : Incr(r, c) \/ IncrFails(r, c)

Next == Tick \/ \E r \in Requests : Middleware(r) \/ Finish(r)

Spec == Init /\ [][Next]_vars

(* Time passes and the middleware goes on; clients may ask without end. *)
FairSpec == Spec /\ WF_vars(Tick) /\ \A r \in Requests : WF_vars(Expire(r))

-----------------------------------------------------------------------------
(* Types of the middleware's variables. *)
TypeOK ==
  /\ count \in [Clients -> 0..Limit + 1]
  /\ ttl \in [Clients -> 0..Window]
  /\ place \in [Requests -> {"idle", "expire", "passed"}]
  /\ client \in [Requests -> Clients \cup {NoClient}]
  /\ recent \in [Clients -> [Slots -> 0..Limit]]
  /\ faults \in 0..MaxFaults

(* The requests of c let through in the ticks T, numbered in each tick. *)
LetThrough(c, T) == UNION {{t} \X (1..recent[c][t]) : t \in T}

(* The windows are fixed, not sliding: a client gets at most twice the      *)
(* limit within any 60 seconds, whatever commands fail, since the counter   *)
(* outlives its EXPIRE by a whole window.                                   *)
TwiceLimit ==
  \A c \in Clients : Cardinality(LetThrough(c, Slots)) <= 2 * Limit

(* Nobody stays locked out: a counter, however often it is incremented,     *)
(* disappears, unless a command failed (the INCR that made it, or its       *)
(* EXPIRE).                                                                 *)
CounterEnds ==
  \A c \in Clients : count[c] > 0 ~> count[c] = 0 \/ faults > 0
=============================================================================

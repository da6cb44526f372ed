------------------------------- MODULE Accounts -------------------------------
(***************************************************************************)
(* Registration (AuthService.register_user) behind the rate limit: each    *)
(* request passes the middleware of RateLimit, looks its email up, counts  *)
(* the users and inserts a row.  Each of these is an await of its own, and *)
(* no transaction or lock covers two of them.                              *)
(*                                                                         *)
(* Emails are in lower case already; registration is allowed.  Nothing in  *)
(* the code changes or deletes a user.                                     *)
(***************************************************************************)
EXTENDS Naturals, FiniteSets

CONSTANTS
  Requests, Clients, Limit, Window, MaxFaults, NoClient,  \* see RateLimit
  Emails, NoEmail

ASSUME LimitAssumption ==
  /\ Limit \in Nat \ {0}
  /\ Window \in Nat \ {0}
  /\ MaxFaults \in Nat
  /\ NoClient \notin Clients

ASSUME EmailsAssumption == NoEmail \notin Emails

VARIABLES
  count, ttl, place, client, recent, faults,  \* see RateLimit
  users,    \* rows of the users table
  step,     \* request -> the statement it awaits next
  email,    \* request -> the email it registers
  no_user,  \* request -> user_count == 0
  seen      \* request -> whether there was a user when it came in

Limiter == INSTANCE RateLimit

limiter == <<count, ttl, place, client, recent, faults>>
handler == <<step, email, no_user, seen>>
vars == <<limiter, users, handler>>

(* A row keeps the request's seen and whether it was the first one. *)
Rows == [email : Emails, is_admin : BOOLEAN, first : BOOLEAN, seen : BOOLEAN]

Init ==
  /\ Limiter!Init
  /\ users = {}
  /\ step = [r \in Requests |-> "none"]
  /\ email = [r \in Requests |-> NoEmail]
  /\ no_user = [r \in Requests |-> FALSE]
  /\ seen = [r \in Requests |-> FALSE]

Registered(e) == \E u \in users : u.email = e

-----------------------------------------------------------------------------
Register(r, e) ==
  /\ place[r] = "passed" /\ step[r] = "none"
  /\ step' = [step EXCEPT ![r] = "check"]
  /\ email' = [email EXCEPT ![r] = e]
  /\ seen' = [seen EXCEPT ![r] = users # {}]
  /\ UNCHANGED <<limiter, users, no_user>>

(* The handler is over, and with it the request. *)
Respond(r) ==
  /\ Limiter!Finish(r)
  /\ step' = [step EXCEPT ![r] = "none"]
  /\ email' = [email EXCEPT ![r] = NoEmail]
  /\ no_user' = [no_user EXCEPT ![r] = FALSE]
  /\ seen' = [seen EXCEPT ![r] = FALSE]

CheckExisting(r) ==
  /\ step[r] = "check"
  /\ \/ /\ ~Registered(email[r])
        /\ step' = [step EXCEPT ![r] = "count"]
        /\ UNCHANGED <<limiter, users, email, no_user, seen>>
     \/ /\ Registered(email[r])
        /\ Respond(r)
        /\ UNCHANGED users

(* Variant: the count is taken of the email's users. *)
CountUsersOfRequest(r) ==
  /\ step[r] = "count"
  /\ step' = [step EXCEPT ![r] = "commit"]
  /\ no_user' = [no_user EXCEPT ![r] = ~\E u \in users : u.email = email[r]]
  /\ UNCHANGED <<limiter, users, email, seen>>

(* Variant: the count is compared as if it included the new user. *)
CountUsersWithNew(r) ==
  /\ step[r] = "count"
  /\ step' = [step EXCEPT ![r] = "commit"]
  /\ no_user' = [no_user EXCEPT ![r] = Cardinality(users) = 1]
  /\ UNCHANGED <<limiter, users, email, seen>>

CountUsers(r) ==
  /\ step[r] = "count"
  /\ step' = [step EXCEPT ![r] = "commit"]
  /\ no_user' = [no_user EXCEPT ![r] = users = {}]
  /\ UNCHANGED <<limiter, users, email, seen>>

NewRow(r) ==
  [email |-> email[r], is_admin |-> no_user[r], first |-> users = {}, seen |-> seen[r]]

(* Variant: no unique index on email. *)
CommitUnconstrained(r) ==
  /\ step[r] = "commit"
  /\ users' = users \cup {NewRow(r)}
  /\ Respond(r)

(* The unique index on email raises IntegrityError; else the row is there,  *)
(* and refresh only reads it back.                                          *)
Commit(r) ==
  /\ step[r] = "commit"
  /\ users' = IF Registered(email[r]) THEN users ELSE users \cup {NewRow(r)}
  /\ Respond(r)

(* A statement raises: the session ends uncommitted. *)
HandlerFails(r) ==
  /\ faults < MaxFaults
  /\ faults' = faults + 1
  /\ step[r] # "none"
  /\ Limiter!Leave(r)
  /\ step' = [step EXCEPT ![r] = "none"]
  /\ email' = [email EXCEPT ![r] = NoEmail]
  /\ no_user' = [no_user EXCEPT ![r] = FALSE]
  /\ seen' = [seen EXCEPT ![r] = FALSE]
  /\ UNCHANGED <<users, count, ttl, recent>>

Middleware(r) == Limiter!Middleware(r) /\ UNCHANGED <<users, handler>>

Tick == Limiter!Tick /\ UNCHANGED <<users, handler>>

register_user(r) == CheckExisting(r) \/ CountUsers(r) \/ Commit(r)

Next ==
  \/ Tick
  \/ \E r \in Requests : \/ Middleware(r) \/ register_user(r) \/ HandlerFails(r)
                         \/ \E e \in Emails : Register(r, e)

Spec == Init /\ [][Next]_vars

(* Time passes and requests go on; clients may ask without end. *)
FairSpec ==
  /\ Spec
  /\ WF_vars(Tick)
  /\ \A r \in Requests : WF_vars(Limiter!Expire(r) /\ UNCHANGED <<users, handler>>)

-----------------------------------------------------------------------------
(* Types of the variables this module adds to the middleware's. *)
TypeOK ==
  /\ Limiter!TypeOK
  /\ users \subseteq Rows
  /\ step \in [Requests -> {"none", "check", "count", "commit"}]
  /\ email \in [Requests -> Emails \cup {NoEmail}]
  /\ no_user \in [Requests -> BOOLEAN]
  /\ seen \in [Requests -> BOOLEAN]

(* However registrations overlap, one row has each email, although the     *)
(* look-up and the insert are apart.                                        *)
OneUserPerEmail == \A u, v \in users : u.email = v.email => u = v

(* Somebody can administer the server: exactly one row is the first one,    *)
(* and it is an administrator's.                                            *)
FirstIsAdmin ==
  users # {} => /\ \E u \in users : u.first /\ u.is_admin
                /\ \A u, v \in users : u.first /\ v.first => u = v

(* Once a user exists, nobody who comes to register becomes administrator:  *)
(* only requests that overlapped the first registration can.                *)
LateIsNoAdmin == \A u \in users : u.seen => ~u.is_admin

(* api_docs/README.md:50: "The first registered user becomes admin." -- the *)
(* first one, not others.                                                   *)
OnlyFirstIsAdmin == \A u \in users : u.is_admin => u.first

(* A client gets no more than twice the limit through within 60 seconds.    *)
TwiceLimit == Limiter!TwiceLimit

(* A client that is refused is not refused for ever, unless a command       *)
(* failed.                                                                  *)
CounterEnds == Limiter!CounterEnds
=============================================================================

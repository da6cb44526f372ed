---------------------------- MODULE AccountsProofs ----------------------------
(***************************************************************************)
(* Theorems about Accounts, for any requests, clients and emails: first    *)
(* about the users, for which the middleware has only to leave users and   *)
(* handlers alone, then about the limit.                                   *)
(***************************************************************************)
EXTENDS Accounts, FiniteSetTheorems, TLAPS

(* The handlers' variables are functions on the requests. *)
HandlerTypes ==
  /\ step \in [Requests -> {"none", "check", "count", "commit"}]
  /\ email \in [Requests -> Emails \cup {NoEmail}]
  /\ no_user \in [Requests -> BOOLEAN]
  /\ seen \in [Requests -> BOOLEAN]

(* What a request has seen or counted agrees with the rows of now: rows     *)
(* only come, so a user seen is still there, and a count of zero can be old *)
(* but a positive one cannot.                                               *)
CountsAreTrue ==
  \A r \in Requests :
    /\ seen[r] => users # {}
    /\ step[r] = "commit" /\ seen[r] => ~no_user[r]
    /\ step[r] = "commit" /\ users = {} => no_user[r]

AccountsInv ==
  HandlerTypes /\ CountsAreTrue /\ OneUserPerEmail /\ FirstIsAdmin /\ LateIsNoAdmin

-----------------------------------------------------------------------------
(* The empty table satisfies the invariant. *)
LEMMA InitInv == Init => AccountsInv
  BY DEF Init, AccountsInv, HandlerTypes, CountsAreTrue, OneUserPerEmail, FirstIsAdmin,
         LateIsNoAdmin

(* A step that leaves the table alone, and in which one request starts,     *)
(* counts or ends, preserves the invariant.                                 *)
LEMMA TableUntouched ==
  ASSUME AccountsInv, HandlerTypes', users' = users,
         \A r \in Requests :
           \/ step'[r] = step[r] /\ no_user'[r] = no_user[r] /\ seen'[r] = seen[r]
           \/ step'[r] # "commit" /\ (seen'[r] => users # {})
           \/ step'[r] = "commit" /\ no_user'[r] = (users = {}) /\ seen'[r] = seen[r]
  PROVE  AccountsInv'
<1>1. CountsAreTrue'
  BY DEF AccountsInv, CountsAreTrue
<1> QED
  BY <1>1 DEF AccountsInv, OneUserPerEmail, FirstIsAdmin, LateIsNoAdmin

(* Respond ends its own request and no other. *)
LEMMA RespondEnds ==
  ASSUME HandlerTypes, NEW r \in Requests, Respond(r)
  PROVE  /\ HandlerTypes'
         /\ step'[r] = "none" /\ ~seen'[r]
         /\ \A s \in Requests \ {r} :
              step'[s] = step[s] /\ no_user'[s] = no_user[s] /\ seen'[s] = seen[s]
  BY DEF Respond, HandlerTypes

(* Inserting a row preserves the invariant: the first row is inserted by a  *)
(* request that counted none, and a request that has seen a user did not.   *)
LEMMA CommitInv ==
  ASSUME AccountsInv, NEW r \in Requests, Commit(r)
  PROVE  AccountsInv'
<1>1. HandlerTypes /\ CountsAreTrue /\ step[r] = "commit" /\ Respond(r)
  BY DEF AccountsInv, Commit
<1>2. /\ HandlerTypes'
      /\ step'[r] = "none" /\ ~seen'[r]
      /\ \A s \in Requests \ {r} :
           step'[s] = step[s] /\ no_user'[s] = no_user[s] /\ seen'[s] = seen[s]
  BY <1>1, RespondEnds
<1>3. CASE Registered(email[r])
  <2>1. users' = users
    BY <1>3 DEF Commit
  <2> QED
    BY <1>2, <2>1, TableUntouched
<1>4. CASE ~Registered(email[r])
  <2>1. users' = users \cup {NewRow(r)}
    BY <1>4 DEF Commit
  <2>2. /\ NewRow(r).email = email[r] /\ NewRow(r).is_admin = no_user[r]
        /\ NewRow(r).first = (users = {}) /\ NewRow(r).seen = seen[r]
    BY DEF NewRow
  <2>3. CountsAreTrue'
    BY <1>1, <1>2, <2>1 DEF CountsAreTrue
  <2>4. OneUserPerEmail'
    BY <1>4, <2>1, <2>2 DEF AccountsInv, OneUserPerEmail, Registered
  <2>5. LateIsNoAdmin'
    BY <1>1, <2>1, <2>2 DEF AccountsInv, LateIsNoAdmin, CountsAreTrue
  <2>6. FirstIsAdmin'
    <3>1. CASE users = {}
      BY <1>1, <2>1, <2>2, <3>1 DEF FirstIsAdmin, CountsAreTrue
    <3>2. CASE users # {}
      BY <2>1, <2>2, <3>2 DEF AccountsInv, FirstIsAdmin
    <3> QED
      BY <3>1, <3>2
  <2> QED
    BY <1>2, <2>3, <2>4, <2>5, <2>6 DEF AccountsInv
<1> QED
  BY <1>3, <1>4

(* Every step of the system preserves the invariant. *)
LEMMA NextInv == AccountsInv /\ [Next]_vars => AccountsInv'
<1> SUFFICES ASSUME AccountsInv, [Next]_vars
             PROVE  AccountsInv'
  OBVIOUS
<1>1. HandlerTypes /\ CountsAreTrue
  BY DEF AccountsInv
<1>2. CASE UNCHANGED <<users, handler>>
  <2>1. HandlerTypes' /\ UNCHANGED <<users, step, no_user, seen>>
    BY <1>1, <1>2 DEF HandlerTypes, handler
  <2> QED
    BY <2>1, TableUntouched
<1>3. ASSUME NEW r \in Requests, NEW e \in Emails, Register(r, e)
      PROVE  AccountsInv'
  <2>1. HandlerTypes' /\ users' = users
    BY <1>1, <1>3 DEF Register, HandlerTypes
  <2>2. \A s \in Requests \ {r} : UNCHANGED <<step[s], no_user[s], seen[s]>>
    BY <1>1, <1>3 DEF Register, HandlerTypes
  <2>3. step'[r] = "check" /\ seen'[r] = (users # {})
    BY <1>1, <1>3 DEF Register, HandlerTypes
  <2> QED
    BY <2>1, <2>2, <2>3, TableUntouched
<1>4. ASSUME NEW r \in Requests, CheckExisting(r)
      PROVE  AccountsInv'
  <2>1. CASE step' = [step EXCEPT ![r] = "count"] /\ UNCHANGED <<users, email, no_user, seen>>
    <3>1. HandlerTypes'
      BY <1>1, <2>1 DEF HandlerTypes
    <3>2. \A s \in Requests \ {r} : step'[s] = step[s]
      BY <1>1, <2>1 DEF HandlerTypes
    <3>3. step'[r] = "count" /\ (seen'[r] => users # {})
      BY <1>1, <2>1 DEF HandlerTypes, CountsAreTrue
    <3> QED
      BY <2>1, <3>1, <3>2, <3>3, TableUntouched
  <2>2. CASE Respond(r) /\ UNCHANGED users
    BY <1>1, <2>2, RespondEnds, TableUntouched
  <2> QED
    BY <1>4, <2>1, <2>2 DEF CheckExisting
<1>5. ASSUME NEW r \in Requests, CountUsers(r)
      PROVE  AccountsInv'
  <2>1. HandlerTypes' /\ users' = users /\ seen' = seen
    BY <1>1, <1>5 DEF CountUsers, HandlerTypes
  <2>2. \A s \in Requests \ {r} : UNCHANGED <<step[s], no_user[s]>>
    BY <1>1, <1>5 DEF CountUsers, HandlerTypes
  <2>3. step'[r] = "commit" /\ no_user'[r] = (users = {})
    BY <1>1, <1>5 DEF CountUsers, HandlerTypes
  <2> QED
    BY <2>1, <2>2, <2>3, TableUntouched
<1>6. ASSUME NEW r \in Requests, HandlerFails(r)
      PROVE  AccountsInv'
  <2>1. HandlerTypes' /\ users' = users
    BY <1>1, <1>6 DEF HandlerFails, HandlerTypes
  <2>2. \A s \in Requests \ {r} : UNCHANGED <<step[s], no_user[s], seen[s]>>
    BY <1>1, <1>6 DEF HandlerFails, HandlerTypes
  <2>3. step'[r] = "none" /\ ~seen'[r]
    BY <1>1, <1>6 DEF HandlerFails, HandlerTypes
  <2> QED
    BY <2>1, <2>2, <2>3, TableUntouched
<1> QED
  BY <1>2, <1>3, <1>4, <1>5, <1>6, CommitInv
     DEF Next, vars, Tick, Middleware, register_user

LEMMA AlwaysInv == Spec => []AccountsInv
  BY InitInv, NextInv, PTL DEF Spec

-----------------------------------------------------------------------------
(* However many registrations overlap, one row has each email. *)
THEOREM EmailsUnique == Spec => []OneUserPerEmail
<1>1. AccountsInv => OneUserPerEmail
  BY DEF AccountsInv
<1> QED
  BY <1>1, AlwaysInv, PTL

(* A server with users has exactly one first user, an administrator. *)
THEOREM FirstUserAdministers == Spec => []FirstIsAdmin
<1>1. AccountsInv => FirstIsAdmin
  BY DEF AccountsInv
<1> QED
  BY <1>1, AlwaysInv, PTL

(* A request that came in after the first registration never becomes an     *)
(* administrator's, whatever requests it overlaps with.                     *)
THEOREM LateUsersDoNot == Spec => []LateIsNoAdmin
<1>1. AccountsInv => LateIsNoAdmin
  BY DEF AccountsInv
<1> QED
  BY <1>1, AlwaysInv, PTL

-----------------------------------------------------------------------------
(* The limit.  The requests that await their EXPIRE, and those a counter    *)
(* has let through at most: the one that awaits is counted but not through. *)
Awaiting(c) == {r \in Requests : place[r] = "expire" /\ client[r] = c}
Due(c) == IF Awaiting(c) = {} THEN 0 ELSE 1
Used(c) == IF count[c] > Limit THEN Limit ELSE count[c]

(* The requests let through in the ticks T, by their number in each tick. *)
Slots == 0..Window - 1
PerTick == [Slots -> 0..Limit]
Tokens(f, T) == UNION {{t} \X (1..f[t]) : t \in T}
Passes(c, T) == Cardinality(Tokens(recent[c], T))

(* The ticks that surely lie after the EXPIRE of the counter. *)
Young(c) == {t \in Slots : t + ttl[c] < Window}

(* Only the request that made a counter gives it a lifetime, and once. *)
CountersInv ==
  /\ \A r \in Requests :
       place[r] = "expire" =>
         client[r] \in Clients /\ count[client[r]] > 0 /\ ttl[client[r]] = 0
  /\ \A r, s \in Requests :
       place[r] = "expire" /\ place[s] = "expire" /\ client[r] = client[s] => r = s
  /\ \A c \in Clients : count[c] = 0 => ttl[c] = 0

(* Of the last Window ticks' requests, this counter let through no more     *)
(* than it counted, and the counters before it no more than the limit: when *)
(* the second counter before it went, their requests were out of sight.     *)
Within(c) ==
  /\ recent[c][0] + Due(c) <= Used(c)
  /\ Passes(c, Slots) + Due(c) <= Limit + Used(c)
  /\ ttl[c] > 0 => Passes(c, Young(c)) <= Used(c)

LimiterInv == Limiter!TypeOK /\ CountersInv /\ \A c \in Clients : Within(c)

(* What a token is. *)
LEMMA IsToken ==
  ASSUME NEW f, NEW T, NEW p
  PROVE  p \in Tokens(f, T) <=> \E t \in T : \E i \in 1..f[t] : p = <<t, i>>
  BY DEF Tokens

(* There are finitely many tokens. *)
LEMMA TokensFinite ==
  ASSUME NEW f \in PerTick, NEW T \in SUBSET Slots
  PROVE  IsFiniteSet(Tokens(f, T)) /\ Cardinality(Tokens(f, T)) \in Nat
<1>1. IsFiniteSet(Slots \X (1..Limit))
  <2>1. Window - 1 \in Int /\ Limit \in Int
    BY LimitAssumption
  <2>2. IsFiniteSet(0..Window - 1) /\ IsFiniteSet(1..Limit)
    BY <2>1, FS_Interval
  <2> QED
    BY <2>2, FS_Product DEF Slots
<1>2. Tokens(f, T) \subseteq Slots \X (1..Limit)
  <2> SUFFICES ASSUME NEW p \in Tokens(f, T)
               PROVE  p \in Slots \X (1..Limit)
    OBVIOUS
  <2>1. PICK t \in T : \E i \in 1..f[t] : p = <<t, i>>
    BY IsToken
  <2>2. PICK i \in 1..f[t] : p = <<t, i>>
    BY <2>1
  <2>3. t \in Slots /\ f[t] \in 0..Limit
    BY DEF PerTick
  <2>4. i \in 1..Limit
    BY <2>3, LimitAssumption
  <2> QED
    BY <2>2, <2>3, <2>4
<1> QED
  BY <1>1, <1>2, FS_Subset, FS_CardinalityType

(* A request let through is at most one token more. *)
LEMMA TokenAdded ==
  ASSUME NEW f \in PerTick, NEW g \in PerTick, NEW T \in SUBSET Slots,
         g = [f EXCEPT ![0] = @ + 1]
  PROVE  Cardinality(Tokens(g, T)) <= Cardinality(Tokens(f, T)) + 1
<1> DEFINE x == <<0, f[0] + 1>>
           More == Tokens(f, T) \cup {x}
<1>1. IsFiniteSet(Tokens(f, T)) /\ Cardinality(Tokens(f, T)) \in Nat
  BY TokensFinite
<1>2. /\ IsFiniteSet(More)
      /\ Cardinality(More) \in Nat /\ Cardinality(More) <= Cardinality(Tokens(f, T)) + 1
  <2>1. /\ IsFiniteSet(More)
        /\ Cardinality(More) = IF x \in Tokens(f, T) THEN Cardinality(Tokens(f, T))
                               ELSE Cardinality(Tokens(f, T)) + 1
    BY <1>1, FS_AddElement
  <2> QED
    BY <1>1, <2>1
<1>3. Tokens(g, T) \subseteq More
  <2> SUFFICES ASSUME NEW p \in Tokens(g, T)
               PROVE  p \in More
    OBVIOUS
  <2>1. PICK t \in T : \E i \in 1..g[t] : p = <<t, i>>
    BY DEF Tokens
  <2>2. PICK i \in 1..g[t] : p = <<t, i>>
    BY <2>1
  <2>3. t \in Slots /\ f[t] \in Nat /\ 0 \in Slots
    BY LimitAssumption DEF PerTick, Slots
  <2>4. g[t] = IF t = 0 THEN f[t] + 1 ELSE f[t]
    BY <2>3 DEF PerTick
  <2>5. i \in 1..f[t] \/ (t = 0 /\ i = f[0] + 1)
    BY <2>3, <2>4
  <2> QED
    BY <2>2, <2>5, IsToken
<1>4. Cardinality(Tokens(g, T)) <= Cardinality(More)
  BY <1>2, <1>3, FS_Subset
<1>5. Cardinality(Tokens(g, T)) \in Nat
  BY TokensFinite
<1> HIDE DEF More
<1> QED
  BY <1>1, <1>2, <1>4, <1>5

(* Tokens move on with time, and the oldest go. *)
LEMMA TokensMove ==
  ASSUME NEW f \in PerTick, NEW g \in PerTick, NEW S \in SUBSET Slots, NEW T \in SUBSET Slots,
         g[0] = 0, \A t \in S \ {0} : t - 1 \in T /\ g[t] = f[t - 1]
  PROVE  Cardinality(Tokens(g, S)) <= Cardinality(Tokens(f, T))
<1> DEFINE move == [p \in Tokens(g, S) |-> <<p[1] - 1, p[2]>>]
<1>1. ASSUME NEW p \in Tokens(g, S)
      PROVE  /\ p = <<p[1], p[2]>> /\ p[1] \in Int
             /\ <<p[1] - 1, p[2]>> \in Tokens(f, T)
  <2>1. PICK t \in S : \E i \in 1..g[t] : p = <<t, i>>
    BY IsToken
  <2>2. PICK i \in 1..g[t] : p = <<t, i>>
    BY <2>1
  <2>3. t # 0 /\ t \in Int
    BY <2>2 DEF Slots
  <2>4. t - 1 \in T /\ i \in 1..f[t - 1]
    BY <2>2, <2>3
  <2> QED
    BY <2>2, <2>3, <2>4, IsToken
<1>2. move \in [Tokens(g, S) -> Tokens(f, T)]
  BY <1>1
<1>3. ASSUME NEW p \in Tokens(g, S), NEW q \in Tokens(g, S), move[p] = move[q]
      PROVE  p = q
  <2>1. p[1] - 1 = q[1] - 1 /\ p[2] = q[2]
    <3>1. move[p] = <<p[1] - 1, p[2]>> /\ move[q] = <<q[1] - 1, q[2]>>
      OBVIOUS
    <3> QED
      BY <1>3, <3>1
  <2>2. p = <<p[1], p[2]>> /\ q = <<q[1], q[2]>> /\ p[1] \in Int /\ q[1] \in Int
    BY <1>1
  <2>3. p[1] = q[1]
    BY <2>1, <2>2
  <2> QED
    BY <2>1, <2>2, <2>3
<1>4. move \in Injection(Tokens(g, S), Tokens(f, T))
  BY <1>2, <1>3 DEF Injection, IsInjective
<1> QED
  BY <1>4, TokensFinite, FS_Injection

(* No ticks, no tokens. *)
LEMMA NoTokens == ASSUME NEW f PROVE Cardinality(Tokens(f, {})) = 0
<1>1. Tokens(f, {}) = {}
  BY DEF Tokens
<1> QED
  BY <1>1, FS_EmptySet

(* The range of the numbers Within is about. *)
LEMMA InRange ==
  ASSUME NEW c, count[c] \in Nat
  PROVE  Due(c) \in {0, 1} /\ Used(c) \in 0..Limit
  BY LimitAssumption DEF Due, Used

(* After a step, too, what is due and what is used are in range. *)
LEMMA InRangeNext ==
  ASSUME NEW c, count'[c] \in Nat
  PROVE  Due(c)' \in {0, 1} /\ Used(c)' \in 0..Limit
  BY LimitAssumption DEF Due, Used

(* The types of one client's counter. *)
LEMMA TypesOf ==
  ASSUME Limiter!TypeOK, NEW c \in Clients
  PROVE  /\ count[c] \in Nat /\ ttl[c] \in 0..Window /\ recent[c] \in PerTick
         /\ 0 \in Slots /\ recent[c][0] \in 0..Limit
  BY LimitAssumption DEF Limiter!TypeOK, Limiter!Slots, PerTick, Slots

(* Passes are numbers. *)
LEMMA PassesTyped ==
  ASSUME NEW c, recent[c] \in PerTick
  PROVE  Passes(c, Slots) \in Nat /\ Passes(c, Young(c)) \in Nat
  BY TokensFinite DEF Passes, Young

(* Nothing is let through: the counter only grows, or awaits less. *)
LEMMA KeptWithin ==
  ASSUME Limiter!TypeOK, NEW c \in Clients, Within(c),
         count'[c] \in Nat, recent'[c] = recent[c],
         ttl'[c] = ttl[c] \/ ttl'[c] = Window,
         Used(c) <= Used(c)', Used(c) + Due(c)' <= Used(c)' + Due(c)
  PROVE  recent'[c] \in PerTick /\ Within(c)'
<1>1. /\ recent[c] \in PerTick /\ recent[c][0] \in Nat /\ Passes(c, Slots) \in Nat
      /\ Passes(c, Young(c)) \in Nat
      /\ Due(c) \in Nat /\ Used(c) \in Nat /\ Due(c)' \in Nat /\ Used(c)' \in Nat
  BY TypesOf, PassesTyped, InRange, InRangeNext, LimitAssumption
<1>2. recent'[c][0] + Due(c)' <= Used(c)'
  BY <1>1 DEF Within
<1>3. Passes(c, Slots)' + Due(c)' <= Limit + Used(c)'
  <2>1. Passes(c, Slots)' = Passes(c, Slots)
    BY DEF Passes, Slots
  <2> QED
    BY <1>1, <2>1, LimitAssumption DEF Within
<1>4. ttl'[c] > 0 => Passes(c, Young(c))' <= Used(c)'
  <2>1. CASE ttl'[c] = Window
    <3>1. Young(c)' = {}
      BY <2>1, LimitAssumption DEF Young, Slots
    <3>2. Passes(c, Young(c))' = 0
      BY <3>1, NoTokens DEF Passes
    <3> QED
      BY <1>1, <3>2
  <2>2. CASE ttl'[c] = ttl[c]
    <3>1. Passes(c, Young(c))' = Passes(c, Young(c))
      BY <2>2 DEF Passes, Young, Slots
    <3> QED
      BY <1>1, <2>2, <3>1 DEF Within
  <2> QED
    BY <2>1, <2>2
<1> QED
  BY <1>1, <1>2, <1>3, <1>4 DEF Within

(* One request is let through, and counted. *)
LEMMA PassedWithin ==
  ASSUME Limiter!TypeOK, NEW c \in Clients, Within(c),
         count'[c] \in Nat, recent'[c] = [recent[c] EXCEPT ![0] = @ + 1],
         ttl'[c] = Window \/ (ttl'[c] = ttl[c] /\ Used(c) + 1 <= Used(c)'),
         Used(c) + Due(c)' + 1 <= Used(c)' + Due(c)
  PROVE  recent'[c] \in PerTick /\ Within(c)'
<1>1. /\ recent[c] \in PerTick /\ recent[c][0] \in Nat /\ 0 \in Slots
      /\ Passes(c, Slots) \in Nat /\ Passes(c, Young(c)) \in Nat
      /\ Due(c) \in Nat /\ Used(c) \in Nat /\ Due(c)' \in Nat
      /\ Used(c)' \in Nat /\ Used(c)' <= Limit
  BY TypesOf, PassesTyped, InRange, InRangeNext, LimitAssumption
<1>2. recent'[c][0] = recent[c][0] + 1 /\ recent'[c][0] + Due(c)' <= Used(c)'
  <2>1. recent'[c][0] = recent[c][0] + 1
    BY <1>1 DEF PerTick
  <2> QED
    BY <1>1, <2>1 DEF Within
<1>3. recent'[c] \in PerTick
  <2>1. recent[c][0] + 1 \in 0..Limit
    BY <1>1, <1>2, LimitAssumption
  <2> QED
    BY <1>1, <2>1 DEF PerTick
<1>4. Passes(c, Slots)' + Due(c)' <= Limit + Used(c)'
  <2>1. Passes(c, Slots)' <= Passes(c, Slots) + 1
    BY <1>1, <1>3, TokenAdded DEF Passes, Slots
  <2>2. Passes(c, Slots)' \in Nat
    BY <1>3, TokensFinite DEF Passes, Slots
  <2> QED
    BY <1>1, <2>1, <2>2, LimitAssumption DEF Within
<1>5. ttl'[c] > 0 => Passes(c, Young(c))' <= Used(c)'
  <2>1. CASE ttl'[c] = Window
    <3>1. Young(c)' = {}
      BY <2>1, LimitAssumption DEF Young, Slots
    <3>2. Passes(c, Young(c))' = 0
      BY <3>1, NoTokens DEF Passes
    <3> QED
      BY <1>1, <3>2
  <2>2. CASE ttl'[c] = ttl[c] /\ Used(c) + 1 <= Used(c)'
    <3>1. Young(c)' = Young(c) /\ Young(c) \in SUBSET Slots
      BY <2>2 DEF Young, Slots
    <3>2. Passes(c, Young(c))' <= Passes(c, Young(c)) + 1
      BY <1>1, <1>3, <3>1, TokenAdded DEF Passes
    <3>3. Passes(c, Young(c))' \in Nat
      BY <1>3, <3>1, TokensFinite DEF Passes
    <3> QED
      BY <1>1, <2>2, <3>2, <3>3 DEF Within
  <2> QED
    BY <2>1, <2>2
<1> QED
  BY <1>2, <1>3, <1>4, <1>5 DEF Within

(* A tick moves the requests on; when it removes the counter, the only ones *)
(* left are those it let through after its EXPIRE.                          *)
LEMMA TickedWithin ==
  ASSUME Limiter!TypeOK, CountersInv, NEW c \in Clients, Within(c), Limiter!Tick
  PROVE  recent'[c] \in PerTick /\ Within(c)'
<1>1. /\ count[c] \in Nat /\ ttl[c] \in 0..Window /\ recent[c] \in PerTick
      /\ recent[c][0] \in Nat /\ Passes(c, Slots) \in Nat
      /\ Passes(c, Young(c)) \in Nat
      /\ Due(c) \in Nat /\ Used(c) \in Nat /\ Used(c) <= Limit
  BY TypesOf, PassesTyped, InRange, LimitAssumption
<1>2. /\ ttl'[c] = IF ttl[c] = 0 THEN 0 ELSE ttl[c] - 1
      /\ count'[c] = IF ttl[c] = 1 THEN 0 ELSE count[c]
      /\ recent'[c] = [t \in Slots |-> IF t = 0 THEN 0 ELSE recent[c][t - 1]]
      /\ Due(c)' = Due(c)
  BY DEF Limiter!Tick, Limiter!Slots, Slots, Due, Awaiting
<1>3. 0 \in Slots /\ \A t \in Slots \ {0} : t - 1 \in Slots
  BY LimitAssumption DEF Slots
<1>4. recent'[c][0] = 0 /\ \A t \in Slots \ {0} : recent'[c][t] = recent[c][t - 1]
  BY <1>2, <1>3
<1>5. recent'[c] \in PerTick
  BY <1>1, <1>2, <1>3, LimitAssumption DEF PerTick
<1>6. Passes(c, Slots)' <= Passes(c, Slots) /\ Passes(c, Slots)' \in Nat
  <2>1. Cardinality(Tokens(recent'[c], Slots)) <= Cardinality(Tokens(recent[c], Slots))
    BY <1>1, <1>3, <1>4, <1>5, TokensMove
  <2> QED
    BY <1>5, <2>1, TokensFinite DEF Passes, Slots
<1>7. CASE ttl[c] = 1
  <2>1. count'[c] = 0 /\ ttl'[c] = 0 /\ Used(c)' = 0
    BY <1>2, <1>7, LimitAssumption DEF Used
  <2>2. Due(c)' = 0
    BY <1>2, <1>7 DEF CountersInv, Due, Awaiting
  <2>3. Young(c) \in SUBSET Slots /\ \A t \in Slots \ {0} : t - 1 \in Young(c)
    BY <1>7, LimitAssumption DEF Young, Slots
  <2>4. Passes(c, Slots)' <= Passes(c, Young(c))
    BY <1>1, <1>4, <1>5, <2>3, TokensMove DEF Passes, Slots
  <2>5. Passes(c, Slots)' <= Limit
    BY <1>1, <1>6, <1>7, <2>4, LimitAssumption DEF Within
  <2> QED
    BY <1>4, <1>5, <1>6, <2>1, <2>2, <2>5, LimitAssumption DEF Within
<1>8. CASE ttl[c] # 1
  <2>1. Used(c)' = Used(c)
    BY <1>2, <1>8 DEF Used
  <2>2. recent'[c][0] + Due(c)' <= Used(c)'
    BY <1>1, <1>2, <1>4, <2>1 DEF Within
  <2>3. Passes(c, Slots)' + Due(c)' <= Limit + Used(c)'
    BY <1>1, <1>2, <1>6, <2>1, LimitAssumption DEF Within
  <2>4. ASSUME ttl'[c] > 0
        PROVE  Passes(c, Young(c))' <= Used(c)'
    <3>1. ttl[c] > 0 /\ ttl'[c] = ttl[c] - 1
      BY <1>1, <1>2, <2>4
    <3>2. Young(c)' = {t \in Slots : t + (ttl[c] - 1) < Window}
      BY <3>1 DEF Young, Slots
    <3> DEFINE Y == {t \in Slots : t + (ttl[c] - 1) < Window}
    <3>3. /\ Y \in SUBSET Slots /\ Young(c) \in SUBSET Slots
          /\ \A t \in Y \ {0} : t - 1 \in Young(c) /\ t \in Slots
      BY <1>1, LimitAssumption DEF Young, Slots
    <3> HIDE DEF Y
    <3>4. Cardinality(Tokens(recent'[c], Y)) <= Cardinality(Tokens(recent[c], Young(c)))
      BY <1>1, <1>4, <1>5, <3>3, TokensMove
    <3>5. Cardinality(Tokens(recent'[c], Y)) \in Nat
      BY <1>5, <3>3, TokensFinite
    <3>6. Passes(c, Young(c))' <= Passes(c, Young(c)) /\ Passes(c, Young(c))' \in Nat
      BY <3>2, <3>4, <3>5 DEF Passes, Y
    <3> QED
      BY <1>1, <2>1, <3>1, <3>6 DEF Within
  <2> QED
    BY <1>5, <2>2, <2>3, <2>4 DEF Within
<1> QED
  BY <1>7, <1>8

(* The empty middleware satisfies the invariant. *)
LEMMA LimiterInit == Init => LimiterInv
<1> SUFFICES ASSUME Limiter!Init
             PROVE  LimiterInv
  BY DEF Init
<1>1. Limiter!TypeOK /\ CountersInv
  BY LimitAssumption DEF Limiter!Init, Limiter!TypeOK, Limiter!Slots, CountersInv
<1>2. ASSUME NEW c \in Clients
      PROVE  Within(c)
  <2>1. /\ recent[c] = [t \in Slots |-> 0] /\ count[c] = 0 /\ ttl[c] = 0
        /\ Awaiting(c) = {} /\ 0 \in Slots
    BY LimitAssumption DEF Limiter!Init, Limiter!Slots, Slots, Awaiting
  <2>2. Tokens(recent[c], Slots) = {}
    <3> SUFFICES ASSUME NEW p \in Tokens(recent[c], Slots)
                 PROVE  FALSE
      OBVIOUS
    <3>1. PICK t \in Slots : \E i \in 1..recent[c][t] : p = <<t, i>>
      BY DEF Tokens
    <3> QED
      BY <2>1, <3>1
  <2>3. Passes(c, Slots) = 0
    BY <2>2, FS_EmptySet DEF Passes
  <2> QED
    BY <2>1, <2>3, LimitAssumption DEF Within, Due, Used
<1> QED
  BY <1>1, <1>2 DEF LimiterInv

(* A request leaves the middleware and its counter alone. *)
Leaves(r) ==
  /\ Limiter!Leave(r)
  /\ UNCHANGED <<count, ttl, recent>>
  /\ faults' \in 0..MaxFaults

(* What any step of the system is for the middleware. *)
LEMMA LimiterSteps ==
  ASSUME Limiter!TypeOK, [Next]_vars
  PROVE  \/ UNCHANGED limiter
         \/ Limiter!Tick
         \/ \E r \in Requests :
              \/ Leaves(r) \/ Limiter!Expire(r) \/ Limiter!ExpireFails(r)
              \/ \E c \in Clients : Limiter!Incr(r, c) \/ Limiter!IncrFails(r, c)
<1>1. faults \in 0..MaxFaults /\ MaxFaults \in Nat
  BY LimitAssumption DEF Limiter!TypeOK
<1>2. \A r \in Requests : Respond(r) \/ HandlerFails(r) => Leaves(r)
  BY <1>1 DEF Respond, HandlerFails, Limiter!Finish, Leaves
<1>3. \A r \in Requests : register_user(r) => Respond(r) \/ UNCHANGED limiter
  BY DEF register_user, CheckExisting, CountUsers, Commit
<1>4. \A r \in Requests, e \in Emails : Register(r, e) => UNCHANGED limiter
  BY DEF Register
<1> QED
  BY <1>2, <1>3, <1>4 DEF Next, vars, Tick, Middleware, Limiter!Middleware

(* A step of one request on the counter of its client d: the others keep    *)
(* theirs.                                                                  *)
LEMMA OneClient ==
  ASSUME LimiterInv, NEW d \in Clients,
         \A c \in Clients : count'[c] \in Nat,
         \A c \in Clients \ {d} :
           /\ count'[c] = count[c] /\ ttl'[c] = ttl[c] /\ recent'[c] = recent[c]
           /\ Awaiting(c)' \subseteq Awaiting(c),
         recent'[d] \in PerTick /\ Within(d)'
  PROVE  \A c \in Clients : recent'[c] \in PerTick /\ Within(c)'
<1> SUFFICES ASSUME NEW c \in Clients, c # d
             PROVE  recent'[c] \in PerTick /\ Within(c)'
  OBVIOUS
<1>1. Limiter!TypeOK /\ Within(c) /\ count[c] \in Nat
  BY TypesOf DEF LimiterInv
<1>2. Used(c)' = Used(c)
  BY DEF Used
<1>3. Due(c) \in {0, 1} /\ Due(c)' \in {0, 1} /\ Due(c)' <= Due(c)
  BY DEF Due
<1>4. Used(c) \in Nat
  BY <1>1, InRange, LimitAssumption
<1> QED
  BY <1>1, <1>2, <1>3, <1>4, KeptWithin

(* Leaving lets nothing through and at most frees a counter of its request. *)
LEMMA LeavesInv ==
  ASSUME LimiterInv, NEW r \in Requests, Leaves(r)
  PROVE  LimiterInv'
<1>1. Limiter!TypeOK /\ CountersInv
  BY DEF LimiterInv
<1>2. /\ UNCHANGED <<count, ttl, recent>> /\ faults' \in 0..MaxFaults
      /\ place' = [place EXCEPT ![r] = "idle"] /\ client' = [client EXCEPT ![r] = NoClient]
  BY DEF Leaves, Limiter!Leave
<1>3. \A q \in Requests : /\ place'[q] = IF q = r THEN "idle" ELSE place[q]
                          /\ client'[q] = IF q = r THEN NoClient ELSE client[q]
  BY <1>1, <1>2 DEF Limiter!TypeOK
<1>4. Limiter!TypeOK' /\ CountersInv'
  <2>1. Limiter!TypeOK'
    BY <1>1, <1>2 DEF Limiter!TypeOK, Limiter!Slots
  <2> QED
    BY <1>1, <1>2, <1>3, <2>1 DEF CountersInv
<1>5. ASSUME NEW c \in Clients
      PROVE  Within(c)'
  <2>1. Within(c) /\ count[c] \in Nat /\ Used(c) \in Nat
    BY <1>1, TypesOf, InRange, LimitAssumption DEF LimiterInv
  <2>2. Used(c)' = Used(c)
    BY <1>2 DEF Used
  <2>3. Awaiting(c)' \subseteq Awaiting(c)
    BY <1>3 DEF Awaiting
  <2>4. Due(c) \in {0, 1} /\ Due(c)' \in {0, 1} /\ Due(c)' <= Due(c)
    BY <2>3 DEF Due
  <2> QED
    BY <1>1, <1>2, <2>1, <2>2, <2>4, KeptWithin
<1> QED
  BY <1>4, <1>5 DEF LimiterInv

(* Every tick preserves the invariant. *)
LEMMA TickInv ==
  ASSUME LimiterInv, Limiter!Tick
  PROVE  LimiterInv'
<1>1. Limiter!TypeOK /\ CountersInv
  BY DEF LimiterInv
<1>2. \A c \in Clients : recent'[c] \in PerTick /\ Within(c)'
  BY TickedWithin DEF LimiterInv
<1>3. /\ ttl' = [c \in Clients |-> IF ttl[c] = 0 THEN 0 ELSE ttl[c] - 1]
      /\ count' = [c \in Clients |-> IF ttl[c] = 1 THEN 0 ELSE count[c]]
      /\ recent' = [c \in Clients |-> recent'[c]]
      /\ UNCHANGED <<place, client, faults>>
  BY DEF Limiter!Tick
<1>4. Limiter!TypeOK'
  BY <1>1, <1>2, <1>3, LimitAssumption DEF Limiter!TypeOK, Limiter!Slots, PerTick, Slots
<1>5. CountersInv'
  BY <1>1, <1>3, LimitAssumption DEF CountersInv, Limiter!TypeOK
<1> QED
  BY <1>2, <1>4, <1>5 DEF LimiterInv

(* What INCR answers. *)
LEMMA CountedIs ==
  ASSUME Limiter!TypeOK, NEW c \in Clients
  PROVE  /\ Limiter!Counted(c) \in 1..Limit + 1
         /\ count[c] \in 0..Limit + 1
         /\ Limiter!Counted(c) = IF count[c] > Limit THEN count[c] ELSE count[c] + 1
         /\ Limiter!SetsExpiry(Limiter!Counted(c)) <=> count[c] = 0
<1>1. count[c] \in 0..Limit + 1
  BY DEF Limiter!TypeOK
<1>2. Limiter!Counted(c) = IF count[c] > Limit THEN count[c] ELSE count[c] + 1
  BY DEF Limiter!Counted
<1>3. Limiter!SetsExpiry(Limiter!Counted(c)) <=> Limiter!Counted(c) = 1
  BY DEF Limiter!SetsExpiry
<1> QED
  BY <1>1, <1>2, <1>3, LimitAssumption

(* INCR, whether its answer arrives or not, makes a counter or adds to one, *)
(* and lets the request through only while the limit is not reached.        *)
LEMMA IncrInv ==
  ASSUME LimiterInv, NEW r \in Requests, NEW c \in Clients, Limiter!Incr(r, c)
  PROVE  LimiterInv'
<1> DEFINE n == Limiter!Counted(c)
<1>1. Limiter!TypeOK /\ CountersInv /\ Within(c)
  BY DEF LimiterInv
<1>2. /\ n \in 1..Limit + 1 /\ count[c] \in 0..Limit + 1
      /\ n = IF count[c] > Limit THEN count[c] ELSE count[c] + 1
      /\ Limiter!SetsExpiry(n) <=> count[c] = 0
  BY <1>1, CountedIs
<1>3. place[r] = "idle" /\ count' = [count EXCEPT ![c] = n] /\ UNCHANGED <<ttl, faults>>
  BY DEF Limiter!Incr
<1>4. \A d \in Clients : count'[d] = (IF d = c THEN n ELSE count[d]) /\ count'[d] \in Nat
  BY <1>1, <1>2, <1>3, LimitAssumption DEF Limiter!TypeOK
<1> HIDE DEF n
<1>5. /\ recent[c] \in PerTick /\ Used(c) \in 0..Limit /\ Used(c)' \in 0..Limit
      /\ Used(c) = (IF count[c] > Limit THEN Limit ELSE count[c])
      /\ Used(c)' = IF n > Limit THEN Limit ELSE n
  BY <1>1, <1>2, <1>4, TypesOf, InRange, InRangeNext DEF Used
<1>6. CASE count[c] = 0
  <2>1. /\ place' = [place EXCEPT ![r] = "expire"] /\ client' = [client EXCEPT ![r] = c]
        /\ UNCHANGED recent
    BY <1>2, <1>6 DEF Limiter!Incr, n
  <2>2. \A q \in Requests : /\ place'[q] = IF q = r THEN "expire" ELSE place[q]
                            /\ client'[q] = IF q = r THEN c ELSE client[q]
    BY <1>1, <2>1 DEF Limiter!TypeOK
  <2>3. \A q \in Requests : place[q] = "expire" => client[q] # c
    BY <1>1, <1>6 DEF CountersInv
  <2>4. Due(c) = 0 /\ Due(c)' \in {0, 1}
    BY <2>3 DEF Due, Awaiting
  <2>5. n = 1 /\ Used(c)' = 1 /\ Used(c) = 0 /\ ttl[c] = 0
    BY <1>1, <1>2, <1>5, <1>6, LimitAssumption DEF CountersInv
  <2>6. recent'[c] \in PerTick /\ Within(c)'
    BY <1>1, <1>3, <1>4, <2>1, <2>4, <2>5, KeptWithin
  <2>7. \A d \in Clients \ {c} : Awaiting(d)' \subseteq Awaiting(d)
    BY <2>2 DEF Awaiting
  <2>8. \A d \in Clients : recent'[d] \in PerTick /\ Within(d)'
    BY <1>3, <1>4, <2>1, <2>6, <2>7, OneClient
  <2>9. CountersInv'
    BY <1>1, <1>3, <1>4, <2>2, <2>3, <2>5 DEF CountersInv
  <2>10. Limiter!TypeOK'
    BY <1>1, <1>2, <1>3, <2>1 DEF Limiter!TypeOK, Limiter!Slots
  <2> QED
    BY <2>8, <2>9, <2>10 DEF LimiterInv
<1>7. CASE count[c] # 0
  <2>1. Limiter!Decide(r, c, n)
    BY <1>2, <1>7 DEF Limiter!Incr, n
  <2>2. place'[r] # "expire" /\ \A q \in Requests \ {r} : UNCHANGED <<place[q], client[q]>>
    BY <1>1, <2>1 DEF Limiter!Decide, Limiter!TypeOK
  <2>3. \A d \in Clients : Awaiting(d)' = Awaiting(d) /\ Due(d)' = Due(d)
    BY <1>3, <2>2 DEF Awaiting, Due
  <2>4. Due(c) \in {0, 1}
    BY DEF Due
  <2>5. recent'[c] \in PerTick /\ Within(c)'
    <3>1. CASE Limiter!Exceeded(n)
      <4>1. UNCHANGED recent
        BY <2>1, <3>1 DEF Limiter!Decide
      <4>2. Used(c) <= Used(c)'
        BY <1>2, <1>5, LimitAssumption
      <4> QED
        BY <1>1, <1>3, <1>4, <1>5, <2>3, <2>4, <4>1, <4>2, KeptWithin
    <3>2. CASE ~Limiter!Exceeded(n)
      <4>1. recent' = [recent EXCEPT ![c][0] = @ + 1]
        BY <2>1, <3>2 DEF Limiter!Decide
      <4>2. recent'[c] = [recent[c] EXCEPT ![0] = @ + 1]
        BY <1>1, <4>1 DEF Limiter!TypeOK
      <4>3. Used(c)' = Used(c) + 1
        BY <1>2, <1>5, <3>2, LimitAssumption DEF Limiter!Exceeded
      <4> QED
        BY <1>1, <1>3, <1>4, <1>5, <2>3, <2>4, <4>2, <4>3, PassedWithin
    <3> QED
      BY <3>1, <3>2
  <2>6. \A d \in Clients \ {c} : recent'[d] = recent[d]
    BY <1>1, <2>1 DEF Limiter!Decide, Limiter!TypeOK
  <2>7. \A d \in Clients : recent'[d] \in PerTick /\ Within(d)'
    BY <1>3, <1>4, <2>3, <2>5, <2>6, OneClient
  <2>8. CountersInv'
    BY <1>1, <1>2, <1>3, <1>4, <1>7, <2>2 DEF CountersInv
  <2>9. Limiter!TypeOK'
    <3>1. recent' = [d \in Clients |-> recent'[d]]
      BY <1>1, <2>1 DEF Limiter!Decide, Limiter!TypeOK
    <3>2. recent' \in [Clients -> PerTick]
      BY <2>7, <3>1
    <3>3. /\ place' \in [Requests -> {"idle", "expire", "passed"}]
          /\ client' \in [Requests -> Clients \cup {NoClient}]
      BY <1>1, <2>1 DEF Limiter!Decide, Limiter!TypeOK
    <3>4. count' \in [Clients -> 0..Limit + 1] /\ ttl' = ttl /\ faults' = faults
      BY <1>1, <1>2, <1>3, LimitAssumption DEF Limiter!TypeOK
    <3> QED
      BY <1>1, <3>2, <3>3, <3>4 DEF Limiter!TypeOK, Limiter!Slots, PerTick, Slots
  <2> QED
    BY <2>7, <2>8, <2>9 DEF LimiterInv
<1> QED
  BY <1>6, <1>7

(* An INCR whose answer is lost counts a request that is not let through. *)
LEMMA IncrFailsInv ==
  ASSUME LimiterInv, NEW r \in Requests, NEW c \in Clients, Limiter!IncrFails(r, c)
  PROVE  LimiterInv'
<1> DEFINE n == Limiter!Counted(c)
<1>1. Limiter!TypeOK /\ CountersInv /\ Within(c)
  BY DEF LimiterInv
<1>2. /\ n \in 1..Limit + 1 /\ count[c] \in 0..Limit + 1
      /\ n = IF count[c] > Limit THEN count[c] ELSE count[c] + 1
  BY <1>1, CountedIs
<1>3. /\ count' = [count EXCEPT ![c] = n] /\ UNCHANGED <<ttl, place, client, recent>>
      /\ faults' \in 0..MaxFaults
  BY <1>1, LimitAssumption DEF Limiter!IncrFails, Limiter!TypeOK
<1>4. \A d \in Clients : count'[d] = (IF d = c THEN n ELSE count[d]) /\ count'[d] \in Nat
  BY <1>1, <1>2, <1>3, LimitAssumption DEF Limiter!TypeOK
<1> HIDE DEF n
<1>5. \A d \in Clients : Awaiting(d)' = Awaiting(d) /\ Due(d)' = Due(d)
  BY <1>3 DEF Awaiting, Due
<1>6. Used(c) \in Nat /\ Used(c)' \in Nat /\ Used(c) <= Used(c)' /\ Due(c) \in {0, 1}
  BY <1>2, <1>4, LimitAssumption DEF Used, Due
<1>7. recent'[c] \in PerTick /\ Within(c)'
  BY <1>1, <1>3, <1>4, <1>5, <1>6, KeptWithin
<1>8. \A d \in Clients : Within(d)'
  BY <1>3, <1>4, <1>5, <1>7, OneClient
<1>9. Limiter!TypeOK' /\ CountersInv'
  <2>1. Limiter!TypeOK'
    BY <1>1, <1>2, <1>3 DEF Limiter!TypeOK, Limiter!Slots
  <2> QED
    BY <1>1, <1>2, <1>3, <1>4, <2>1 DEF CountersInv
<1> QED
  BY <1>8, <1>9 DEF LimiterInv

(* EXPIRE: the request that made the counter goes through, or fails. *)
LEMMA ExpireInv ==
  ASSUME LimiterInv, NEW r \in Requests, Limiter!Expire(r) \/ Limiter!ExpireFails(r)
  PROVE  LimiterInv'
<1>1. Limiter!TypeOK /\ CountersInv
  BY DEF LimiterInv
<1> PICK c \in Clients : c = client[r]
  BY <1>1 DEF CountersInv, Limiter!Expire, Limiter!ExpireFails
<1>2. place[r] = "expire" /\ c \in Clients /\ count[c] > 0 /\ ttl[c] = 0
  BY <1>1 DEF CountersInv, Limiter!Expire, Limiter!ExpireFails
<1>3. /\ UNCHANGED count /\ faults' \in 0..MaxFaults
      /\ ttl' \in {ttl, [ttl EXCEPT ![c] = Window]}
  BY <1>1, LimitAssumption DEF Limiter!Expire, Limiter!ExpireFails, Limiter!TypeOK
<1>4. /\ place' \in [Requests -> {"idle", "expire", "passed"}]
      /\ client' \in [Requests -> Clients \cup {NoClient}]
      /\ place'[r] # "expire"
      /\ \A q \in Requests \ {r} : UNCHANGED <<place[q], client[q]>>
  BY <1>1, <1>2 DEF Limiter!Expire, Limiter!ExpireFails, Limiter!Decide, Limiter!Leave,
                    Limiter!TypeOK
<1>5. \/ recent' = recent
      \/ recent' = [recent EXCEPT ![c][0] = @ + 1] /\ ttl' = [ttl EXCEPT ![c] = Window]
  BY DEF Limiter!Expire, Limiter!ExpireFails, Limiter!Decide
<1>6. Awaiting(c) # {} /\ Awaiting(c)' = {}
  BY <1>1, <1>2, <1>4 DEF Awaiting, CountersInv
<1>7. Due(c) = 1 /\ Due(c)' = 0
  BY <1>6 DEF Due
<1>8. Used(c)' = Used(c) /\ Used(c) \in Nat
  BY <1>1, <1>2, <1>3, TypesOf, InRange, LimitAssumption DEF Used
<1>9. \A d \in Clients : count'[d] = count[d] /\ count'[d] \in Nat
  BY <1>1, <1>3, TypesOf
<1>10. /\ ttl'[c] = ttl[c] \/ ttl'[c] = Window
       /\ \A d \in Clients \ {c} : ttl'[d] = ttl[d] /\ recent'[d] = recent[d]
  BY <1>1, <1>2, <1>3, <1>5 DEF Limiter!TypeOK
<1>11. recent'[c] \in PerTick /\ Within(c)'
  <2>1. Within(c)
    BY <1>2 DEF LimiterInv
  <2>2. CASE recent' = recent
    BY <1>1, <1>2, <1>7, <1>8, <1>9, <1>10, <2>1, <2>2, KeptWithin
  <2>3. CASE recent' = [recent EXCEPT ![c][0] = @ + 1] /\ ttl' = [ttl EXCEPT ![c] = Window]
    <3>1. recent'[c] = [recent[c] EXCEPT ![0] = @ + 1] /\ ttl'[c] = Window
      BY <1>1, <1>2, <2>3 DEF Limiter!TypeOK
    <3> QED
      BY <1>1, <1>2, <1>7, <1>8, <1>9, <2>1, <3>1, PassedWithin
  <2> QED
    BY <1>5, <2>2, <2>3
<1>12. \A d \in Clients \ {c} : Awaiting(d)' \subseteq Awaiting(d)
  BY <1>4 DEF Awaiting
<1>13. \A d \in Clients : recent'[d] \in PerTick /\ Within(d)'
  BY <1>2, <1>9, <1>10, <1>11, <1>12, OneClient
<1>14. Limiter!TypeOK'
  <2>1. recent' = [d \in Clients |-> recent'[d]]
    BY <1>1, <1>5 DEF Limiter!TypeOK
  <2>2. recent' \in [Clients -> PerTick]
    BY <1>13, <2>1
  <2>3. ttl' \in [Clients -> 0..Window] /\ count' = count
    BY <1>1, <1>2, <1>3, LimitAssumption DEF Limiter!TypeOK
  <2> QED
    BY <1>1, <1>3, <1>4, <2>2, <2>3 DEF Limiter!TypeOK, Limiter!Slots, PerTick, Slots
<1>15. CountersInv'
  <2>1. \A q \in Requests : place'[q] = "expire" => client'[q] # c /\ q # r
    BY <1>1, <1>2, <1>4 DEF CountersInv
  <2> QED
    BY <1>1, <1>2, <1>4, <1>9, <1>10, <2>1 DEF CountersInv
<1> QED
  BY <1>13, <1>14, <1>15 DEF LimiterInv

(* Every step of the system preserves the limiter's invariant. *)
LEMMA LimiterNext == LimiterInv /\ [Next]_vars => LimiterInv'
<1> SUFFICES ASSUME LimiterInv, [Next]_vars
             PROVE  LimiterInv'
  OBVIOUS
<1>1. CASE UNCHANGED limiter
  BY <1>1 DEF LimiterInv, limiter, Limiter!TypeOK, Limiter!Slots, CountersInv, Within, Passes,
              Young, Due, Used, Awaiting, Slots
<1> QED
  BY <1>1, LimiterSteps, LeavesInv, TickInv, IncrInv, IncrFailsInv, ExpireInv
     DEF LimiterInv

(* LimiterInv is an invariant. *)
LEMMA AlwaysLimiterInv == Spec => []LimiterInv
  BY LimiterInit, LimiterNext, PTL DEF Spec

-----------------------------------------------------------------------------
(* The limiter counts with the same operator. *)
LEMMA SameCardinality == \A S : Limiter!Cardinality(S) = Cardinality(S)
  BY DEF Limiter!Cardinality, Cardinality

(* A client gets no more than twice the limit through within any 60         *)
(* seconds, whatever commands fail and however requests overlap.            *)
THEOREM AtMostTwiceLimit == Spec => []TwiceLimit
<1>1. LimiterInv => TwiceLimit
  <2> SUFFICES ASSUME LimiterInv, NEW c \in Clients
               PROVE  Cardinality(Limiter!LetThrough(c, Limiter!Slots)) <= 2 * Limit
    BY SameCardinality DEF TwiceLimit, Limiter!TwiceLimit
  <2>1. /\ Passes(c, Slots) \in Nat /\ Passes(c, Slots) + Due(c) <= Limit + Used(c)
        /\ Due(c) \in {0, 1} /\ Used(c) \in 0..Limit
    BY TypesOf, PassesTyped, InRange DEF LimiterInv, Within
  <2>2. Cardinality(Limiter!LetThrough(c, Limiter!Slots)) = Passes(c, Slots)
    BY DEF Limiter!LetThrough, Limiter!Slots, Passes, Tokens, Slots
  <2> HIDE DEF LimiterInv
  <2> QED
    BY <2>1, <2>2, LimitAssumption
<1> QED
  BY <1>1, AlwaysLimiterInv, PTL

(* A registration under way has its email, and the rows have theirs. *)
RowsInv == users \subseteq Rows /\ \A r \in Requests : step[r] # "none" => email[r] \in Emails

(* Rows have emails of the requests. *)
LEMMA RowsNext == HandlerTypes /\ RowsInv /\ [Next]_vars => RowsInv'
<1> SUFFICES ASSUME HandlerTypes, RowsInv, [Next]_vars
             PROVE  RowsInv'
  OBVIOUS
<1>1. CASE UNCHANGED <<users, handler>>
  BY <1>1 DEF RowsInv, handler
<1>2. ASSUME NEW r \in Requests, Respond(r) \/ HandlerFails(r)
      PROVE  \A q \in Requests : step'[q] # "none" => email'[q] \in Emails
  BY <1>2 DEF Respond, HandlerFails, HandlerTypes, RowsInv
<1>3. ASSUME NEW r \in Requests, HandlerFails(r)
      PROVE  RowsInv'
  BY <1>2, <1>3 DEF HandlerFails, RowsInv
<1>4. ASSUME NEW r \in Requests, NEW e \in Emails, Register(r, e)
      PROVE  RowsInv'
  BY <1>4 DEF Register, HandlerTypes, RowsInv
<1>5. ASSUME NEW r \in Requests, CheckExisting(r)
      PROVE  RowsInv'
  <2>1. CASE Respond(r) /\ UNCHANGED users
    BY <1>2, <2>1 DEF RowsInv
  <2>2. CASE step[r] = "check" /\ step' = [step EXCEPT ![r] = "count"] /\ UNCHANGED <<users, email>>
    BY <2>2 DEF HandlerTypes, RowsInv
  <2> QED
    BY <1>5, <2>1, <2>2 DEF CheckExisting
<1>6. ASSUME NEW r \in Requests, CountUsers(r)
      PROVE  RowsInv'
  BY <1>6 DEF CountUsers, HandlerTypes, RowsInv
<1>7. ASSUME NEW r \in Requests, Commit(r)
      PROVE  RowsInv'
  <2>1. NewRow(r) \in Rows
    BY <1>7 DEF Commit, NewRow, HandlerTypes, RowsInv, Rows
  <2> QED
    BY <1>2, <1>7, <2>1 DEF Commit, RowsInv
<1> QED
  BY <1>1, <1>3, <1>4, <1>5, <1>6, <1>7 DEF Next, vars, Tick, Middleware, register_user

(* Counters, requests and rows are well-typed; within one tick a client     *)
(* never gets more than the limit through.                                  *)
THEOREM AccountsAreTyped == Spec => []TypeOK
<1>1. Init => RowsInv
  BY DEF Init, RowsInv
<1>2. AccountsInv => HandlerTypes
  BY DEF AccountsInv
<1>3. HandlerTypes /\ RowsInv /\ LimiterInv => TypeOK
  BY DEF HandlerTypes, RowsInv, LimiterInv, TypeOK
<1> QED
  BY <1>1, <1>2, <1>3, RowsNext, AlwaysInv, AlwaysLimiterInv, PTL DEF Spec
=============================================================================

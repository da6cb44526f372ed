------------------------------ MODULE Credentials ------------------------------
(***************************************************************************)
(* Tokens and API keys (AuthService, server/app/dependencies.py): a user   *)
(* logs in and gets a token, an administrator makes API keys, and requests *)
(* come in with either.  Each database statement of a request is a step;   *)
(* between two of them the operator deactivates users and keys or takes    *)
(* rights away, for which the code has columns and no operations.          *)
(*                                                                         *)
(* A token keeps its user and exp and is known to whoever logged in; a key *)
(* stands for its row and for the secret that only its creator is told.    *)
(***************************************************************************)
EXTENDS Naturals, FiniteSets

CONSTANTS
  Users, Keys, Requests,
  TokenLife,   \* jwt_access_token_expire_minutes
  MaxClock,    \* bound on time
  MaxTokens,   \* bound on logins
  Nobody

(* What the constants are. *)
AccessInputs ==
  /\ TokenLife \in Nat /\ MaxClock \in Nat
  /\ Users \cap Keys = {}   \* ids of users and keys differ

VARIABLES
  clock,
  users,       \* rows of the users table: is_active, is_admin
  keys,        \* rows of the api_keys table, made or not: is_active, last_used_at
  tokens,      \* tokens that were issued
  told,        \* keys whose secret has been answered
  step,        \* request -> what it awaits
  credential,  \* request -> the token or key it came with
  read,        \* request -> the row of its key as it was selected
  principal,   \* request -> who it is, and whether an administrator
  revoked,     \* keys and users the operator has deactivated
  late         \* request -> its credential was revoked when it came in

session == <<step, credential, read, principal, late>>
vars == <<clock, users, keys, tokens, told, session, revoked>>

NoRow == [made |-> FALSE, is_active |-> FALSE, last_used_at |-> 0]
Anonymous == [id |-> Nobody, is_admin |-> FALSE]

Init ==
  /\ clock = 0
  /\ users \in [Users -> {[is_active |-> TRUE, is_admin |-> b] : b \in BOOLEAN}]
  /\ keys = [k \in Keys |-> NoRow]
  /\ tokens = {} /\ told = {}
  /\ step = [r \in Requests |-> "idle"]
  /\ credential = [r \in Requests |-> Nobody]
  /\ read = [r \in Requests |-> NoRow]
  /\ principal = [r \in Requests |-> Anonymous]
  /\ revoked = {}
  /\ late = [r \in Requests |-> FALSE]

-----------------------------------------------------------------------------
(* authenticate with the right password; any other one is refused. *)
Authenticate(u) ==
  /\ Cardinality(tokens) < MaxTokens
  /\ users[u].is_active
  /\ tokens' = tokens \cup {[user |-> u, exp |-> clock + TokenLife]}
  /\ UNCHANGED <<clock, users, keys, told, session, revoked>>

ComeIn(r, next, cred, is_late) ==
  /\ step[r] = "idle"
  /\ step' = [step EXCEPT ![r] = next]
  /\ credential' = [credential EXCEPT ![r] = cred]
  /\ late' = [late EXCEPT ![r] = is_late]

Leave(r) ==
  /\ step' = [step EXCEPT ![r] = "idle"]
  /\ credential' = [credential EXCEPT ![r] = Nobody]
  /\ read' = [read EXCEPT ![r] = NoRow]
  /\ principal' = [principal EXCEPT ![r] = Anonymous]
  /\ late' = [late EXCEPT ![r] = FALSE]

Admit(r, id, is_admin) ==
  /\ step' = [step EXCEPT ![r] = "admitted"]
  /\ principal' = [principal EXCEPT ![r] = [id |-> id, is_admin |-> is_admin]]

(* decode_access_token raises for an expired token, so it does not come in. *)
PresentToken(r, t) ==
  /\ t.exp > clock
  /\ ComeIn(r, "get_user", t.user, t.user \in revoked)
  /\ UNCHANGED <<clock, users, keys, tokens, told, read, principal, revoked>>

GetUser(r) ==
  /\ step[r] = "get_user"
  /\ LET u == credential[r]
     IN \/ /\ users[u].is_active
           /\ Admit(r, u, users[u].is_admin)
           /\ UNCHANGED <<credential, read, late>>
        \/ /\ ~users[u].is_active
           /\ Leave(r)
  /\ UNCHANGED <<clock, users, keys, tokens, told, revoked>>

(* The SELECT of the key; a key that is not active is refused. *)
PresentKey(r, k) ==
  /\ k \in told /\ keys[k].is_active
  /\ ComeIn(r, "touch", k, k \in revoked)
  /\ read' = [read EXCEPT ![r] = keys[k]]
  /\ UNCHANGED <<clock, users, keys, tokens, told, principal, revoked>>

(* Variant: the row is written as it was read. *)
TouchWholeRow(r) ==
  /\ step[r] = "touch"
  /\ keys' = [keys EXCEPT ![credential[r]] = [read[r] EXCEPT !.last_used_at = clock]]
  /\ Admit(r, credential[r], FALSE)
  /\ UNCHANGED <<clock, users, tokens, told, credential, read, revoked, late>>

(* Variant: the principal of a key has the rights of the one who made it. *)
TouchAsAdmin(r) ==
  /\ step[r] = "touch"
  /\ keys' = [keys EXCEPT ![credential[r]].last_used_at = clock]
  /\ Admit(r, credential[r], TRUE)
  /\ UNCHANGED <<clock, users, tokens, told, credential, read, revoked, late>>

(* The commit writes the one column that was set; a key is no administrator. *)
Touch(r) ==
  /\ step[r] = "touch"
  /\ keys' = [keys EXCEPT ![credential[r]].last_used_at = clock]
  /\ Admit(r, credential[r], FALSE)
  /\ UNCHANGED <<clock, users, tokens, told, credential, read, revoked, late>>

(* create_api_key, behind require_admin_principal; 403 for others. *)
CreateApiKey(r) ==
  /\ step[r] = "admitted" /\ principal[r].is_admin
  /\ step' = [step EXCEPT ![r] = "commit"]
  /\ UNCHANGED <<clock, users, keys, tokens, told, credential, read, principal, revoked, late>>

Commit(r, k) ==
  /\ step[r] = "commit" /\ ~keys[k].made
  /\ keys' = [keys EXCEPT ![k] = [made |-> TRUE, is_active |-> TRUE, last_used_at |-> 0]]
  /\ step' = [step EXCEPT ![r] = "refresh"]
  /\ credential' = [credential EXCEPT ![r] = k]
  /\ UNCHANGED <<clock, users, tokens, told, read, principal, revoked, late>>

(* refresh, and the only response that ever has the secret. *)
AnswerKey(r) ==
  /\ step[r] = "refresh"
  /\ told' = told \cup {credential[r]}
  /\ Leave(r)
  /\ UNCHANGED <<clock, users, keys, tokens, revoked>>

(* Any other request is answered, a statement raises, or the API restarts   *)
(* or loses its client; tokens and committed rows stay.                     *)
EndRequest(r) ==
  /\ step[r] # "idle"
  /\ Leave(r)
  /\ UNCHANGED <<clock, users, keys, tokens, told, revoked>>

-----------------------------------------------------------------------------
DeactivateUser(u) ==
  /\ users[u].is_active
  /\ users' = [users EXCEPT ![u].is_active = FALSE]
  /\ revoked' = revoked \cup {u}
  /\ UNCHANGED <<clock, keys, tokens, told, session>>

Demote(u) ==
  /\ users[u].is_admin
  /\ users' = [users EXCEPT ![u].is_admin = FALSE]
  /\ UNCHANGED <<clock, keys, tokens, told, session, revoked>>

DeactivateKey(k) ==
  /\ keys[k].is_active
  /\ keys' = [keys EXCEPT ![k].is_active = FALSE]
  /\ revoked' = revoked \cup {k}
  /\ UNCHANGED <<clock, users, tokens, told, session>>

Tick ==
  /\ clock < MaxClock
  /\ clock' = clock + 1
  /\ UNCHANGED <<users, keys, tokens, told, session, revoked>>

Next ==
  \/ Tick
  \/ \E u \in Users : Authenticate(u) \/ DeactivateUser(u) \/ Demote(u)
  \/ \E k \in Keys : DeactivateKey(k)
  \/ \E r \in Requests :
       \/ \E t \in tokens : PresentToken(r, t)
       \/ \E k \in Keys : PresentKey(r, k)
       \/ \E k \in Keys : Commit(r, k)
       \/ GetUser(r) \/ Touch(r) \/ CreateApiKey(r) \/ AnswerKey(r) \/ EndRequest(r)

Spec == Init /\ [][Next]_vars

-----------------------------------------------------------------------------
KeyRows == [made : BOOLEAN, is_active : BOOLEAN, last_used_at : 0..MaxClock]

(* Types of the authentication's variables. *)
TypeOK ==
  /\ clock \in 0..MaxClock
  /\ users \in [Users -> [is_active : BOOLEAN, is_admin : BOOLEAN]]
  /\ keys \in [Keys -> KeyRows]
  /\ tokens \subseteq [user : Users, exp : 0..MaxClock + TokenLife]
  /\ told \subseteq Keys
  /\ step \in [Requests -> {"idle", "get_user", "touch", "admitted", "commit", "refresh"}]
  /\ credential \in [Requests -> Users \cup Keys \cup {Nobody}]
  /\ read \in [Requests -> KeyRows]
  /\ principal \in [Requests -> [id : Users \cup Keys \cup {Nobody}, is_admin : BOOLEAN]]
  /\ revoked \subseteq Users \cup Keys
  /\ late \in [Requests -> BOOLEAN]

Admitted(r) == step[r] \in {"admitted", "commit", "refresh"}

(* Once the operator has deactivated a user or a key, no request that comes *)
(* in with its token or secret is let through, although requests under way  *)
(* with the same key write its row once more.                               *)
RevokedAreOut == \A r \in Requests : late[r] => ~Admitted(r)

NoAdministrator ==
  /\ \A u \in Users : ~(users[u].is_active /\ users[u].is_admin)
  /\ \A r \in Requests : ~principal[r].is_admin

(* When the last administrator is gone, and no request of one is under way, *)
(* nobody has an administrator's rights again, whatever tokens and keys are *)
(* about, and no API key is ever made again.                                *)
NoRightsReturn ==
  [][NoAdministrator =>
       NoAdministrator' /\ \A k \in Keys : keys'[k].made = keys[k].made]_vars
=============================================================================

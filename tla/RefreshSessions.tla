-------------------------- MODULE RefreshSessions --------------------------
(***************************************************************************)
(* Refresh-token sessions of AuthService (src/app/services/auth_service.py)*)
(* over the two stores they live in:                                       *)
(*   Redis, where every command takes effect at once and for good, and     *)
(*   PostgreSQL, where a request's writes wait for the commit that get_db  *)
(*   (src/app/db/session.py) makes after the response has been sent.       *)
(*                                                                         *)
(* A request is a coroutine of the event loop: it can be suspended at each *)
(* await, so each action below is one awaited command with the straight    *)
(* Python code around it, and requests interleave between them.            *)
(*                                                                         *)
(* Time is left out: tokens are looked at before they, and their keys and  *)
(* markers in Redis, expire or are evicted.  TokenLifetime has the clocks. *)
(***************************************************************************)
EXTENDS Naturals, FiniteSets

CONSTANTS Users,      \* the accounts
          Jtis,       \* the token identifiers that can be minted: a bound
          Requests,   \* the requests that can be in flight at once: a bound
          Nil,        \* None
          Overlap,    \* may two requests of one user be in flight together?
          Faults      \* may a request fail at any await?

ASSUME SessionsAssumption ==
  /\ Nil \notin Users \cup Jtis
  /\ Overlap \in BOOLEAN
  /\ Faults \in BOOLEAN

VARIABLES
  \* the tokens
  sub,          \* sub[j]: subject claim of refresh token j, Nil until minted
  parent,       \* history: the token j replaced, Nil if j came from a login
  family,       \* history: the login token at the start of j's chain
  delivered,    \* the refresh tokens that reached a client
  late,         \* history: tokens of a closed account that were issued between
                \* the beginning and the commit of its deletion
  \* Redis
  refreshKey,   \* lr:auth:refresh:{jti} -> user id, Nil if there is no key
  revokedKey,   \* the jtis with a key lr:auth:refresh:revoked:{jti}
  userSessions, \* lr:auth:user_sessions:{user} -> set of jtis
  \* PostgreSQL, as committed
  sessionRow,   \* user_sessions row of jti: "absent", "open", "revoked"
  isActive,     \* users.is_active
  \* PostgreSQL, the open transaction of each request
  touched,      \* rows of user_sessions it has updated and holds locked
  userLock,     \* its lock on the users row: "none", "noKey", "key"
  \* the requests
  pc, op, uid, jti, newJti,
  todo,         \* what is left of the jtis read with SMEMBERS; later, the
                \* rows an UPDATE found open when it started
  held          \* history: tokens the clients of the user held when a
                \* request that revokes all sessions began

tokenVars == <<sub, parent, family, delivered, late>>
redisVars == <<refreshKey, revokedKey, userSessions>>
dbVars    == <<sessionRow, isActive>>
txVars    == <<touched, userLock>>
reqVars   == <<op, uid, jti, newJti, todo, held>>
vars == <<tokenVars, redisVars, dbVars, txVars, pc, reqVars>>

Issuing  == {"login", "refresh"}
Revoking == {"revoke_all", "delete_account", "reset_password"}

PcValues == {"idle", "checkKey", "delKey", "mark", "srem", "updateRow",
             "loadUser", "setKey", "sadd", "smembers", "loop", "loopMark",
             "flushUser", "updateRows", "lockRows", "deactivate", "raise", "respond",
             "commit"}

TypeOK ==
  /\ sub \in [Jtis -> Users \cup {Nil}]
  /\ parent \in [Jtis -> Jtis \cup {Nil}]
  /\ family \in [Jtis -> Jtis \cup {Nil}]
  /\ delivered \subseteq Jtis /\ late \subseteq Jtis
  /\ refreshKey \in [Jtis -> Users \cup {Nil}]
  /\ revokedKey \subseteq Jtis
  /\ userSessions \in [Users -> SUBSET Jtis]
  /\ sessionRow \in [Jtis -> {"absent", "open", "revoked"}]
  /\ isActive \in [Users -> BOOLEAN]
  /\ touched \in [Requests -> SUBSET Jtis]
  /\ userLock \in [Requests -> {"none", "noKey", "key"}]
  /\ pc \in [Requests -> PcValues]
  /\ op \in [Requests -> Issuing \cup Revoking \cup {"logout", "none"}]
  /\ uid \in [Requests -> Users \cup {Nil}]
  /\ jti \in [Requests -> Jtis \cup {Nil}]
  /\ newJti \in [Requests -> Jtis \cup {Nil}]
  /\ todo \in [Requests -> SUBSET Jtis]
  /\ held \in [Requests -> SUBSET Jtis]

\* Registered, active users nobody has logged in as yet.
Init ==
  /\ sub = [j \in Jtis |-> Nil]
  /\ parent = [j \in Jtis |-> Nil]
  /\ family = [j \in Jtis |-> Nil]
  /\ delivered = {} /\ late = {}
  /\ refreshKey = [j \in Jtis |-> Nil]
  /\ revokedKey = {}
  /\ userSessions = [u \in Users |-> {}]
  /\ sessionRow = [j \in Jtis |-> "absent"]
  /\ isActive = [u \in Users |-> TRUE]
  /\ touched = [r \in Requests |-> {}]
  /\ userLock = [r \in Requests |-> "none"]
  /\ pc = [r \in Requests |-> "idle"]
  /\ op = [r \in Requests |-> "none"]
  /\ uid = [r \in Requests |-> Nil]
  /\ jti = [r \in Requests |-> Nil]
  /\ newJti = [r \in Requests |-> Nil]
  /\ todo = [r \in Requests |-> {}]
  /\ held = [r \in Requests |-> {}]

-----------------------------------------------------------------------------
(* Helpers                                                                 *)

Step(r, from, to) == pc[r] = from /\ pc' = [pc EXCEPT ![r] = to]

\* The refresh tokens of u some client holds.
Held(u) == {j \in delivered : sub[j] = u}

Minted == {j \in Jtis : sub[j] # Nil}

\* Rotations in flight that have yet to mint their token.
Reserved == {r \in Requests :
  op[r] = "refresh" /\ pc[r] \in {"checkKey", "delKey", "mark", "srem", "updateRow", "loadUser"}}

\* Bound: a request that may mint a token starts only if one is left for it.
JtiLeft == Cardinality(Jtis) > Cardinality(Minted) + Cardinality(Reserved)

OpenRows(u) == {j \in Jtis : sub[j] = u /\ sessionRow[j] = "open"}

\* A request of u enters the event loop.  Without overlap the user waits for
\* the answer to one request before sending the next, which may well find the
\* transaction of the first still open.
Admit(r, u) ==
  /\ pc[r] = "idle"
  /\ Overlap \/ \A q \in Requests : uid[q] = u => pc[q] = "commit"

Begin(r, o, u, j, to) ==
  /\ Step(r, "idle", to)
  /\ op' = [op EXCEPT ![r] = o]
  /\ uid' = [uid EXCEPT ![r] = u]
  /\ jti' = [jti EXCEPT ![r] = j]
  /\ held' = [held EXCEPT ![r] = IF o \in Revoking \/ to = "smembers" THEN Held(u) ELSE {}]
  /\ UNCHANGED todo

\* get_current_user lets through the access token of an active account;
\* access tokens are issued together with refresh tokens.
CurrentUser(u) == Held(u) # {} /\ isActive[u]

\* The request r waits for a row lock that q holds until q commits or rolls
\* back.  Only an update of e-mail or user name ("key") makes the foreign-key
\* check of an INSERT INTO user_sessions wait.
WaitsFor(r, q) ==
  /\ q # r
  /\ \/ pc[r] = "updateRow" /\ jti[r] \in touched[q]
     \/ pc[r] = "lockRows" /\ todo[r] \cap touched[q] # {}
     \/ /\ uid[r] = uid[q]
        /\ \/ pc[r] \in {"flushUser", "deactivate"} /\ userLock[q] # "none"
           \/ pc[r] = "commit" /\ op[r] = "login" /\ userLock[q] # "none"
           \/ pc[r] = "commit" /\ op[r] = "refresh" /\ userLock[q] = "key"

Granted(r) == \A q \in Requests : ~WaitsFor(r, q)

\* The request is over: its transaction is gone and with it its locks.
Release(r) ==
  /\ pc' = [pc EXCEPT ![r] = "idle"]
  /\ op' = [op EXCEPT ![r] = "none"]
  /\ uid' = [uid EXCEPT ![r] = Nil]
  /\ jti' = [jti EXCEPT ![r] = Nil]
  /\ newJti' = [newJti EXCEPT ![r] = Nil]
  /\ todo' = [todo EXCEPT ![r] = {}]
  /\ held' = [held EXCEPT ![r] = {}]
  /\ touched' = [touched EXCEPT ![r] = {}]
  /\ userLock' = [userLock EXCEPT ![r] = "none"]

\* Mutation: the failed transaction is left open and keeps its locks.
RollbackForgotten(r) ==
  /\ pc' = [pc EXCEPT ![r] = "idle"]
  /\ uid' = [uid EXCEPT ![r] = Nil]
  /\ UNCHANGED <<op, jti, newJti, todo, held, tokenVars, redisVars, dbVars, txVars>>

\* An exception reaches get_db: rollback.  What was done in Redis stays done.
Rollback(r) == Release(r) /\ UNCHANGED <<tokenVars, redisVars, dbVars>>

\* create_token: a fresh jti, known to this request only.
Mint(r, u) ==
  \E j \in Jtis \ Minted :
    /\ sub' = [sub EXCEPT ![j] = u]
    /\ newJti' = [newJti EXCEPT ![r] = j]
    /\ UNCHANGED <<parent, family, delivered, late>>

-----------------------------------------------------------------------------
(* login: the account is read, the tokens are created                      *)

Login(r, u) ==
  /\ Admit(r, u) /\ JtiLeft
  /\ isActive[u]
  /\ Begin(r, "login", u, Nil, "setKey")
  /\ Mint(r, u)
  /\ UNCHANGED <<redisVars, dbVars, txVars>>

-----------------------------------------------------------------------------
(* _store_refresh_session: SETEX, then SADD (with EXPIRE and the pending   *)
(* INSERT of the row of newJti), then the handler returns                  *)

\* Mutation: SETEX stores the jti where the user id belongs.
StoreKeySwapped(r) ==
  /\ Step(r, "setKey", "sadd")
  /\ refreshKey' = [refreshKey EXCEPT ![newJti[r]] = newJti[r]]
  /\ UNCHANGED <<tokenVars, revokedKey, userSessions, dbVars, txVars, reqVars>>

StoreKey(r) ==
  LET j == newJti[r] IN
  /\ Step(r, "setKey", "sadd")
  /\ refreshKey' = [refreshKey EXCEPT ![j] = uid[r]]
  /\ parent' = [parent EXCEPT ![j] = jti[r]]
  /\ family' = [family EXCEPT ![j] = IF jti[r] = Nil THEN j ELSE family[jti[r]]]
  /\ UNCHANGED <<sub, delivered, late, revokedKey, userSessions, dbVars, txVars, reqVars>>

StoreMember(r) ==
  /\ Step(r, "sadd", "respond")
  /\ userSessions' = [userSessions EXCEPT ![uid[r]] = @ \cup {newJti[r]}]
  /\ UNCHANGED <<tokenVars, refreshKey, revokedKey, dbVars, txVars, reqVars>>

-----------------------------------------------------------------------------
(* refresh                                                                 *)

\* The token was marked revoked: all sessions of the user are revoked.
RefreshReuse(r, j) ==
  /\ Admit(r, sub[j])
  /\ j \in delivered \cap revokedKey
  /\ Begin(r, "refresh", sub[j], j, "smembers")
  /\ UNCHANGED <<newJti, tokenVars, redisVars, dbVars, txVars>>

Refresh(r, j) ==
  /\ Admit(r, sub[j]) /\ JtiLeft
  /\ j \in delivered \ revokedKey
  /\ Begin(r, "refresh", sub[j], j, "checkKey")
  /\ UNCHANGED <<newJti, tokenVars, redisVars, dbVars, txVars>>

CheckKey(r) ==
  \/ /\ Step(r, "checkKey", "delKey")
     /\ refreshKey[jti[r]] = uid[r]
     /\ UNCHANGED <<tokenVars, redisVars, dbVars, txVars, reqVars>>
  \/ /\ pc[r] = "checkKey" /\ refreshKey[jti[r]] # uid[r]
     /\ Rollback(r)

\* Mutation: the new pair of tokens is issued under the jti of the old one.
LoadUserSameJti(r) ==
  /\ Step(r, "loadUser", "setKey")
  /\ isActive[uid[r]]
  /\ newJti' = [newJti EXCEPT ![r] = jti[r]]
  /\ UNCHANGED <<tokenVars, redisVars, dbVars, txVars, op, uid, jti, todo, held>>

\* The account is read again; an inactive one gets invalid_credentials.
LoadUser(r) ==
  \/ /\ Step(r, "loadUser", "setKey")
     /\ isActive[uid[r]]
     /\ Mint(r, uid[r])
     /\ UNCHANGED <<redisVars, dbVars, txVars, op, uid, jti, todo, held>>
  \/ /\ pc[r] = "loadUser" /\ ~isActive[uid[r]]
     /\ Rollback(r)

-----------------------------------------------------------------------------
(* logout starts here; refresh arrives from CheckKey.                      *)
(* _revoke_refresh_session: DEL, SETEX of the revoked marker, SREM, UPDATE *)

Logout(r, j) ==
  /\ Admit(r, sub[j])
  /\ j \in delivered
  /\ Begin(r, "logout", sub[j], j, "delKey")
  /\ UNCHANGED <<newJti, tokenVars, redisVars, dbVars, txVars>>

\* Mutation: rotation only marks the token and forgets its key.
DeleteKeyForgotten(r) ==
  /\ Step(r, "delKey", "mark")
  /\ UNCHANGED <<tokenVars, redisVars, dbVars, txVars, reqVars>>

DeleteKey(r) ==
  /\ Step(r, "delKey", "mark")
  /\ refreshKey' = [refreshKey EXCEPT ![jti[r]] = Nil]
  /\ UNCHANGED <<tokenVars, revokedKey, userSessions, dbVars, txVars, reqVars>>

\* Mutation: rotation deletes the key and leaves no marker behind.
MarkRevokedForgotten(r) ==
  /\ Step(r, "mark", "srem")
  /\ UNCHANGED <<tokenVars, redisVars, dbVars, txVars, reqVars>>

MarkRevoked(r) ==
  /\ Step(r, "mark", "srem")
  /\ revokedKey' = revokedKey \cup {jti[r]}
  /\ UNCHANGED <<tokenVars, refreshKey, userSessions, dbVars, txVars, reqVars>>

\* Mutation: DEL of the whole set instead of SREM of one member.
RemoveMemberAll(r) ==
  /\ Step(r, "srem", "updateRow")
  /\ userSessions' = [userSessions EXCEPT ![uid[r]] = {}]
  /\ UNCHANGED <<tokenVars, refreshKey, revokedKey, dbVars, txVars, reqVars>>

RemoveMember(r) ==
  /\ Step(r, "srem", "updateRow")
  /\ userSessions' = [userSessions EXCEPT ![uid[r]] = @ \ {jti[r]}]
  /\ UNCHANGED <<tokenVars, refreshKey, revokedKey, dbVars, txVars, reqVars>>

\* Mutation: the WHERE clause names the user and not the jti.
UpdateRowAll(r) ==
  /\ Step(r, "updateRow", IF op[r] = "logout" THEN "respond" ELSE "loadUser")
  /\ touched' = [touched EXCEPT ![r] = @ \cup OpenRows(uid[r])]
  /\ UNCHANGED <<tokenVars, redisVars, dbVars, userLock, reqVars>>

UpdateRow(r) ==
  /\ Step(r, "updateRow", IF op[r] = "logout" THEN "respond" ELSE "loadUser")
  /\ Granted(r)
  /\ touched' = [touched EXCEPT ![r] = @ \cup ({jti[r]} \cap OpenRows(uid[r]))]
  /\ UNCHANGED <<tokenVars, redisVars, dbVars, userLock, reqVars>>

-----------------------------------------------------------------------------
(* revoke-all-sessions, delete-account, reset-password                     *)

\* Mutation: the account is deactivated and its Redis keys are left alone.
RevokeAllSessionsInDbOnly(r, u) ==
  /\ Admit(r, u) /\ CurrentUser(u)
  /\ Begin(r, "delete_account", u, Nil, "updateRows")
  /\ UNCHANGED <<newJti, tokenVars, redisVars, dbVars, txVars>>

RevokeAllSessions(r, u) ==
  /\ Admit(r, u) /\ CurrentUser(u)
  /\ \E o \in {"revoke_all", "delete_account"} : Begin(r, o, u, Nil, "smembers")
  /\ UNCHANGED <<newJti, tokenVars, redisVars, dbVars, txVars>>

\* Whoever holds a valid one-time reset token of u; is_active is not read.
ResetPassword(r, u) ==
  /\ Admit(r, u)
  /\ Begin(r, "reset_password", u, Nil, "smembers")
  /\ UNCHANGED <<newJti, tokenVars, redisVars, dbVars, txVars>>

(* _revoke_all_sessions: SMEMBERS, per member DEL and SETEX of the marker, *)
(* DEL of the set, UPDATE of all open rows of the user                     *)

ReadMembers(r) ==
  /\ Step(r, "smembers", "loop")
  /\ todo' = [todo EXCEPT ![r] = userSessions[uid[r]]]
  /\ UNCHANGED <<tokenVars, redisVars, dbVars, txVars, op, uid, jti, newJti, held>>

\* Mutation: the loop marks its members and leaves their keys.
LoopDeleteForgotten(r) ==
  \E j \in todo[r] :
    /\ Step(r, "loop", "loopMark")
    /\ jti' = [jti EXCEPT ![r] = j]
    /\ UNCHANGED <<tokenVars, redisVars, dbVars, txVars, op, uid, newJti, todo, held>>

LoopDelete(r) ==
  \E j \in todo[r] :
    /\ Step(r, "loop", "loopMark")
    /\ refreshKey' = [refreshKey EXCEPT ![j] = Nil]
    /\ jti' = [jti EXCEPT ![r] = j]
    /\ UNCHANGED <<tokenVars, revokedKey, userSessions, dbVars, txVars,
                   op, uid, newJti, todo, held>>

\* Mutation: the loop ends after its first member.
LoopMarkOnce(r) ==
  /\ Step(r, "loopMark", "loop")
  /\ revokedKey' = revokedKey \cup {jti[r]}
  /\ todo' = [todo EXCEPT ![r] = {}]
  /\ UNCHANGED <<tokenVars, refreshKey, userSessions, dbVars, txVars,
                 op, uid, jti, newJti, held>>

LoopMark(r) ==
  /\ Step(r, "loopMark", "loop")
  /\ revokedKey' = revokedKey \cup {jti[r]}
  /\ todo' = [todo EXCEPT ![r] = @ \ {jti[r]}]
  /\ UNCHANGED <<tokenVars, refreshKey, userSessions, dbVars, txVars,
                 op, uid, jti, newJti, held>>

DropSet(r) ==
  /\ todo[r] = {}
  /\ Step(r, "loop", IF op[r] = "reset_password" THEN "flushUser" ELSE "updateRows")
  /\ userSessions' = [userSessions EXCEPT ![uid[r]] = {}]
  /\ UNCHANGED <<tokenVars, refreshKey, revokedKey, dbVars, txVars, reqVars>>

\* The UPDATE below first autoflushes the new password hash of reset_password.
FlushUser(r) ==
  /\ Step(r, "flushUser", "updateRows")
  /\ Granted(r)
  /\ userLock' = [userLock EXCEPT ![r] = "noKey"]
  /\ UNCHANGED <<tokenVars, redisVars, dbVars, touched, reqVars>>

AfterRows(r) == CASE op[r] = "refresh" -> "raise"
                  [] op[r] = "delete_account" -> "deactivate"
                  [] OTHER -> "respond"

\* The UPDATE sees the rows as committed when it starts.  If all it finds are
\* free it changes them at once.
UpdateRows(r) ==
  /\ Step(r, "updateRows", AfterRows(r))
  /\ \A q \in Requests \ {r} : OpenRows(uid[r]) \cap touched[q] = {}
  /\ touched' = [touched EXCEPT ![r] = @ \cup OpenRows(uid[r])]
  /\ UNCHANGED <<tokenVars, redisVars, dbVars, userLock, reqVars>>

\* If another transaction has locked one of them it waits, ...
FindRows(r) ==
  /\ Step(r, "updateRows", "lockRows")
  /\ \E q \in Requests \ {r} : OpenRows(uid[r]) \cap touched[q] # {}
  /\ todo' = [todo EXCEPT ![r] = OpenRows(uid[r])]
  /\ UNCHANGED <<tokenVars, redisVars, dbVars, txVars, op, uid, jti, newJti, held>>

\* ... and then changes those it found that are still open: a row committed in
\* the meantime is missed.
LockRows(r) ==
  /\ Step(r, "lockRows", AfterRows(r))
  /\ Granted(r)
  /\ touched' = [touched EXCEPT ![r] = @ \cup (todo[r] \cap OpenRows(uid[r]))]
  /\ todo' = [todo EXCEPT ![r] = {}]
  /\ UNCHANGED <<tokenVars, redisVars, dbVars, userLock, op, uid, jti, newJti, held>>

\* refresh raises token_reuse_detected, which the router turns into a 401.
RaiseReuse(r) == pc[r] = "raise" /\ Rollback(r)

\* deactivate_account flushes is_active = False and the anonymised e-mail.
Deactivate(r) ==
  /\ Step(r, "deactivate", "respond")
  /\ Granted(r)
  /\ userLock' = [userLock EXCEPT ![r] = "key"]
  /\ UNCHANGED <<tokenVars, redisVars, dbVars, touched, reqVars>>

-----------------------------------------------------------------------------
(* The response leaves first, then get_db resumes after its yield          *)

Respond(r) ==
  /\ Step(r, "respond", "commit")
  /\ delivered' = IF op[r] \in Issuing THEN delivered \cup {newJti[r]} ELSE delivered
  /\ UNCHANGED <<sub, parent, family, late, redisVars, dbVars, txVars, reqVars>>

Commit(r) ==
  /\ pc[r] = "commit"
  /\ Granted(r)
  /\ sessionRow' = [j \in Jtis |->
       IF j \in touched[r] THEN "revoked"
       ELSE IF op[r] \in Issuing /\ j = newJti[r] THEN "open"
       ELSE sessionRow[j]]
  /\ isActive' = [u \in Users |->
       isActive[u] /\ ~(op[r] = "delete_account" /\ u = uid[r])]
  /\ late' = IF op[r] = "delete_account"
             THEN late \cup {j \in Minted \ held[r] : sub[j] = uid[r]}
             ELSE late
  /\ Release(r)
  /\ UNCHANGED <<sub, parent, family, delivered, redisVars>>

-----------------------------------------------------------------------------
(* Failures                                                                *)

\* A Redis or database error or timeout, a cancelled request, a crash of the
\* worker: the coroutine ends between two awaits.
Fail(r) == Faults /\ pc[r] # "idle" /\ Rollback(r)

\* PostgreSQL finds a cycle of waiting transactions and aborts one of them.
DeadlockVictim(r) ==
  /\ \E q \in Requests : WaitsFor(r, q) /\ WaitsFor(q, r)
  /\ Rollback(r)

-----------------------------------------------------------------------------
Handle(r) ==
  \/ StoreKey(r) \/ StoreMember(r)
  \/ CheckKey(r) \/ LoadUser(r)
  \/ DeleteKey(r) \/ MarkRevoked(r) \/ RemoveMember(r) \/ UpdateRow(r)
  \/ ReadMembers(r) \/ LoopDelete(r) \/ LoopMark(r) \/ DropSet(r)
  \/ FlushUser(r) \/ UpdateRows(r) \/ FindRows(r) \/ LockRows(r)
  \/ RaiseReuse(r) \/ Deactivate(r)
  \/ Respond(r) \/ Commit(r)

Arrive(r) ==
  \/ \E u \in Users : Login(r, u) \/ RevokeAllSessions(r, u) \/ ResetPassword(r, u)
  \/ \E j \in Jtis : Refresh(r, j) \/ RefreshReuse(r, j) \/ Logout(r, j)

Next == \E r \in Requests : Arrive(r) \/ Handle(r) \/ Fail(r) \/ DeadlockVictim(r)

Spec == Init /\ [][Next]_vars

\* The event loop resumes every coroutine whose await is done, PostgreSQL
\* grants its row locks in the order they were asked for and breaks deadlocks.
\* Clients owe nobody a request.
Fairness == \A r \in Requests :
  SF_vars(Handle(r)) /\ WF_vars(DeadlockVictim(r))

FairSpec == Spec /\ Fairness

-----------------------------------------------------------------------------
(* Properties that hold whatever overlaps and whatever fails               *)

\* A token with a revoked marker never has a key as well, so whichever of the
\* two GETs of refresh comes first, a revoked token is not accepted
\* (refresh, _revoke_refresh_session and _revoke_all_sessions in any order).
LiveNotRevoked == \A j \in Jtis : refreshKey[j] # Nil => j \notin revokedKey

\* A rotated token is dead and marked before its successor exists: there is no
\* moment at which old and new are both accepted, and a replay of the old one
\* is always recognised as reuse (refresh, lines 151 to 170).
SuccessorAfterRevocation ==
  \A k \in Jtis : parent[k] # Nil =>
    parent[k] \in revokedKey /\ refreshKey[parent[k]] = Nil

\* The sessions implement TokenRegistry: a token nobody has stored as yet is
\* unissued, one with a key is live, any other is dead.
Unissued(j) == sub[j] = Nil \/ \E r \in Requests : pc[r] = "setKey" /\ newJti[r] = j

Status(j) ==
  IF refreshKey[j] # Nil THEN "live" ELSE IF Unissued(j) THEN "unissued" ELSE "dead"

Holder(j) == IF Unissued(j) THEN Nil ELSE sub[j]

Registry == INSTANCE TokenRegistry WITH
  status <- [j \in Jtis |-> Status(j)],
  holder <- [j \in Jtis |-> Holder(j)],
  origin <- parent,
  OneSuccessor <- ~Overlap

\* Every step of a request is a step of TokenRegistry or leaves it alone: no
\* dead token comes back to life, whatever order the Redis commands of two
\* requests take effect in, and wherever a request fails.
ImplementsRegistry == Registry!Spec

-----------------------------------------------------------------------------
(* Properties of users who wait for each answer before they send the next  *)
(* request; each request may fail at any await, and the next may overtake  *)
(* the commit of the one before                                            *)

\* A login has at most one live token, however often it is rotated and however
\* often a rotation fails half way (refresh).
OneLivePerLogin == Registry!OneLivePerFamily

\* A refresh token is single-use: no two tokens replace the same one (refresh).
SingleSuccessor == \A j, k \in Jtis : parent[j] # Nil /\ parent[j] = parent[k] => j = k

\* Every live token a client holds is in the set _revoke_all_sessions reads.
\* A crash between SETEX and SADD leaves a key outside the set, but then the
\* token never reached a client (_store_refresh_session).
DeliveredIndexed ==
  \A j \in delivered : refreshKey[j] # Nil => j \in userSessions[sub[j]]

\* When revoke-all-sessions, delete-account, reset-password or a detected reuse
\* answers, no token the user's clients held when it began is live
\* (_revoke_all_sessions).
RevokeAllComplete ==
  \A r \in Requests :
    (op[r] \in Revoking /\ pc[r] \in {"respond", "commit"}) \/ pc[r] = "raise"
      => \A j \in held[r] : refreshKey[j] = Nil

\* A row that says revoked is never ahead of Redis: its token is dead
\* (Redis is written before the UPDATE, the UPDATE is kept only by the commit).
RevokedRowNotLive ==
  \A j \in Jtis : sessionRow[j] = "revoked" => refreshKey[j] = Nil

\* A client of a deleted account holds no live token but one that was issued
\* between the beginning and the commit of the deletion: with users who wait for
\* answers that is a login, or a refresh after it, that overtook the commit and
\* found the account active.  Whatever was issued before is dead, and once the
\* deletion is committed nothing is issued any more (delete_account).
InactiveHasNoSessions ==
  \A j \in delivered \ late : refreshKey[j] # Nil => isActive[sub[j]]

-----------------------------------------------------------------------------
(* Properties of the database, when no request of the user is in flight    *)

Quiet(u) == \A r \in Requests : uid[r] # u

\* Without failures, an open row stands for a token that is still live.  Reuse
\* detection does not keep this: it revokes in Redis, and get_db then rolls
\* back the UPDATE of revoked_at because the handler raised.
OpenRowLive ==
  \A j \in delivered : Quiet(sub[j]) /\ sessionRow[j] = "open" => refreshKey[j] # Nil

-----------------------------------------------------------------------------
(* Liveness                                                                *)

\* Every request ends, also when its transaction waits for a row of another
\* request, and when reset-password (users row, then user_sessions rows) and
\* delete-account (the other way round) wait for each other.
RequestTerminates == \A r \in Requests : pc[r] # "idle" ~> pc[r] = "idle"
=============================================================================

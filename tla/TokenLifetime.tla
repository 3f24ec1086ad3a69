--------------------------- MODULE TokenLifetime ---------------------------
(***************************************************************************)
(* The refresh tokens of one user against the clock: how long a token is   *)
(* accepted (src/app/core/security.py), how long Redis remembers it as     *)
(* live or as revoked and lists it in the user's set                       *)
(* (src/app/services/auth_service.py), and what happens when those times   *)
(* are not the same, when a request stops half way, and when Redis evicts  *)
(* a key (src/docker/docker-compose.yml, allkeys-lru).                     *)
(*                                                                         *)
(* RefreshSessions has the interleaving of requests and no clock; here is  *)
(* one request at a time, and time passes between any two of its awaits.   *)
(*                                                                         *)
(* Time is counted in ticks of a fraction of a second, since exp is a      *)
(* whole number of seconds and Redis counts milliseconds.  Each lifetime   *)
(* is a count-down, 0 when it is over.  A jti without any trace left       *)
(* stands for a new one.                                                   *)
(***************************************************************************)
EXTENDS Integers

CONSTANTS Jtis,     \* token identifiers in use at a time: a bound
          Second,   \* ticks in a second
          Ttl,      \* refresh_token_expire_days, in ticks
          Nil       \* None

ASSUME LifetimeAssumption ==
  /\ Second \in Nat \ {0}
  /\ Ttl \in Nat \ {0} /\ Ttl % Second = 0
  /\ Nil \notin Jtis

VARIABLES
  phase,      \* how far the current second has got
  tokenLeft,  \* tokenLeft[j]: ticks in which the signed token is still accepted
  delivered,  \* tokens that reached a client
  keyLeft,    \* ticks left of lr:auth:refresh:{jti}
  markLeft,   \* ticks left of lr:auth:refresh:revoked:{jti}
  members,    \* lr:auth:user_sessions:{user}
  setLeft,    \* ticks left of that set, 0 if it has no expiry or is not there
  pc, op, jti, todo,  \* the request in flight
  spent,      \* history: tokens that have been rotated, logged out or revoked
  stranded,   \* history: tokens whose key outlived the set that listed them,
              \* which Redis evicted or which expired between SADD and EXPIRE
  happened    \* history: "fault", "eviction", once there was one; "stray", once
              \* a fault came between SADD and EXPIRE of a set without expiry

redisVars == <<keyLeft, markLeft, members, setLeft>>
vars == <<phase, tokenLeft, delivered, redisVars, pc, op, jti, todo, spent,
          stranded, happened>>

Ops == {"login", "refresh", "logout", "revoke_all", "none"}

PcValues == {"idle", "setKey", "sadd", "expire", "respond", "checkKey",
             "delKey", "mark", "srem", "loadUser", "smembers", "loop",
             "loopMark", "revoked"}

TypeOK ==
  /\ phase \in 0..(Second - 1)
  /\ tokenLeft \in [Jtis -> 0..(Ttl + Second)]
  /\ delivered \subseteq Jtis
  /\ keyLeft \in [Jtis -> 0..Ttl] /\ markLeft \in [Jtis -> 0..Ttl]
  /\ members \subseteq Jtis
  /\ setLeft \in 0..Ttl
  /\ pc \in PcValues /\ op \in Ops
  /\ jti \in Jtis \cup {Nil} /\ todo \subseteq Jtis
  /\ spent \subseteq Jtis /\ stranded \subseteq Jtis
  /\ happened \subseteq {"fault", "eviction", "stray"}

Init ==
  /\ phase = 0
  /\ tokenLeft = [j \in Jtis |-> 0]
  /\ delivered = {}
  /\ keyLeft = [j \in Jtis |-> 0] /\ markLeft = [j \in Jtis |-> 0]
  /\ members = {} /\ setLeft = 0
  /\ pc = "idle" /\ op = "none" /\ jti = Nil /\ todo = {}
  /\ spent = {} /\ stranded = {} /\ happened = {}

-----------------------------------------------------------------------------
(* Time                                                                    *)

Less(n) == IF n = 0 THEN 0 ELSE n - 1

\* SADD has reached a set that expires before EXPIRE arrives: EXPIRE will find
\* no set, and the new jti, whose key is fresh, goes with the old ones.
Lapsing == setLeft = 1 /\ pc = "expire"

Tick ==
  /\ phase' = (phase + 1) % Second
  /\ tokenLeft' = [j \in Jtis |-> Less(tokenLeft[j])]
  /\ keyLeft' = [j \in Jtis |-> Less(keyLeft[j])]
  /\ markLeft' = [j \in Jtis |-> Less(markLeft[j])]
  /\ setLeft' = Less(setLeft)
  /\ members' = IF setLeft = 1 THEN {} ELSE members
  /\ stranded' = IF Lapsing THEN stranded \cup {jti} ELSE stranded
  /\ UNCHANGED <<delivered, pc, op, jti, todo, spent, happened>>

-----------------------------------------------------------------------------
(* Helpers                                                                 *)

Go(from, to) == pc = from /\ pc' = to

\* The request is over, answered or not.
End == pc' = "idle" /\ op' = "none" /\ jti' = Nil /\ todo' = {}

Begin(o, j, to) == Go("idle", to) /\ op' = o /\ jti' = j /\ UNCHANGED todo

Unused(j) ==
  tokenLeft[j] = 0 /\ keyLeft[j] = 0 /\ markLeft[j] = 0 /\ j \notin members

\* Mutation: exp is rounded up, also when it is a whole second already.
MintLater(j) ==
  /\ Unused(j)
  /\ tokenLeft' = [tokenLeft EXCEPT ![j] = Ttl + 2 * Second - phase]
  /\ jti' = j
  /\ delivered' = delivered \ {j} /\ spent' = spent \ {j}
  /\ stranded' = stranded \ {j}

\* create_token: exp is now + Ttl without the fraction of the second, and
\* jwt.decode refuses once the second of exp is over.
Mint(j) ==
  /\ Unused(j)
  /\ tokenLeft' = [tokenLeft EXCEPT ![j] = Ttl + Second - phase]
  /\ jti' = j
  /\ delivered' = delivered \ {j} /\ spent' = spent \ {j}
  /\ stranded' = stranded \ {j}

Accepted(j) == j \in delivered /\ tokenLeft[j] > 0

-----------------------------------------------------------------------------
(* login, and _store_refresh_session                                       *)

Login(j) ==
  /\ Go("idle", "setKey") /\ op' = "login"
  /\ Mint(j)
  /\ UNCHANGED <<phase, redisVars, todo, happened>>

StoreKey ==
  /\ Go("setKey", "sadd")
  /\ keyLeft' = [keyLeft EXCEPT ![jti] = Ttl]
  /\ UNCHANGED <<phase, tokenLeft, delivered, markLeft, members, setLeft,
                 op, jti, todo, spent, stranded, happened>>

\* SADD makes a set without expiry or leaves the expiry of the one there is.
StoreMember ==
  /\ Go("sadd", "expire")
  /\ members' = members \cup {jti}
  /\ UNCHANGED <<phase, tokenLeft, delivered, keyLeft, markLeft, setLeft,
                 op, jti, todo, spent, stranded, happened>>

\* Mutation: EXPIRE with NX, a set that has an expiry keeps it.
ExpireSetOnce ==
  /\ Go("expire", "respond")
  /\ setLeft' = IF members = {} THEN 0 ELSE IF setLeft = 0 THEN Ttl ELSE setLeft
  /\ UNCHANGED <<phase, tokenLeft, delivered, keyLeft, markLeft, members,
                 op, jti, todo, spent, stranded, happened>>

\* Mutation: no EXPIRE at all.
ExpireSetNever ==
  /\ Go("expire", "respond")
  /\ UNCHANGED <<phase, tokenLeft, delivered, redisVars, op, jti, todo, spent, stranded, happened>>

\* EXPIRE of a set that is gone does nothing.
ExpireSet ==
  /\ Go("expire", "respond")
  /\ setLeft' = IF members = {} THEN 0 ELSE Ttl
  /\ UNCHANGED <<phase, tokenLeft, delivered, keyLeft, markLeft, members,
                 op, jti, todo, spent, stranded, happened>>

Respond ==
  /\ pc = "respond"
  /\ delivered' = IF op \in {"login", "refresh"} THEN delivered \cup {jti} ELSE delivered
  /\ End
  /\ UNCHANGED <<phase, tokenLeft, redisVars, spent, stranded, happened>>

-----------------------------------------------------------------------------
(* refresh, logout, and _revoke_refresh_session                            *)

\* verify_token, then GET of the marker.
Refresh(j) ==
  /\ Accepted(j)
  /\ Begin("refresh", j, IF markLeft[j] > 0 THEN "smembers" ELSE "checkKey")
  /\ UNCHANGED <<phase, tokenLeft, delivered, redisVars, spent, stranded, happened>>

\* Mutation: a token without a key is taken for a replay.
CheckKeyStrict ==
  /\ Go("checkKey", IF keyLeft[jti] > 0 THEN "delKey" ELSE "smembers")
  /\ UNCHANGED <<phase, tokenLeft, delivered, redisVars, op, jti, todo, spent, stranded, happened>>

\* GET of the key; without one the answer is invalid_token.
CheckKey ==
  /\ \/ /\ Go("checkKey", "delKey") /\ keyLeft[jti] > 0
        /\ UNCHANGED <<op, jti, todo>>
     \/ pc = "checkKey" /\ keyLeft[jti] = 0 /\ End
  /\ UNCHANGED <<phase, tokenLeft, delivered, redisVars, spent, stranded, happened>>

\* An expired token is answered without looking at it further.
Logout(j) ==
  /\ Accepted(j)
  /\ Begin("logout", j, "delKey")
  /\ UNCHANGED <<phase, tokenLeft, delivered, redisVars, spent, stranded, happened>>

\* Mutation: the marker alone is to tell that the token is revoked.
DeleteKeyForgotten ==
  /\ Go("delKey", "mark")
  /\ spent' = spent \cup {jti}
  /\ UNCHANGED <<phase, tokenLeft, delivered, redisVars, op, jti, todo, stranded, happened>>

DeleteKey ==
  /\ Go("delKey", "mark")
  /\ keyLeft' = [keyLeft EXCEPT ![jti] = 0]
  /\ spent' = spent \cup {jti}
  /\ UNCHANGED <<phase, tokenLeft, delivered, markLeft, members, setLeft,
                 op, jti, todo, stranded, happened>>

\* Mutation: the marker gets the lifetime of an access token.
MarkRevokedShort ==
  /\ Go("mark", "srem")
  /\ markLeft' = [markLeft EXCEPT ![jti] = 1]
  /\ UNCHANGED <<phase, tokenLeft, delivered, keyLeft, members, setLeft,
                 op, jti, todo, spent, stranded, happened>>

MarkRevoked ==
  /\ Go("mark", "srem")
  /\ markLeft' = [markLeft EXCEPT ![jti] = Ttl]
  /\ UNCHANGED <<phase, tokenLeft, delivered, keyLeft, members, setLeft,
                 op, jti, todo, spent, stranded, happened>>

\* Mutation: DEL of the set instead of SREM of one member.
RemoveMemberAll ==
  /\ Go("srem", IF op = "logout" THEN "respond" ELSE "loadUser")
  /\ members' = {} /\ setLeft' = 0
  /\ UNCHANGED <<phase, tokenLeft, delivered, keyLeft, markLeft,
                 op, jti, todo, spent, stranded, happened>>

\* SREM of the last member removes the set and its expiry.
RemoveMember ==
  /\ Go("srem", IF op = "logout" THEN "respond" ELSE "loadUser")
  /\ members' = members \ {jti}
  /\ setLeft' = IF members' = {} THEN 0 ELSE setLeft
  /\ UNCHANGED <<phase, tokenLeft, delivered, keyLeft, markLeft,
                 op, jti, todo, spent, stranded, happened>>

\* The account is gone or closed: invalid_credentials.
RefuseUser ==
  /\ pc = "loadUser"
  /\ End
  /\ UNCHANGED <<phase, tokenLeft, delivered, redisVars, spent, stranded, happened>>

\* The account is open: a successor is minted.
LoadUser(j) ==
  /\ Go("loadUser", "setKey")
  /\ Mint(j)
  /\ UNCHANGED <<phase, redisVars, op, todo, happened>>

-----------------------------------------------------------------------------
(* revoke-all-sessions, reset-password, delete-account, a detected reuse:  *)
(* _revoke_all_sessions                                                    *)

RevokeAll ==
  /\ Begin("revoke_all", Nil, "smembers")
  /\ UNCHANGED <<phase, tokenLeft, delivered, redisVars, spent, stranded, happened>>

ReadMembers ==
  /\ Go("smembers", "loop")
  /\ todo' = members
  /\ UNCHANGED <<phase, tokenLeft, delivered, redisVars, op, jti, spent, stranded, happened>>

LoopDelete(j) ==
  /\ j \in todo
  /\ Go("loop", "loopMark")
  /\ keyLeft' = [keyLeft EXCEPT ![j] = 0]
  /\ jti' = j
  /\ spent' = spent \cup {j}
  /\ UNCHANGED <<phase, tokenLeft, delivered, markLeft, members, setLeft,
                 op, todo, stranded, happened>>

LoopMark ==
  /\ Go("loopMark", "loop")
  /\ markLeft' = [markLeft EXCEPT ![jti] = Ttl]
  /\ todo' = todo \ {jti}
  /\ UNCHANGED <<phase, tokenLeft, delivered, keyLeft, members, setLeft,
                 op, jti, spent, stranded, happened>>

DropSet ==
  /\ todo = {}
  /\ Go("loop", "revoked")
  /\ members' = {} /\ setLeft' = 0
  /\ UNCHANGED <<phase, tokenLeft, delivered, keyLeft, markLeft,
                 op, jti, todo, spent, stranded, happened>>

\* all_sessions_revoked, or token_reuse_detected.
Answer ==
  /\ pc = "revoked"
  /\ End
  /\ UNCHANGED <<phase, tokenLeft, delivered, redisVars, spent, stranded, happened>>

-----------------------------------------------------------------------------
(* Faults and evictions                                                    *)

\* An error, a cancelled request, a crash.
Fail ==
  /\ pc # "idle"
  /\ End
  /\ happened' = happened \cup {"fault"}
                 \cup IF pc = "expire" /\ setLeft = 0 THEN {"stray"} ELSE {}
  /\ UNCHANGED <<phase, tokenLeft, delivered, redisVars, spent, stranded>>

\* Redis is short of memory and drops any of its keys.
Evict ==
  /\ \/ \E j \in Jtis :
          /\ keyLeft[j] > 0
          /\ keyLeft' = [keyLeft EXCEPT ![j] = 0]
          /\ UNCHANGED <<markLeft, members, setLeft, stranded>>
     \/ \E j \in Jtis :
          /\ markLeft[j] > 0
          /\ markLeft' = [markLeft EXCEPT ![j] = 0]
          /\ UNCHANGED <<keyLeft, members, setLeft, stranded>>
     \/ /\ members # {}
        /\ members' = {} /\ setLeft' = 0
        /\ stranded' = stranded \cup {j \in members : keyLeft[j] > 0}
        /\ UNCHANGED <<keyLeft, markLeft>>
  /\ happened' = happened \cup {"eviction"}
  /\ UNCHANGED <<phase, tokenLeft, delivered, pc, op, jti, todo, spent>>

-----------------------------------------------------------------------------
Arrive == RevokeAll \/ \E j \in Jtis : Login(j) \/ Refresh(j) \/ Logout(j)

Handle ==
  \/ StoreKey \/ StoreMember \/ ExpireSet \/ Respond
  \/ CheckKey \/ DeleteKey \/ MarkRevoked \/ RemoveMember
  \/ ReadMembers \/ LoopMark \/ DropSet \/ Answer \/ RefuseUser
  \/ \E j \in Jtis : LoadUser(j) \/ LoopDelete(j)

Next == Tick \/ Arrive \/ Handle \/ Fail \/ Evict

Spec == Init /\ [][Next]_vars

\* Time passes.
FairSpec == Spec /\ WF_vars(Tick)

-----------------------------------------------------------------------------
\* A token that was rotated, logged out or revoked is not rotated once more,
\* whatever has expired or has been evicted since: the missing key refuses it
\* where the marker no longer does (refresh, lines 142 to 149).
SpentNotRotated == [][Go("checkKey", "delKey") => jti \notin spent]_vars

\* Only a token that has been spent is ever taken for a replay.  A late client
\* whose key has run out in the last second of its token, or has been evicted,
\* is turned away, and the other sessions of the user are left alone.
OnlySpentIsReuse ==
  [][pc' = "smembers" /\ pc # "smembers" /\ op' = "refresh" => jti' \in spent]_vars

\* The moments at which a revocation has deleted a key and not marked its jti.
Unmarked == IF pc \in {"mark", "loopMark"} THEN {jti} ELSE {}

\* Redis remembers a token, as live or as revoked, for as long as the token is
\* accepted, but for its last second: so a replay is recognised as one, and a
\* client that comes in time is served.
Remembered ==
  happened \cap {"fault", "eviction"} = {} =>
    \A j \in delivered \ Unmarked :
      tokenLeft[j] > Second => keyLeft[j] > 0 \/ markLeft[j] > 0

\* The user's set lists every live token of a client and stays at least as long
\* as the key of the token (_store_refresh_session renews its expiry), but for
\* the tokens that were in the set when Redis evicted it, and for a token whose
\* SADD met the set in its last moment: then the set expires before EXPIRE comes,
\* and that one token, no older one, lives on outside (lines 248 and 249).
IndexOutlivesKey ==
  \A j \in delivered \ stranded : keyLeft[j] > 0 =>
    j \in members /\ (setLeft = 0 \/ setLeft >= keyLeft[j])

\* When a revocation of all sessions is answered, no client holds a live token,
\* however long it took and whatever expired meanwhile, but for tokens that an
\* eviction of the set, or its expiry between SADD and EXPIRE, had left outside.
RevokeAllReaches ==
  pc = "revoked" => \A j \in delivered \ stranded : keyLeft[j] = 0

\* Redis forgets a user who does not come back.  The one exception is a request
\* that ended between SADD and EXPIRE of a set it had just created: that set
\* stays, with nothing in Redis for the tokens it lists.
Empty == members = {} /\ \A j \in Jtis : keyLeft[j] = 0 /\ markLeft[j] = 0

Stray ==
  /\ "stray" \in happened /\ setLeft = 0
  /\ \A j \in Jtis : keyLeft[j] = 0 /\ markLeft[j] = 0

FadesAway == []<>(pc # "idle") \/ <>[]Empty \/ <>[]Stray
=============================================================================

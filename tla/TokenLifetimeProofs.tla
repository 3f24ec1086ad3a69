------------------------ MODULE TokenLifetimeProofs ------------------------
(***************************************************************************)
(* Proofs about TokenLifetime, for any token lifetime, any number of ticks *)
(* in a second and any number of tokens.                                   *)
(*                                                                         *)
(* The inductive invariant relates the count-downs of one token: the key   *)
(* (before the token is spent) or the marker (after) runs out at most one  *)
(* second before the token does, and the set no earlier than the key of    *)
(* any token it lists.                                                     *)
(***************************************************************************)
EXTENDS TokenLifetime, TLAPS

Issuing == {"login", "refresh"}

\* The request has put the key of its new token into Redis and not answered.
Stored == pc \in {"sadd", "expire"} \/ (pc = "respond" /\ op \in Issuing)

\* What the local variables of the request hold at each of its awaits.
Control ==
  /\ pc \in {"setKey", "sadd", "expire"} => op \in Issuing
  /\ pc \in {"checkKey", "loadUser"} => op = "refresh"
  /\ pc \in {"delKey", "mark", "srem"} => op \in {"refresh", "logout"}
  /\ pc \in {"checkKey", "delKey"} => jti \in Jtis
  /\ pc \in {"mark", "srem", "loopMark"} => jti \in Jtis /\ jti \in spent
  /\ pc = "setKey" \/ Stored => jti \in Jtis \ (spent \cup delivered)

\* Spent tokens have no key, and only they have a marker.
Dead == \A j \in Jtis : /\ j \in spent => keyLeft[j] = 0
                        /\ markLeft[j] > 0 => j \in spent

\* The key, or else the marker, runs out at most a second before the token.
Timed ==
  happened \cap {"fault", "eviction"} = {} =>
    /\ \A j \in delivered \ spent : tokenLeft[j] <= keyLeft[j] + Second
    /\ \A j \in (delivered \cap spent) \ Unmarked : tokenLeft[j] <= markLeft[j] + Second
    /\ Stored => tokenLeft[jti] <= keyLeft[jti] + Second

\* The set lists the live token j and does not run out before its key.
Listed(j) == keyLeft[j] > 0 => j \in members /\ (setLeft = 0 \/ setLeft >= keyLeft[j])

\* Tokens that have lost their set are set apart.
Indexed ==
  /\ \A j \in delivered \ stranded : Listed(j)
  /\ pc = "expire" => jti \in members \cup stranded \/ keyLeft[jti] = 0
  /\ pc = "respond" /\ op \in Issuing => Listed(jti) \/ jti \in stranded
  /\ pc \in {"loop", "loopMark"} =>
       \A j \in delivered \ stranded : keyLeft[j] > 0 => j \in todo
  /\ pc = "revoked" => \A j \in delivered \ stranded : keyLeft[j] = 0

IInv == TypeOK /\ Control /\ Dead /\ Timed /\ Indexed

-----------------------------------------------------------------------------
LEMMA InitInv == Init => IInv
BY LifetimeAssumption
DEF Init, IInv, TypeOK, Control, Dead, Timed, Indexed, Listed, Stored, Unmarked,
    Issuing, Ops, PcValues

\* Typing apart from the rest keeps the steps below small.
LEMMA TypeStep == TypeOK /\ Control /\ [Next]_vars => TypeOK'
<1> SUFFICES ASSUME TypeOK, Control, [Next]_vars PROVE TypeOK'
  OBVIOUS
<1> USE LifetimeAssumption DEF TypeOK, Ops, PcValues
<1>1. CASE Tick
  BY <1>1 DEF Tick, Less, Lapsing, Control, Stored
<1>2. CASE RevokeAll
  BY <1>2 DEF RevokeAll, Begin, Go, redisVars
<1>3. ASSUME NEW j \in Jtis, Login(j) PROVE TypeOK'
  BY <1>3 DEF Login, Go, Mint, redisVars
<1>4. ASSUME NEW j \in Jtis, Refresh(j) \/ Logout(j) PROVE TypeOK'
  BY <1>4 DEF Refresh, Logout, Begin, Go, redisVars
<1>5. ASSUME NEW j \in Jtis, LoadUser(j) PROVE TypeOK'
  BY <1>5 DEF LoadUser, Go, Mint, redisVars
<1>6. ASSUME NEW j \in Jtis, LoopDelete(j) PROVE TypeOK'
  BY <1>6 DEF LoopDelete, Go
<1>7. CASE StoreKey
  BY <1>7 DEF StoreKey, Go, Control
<1>8. CASE StoreMember
  BY <1>8 DEF StoreMember, Go, Control, Stored
<1>9. CASE ExpireSet
  BY <1>9 DEF ExpireSet, Go
<1>10. CASE Respond
  BY <1>10 DEF Respond, End, redisVars, Control, Stored, Issuing
<1>11. CASE CheckKey
  BY <1>11 DEF CheckKey, Go, End, redisVars
<1>12. CASE DeleteKey
  BY <1>12 DEF DeleteKey, Go, Control
<1>13. CASE MarkRevoked
  BY <1>13 DEF MarkRevoked, Go, Control
<1>14. CASE RemoveMember
  BY <1>14 DEF RemoveMember, Go
<1>15. CASE ReadMembers
  BY <1>15 DEF ReadMembers, Go, redisVars
<1>16. CASE LoopMark
  BY <1>16 DEF LoopMark, Go, Control
<1>17. CASE DropSet
  BY <1>17 DEF DropSet, Go
<1>18. CASE Answer
  BY <1>18 DEF Answer, End, redisVars
<1>19. CASE Fail \/ RefuseUser
  BY <1>19 DEF Fail, RefuseUser, End, redisVars
<1>20. CASE Evict
  BY <1>20 DEF Evict
<1>21. CASE UNCHANGED vars
  BY <1>21 DEF vars, redisVars
<1> QED
  BY <1>1, <1>2, <1>3, <1>4, <1>5, <1>6, <1>7, <1>8, <1>9, <1>10, <1>11, <1>12, <1>13, <1>14, <1>15, <1>16, <1>17, <1>18, <1>19, <1>20, <1>21
  DEF Next, Arrive, Handle

LEMMA ControlStep == IInv /\ [Next]_vars => Control' /\ Dead'
<1> SUFFICES ASSUME TypeOK, Control, Dead, [Next]_vars PROVE Control' /\ Dead'
  BY DEF IInv
<1> USE LifetimeAssumption DEF TypeOK, Control, Dead, Stored, Issuing
<1>1. CASE Tick
  BY <1>1 DEF Tick, Less
<1>2. CASE Arrive
  BY <1>2 DEF Arrive, RevokeAll, Login, Refresh, Logout, Begin, Go, Mint, Unused,
              Accepted, redisVars
<1>3. CASE StoreKey \/ StoreMember \/ ExpireSet \/ Respond
  BY <1>3 DEF StoreKey, StoreMember, ExpireSet, Respond, End, Go, redisVars
<1>4. CASE CheckKey \/ DeleteKey \/ MarkRevoked \/ RemoveMember
  BY <1>4 DEF CheckKey, DeleteKey, MarkRevoked, RemoveMember, End, Go, redisVars
<1>5. CASE ReadMembers \/ LoopMark \/ DropSet \/ Answer
  BY <1>5 DEF ReadMembers, LoopMark, DropSet, Answer, End, Go, redisVars
<1>6. CASE \E j \in Jtis : LoadUser(j) \/ LoopDelete(j)
  BY <1>6 DEF LoadUser, LoopDelete, Mint, Unused, Go, redisVars
<1>7. CASE Fail \/ RefuseUser \/ Evict
  BY <1>7 DEF Fail, RefuseUser, Evict, End, redisVars
<1>8. CASE UNCHANGED vars
  BY <1>8 DEF vars, redisVars
<1> QED BY <1>1, <1>2, <1>3, <1>4, <1>5, <1>6, <1>7, <1>8 DEF Next, Handle

LEMMA TimedStep == IInv /\ [Next]_vars => Timed'
<1> SUFFICES ASSUME TypeOK, Control, Dead, Timed, [Next]_vars PROVE Timed'
  BY DEF IInv
<1> USE LifetimeAssumption DEF TypeOK, Control, Timed, Stored, Unmarked, Issuing
<1>1. CASE Tick
  BY <1>1 DEF Tick, Less
<1>2. CASE Arrive
  BY <1>2 DEF Arrive, RevokeAll, Login, Refresh, Logout, Begin, Go, Mint, redisVars
<1>3. CASE StoreKey \/ StoreMember \/ ExpireSet \/ Respond
  BY <1>3 DEF StoreKey, StoreMember, ExpireSet, Respond, End, Go, redisVars
<1>4. CASE CheckKey \/ DeleteKey \/ MarkRevoked \/ RemoveMember
  BY <1>4 DEF CheckKey, DeleteKey, MarkRevoked, RemoveMember, End, Go, redisVars
<1>5. CASE ReadMembers \/ LoopMark \/ DropSet \/ Answer
  BY <1>5 DEF ReadMembers, LoopMark, DropSet, Answer, End, Go, redisVars
<1>6. CASE \E j \in Jtis : LoadUser(j) \/ LoopDelete(j)
  BY <1>6 DEF LoadUser, LoopDelete, Mint, Go, redisVars
<1>7. CASE Fail \/ RefuseUser \/ Evict
  BY <1>7 DEF Fail, RefuseUser, Evict, End, redisVars
<1>8. CASE UNCHANGED vars
  BY <1>8 DEF vars, redisVars
<1> QED BY <1>1, <1>2, <1>3, <1>4, <1>5, <1>6, <1>7, <1>8 DEF Next, Handle

LEMMA IndexedStep == IInv /\ [Next]_vars => Indexed'
<1> SUFFICES ASSUME TypeOK, Control, Dead, Indexed, [Next]_vars PROVE Indexed'
  BY DEF IInv
<1> USE LifetimeAssumption DEF TypeOK, Control, Indexed, Listed, Stored, Issuing
<1>1. CASE Tick
  BY <1>1 DEF Tick, Less, Lapsing
<1>2. CASE Arrive
  BY <1>2 DEF Arrive, RevokeAll, Login, Refresh, Logout, Begin, Go, Mint, redisVars
<1>3. CASE StoreKey \/ StoreMember \/ ExpireSet \/ Respond
  BY <1>3 DEF StoreKey, StoreMember, ExpireSet, Respond, End, Go, redisVars
<1>4. CASE CheckKey \/ DeleteKey \/ MarkRevoked \/ RemoveMember
  BY <1>4 DEF CheckKey, DeleteKey, MarkRevoked, RemoveMember, End, Go, redisVars, Dead
<1>5. CASE ReadMembers \/ LoopMark \/ DropSet \/ Answer
  BY <1>5 DEF ReadMembers, LoopMark, DropSet, Answer, End, Go, redisVars, Dead
<1>6. CASE \E j \in Jtis : LoadUser(j) \/ LoopDelete(j)
  BY <1>6 DEF LoadUser, LoopDelete, Mint, Go, redisVars
<1>7. CASE Fail \/ RefuseUser \/ Evict
  BY <1>7 DEF Fail, RefuseUser, Evict, End, redisVars
<1>8. CASE UNCHANGED vars
  BY <1>8 DEF vars, redisVars
<1> QED BY <1>1, <1>2, <1>3, <1>4, <1>5, <1>6, <1>7, <1>8 DEF Next, Handle

LEMMA StepInv == IInv /\ [Next]_vars => IInv'
BY TypeStep, ControlStep, TimedStep, IndexedStep DEF IInv

LEMMA Invariance == Spec => []IInv
BY InitInv, StepInv, PTL DEF Spec

-----------------------------------------------------------------------------
\* Every count-down stays within its lifetime: no token, key, marker or set is
\* ever good for longer than create_token and the SETEX and EXPIRE of
\* _store_refresh_session say.
THEOREM LifetimesTyped == Spec => []TypeOK
BY Invariance, PTL DEF IInv

\* Without faults and evictions Redis remembers a token, live or revoked, until
\* at most a second before jwt.decode refuses it.
THEOREM TokenRemembered == Spec => []Remembered
<1>1. IInv => Remembered
  <2> SUFFICES ASSUME IInv, happened \cap {"fault", "eviction"} = {},
                      NEW j \in delivered \ Unmarked, tokenLeft[j] > Second
               PROVE  keyLeft[j] > 0 \/ markLeft[j] > 0
    BY DEF Remembered
  <2>1. j \in Jtis /\ tokenLeft[j] \in Int /\ keyLeft[j] \in Int /\ markLeft[j] \in Int
    BY LifetimeAssumption DEF IInv, TypeOK
  <2>2. CASE j \in spent
    BY <2>1, <2>2, LifetimeAssumption DEF IInv, Timed
  <2>3. CASE j \notin spent
    BY <2>1, <2>3, LifetimeAssumption DEF IInv, Timed
  <2> QED BY <2>2, <2>3
<1> QED BY <1>1, Invariance, PTL

\* The user's set lists every live token of a client, for as long as its key is
\* there, but for the tokens an eviction of the set took out and the one token
\* each expiry between SADD and EXPIRE takes out (_store_refresh_session).
THEOREM SetOutlivesKeys == Spec => []IndexOutlivesKey
<1>1. IInv => IndexOutlivesKey
  BY DEF IInv, Indexed, Listed, IndexOutlivesKey
<1> QED BY <1>1, Invariance, PTL

\* A revocation of all sessions leaves no client with a live token, but for
\* those tokens (_revoke_all_sessions).
THEOREM RevocationReaches == Spec => []RevokeAllReaches
<1>1. IInv => RevokeAllReaches
  BY DEF IInv, Indexed, RevokeAllReaches
<1> QED BY <1>1, Invariance, PTL

\* Whatever expires and whatever is evicted, a spent token is never rotated
\* (refresh).
THEOREM SpentStaysOut == Spec => SpentNotRotated
<1>1. IInv /\ [Next]_vars => [Go("checkKey", "delKey") => jti \notin spent]_vars
  <2> SUFFICES ASSUME IInv, Next, Go("checkKey", "delKey") PROVE jti \notin spent
    BY DEF Go, vars
  <2>1. CheckKey
    BY DEF Next, Arrive, Handle, Go, Begin, End, Tick, RevokeAll, Login, Refresh, Logout,
           StoreKey, StoreMember, ExpireSet, Respond, DeleteKey, MarkRevoked,
           RemoveMember, ReadMembers, LoopMark, DropSet, Answer, LoadUser, LoopDelete,
           RefuseUser, Fail, Evict
  <2>2. jti \in Jtis /\ keyLeft[jti] > 0
    BY <2>1 DEF CheckKey, Go, End, IInv, Control
  <2> QED BY <2>2 DEF IInv, Dead
<1> QED BY <1>1, Invariance, PTL DEF Spec, SpentNotRotated

\* Whatever expires and whatever is evicted, a token that was never spent is
\* never taken for a replay (refresh).
THEOREM LateIsNoReplay == Spec => OnlySpentIsReuse
<1>1. IInv /\ [Next]_vars =>
        [pc' = "smembers" /\ pc # "smembers" /\ op' = "refresh" => jti' \in spent]_vars
  <2> SUFFICES ASSUME IInv, Next, pc' = "smembers", pc # "smembers", op' = "refresh"
               PROVE  jti' \in spent
    BY DEF vars
  <2>1. \E j \in Jtis : Refresh(j)
    BY DEF Next, Arrive, Handle, Go, Begin, End, Tick, RevokeAll, Login, Logout,
           StoreKey, StoreMember, ExpireSet, Respond, CheckKey, DeleteKey, MarkRevoked,
           RemoveMember, ReadMembers, LoopMark, DropSet, Answer, LoadUser, LoopDelete,
           RefuseUser, Fail, Evict
  <2>2. PICK j \in Jtis : Refresh(j)
    BY <2>1
  <2>3. jti' = j /\ markLeft[j] > 0
    BY <2>2 DEF Refresh, Begin, Go
  <2> QED BY <2>3 DEF IInv, Dead
<1> QED BY <1>1, Invariance, PTL DEF Spec, OnlySpentIsReuse

\* Redis keeps no set without an expiry, unless a request is between SADD and
\* EXPIRE, or one has ended there whose SADD had created the set: whatever else
\* fails, expires, is revoked or is evicted, each set has its last tick
\* (_store_refresh_session).
SetsExpire ==
  "stray" \notin happened /\ members # {} /\ setLeft = 0 => pc = "expire"

\* Holds for any lifetime, any resolution of the clock, faults and evictions: the
\* safety half of FadesAway.
THEOREM SetsAreBounded == Spec => []SetsExpire
<1> USE LifetimeAssumption DEF SetsExpire
<1>1. Init => SetsExpire
  BY DEF Init
<1>2. ASSUME IInv, SetsExpire, [Next]_vars PROVE SetsExpire'
  <2> USE DEF IInv, TypeOK, Go, End, redisVars
  <2>1. CASE Tick
    BY <1>2, <2>1 DEF Tick, Less
  <2>2. CASE Arrive
    BY <1>2, <2>2 DEF Arrive, RevokeAll, Login, Refresh, Logout, Begin
  <2>3. CASE StoreKey \/ StoreMember \/ ExpireSet \/ Respond
    BY <1>2, <2>3 DEF StoreKey, StoreMember, ExpireSet, Respond
  <2>4. CASE CheckKey \/ DeleteKey \/ MarkRevoked \/ RemoveMember
    BY <1>2, <2>4 DEF CheckKey, DeleteKey, MarkRevoked, RemoveMember
  <2>5. CASE ReadMembers \/ LoopMark \/ DropSet \/ Answer \/ RefuseUser
    BY <1>2, <2>5 DEF ReadMembers, LoopMark, DropSet, Answer, RefuseUser
  <2>6. CASE \E j \in Jtis : LoadUser(j) \/ LoopDelete(j)
    BY <1>2, <2>6 DEF LoadUser, LoopDelete
  <2>7. CASE Fail \/ Evict
    BY <1>2, <2>7 DEF Fail, Evict
  <2>8. CASE UNCHANGED vars
    BY <1>2, <2>8 DEF vars
  <2> QED
    BY <1>2, <2>1, <2>2, <2>3, <2>4, <2>5, <2>6, <2>7, <2>8 DEF Next, Handle
<1> QED
  BY <1>1, <1>2, Invariance, PTL DEF Spec
=============================================================================

----------------------- MODULE RefreshSessionsProofs -----------------------
(***************************************************************************)
(* Proofs about RefreshSessions, for every set of users, tokens and        *)
(* requests, with and without overlapping requests, with and without       *)
(* failures.                                                               *)
(***************************************************************************)
EXTENDS RefreshSessions, TLAPS

-----------------------------------------------------------------------------
(* The inductive invariant                                                 *)

\* A token is stored once _store_refresh_session has written its key.
Stored(j) == family[j] # Nil

\* Where a request is tells what its local variables hold.
Control ==
  \A r \in Requests :
    /\ pc[r] = "idle" => uid[r] = Nil /\ jti[r] = Nil /\ newJti[r] = Nil
    /\ pc[r] # "idle" => uid[r] \in Users
    /\ pc[r] \in {"checkKey", "delKey", "mark", "srem", "updateRow", "loadUser", "loopMark"}
         => jti[r] # Nil
    /\ pc[r] \in {"checkKey", "loadUser"} => op[r] = "refresh"
    /\ pc[r] \in {"delKey", "mark", "srem", "updateRow"} => op[r] \in {"refresh", "logout"}
    /\ pc[r] \in {"smembers", "loop", "loopMark", "flushUser", "updateRows", "lockRows"}
         => op[r] # "login"
    /\ pc[r] = "deactivate" => op[r] = "delete_account"
    /\ pc[r] \in {"setKey", "sadd"} => op[r] \in Issuing
    /\ pc[r] = "setKey" /\ jti[r] # Nil => op[r] = "refresh"
    /\ pc[r] \in {"setKey", "sadd"} => newJti[r] # Nil
    /\ pc[r] \in {"respond", "commit"} /\ op[r] \in Issuing => newJti[r] # Nil
    /\ pc[r] \in {"checkKey", "delKey", "mark", "srem", "updateRow", "loadUser"}
         => newJti[r] = Nil

\* Nobody but the request that minted a token knows of it before it is stored.
Published ==
  /\ \A j \in Jtis : ~Stored(j) => refreshKey[j] = Nil /\ parent[j] = Nil
  /\ \A j \in Jtis : Stored(j) => sub[j] # Nil
  /\ \A j \in delivered \cup revokedKey : Stored(j)
  /\ \A u \in Users : \A j \in userSessions[u] : Stored(j) /\ sub[j] = u
  /\ \A r \in Requests : \A j \in todo[r] : Stored(j) /\ sub[j] = uid[r]
  /\ \A r \in Requests : jti[r] # Nil => Stored(jti[r]) /\ sub[jti[r]] = uid[r]
  /\ \A k \in Jtis : parent[k] # Nil => Stored(parent[k])
  /\ \A j \in Jtis : sessionRow[j] # "absent" => Stored(j)
  /\ \A r \in Requests : \A j \in touched[r] : Stored(j)

\* A minted token belongs to one request, for the user of that request.
Fresh ==
  /\ \A r \in Requests : newJti[r] # Nil =>
       /\ sub[newJti[r]] = uid[r]
       /\ Stored(newJti[r]) <=> pc[r] # "setKey"
  /\ \A q, r \in Requests : newJti[q] # Nil /\ newJti[q] = newJti[r] => q = r

\* The key is deleted before the marker is set, the marker is set before the
\* successor is stored.
Revocation ==
  /\ LiveNotRevoked
  /\ SuccessorAfterRevocation
  /\ \A r \in Requests : pc[r] \in {"mark", "loopMark"} => refreshKey[jti[r]] = Nil
  /\ \A r \in Requests :
       op[r] = "refresh" /\ pc[r] \in {"srem", "updateRow", "loadUser", "setKey"}
         => jti[r] \in revokedKey

Rotating(r) ==
  op[r] = "refresh" /\ pc[r] \in {"delKey", "mark", "srem", "updateRow", "loadUser", "setKey"}

\* Without overlap all requests of a user but one have been answered, and the
\* token being rotated has no successor yet.
Serial ==
  ~Overlap =>
    /\ \A q, r \in Requests :
         uid[q] # Nil /\ uid[q] = uid[r] /\ pc[q] # "commit" /\ pc[r] # "commit" => q = r
    /\ \A r \in Requests : Rotating(r) => \A k \in Jtis : parent[k] # jti[r]

IInv == TypeOK /\ Control /\ Published /\ Fresh /\ Revocation /\ Serial

LEMMA InvInit == Init => IInv
  BY SessionsAssumption DEF Init, IInv, TypeOK, Control, Published, Fresh, Revocation, Serial, Stored, Rotating,
             LiveNotRevoked, SuccessorAfterRevocation, PcValues, Issuing, Revoking

LEMMA InvRollback == ASSUME IInv, NEW r \in Requests, Rollback(r) PROVE IInv'
<1> USE SessionsAssumption DEF IInv, TypeOK, Control, Published, Fresh, Revocation, Serial, Stored, Rotating,
             LiveNotRevoked, SuccessorAfterRevocation, Rollback, Release,
             tokenVars, redisVars, dbVars, PcValues, Issuing, Revoking
<1>1. TypeOK'
  OBVIOUS
<1>2. Control'
  OBVIOUS
<1>3. Published'
  OBVIOUS
<1>4. Fresh'
  OBVIOUS
<1>5. Revocation'
  OBVIOUS
<1>6. Serial'
  OBVIOUS
<1> QED
  BY <1>1, <1>2, <1>3, <1>4, <1>5, <1>6

LEMMA InvStep == IInv /\ [Next]_vars => IInv'
<1> SUFFICES ASSUME IInv, [Next]_vars PROVE IInv'
  OBVIOUS
<1> USE SessionsAssumption DEF IInv, TypeOK, Control, Published, Fresh, Revocation, Serial, Stored, Rotating,
             LiveNotRevoked, SuccessorAfterRevocation,
             tokenVars, redisVars, dbVars, txVars, reqVars, PcValues, Issuing, Revoking, Step
<1>1. ASSUME NEW r \in Requests, StoreKey(r) PROVE IInv'
  BY <1>1 DEF StoreKey
<1>2. ASSUME NEW r \in Requests, StoreMember(r) PROVE IInv'
  BY <1>2 DEF StoreMember
<1>3. ASSUME NEW r \in Requests, CheckKey(r) PROVE IInv'
  <2>1. CASE Rollback(r)
    BY <2>1, InvRollback
  <2>2. CASE ~Rollback(r)
    <3>1. /\ Step(r, "checkKey", "delKey")
          /\ refreshKey[jti[r]] = uid[r]
          /\ UNCHANGED <<tokenVars, redisVars, dbVars, txVars, reqVars>>
      BY <1>3, <2>2 DEF CheckKey
    <3>2. Serial'
      BY <3>1
    <3>3. TypeOK' /\ Control' /\ Published' /\ Fresh' /\ Revocation'
      BY <3>1
    <3> QED
      BY <3>2, <3>3
  <2> QED
    BY <2>1, <2>2
<1>4. ASSUME NEW r \in Requests, LoadUser(r) PROVE IInv'
  <2>1. CASE Rollback(r)
    BY <2>1, InvRollback
  <2>2. CASE ~Rollback(r)
    <3>1. PICK j \in Jtis \ Minted :
            /\ sub' = [sub EXCEPT ![j] = uid[r]]
            /\ newJti' = [newJti EXCEPT ![r] = j]
            /\ UNCHANGED <<parent, family, delivered, late>>
      BY <1>4, <2>2 DEF LoadUser, Mint
    <3>2. TypeOK'
      <4>1. /\ pc' = [pc EXCEPT ![r] = "setKey"] /\ uid[r] \in Users
            /\ UNCHANGED <<redisVars, dbVars, txVars, op, uid, jti, todo, held>>
        BY <1>4, <2>2 DEF LoadUser
      <4> QED
        BY <3>1, <4>1 DEF TypeOK
    <3>3. Control'
      BY <1>4, <2>2, <3>1 DEF LoadUser
    <3>4. Published'
      BY <1>4, <2>2, <3>1 DEF LoadUser, Minted
    <3>5. Fresh'
      BY <1>4, <2>2, <3>1 DEF LoadUser, Minted
    <3>6. Revocation'
      BY <1>4, <2>2, <3>1 DEF LoadUser
    <3>7. Serial'
      <4>1. /\ pc[r] = "loadUser" /\ pc' = [pc EXCEPT ![r] = "setKey"]
            /\ UNCHANGED <<op, uid, jti, parent>>
        BY <1>4, <2>2, <3>1 DEF LoadUser
      <4>2. Rotating(r) <=> Rotating(r)'
        BY <4>1
      <4>3. \A q \in Requests : (Rotating(q)' <=> Rotating(q))
                               /\ (pc'[q] = "commit" <=> pc[q] = "commit")
        BY <4>1, <4>2
      <4> QED
        BY <4>1, <4>3 DEF Serial
    <3> QED
      BY <3>2, <3>3, <3>4, <3>5, <3>6, <3>7
  <2> QED
    BY <2>1, <2>2
<1>5. ASSUME NEW r \in Requests, DeleteKey(r) PROVE IInv'
  BY <1>5 DEF DeleteKey
<1>6. ASSUME NEW r \in Requests, MarkRevoked(r) PROVE IInv'
  BY <1>6 DEF MarkRevoked
<1>7. ASSUME NEW r \in Requests, RemoveMember(r) PROVE IInv'
  BY <1>7 DEF RemoveMember
<1>8. ASSUME NEW r \in Requests, UpdateRow(r) PROVE IInv'
  <2>1. TypeOK'
    BY <1>8 DEF UpdateRow
  <2>2. Control'
    BY <1>8 DEF UpdateRow
  <2>3. Published'
    BY <1>8 DEF UpdateRow
  <2>4. Fresh'
    BY <1>8 DEF UpdateRow
  <2>5. Revocation'
    BY <1>8 DEF UpdateRow
  <2>6. Serial'
    BY <1>8 DEF UpdateRow
  <2> QED
    BY <2>1, <2>2, <2>3, <2>4, <2>5, <2>6
<1>9. ASSUME NEW r \in Requests, ReadMembers(r) PROVE IInv'
  BY <1>9 DEF ReadMembers
<1>10. ASSUME NEW r \in Requests, LoopDelete(r) PROVE IInv'
  BY <1>10 DEF LoopDelete
<1>11. ASSUME NEW r \in Requests, LoopMark(r) PROVE IInv'
  BY <1>11 DEF LoopMark
<1>12. ASSUME NEW r \in Requests, DropSet(r) PROVE IInv'
  BY <1>12 DEF DropSet
<1>13. ASSUME NEW r \in Requests, FlushUser(r) PROVE IInv'
  BY <1>13 DEF FlushUser
<1>14. ASSUME NEW r \in Requests, UpdateRows(r) PROVE IInv'
  <2>1. TypeOK'
    BY <1>14 DEF UpdateRows, OpenRows, AfterRows
  <2>2. Control'
    BY <1>14 DEF UpdateRows, OpenRows, AfterRows
  <2>3. Published'
    BY <1>14 DEF UpdateRows, OpenRows, AfterRows
  <2>4. Fresh'
    BY <1>14 DEF UpdateRows, OpenRows, AfterRows
  <2>5. Revocation'
    BY <1>14 DEF UpdateRows, OpenRows, AfterRows
  <2>6. Serial'
    BY <1>14 DEF UpdateRows, OpenRows, AfterRows
  <2> QED
    BY <2>1, <2>2, <2>3, <2>4, <2>5, <2>6
<1>15. ASSUME NEW r \in Requests, RaiseReuse(r) PROVE IInv'
  BY <1>15, InvRollback DEF RaiseReuse
<1>16. ASSUME NEW r \in Requests, Deactivate(r) PROVE IInv'
  <2>1. TypeOK'
    BY <1>16 DEF Deactivate
  <2>2. Control'
    BY <1>16 DEF Deactivate
  <2>3. Published'
    BY <1>16 DEF Deactivate
  <2>4. Fresh'
    BY <1>16 DEF Deactivate
  <2>5. Revocation'
    BY <1>16 DEF Deactivate
  <2>6. Serial'
    BY <1>16 DEF Deactivate
  <2> QED
    BY <2>1, <2>2, <2>3, <2>4, <2>5, <2>6
<1>17. ASSUME NEW r \in Requests, Respond(r) PROVE IInv'
  BY <1>17 DEF Respond
<1>18. ASSUME NEW r \in Requests, Commit(r) PROVE IInv'
  <2>0. late' \subseteq Jtis
    BY <1>18 DEF Commit, Minted
  <2>1. TypeOK'
    BY <1>18, <2>0 DEF Commit, Release
  <2>2. Control'
    BY <1>18 DEF Commit, Release
  <2>3. Published'
    BY <1>18 DEF Commit, Release
  <2>4. Fresh'
    BY <1>18 DEF Commit, Release
  <2>5. Revocation'
    BY <1>18 DEF Commit, Release
  <2>6. Serial'
    BY <1>18 DEF Commit, Release
  <2> QED
    BY <2>1, <2>2, <2>3, <2>4, <2>5, <2>6
<1>19. ASSUME NEW r \in Requests, Fail(r) PROVE IInv'
  BY <1>19, InvRollback DEF Fail
<1>20. ASSUME NEW r \in Requests, DeadlockVictim(r) PROVE IInv'
  BY <1>20, InvRollback DEF DeadlockVictim
<1>21. ASSUME NEW r \in Requests, NEW u \in Users, Login(r, u) PROVE IInv'
  BY <1>21 DEF Login, Admit, Begin, Mint, Minted
<1>22. ASSUME NEW r \in Requests, NEW u \in Users, RevokeAllSessions(r, u) PROVE IInv'
  BY <1>22 DEF RevokeAllSessions, Admit, Begin, Held
<1>23. ASSUME NEW r \in Requests, NEW u \in Users, ResetPassword(r, u) PROVE IInv'
  BY <1>23 DEF ResetPassword, Admit, Begin, Held
<1>24. ASSUME NEW r \in Requests, NEW j \in Jtis, Refresh(r, j) PROVE IInv'
  BY <1>24 DEF Refresh, Admit, Begin
<1>25. ASSUME NEW r \in Requests, NEW j \in Jtis, RefreshReuse(r, j) PROVE IInv'
  BY <1>25 DEF RefreshReuse, Admit, Begin, Held
<1>26. ASSUME NEW r \in Requests, NEW j \in Jtis, Logout(r, j) PROVE IInv'
  BY <1>26 DEF Logout, Admit, Begin
<1>28. ASSUME NEW r \in Requests, FindRows(r) PROVE IInv'
  <2>1. TypeOK'
    BY <1>28 DEF FindRows, OpenRows
  <2>2. Control'
    BY <1>28 DEF FindRows
  <2>3. Published'
    BY <1>28 DEF FindRows, OpenRows
  <2>4. Fresh'
    BY <1>28 DEF FindRows
  <2>5. Revocation'
    BY <1>28 DEF FindRows
  <2>6. Serial'
    BY <1>28 DEF FindRows
  <2> QED
    BY <2>1, <2>2, <2>3, <2>4, <2>5, <2>6
<1>29. ASSUME NEW r \in Requests, LockRows(r) PROVE IInv'
  <2>1. TypeOK'
    BY <1>29 DEF LockRows, OpenRows, AfterRows
  <2>2. Control'
    BY <1>29 DEF LockRows, AfterRows
  <2>3. Published'
    BY <1>29 DEF LockRows, AfterRows
  <2>4. Fresh'
    BY <1>29 DEF LockRows, AfterRows
  <2>5. Revocation'
    BY <1>29 DEF LockRows, AfterRows
  <2>6. Serial'
    BY <1>29 DEF LockRows, AfterRows
  <2> QED
    BY <2>1, <2>2, <2>3, <2>4, <2>5, <2>6
<1>27. CASE UNCHANGED vars
  BY <1>27 DEF vars
<1> QED
  BY <1>1, <1>2, <1>3, <1>4, <1>5, <1>6, <1>7, <1>8, <1>9, <1>10, <1>11, <1>12, <1>13, <1>14, <1>15, <1>16, <1>17, <1>18, <1>19, <1>20, <1>21, <1>22, <1>23, <1>24, <1>25, <1>26, <1>27, <1>28, <1>29 DEF Next, Arrive, Handle

LEMMA InvAlways == Spec => []IInv
  BY InvInit, InvStep, PTL DEF Spec

-----------------------------------------------------------------------------
(* Invariants                                                              *)

\* Every variable keeps its type (the state of all of AuthService's sessions).
THEOREM SessionsTyped == Spec => []TypeOK
<1>1. IInv => TypeOK
  BY DEF IInv
<1> QED
  BY <1>1, InvAlways, PTL

\* A revoked token has no key, however requests overlap and wherever they fail.
THEOREM RevokedIsDead == Spec => []LiveNotRevoked
<1>1. IInv => LiveNotRevoked
  BY DEF IInv, Revocation
<1> QED
  BY <1>1, InvAlways, PTL

\* A rotated token is dead and marked as long as its successor exists.
THEOREM RotatedIsRevoked == Spec => []SuccessorAfterRevocation
<1>1. IInv => SuccessorAfterRevocation
  BY DEF IInv, Revocation
<1> QED
  BY <1>1, InvAlways, PTL

-----------------------------------------------------------------------------
(* Refinement                                                              *)

\* A step that stores no token, revokes none and abandons none is invisible.
LEMMA Invisible ==
  ASSUME \A j \in Jtis : Unissued(j)' <=> Unissued(j),
         \A j \in Jtis : ~Unissued(j) => sub'[j] = sub[j],
         UNCHANGED <<refreshKey, parent, family>>
  PROVE  UNCHANGED Registry!vars
<1>1. \A j \in Jtis : Status(j)' = Status(j) /\ Holder(j)' = Holder(j)
  BY DEF Status, Holder
<1> QED
  BY <1>1 DEF Registry!vars, Status, Holder

\* Nor is one that neither mints a token nor stores, discards or revokes one.
LEMMA Quiescent ==
  ASSUME NEW r \in Requests, TypeOK,
         \E to \in PcValues \ {"setKey"} : pc' = [pc EXCEPT ![r] = to],
         pc[r] # "setKey",
         newJti' = newJti \/ newJti' = [newJti EXCEPT ![r] = Nil],
         UNCHANGED <<sub, refreshKey, parent, family>>
  PROVE  UNCHANGED Registry!vars
<1>1. \A q \in Requests : (pc'[q] = "setKey" <=> pc[q] = "setKey")
                          /\ (pc[q] = "setKey" => newJti'[q] = newJti[q])
  BY DEF TypeOK
<1>2. \A j \in Jtis : Unissued(j)' <=> Unissued(j)
  BY <1>1 DEF Unissued
<1> QED
  BY <1>2, Invisible

\* Minting is invisible too: nobody knows the token yet.
LEMMA Minting ==
  ASSUME NEW r \in Requests, NEW u \in Users, IInv,
         newJti[r] = Nil, pc[r] # "setKey",
         pc' = [pc EXCEPT ![r] = "setKey"],
         Mint(r, u), UNCHANGED refreshKey
  PROVE  UNCHANGED Registry!vars
<1> USE SessionsAssumption DEF TypeOK
<1>1. PICK k \in Jtis \ Minted :
        /\ sub' = [sub EXCEPT ![k] = u]
        /\ newJti' = [newJti EXCEPT ![r] = k]
        /\ UNCHANGED <<parent, family, delivered, late>>
  BY DEF Mint
<1>2. sub[k] = Nil
  BY <1>1 DEF Minted
<1>3. \A j \in Jtis : Unissued(j)' <=> Unissued(j)
  <2>1. \A q \in Requests : q # r => pc'[q] = pc[q] /\ newJti'[q] = newJti[q]
    BY <1>1 DEF IInv
  <2>2. pc'[r] = "setKey" /\ newJti'[r] = k
    BY <1>1 DEF IInv
  <2>3. \A j \in Jtis \ {k} : sub'[j] = sub[j]
    BY <1>1 DEF IInv
  <2>4. Unissued(k) /\ Unissued(k)'
    BY <1>2, <2>2 DEF Unissued
  <2>5. \A j \in Jtis \ {k} : Unissued(j)' <=> Unissued(j)
    BY <1>1, <2>1, <2>2, <2>3 DEF Unissued
  <2> QED
    BY <2>4, <2>5
<1>4. \A j \in Jtis : ~Unissued(j) => sub'[j] = sub[j]
  BY <1>1, <1>2 DEF Unissued, IInv
<1> QED
  BY <1>1, <1>3, <1>4, Invisible

\* Deleting a key kills its token, if it was alive.
LEMMA Retiring ==
  ASSUME NEW r \in Requests, NEW j \in Jtis, IInv, Stored(j),
         \E to \in PcValues \ {"setKey"} : pc' = [pc EXCEPT ![r] = to],
         pc[r] # "setKey",
         refreshKey' = [refreshKey EXCEPT ![j] = Nil],
         UNCHANGED <<sub, parent, family, newJti>>
  PROVE  Registry!Retire(j) \/ UNCHANGED Registry!vars
<1> USE SessionsAssumption DEF IInv, TypeOK
<1>1. \A k \in Jtis : Unissued(k)' <=> Unissued(k)
  BY DEF Unissued
<1>2. ~Unissued(j)
  BY DEF Unissued, Published, Fresh, Control, Stored
<1>3. \A k \in Jtis : Holder(k)' = Holder(k)
  BY <1>1 DEF Holder
<1>4. CASE refreshKey[j] = Nil
  BY <1>4, Invisible, <1>1
<1>5. CASE refreshKey[j] # Nil
  <2>1. Status(j) = "live" /\ Status(j)' = "dead"
    BY <1>1, <1>2, <1>5 DEF Status
  <2>2. \A k \in Jtis \ {j} : Status(k)' = Status(k)
    BY <1>1 DEF Status
  <2>3. [k \in Jtis |-> Status(k)]' = [[k \in Jtis |-> Status(k)] EXCEPT ![j] = "dead"]
    BY <2>1, <2>2
  <2>4. [k \in Jtis |-> Holder(k)]' = [k \in Jtis |-> Holder(k)]
    BY <1>3
  <2> QED
    BY <2>1, <2>3, <2>4 DEF Registry!Retire
<1> QED
  BY <1>4, <1>5

\* A request that fails before it has stored its token discards it.
LEMMA RollingBack ==
  ASSUME NEW r \in Requests, IInv, pc[r] # "idle", Rollback(r)
  PROVE  [Registry!Next]_(Registry!vars)
<1> USE SessionsAssumption DEF IInv, TypeOK
<1>1. pc' = [pc EXCEPT ![r] = "idle"] /\ newJti' = [newJti EXCEPT ![r] = Nil]
      /\ UNCHANGED <<sub, refreshKey, parent, family>>
  BY DEF Rollback, Release, tokenVars, redisVars
<1>2. CASE pc[r] # "setKey"
  BY <1>1, <1>2, Quiescent DEF PcValues
<1>3. CASE pc[r] = "setKey"
  <2>0. PICK j \in Jtis : j = newJti[r]
    BY <1>3 DEF Control
  <2>1. sub[j] = uid[r] /\ uid[r] \in Users /\ ~Stored(j)
    BY <1>3, <2>0 DEF Control, Fresh
  <2>2. refreshKey[j] = Nil
    BY <2>1 DEF Published
  <2>3. Unissued(j) /\ ~Unissued(j)'
    <3>1. \A q \in Requests \ {r} : newJti'[q] # j
      BY <2>0, <1>1, <2>1 DEF Fresh
    <3>2. newJti'[r] # j /\ sub'[j] # Nil
      BY <2>0, <1>1, <2>1
    <3> QED
      BY <2>0, <1>3, <3>1, <3>2 DEF Unissued
  <2>4. \A k \in Jtis \ {j} : Unissued(k)' <=> Unissued(k)
    BY <2>0, <1>1, <1>3 DEF Unissued
  <2>5. \A k \in Jtis \ {j} : Status(k)' = Status(k) /\ Holder(k)' = Holder(k)
    BY <1>1, <2>4 DEF Status, Holder
  <2>6. Status(j) = "unissued" /\ Status(j)' = "dead" /\ Holder(j)' = uid[r]
    BY <1>1, <2>1, <2>2, <2>3 DEF Status, Holder
  <2>7. [k \in Jtis |-> Status(k)]' = [[k \in Jtis |-> Status(k)] EXCEPT ![j] = "dead"]
    BY <2>5, <2>6
  <2>8. [k \in Jtis |-> Holder(k)]' = [[k \in Jtis |-> Holder(k)] EXCEPT ![j] = uid[r]]
    BY <2>5, <2>6
  <2>9. Registry!Discard(uid[r], j)
    BY <1>1, <2>1, <2>6, <2>7, <2>8 DEF Registry!Discard
  <2> QED
    BY <2>1, <2>9 DEF Registry!Next
<1> QED
  BY <1>2, <1>3

\* Storing a key issues its token: a new family for a login, the successor of
\* a dead token for a rotation.
LEMMA Storing ==
  ASSUME NEW r \in Requests, IInv, StoreKey(r)
  PROVE  Registry!Next
<1> USE SessionsAssumption DEF IInv, TypeOK
<1>1. PICK j \in Jtis : j = newJti[r]
  BY DEF StoreKey, Step, Control
<1>2. pc[r] = "setKey" /\ uid[r] \in Users /\ sub[j] = uid[r] /\ ~Stored(j)
  BY <1>1 DEF StoreKey, Step, Control, Fresh
<1>3. /\ pc' = [pc EXCEPT ![r] = "sadd"]
      /\ refreshKey' = [refreshKey EXCEPT ![j] = uid[r]]
      /\ parent' = [parent EXCEPT ![j] = jti[r]]
      /\ family' = [family EXCEPT ![j] = IF jti[r] = Nil THEN j ELSE family[jti[r]]]
      /\ UNCHANGED <<sub, newJti>>
  BY <1>1 DEF StoreKey, Step, reqVars
<1>4. refreshKey[j] = Nil
  BY <1>2 DEF Published
<1>5. Unissued(j) /\ ~Unissued(j)'
  <2>1. \A q \in Requests \ {r} : newJti[q] # j
    BY <1>1 DEF Fresh
  <2> QED
    BY <1>1, <1>2, <1>3, <2>1 DEF Unissued
<1>6. \A k \in Jtis \ {j} : Unissued(k)' <=> Unissued(k)
  BY <1>1, <1>3 DEF Unissued
<1>7. \A k \in Jtis \ {j} : Status(k)' = Status(k) /\ Holder(k)' = Holder(k)
  BY <1>3, <1>6 DEF Status, Holder
<1>8. Status(j) = "unissued" /\ Status(j)' = "live" /\ Holder(j)' = uid[r]
  BY <1>2, <1>3, <1>4, <1>5 DEF Status, Holder
<1>9. [k \in Jtis |-> Status(k)]' = [[k \in Jtis |-> Status(k)] EXCEPT ![j] = "live"]
  BY <1>7, <1>8
<1>10. [k \in Jtis |-> Holder(k)]' = [[k \in Jtis |-> Holder(k)] EXCEPT ![j] = uid[r]]
  BY <1>7, <1>8
<1>11. CASE jti[r] = Nil
  <2>1. Registry!Open(uid[r], j)
    BY <1>3, <1>8, <1>9, <1>10, <1>11 DEF Registry!Open, Registry!Issue
  <2> QED
    BY <1>2, <2>1 DEF Registry!Next
<1>12. CASE jti[r] # Nil
  <2>1. PICK i \in Jtis : i = jti[r]
    BY <1>12
  <2>2. i \in revokedKey /\ Stored(i) /\ sub[i] = uid[r] /\ op[r] = "refresh"
    BY <1>2, <1>12, <2>1 DEF Control, Published, Revocation
  <2>3. ~Unissued(i)
    BY <1>2, <2>2 DEF Unissued, Control, Fresh, Stored
  <2>4. Status(i) = "dead" /\ Holder(i) = uid[r]
    BY <2>2, <2>3 DEF Status, Holder, Revocation, LiveNotRevoked
  <2>5. ~Overlap => ~Registry!HasSuccessor(i)
    BY <1>2, <2>1, <2>2 DEF Serial, Rotating, Registry!HasSuccessor
  <2>6. Registry!Issue(uid[r], j, i, family[i])
    BY <1>3, <1>8, <1>9, <1>10, <1>12, <2>1 DEF Registry!Issue
  <2>7. Registry!Succeed(i, j)
    BY <2>2, <2>4, <2>5, <2>6 DEF Registry!Succeed, Stored
  <2> QED
    BY <2>7 DEF Registry!Next
<1> QED
  BY <1>11, <1>12

LEMMA RefineInit == Init => Registry!Init
  BY DEF Init, Registry!Init, Status, Holder, Unissued

\* Every step is a step of the registry or invisible to it.
LEMMA RefineStep == IInv /\ [Next]_vars => [Registry!Next]_(Registry!vars)
<1> SUFFICES ASSUME IInv, [Next]_vars PROVE [Registry!Next]_(Registry!vars)
  OBVIOUS
<1> USE DEF tokenVars, redisVars, dbVars, txVars, reqVars, Step, PcValues
<1>t. TypeOK
  BY DEF IInv
<1>1. ASSUME NEW r \in Requests, StoreKey(r)
      PROVE  [Registry!Next]_(Registry!vars)
  BY <1>1, Storing
<1>2. ASSUME NEW r \in Requests, StoreMember(r)
      PROVE  [Registry!Next]_(Registry!vars)
  BY <1>2, <1>t, Quiescent DEF StoreMember
<1>3. ASSUME NEW r \in Requests, CheckKey(r)
      PROVE  [Registry!Next]_(Registry!vars)
  <2>1. CASE Rollback(r)
    BY <1>3, <2>1, RollingBack DEF CheckKey
  <2>2. CASE ~Rollback(r)
    BY <1>3, <2>2, <1>t, Quiescent DEF CheckKey
  <2> QED
    BY <2>1, <2>2
<1>4. ASSUME NEW r \in Requests, LoadUser(r)
      PROVE  [Registry!Next]_(Registry!vars)
  <2>1. CASE Rollback(r)
    BY <1>4, <2>1, RollingBack DEF LoadUser
  <2>2. CASE ~Rollback(r)
    BY <1>4, <2>2, Minting DEF LoadUser, IInv, Control
  <2> QED
    BY <2>1, <2>2
<1>5. ASSUME NEW r \in Requests, DeleteKey(r)
      PROVE  [Registry!Next]_(Registry!vars)
  <2>1. jti[r] \in Jtis /\ Stored(jti[r])
    BY <1>5 DEF DeleteKey, IInv, TypeOK, Control, Published
  <2>2. Registry!Retire(jti[r]) \/ UNCHANGED Registry!vars
    BY <1>5, <2>1, Retiring DEF DeleteKey
  <2> QED
    BY <2>1, <2>2 DEF Registry!Next
<1>6. ASSUME NEW r \in Requests, MarkRevoked(r)
      PROVE  [Registry!Next]_(Registry!vars)
  BY <1>6, <1>t, Quiescent DEF MarkRevoked
<1>7. ASSUME NEW r \in Requests, RemoveMember(r)
      PROVE  [Registry!Next]_(Registry!vars)
  BY <1>7, <1>t, Quiescent DEF RemoveMember
<1>8. ASSUME NEW r \in Requests, UpdateRow(r)
      PROVE  [Registry!Next]_(Registry!vars)
  BY <1>8, <1>t, Quiescent DEF UpdateRow
<1>9. ASSUME NEW r \in Requests, ReadMembers(r)
      PROVE  [Registry!Next]_(Registry!vars)
  BY <1>9, <1>t, Quiescent DEF ReadMembers
<1>10. ASSUME NEW r \in Requests, LoopDelete(r)
      PROVE  [Registry!Next]_(Registry!vars)
  <2>1. PICK j \in todo[r] : /\ pc' = [pc EXCEPT ![r] = "loopMark"]
                            /\ refreshKey' = [refreshKey EXCEPT ![j] = Nil]
    BY <1>10 DEF LoopDelete
  <2>2. j \in Jtis /\ Stored(j)
    BY DEF IInv, TypeOK, Published
  <2>3. Registry!Retire(j) \/ UNCHANGED Registry!vars
    BY <1>10, <2>1, <2>2, Retiring DEF LoopDelete
  <2> QED
    BY <2>2, <2>3 DEF Registry!Next
<1>11. ASSUME NEW r \in Requests, LoopMark(r)
      PROVE  [Registry!Next]_(Registry!vars)
  BY <1>11, <1>t, Quiescent DEF LoopMark
<1>12. ASSUME NEW r \in Requests, DropSet(r)
      PROVE  [Registry!Next]_(Registry!vars)
  BY <1>12, <1>t, Quiescent DEF DropSet
<1>13. ASSUME NEW r \in Requests, FlushUser(r)
      PROVE  [Registry!Next]_(Registry!vars)
  BY <1>13, <1>t, Quiescent DEF FlushUser
<1>14. ASSUME NEW r \in Requests, UpdateRows(r)
      PROVE  [Registry!Next]_(Registry!vars)
  BY <1>14, <1>t, Quiescent DEF UpdateRows, AfterRows
<1>15. ASSUME NEW r \in Requests, RaiseReuse(r)
      PROVE  [Registry!Next]_(Registry!vars)
  BY <1>15, RollingBack DEF RaiseReuse
<1>16. ASSUME NEW r \in Requests, Deactivate(r)
      PROVE  [Registry!Next]_(Registry!vars)
  BY <1>16, <1>t, Quiescent DEF Deactivate
<1>17. ASSUME NEW r \in Requests, Respond(r)
      PROVE  [Registry!Next]_(Registry!vars)
  BY <1>17, <1>t, Quiescent DEF Respond
<1>18. ASSUME NEW r \in Requests, Commit(r)
      PROVE  [Registry!Next]_(Registry!vars)
  BY <1>18, <1>t, Quiescent DEF Commit, Release
<1>19. ASSUME NEW r \in Requests, Fail(r)
      PROVE  [Registry!Next]_(Registry!vars)
  BY <1>19, RollingBack DEF Fail
<1>20. ASSUME NEW r \in Requests, DeadlockVictim(r)
      PROVE  [Registry!Next]_(Registry!vars)
  BY <1>20, RollingBack DEF DeadlockVictim, WaitsFor
<1>21. ASSUME NEW r \in Requests, NEW u \in Users, Login(r, u)
      PROVE  [Registry!Next]_(Registry!vars)
  BY <1>21, Minting DEF Login, Begin, IInv, Control
<1>22. ASSUME NEW r \in Requests, NEW u \in Users, RevokeAllSessions(r, u)
      PROVE  [Registry!Next]_(Registry!vars)
  BY <1>22, <1>t, Quiescent DEF RevokeAllSessions, Begin
<1>23. ASSUME NEW r \in Requests, NEW u \in Users, ResetPassword(r, u)
      PROVE  [Registry!Next]_(Registry!vars)
  BY <1>23, <1>t, Quiescent DEF ResetPassword, Begin
<1>24. ASSUME NEW r \in Requests, NEW j \in Jtis, Refresh(r, j)
      PROVE  [Registry!Next]_(Registry!vars)
  BY <1>24, <1>t, Quiescent DEF Refresh, Begin
<1>25. ASSUME NEW r \in Requests, NEW j \in Jtis, RefreshReuse(r, j)
      PROVE  [Registry!Next]_(Registry!vars)
  BY <1>25, <1>t, Quiescent DEF RefreshReuse, Begin
<1>26. ASSUME NEW r \in Requests, NEW j \in Jtis, Logout(r, j)
      PROVE  [Registry!Next]_(Registry!vars)
  BY <1>26, <1>t, Quiescent DEF Logout, Begin
<1>28. ASSUME NEW r \in Requests, FindRows(r)
      PROVE  [Registry!Next]_(Registry!vars)
  BY <1>28, <1>t, Quiescent DEF FindRows
<1>29. ASSUME NEW r \in Requests, LockRows(r)
      PROVE  [Registry!Next]_(Registry!vars)
  BY <1>29, <1>t, Quiescent DEF LockRows, AfterRows
<1>27. CASE UNCHANGED vars
  BY <1>27, Invisible DEF vars, Unissued
<1> QED
  BY <1>1, <1>2, <1>3, <1>4, <1>5, <1>6, <1>7, <1>8, <1>9, <1>10, <1>11, <1>12, <1>13, <1>14,
     <1>15, <1>16, <1>17, <1>18, <1>19, <1>20, <1>21, <1>22, <1>23, <1>24, <1>25, <1>26, <1>27,
     <1>28, <1>29 DEF Next, Arrive, Handle

\* The sessions implement the registry: for every number of users, tokens and
\* requests in flight, a dead token never comes back to life.
THEOREM SessionsRefineRegistry == Spec => ImplementsRegistry
  BY InvAlways, RefineInit, RefineStep, PTL DEF Spec, ImplementsRegistry, Registry!Spec

-----------------------------------------------------------------------------
(* What the registry promises holds of the sessions                        *)

RegistryThms == INSTANCE TokenRegistryProofs WITH
  status <- [j \in Jtis |-> Status(j)],
  holder <- [j \in Jtis |-> Holder(j)],
  origin <- parent,
  OneSuccessor <- ~Overlap

\* When the requests of a user do not overlap, a login has one live token at
\* most, however often it is rotated and wherever rotations fail.
THEOREM OneLiveToken == Spec => []OneLivePerLogin
<1>1. RegistryThms!Spec => []RegistryThms!OneLivePerFamily
  <2>1. RegistryThms!RegistryAssumption
    BY SessionsAssumption DEF RegistryThms!RegistryAssumption
  <2> QED
    BY <2>1, RegistryThms!RegistryOneLive
<1>2. Registry!Spec => RegistryThms!Spec
  <2>1. Registry!Init => RegistryThms!Init
    BY DEF Registry!Init, RegistryThms!Init
  <2>2. [Registry!Next]_(Registry!vars) => [RegistryThms!Next]_(RegistryThms!vars)
    BY DEF Registry!Next, Registry!vars, Registry!Open, Registry!Discard, Registry!Succeed,
           Registry!Retire, Registry!Issue, Registry!HasSuccessor,
           RegistryThms!Next, RegistryThms!vars, RegistryThms!Open, RegistryThms!Discard,
           RegistryThms!Succeed, RegistryThms!Retire, RegistryThms!Issue,
           RegistryThms!HasSuccessor
  <2> QED
    BY <2>1, <2>2, PTL DEF Registry!Spec, RegistryThms!Spec
<1>3. RegistryThms!OneLivePerFamily => OneLivePerLogin
  BY DEF RegistryThms!OneLivePerFamily, OneLivePerLogin, Registry!OneLivePerFamily
<1> QED
  BY <1>1, <1>2, <1>3, SessionsRefineRegistry, PTL DEF ImplementsRegistry

\* A token that is dead stays dead, and nobody else ever holds it: whichever
\* requests overlap, no SETEX of lr:auth:refresh:{jti} follows the DEL of one.
DeadForGood ==
  [][\A j \in Jtis : Status(j) = "dead" =>
       Status(j)' = "dead" /\ Holder(j)' = Holder(j)]_vars

\* Holds of the registry, hence of every step of the sessions (RefineStep).
THEOREM DeadStaysDead == Spec => DeadForGood
<1>1. IInv /\ [Next]_vars =>
        \A j \in Jtis : Status(j) = "dead" => Status(j)' = "dead" /\ Holder(j)' = Holder(j)
  <2> SUFFICES ASSUME IInv, [Next]_vars, NEW j \in Jtis, Status(j) = "dead"
               PROVE  Status(j)' = "dead" /\ Holder(j)' = Holder(j)
    OBVIOUS
  <2> DEFINE S == [k \in Jtis |-> Status(k)]
             H == [k \in Jtis |-> Holder(k)]
  <2>1. [Registry!Next]_(Registry!vars)
    BY RefineStep
  <2>2. S[j] = "dead" /\ DOMAIN S = Jtis /\ DOMAIN H = Jtis
    OBVIOUS
  <2>3. S'[j] = Status(j)' /\ H'[j] = Holder(j)' /\ H[j] = Holder(j)
    OBVIOUS
  <2>4. CASE UNCHANGED Registry!vars
    BY <2>2, <2>3, <2>4 DEF Registry!vars
  <2>5. ASSUME NEW u \in Users, NEW k \in Jtis, Registry!Open(u, k) \/ Registry!Discard(u, k)
        PROVE  S'[j] = "dead" /\ H'[j] = H[j]
    BY <2>2, <2>5 DEF Registry!Open, Registry!Issue, Registry!Discard
  <2>6. ASSUME NEW i \in Jtis, NEW k \in Jtis, Registry!Succeed(i, k)
        PROVE  S'[j] = "dead" /\ H'[j] = H[j]
    BY <2>2, <2>6 DEF Registry!Succeed, Registry!Issue
  <2>7. ASSUME NEW k \in Jtis, Registry!Retire(k)
        PROVE  S'[j] = "dead" /\ H'[j] = H[j]
    BY <2>2, <2>7 DEF Registry!Retire
  <2> HIDE DEF S, H
  <2> QED
    BY <2>1, <2>3, <2>4, <2>5, <2>6, <2>7 DEF Registry!Next
<1> QED
  BY <1>1, InvAlways, PTL DEF Spec, DeadForGood

\* A revocation of all sessions kills each token it has read from the user's
\* set before it goes on to the next, whatever overlaps; with DeadStaysDead it
\* is killed for good.  What a revocation misses is what was not in the set when
\* it read it (_revoke_all_sessions, lines 272 to 278).
ReadIsKilled ==
  [][\A r \in Requests : pc[r] \in {"loop", "loopMark"} =>
       \A j \in todo[r] : j \in todo'[r] \/ Status(j)' = "dead" \/ pc'[r] = "idle"]_vars

\* Holds for any number of revocations of one user at a time, and for requests
\* that refresh or log out the same tokens meanwhile.
THEOREM RevocationKillsWhatItReads == Spec => ReadIsKilled
<1>1. IInv /\ [Next]_vars =>
        \A r \in Requests : pc[r] \in {"loop", "loopMark"} =>
          \A j \in todo[r] : j \in todo'[r] \/ Status(j)' = "dead" \/ pc'[r] = "idle"
  <2> SUFFICES ASSUME IInv, [Next]_vars, NEW r \in Requests, pc[r] \in {"loop", "loopMark"},
                      NEW j \in todo[r], j \notin todo'[r], pc'[r] # "idle"
               PROVE  Status(j)' = "dead"
    OBVIOUS
  <2> USE DEF IInv, TypeOK, Step, reqVars
  <2>1. LoopMark(r)
    <3>1. todo' # todo
      OBVIOUS
    <3>2. PICK q \in Requests : Arrive(q) \/ Handle(q) \/ Fail(q) \/ DeadlockVictim(q)
      BY <3>1 DEF Next, vars
    <3>3. CASE q = r
      BY <3>1, <3>2, <3>3 DEF Handle, Arrive, Login, RevokeAllSessions, ResetPassword, Refresh,
         RefreshReuse, Logout, Begin, Admit, StoreKey, StoreMember, CheckKey, LoadUser,
         DeleteKey, MarkRevoked, RemoveMember, UpdateRow, ReadMembers, LoopDelete, DropSet,
         FlushUser, UpdateRows, FindRows, LockRows, RaiseReuse, Deactivate, Respond, Commit, Fail,
         DeadlockVictim, Rollback, Release
    <3>4. CASE q # r
      <4>1. todo'[r] = todo[r]
        BY <3>2, <3>4 DEF Handle, Arrive, Login, RevokeAllSessions, ResetPassword, Refresh,
           RefreshReuse, Logout, Begin, StoreKey, StoreMember, CheckKey, LoadUser,
           DeleteKey, MarkRevoked, RemoveMember, UpdateRow, ReadMembers, LoopDelete, LoopMark,
           DropSet, FlushUser, UpdateRows, FindRows, LockRows, RaiseReuse, Deactivate, Respond, Commit, Fail,
           DeadlockVictim, Rollback, Release
      <4> QED
        BY <4>1
    <3> QED
      BY <3>3, <3>4
  <2>2. j = jti[r] /\ pc[r] = "loopMark" /\ UNCHANGED <<sub, refreshKey, newJti>>
    BY <2>1 DEF LoopMark, tokenVars
  <2>3. refreshKey[j] = Nil /\ Stored(j) /\ sub[j] # Nil /\ j \in Jtis
    BY <2>2, SessionsAssumption DEF Revocation, Control, Published
  <2>4. ~Unissued(j)'
    <3>1. \A q \in Requests : pc[q] = "setKey" => newJti[q] # j
      BY <2>3 DEF Fresh, Control
    <3>2. \A q \in Requests : pc'[q] = "setKey" => pc[q] = "setKey"
      BY <2>1 DEF LoopMark
    <3> QED
      BY <2>2, <2>3, <3>1, <3>2 DEF Unissued
  <2> QED
    BY <2>2, <2>3, <2>4 DEF Status
<1> QED
  BY <1>1, InvAlways, PTL DEF Spec, ReadIsKilled

\* A live token leaves its user's set only by the DEL of a whole set at the end
\* of a revocation (line 280), never by a SREM: the token that sessions_orphan
\* loses is lost there, and nowhere else can one be lost.
OnlyDropSetOrphans ==
  [][\A j \in Jtis, u \in Users :
       j \in userSessions[u] /\ j \notin userSessions'[u] /\ refreshKey'[j] # Nil
         => \E r \in Requests : DropSet(r) /\ uid[r] = u]_vars

\* What SREM takes out is marked already, by logout and by refresh.
Marked == \A r \in Requests : pc[r] = "srem" => jti[r] \in revokedKey

LEMMA MarkedAlways == Spec => []Marked
<1>1. Init => Marked
  BY DEF Init, Marked
<1>2. ASSUME TypeOK, Marked, [Next]_vars PROVE Marked'
  <2> SUFFICES ASSUME NEW r \in Requests, pc'[r] = "srem" PROVE jti'[r] \in revokedKey'
    BY DEF Marked
  <2> USE <1>2 DEF TypeOK, Step, reqVars, redisVars
  <2>1. revokedKey \subseteq revokedKey'
    BY DEF Next, Arrive, Handle, vars, Login, RevokeAllSessions,
           ResetPassword, Refresh, RefreshReuse, Logout, StoreKey, StoreMember, CheckKey,
           LoadUser, DeleteKey, MarkRevoked, RemoveMember, UpdateRow, ReadMembers, LoopDelete,
           LoopMark, DropSet, FlushUser, UpdateRows, FindRows, LockRows, RaiseReuse, Deactivate, Respond,
           Commit, Fail, DeadlockVictim, Rollback
  <2>2. CASE MarkRevoked(r)
    BY <2>2 DEF MarkRevoked
  <2>3. CASE ~MarkRevoked(r)
    <3>1. pc[r] = "srem" /\ jti'[r] = jti[r]
      BY <2>3 DEF Next, Arrive, Handle, vars, Login, RevokeAllSessions,
           ResetPassword, Refresh, RefreshReuse, Logout, StoreKey, StoreMember, CheckKey,
           LoadUser, DeleteKey, MarkRevoked, RemoveMember, UpdateRow, ReadMembers, LoopDelete,
           LoopMark, DropSet, FlushUser, UpdateRows, FindRows, LockRows, RaiseReuse, Deactivate, Respond,
           Commit, Fail, DeadlockVictim, Rollback, Release, Begin, AfterRows
    <3> QED
      BY <2>1, <3>1 DEF Marked
  <2> QED
    BY <2>2, <2>3
<1> QED
  BY <1>1, <1>2, SessionsTyped, PTL DEF Spec

\* Holds for any requests that overlap, and with faults: a live token that falls
\* out of the set does so at a DropSet of its own user.
THEOREM OrphansByDropSet == Spec => OnlyDropSetOrphans
<1>1. IInv /\ Marked /\ [Next]_vars =>
        \A j \in Jtis, u \in Users :
          j \in userSessions[u] /\ j \notin userSessions'[u] /\ refreshKey'[j] # Nil
            => \E r \in Requests : DropSet(r) /\ uid[r] = u
  <2> SUFFICES ASSUME IInv, Marked, [Next]_vars, NEW j \in Jtis, NEW u \in Users,
                      j \in userSessions[u], j \notin userSessions'[u], refreshKey'[j] # Nil
               PROVE  \E r \in Requests : DropSet(r) /\ uid[r] = u
    OBVIOUS
  <2> USE DEF IInv, TypeOK, redisVars
  <2>1. PICK r \in Requests : StoreMember(r) \/ RemoveMember(r) \/ DropSet(r)
    BY DEF Next, Arrive, Handle, vars, Login, RevokeAllSessions,
           ResetPassword, Refresh, RefreshReuse, Logout, StoreKey, CheckKey,
           LoadUser, DeleteKey, MarkRevoked, UpdateRow, ReadMembers, LoopDelete,
           LoopMark, FlushUser, UpdateRows, FindRows, LockRows, RaiseReuse, Deactivate, Respond,
           Commit, Fail, DeadlockVictim, Rollback
  <2>2. CASE StoreMember(r)
    BY <2>2 DEF StoreMember
  <2>3. CASE RemoveMember(r)
    BY <2>3 DEF RemoveMember, Step, Marked, Revocation, LiveNotRevoked
  <2>4. CASE DropSet(r)
    BY <2>4 DEF DropSet
  <2> QED
    BY <2>1, <2>2, <2>3, <2>4
<1> QED
  BY <1>1, InvAlways, MarkedAlways, PTL DEF Spec, OnlyDropSetOrphans

\* The race on one token needs two requests of the same user: where they do
\* not overlap, a refresh token has one successor at most, wherever its
\* rotation or a later one fails (refresh).
THEOREM RotatedOnce == ASSUME ~Overlap PROVE Spec => []SingleSuccessor
<1>1. Init => SingleSuccessor
  BY DEF Init, SingleSuccessor
<1>2. ASSUME IInv, SingleSuccessor, [Next]_vars PROVE SingleSuccessor'
  <2> USE DEF tokenVars, reqVars, Begin
  <2>1. CASE \E r \in Requests : StoreKey(r)
    <3>1. PICK r \in Requests : StoreKey(r)
      BY <2>1
    <3>2. PICK j \in Jtis : j = newJti[r] /\ parent' = [parent EXCEPT ![j] = jti[r]]
      BY <1>2, <3>1 DEF StoreKey, Step, IInv, TypeOK, Control
    <3>3. jti[r] # Nil => \A k \in Jtis : parent[k] # jti[r]
      BY <1>2, <3>1 DEF StoreKey, Step, IInv, Control, Serial, Rotating
    <3> QED
      BY <1>2, <3>2, <3>3 DEF SingleSuccessor, IInv, TypeOK
  <2>2. CASE ~\E r \in Requests : StoreKey(r)
    <3>1. parent' = parent
      BY <1>2, <2>2 DEF Next, Arrive, Handle, vars, Login, Mint, RevokeAllSessions,
             ResetPassword, Refresh, RefreshReuse, Logout, StoreMember, CheckKey, LoadUser,
             DeleteKey, MarkRevoked, RemoveMember, UpdateRow, ReadMembers, LoopDelete,
             LoopMark, DropSet, FlushUser, UpdateRows, FindRows, LockRows, RaiseReuse, Deactivate, Respond,
             Commit, Fail, DeadlockVictim, Rollback
    <3> QED
      BY <1>2, <3>1 DEF SingleSuccessor
  <2> QED
    BY <2>1, <2>2
<1> QED
  BY <1>1, <1>2, InvAlways, PTL DEF Spec

-----------------------------------------------------------------------------
(* Who holds row locks, and who waits for them                             *)

\* A row of user_sessions is locked by a request of the user it belongs to,
\* from its UPDATE on; the users row is locked by reset-password from its flush
\* on and by delete-account from the flush before its answer on.
Locking ==
  \A r \in Requests :
    /\ touched[r] # {} =>
         /\ op[r] # "login"
         /\ pc[r] \in {"loadUser", "setKey", "sadd", "respond", "commit", "raise", "deactivate"}
    /\ \A j \in touched[r] : sub[j] = uid[r]
    /\ userLock[r] = "key" => op[r] = "delete_account" /\ pc[r] \in {"respond", "commit"}
    /\ userLock[r] = "noKey" =>
         op[r] = "reset_password" /\ pc[r] \in {"updateRows", "lockRows", "respond", "commit"}
    /\ pc[r] = "flushUser" => op[r] = "reset_password"
    /\ op[r] = "reset_password" /\ pc[r] \in {"updateRows", "lockRows"} => userLock[r] = "noKey"

LEMMA LockingInit == Init => Locking
  BY DEF Init, Locking

LEMMA LockingRollback ==
  ASSUME TypeOK, Locking, NEW r \in Requests, Rollback(r)
  PROVE  Locking'
  BY SessionsAssumption DEF TypeOK, Locking, Rollback, Release, tokenVars

LEMMA LockingStep == IInv /\ Locking /\ [Next]_vars => Locking'
<1> SUFFICES ASSUME IInv, Locking, [Next]_vars PROVE Locking'
  OBVIOUS
<1>t. TypeOK /\ Control
  BY DEF IInv
<1> USE SessionsAssumption
    DEF TypeOK, Control, Locking, tokenVars, redisVars, dbVars, txVars, reqVars, Issuing, Step
<1>1. ASSUME NEW r \in Requests, StoreKey(r) PROVE Locking'
  BY <1>1, <1>t DEF StoreKey
<1>2. ASSUME NEW r \in Requests, StoreMember(r) PROVE Locking'
  BY <1>2, <1>t DEF StoreMember
<1>3. ASSUME NEW r \in Requests, CheckKey(r) PROVE Locking'
  BY <1>3, <1>t, LockingRollback DEF CheckKey
<1>4. ASSUME NEW r \in Requests, LoadUser(r) PROVE Locking'
  <2>1. CASE Rollback(r)
    BY <2>1, <1>t, LockingRollback
  <2>2. CASE ~Rollback(r)
    <3>1. PICK j \in Jtis \ Minted : sub' = [sub EXCEPT ![j] = uid[r]]
      BY <1>4, <2>2 DEF LoadUser, Mint
    <3>2. /\ pc[r] = "loadUser" /\ pc' = [pc EXCEPT ![r] = "setKey"]
          /\ UNCHANGED <<op, uid, touched, userLock>>
      BY <1>4, <2>2 DEF LoadUser
    <3>3. \A q \in Requests : j \notin touched[q]
      BY <3>1, <1>t DEF Minted
    <3> QED
      BY <3>1, <3>2, <3>3, <1>t
  <2> QED
    BY <2>1, <2>2
<1>5. ASSUME NEW r \in Requests, DeleteKey(r) PROVE Locking'
  BY <1>5, <1>t DEF DeleteKey
<1>6. ASSUME NEW r \in Requests, MarkRevoked(r) PROVE Locking'
  BY <1>6, <1>t DEF MarkRevoked
<1>7. ASSUME NEW r \in Requests, RemoveMember(r) PROVE Locking'
  BY <1>7, <1>t DEF RemoveMember
<1>8. ASSUME NEW r \in Requests, UpdateRow(r) PROVE Locking'
  BY <1>8, <1>t DEF UpdateRow, OpenRows
<1>9. ASSUME NEW r \in Requests, ReadMembers(r) PROVE Locking'
  BY <1>9, <1>t DEF ReadMembers
<1>10. ASSUME NEW r \in Requests, LoopDelete(r) PROVE Locking'
  BY <1>10, <1>t DEF LoopDelete
<1>11. ASSUME NEW r \in Requests, LoopMark(r) PROVE Locking'
  BY <1>11, <1>t DEF LoopMark
<1>12. ASSUME NEW r \in Requests, DropSet(r) PROVE Locking'
  BY <1>12, <1>t DEF DropSet
<1>13. ASSUME NEW r \in Requests, FlushUser(r) PROVE Locking'
  BY <1>13, <1>t DEF FlushUser
<1>14. ASSUME NEW r \in Requests, UpdateRows(r) PROVE Locking'
  BY <1>14, <1>t DEF UpdateRows, OpenRows, AfterRows
<1>15. ASSUME NEW r \in Requests, RaiseReuse(r) PROVE Locking'
  BY <1>15, <1>t, LockingRollback DEF RaiseReuse
<1>16. ASSUME NEW r \in Requests, Deactivate(r) PROVE Locking'
  BY <1>16, <1>t DEF Deactivate
<1>17. ASSUME NEW r \in Requests, Respond(r) PROVE Locking'
  BY <1>17, <1>t DEF Respond
<1>18. ASSUME NEW r \in Requests, Commit(r) PROVE Locking'
  BY <1>18, <1>t DEF Commit, Release
<1>19. ASSUME NEW r \in Requests, Fail(r) PROVE Locking'
  BY <1>19, <1>t, LockingRollback DEF Fail
<1>20. ASSUME NEW r \in Requests, DeadlockVictim(r) PROVE Locking'
  BY <1>20, <1>t, LockingRollback DEF DeadlockVictim
<1>21. ASSUME NEW r \in Requests, NEW u \in Users, Login(r, u) PROVE Locking'
  <2>1. PICK j \in Jtis \ Minted : sub' = [sub EXCEPT ![j] = u]
    BY <1>21 DEF Login, Mint
  <2>2. /\ pc[r] = "idle" /\ pc' = [pc EXCEPT ![r] = "setKey"]
        /\ op' = [op EXCEPT ![r] = "login"] /\ uid' = [uid EXCEPT ![r] = u]
        /\ UNCHANGED <<touched, userLock>>
    BY <1>21 DEF Login, Begin
  <2>3. \A q \in Requests : j \notin touched[q]
    BY <2>1, <1>t DEF Minted
  <2> QED
    BY <2>1, <2>2, <2>3, <1>t
<1>22. ASSUME NEW r \in Requests, NEW u \in Users, RevokeAllSessions(r, u) PROVE Locking'
  BY <1>22, <1>t DEF RevokeAllSessions, Begin
<1>23. ASSUME NEW r \in Requests, NEW u \in Users, ResetPassword(r, u) PROVE Locking'
  BY <1>23, <1>t DEF ResetPassword, Begin
<1>24. ASSUME NEW r \in Requests, NEW j \in Jtis, Refresh(r, j) PROVE Locking'
  BY <1>24, <1>t DEF Refresh, Begin
<1>25. ASSUME NEW r \in Requests, NEW j \in Jtis, RefreshReuse(r, j) PROVE Locking'
  BY <1>25, <1>t DEF RefreshReuse, Begin
<1>26. ASSUME NEW r \in Requests, NEW j \in Jtis, Logout(r, j) PROVE Locking'
  BY <1>26, <1>t DEF Logout, Begin
<1>28. ASSUME NEW r \in Requests, FindRows(r) PROVE Locking'
  BY <1>28, <1>t DEF FindRows
<1>29. ASSUME NEW r \in Requests, LockRows(r) PROVE Locking'
  BY <1>29, <1>t DEF LockRows, OpenRows, AfterRows
<1>27. CASE UNCHANGED vars
  BY <1>27, <1>t DEF vars
<1> QED
  BY <1>1, <1>2, <1>3, <1>4, <1>5, <1>6, <1>7, <1>8, <1>9, <1>10, <1>11, <1>12, <1>13, <1>14, <1>15, <1>16, <1>17, <1>18, <1>19, <1>20, <1>21, <1>22, <1>23, <1>24, <1>25, <1>26, <1>27, <1>28, <1>29 DEF Next, Arrive, Handle

LEMMA LockingAlways == Spec => []Locking
  BY InvAlways, LockingInit, LockingStep, PTL DEF Spec

\* Waiting stays among the requests of one user, and none waits for a request
\* that is over.
WaitsWithin ==
  \A q, r \in Requests : WaitsFor(r, q) =>
    uid[r] = uid[q] /\ uid[r] \in Users /\ pc[r] # "idle" /\ pc[q] # "idle"

LEMMA Within == IInv /\ Locking => WaitsWithin
<1> SUFFICES ASSUME IInv, Locking, NEW q \in Requests, NEW r \in Requests, WaitsFor(r, q)
             PROVE  uid[r] = uid[q] /\ uid[r] \in Users /\ pc[r] # "idle" /\ pc[q] # "idle"
  BY DEF WaitsWithin
<1> USE SessionsAssumption
<1>1. pc[r] # "idle" /\ uid[r] \in Users
  BY DEF WaitsFor, IInv, Control
<1>2. pc[q] # "idle"
  <2>1. touched[q] # {} \/ userLock[q] \in {"key", "noKey"}
    BY DEF WaitsFor, IInv, TypeOK
  <2> QED
    BY <2>1 DEF Locking
<1>3. uid[r] = uid[q]
  <2>1. CASE pc[r] = "updateRow" /\ jti[r] \in touched[q]
    <3>1. jti[r] # Nil
      BY <2>1 DEF IInv, Control
    <3>2. sub[jti[r]] = uid[r]
      BY <3>1 DEF IInv, Published
    <3> QED
      BY <2>1, <3>2 DEF Locking
  <2>2. CASE pc[r] = "lockRows" /\ todo[r] \cap touched[q] # {}
    BY <2>2 DEF Locking, IInv, Published
  <2> QED
    BY <2>1, <2>2 DEF WaitsFor
<1> QED
  BY <1>1, <1>2, <1>3

\* Requests that wait only for one another: what PostgreSQL calls a deadlock.
Deadlocked(C) == C # {} /\ \A r \in C : \E q \in C : WaitsFor(r, q)

\* reset-password, which has the users row, and delete-account, which has the
\* rows of user_sessions, of one account: each waits for the other.
Opposed(r, q) ==
  /\ op[r] = "reset_password" /\ op[q] = "delete_account" /\ uid[r] = uid[q]
  /\ WaitsFor(r, q) /\ WaitsFor(q, r)

DeadlocksArePairs ==
  \A C \in SUBSET Requests : Deadlocked(C) => \E r, q \in C : Opposed(r, q)

\* Who waits and is waited for at the same time.
LEMMA Holding ==
  ASSUME IInv, Locking, NEW r \in Requests, NEW q \in Requests, NEW p \in Requests,
         WaitsFor(r, q), WaitsFor(q, p)
  PROVE  \/ pc[q] = "lockRows" /\ userLock[q] = "noKey"
         \/ pc[q] = "deactivate"
         \/ pc[q] = "commit" /\ userLock[p] = "key"
<1>1. touched[q] # {} \/ userLock[q] \in {"key", "noKey"}
  BY DEF WaitsFor, IInv, TypeOK
<1>2. pc[q] \in {"updateRow", "lockRows", "flushUser", "deactivate", "commit"}
  BY DEF WaitsFor
<1>3. CASE pc[q] = "commit"
  <2>1. op[q] \in {"login", "refresh"}
    BY <1>3 DEF WaitsFor
  <2>2. userLock[q] \notin {"key", "noKey"} /\ op[q] # "login"
    BY <1>1, <2>1 DEF Locking
  <2> QED
    BY <1>3, <2>1, <2>2 DEF WaitsFor
<1>4. CASE pc[q] # "commit"
  BY <1>1, <1>2, <1>4 DEF Locking
<1> QED
  BY <1>3, <1>4

\* Nobody waits who holds the key of the users row.
LEMMA KeyHolderRuns ==
  ASSUME Locking, NEW p \in Requests, NEW q \in Requests, userLock[p] = "key"
  PROVE  ~WaitsFor(p, q)
<1>1. op[p] = "delete_account" /\ pc[p] \in {"respond", "commit"}
  BY DEF Locking
<1> QED
  BY <1>1 DEF WaitsFor

LEMMA PairInCycle == IInv /\ Locking => DeadlocksArePairs
<1> SUFFICES ASSUME IInv, Locking, NEW C \in SUBSET Requests, Deadlocked(C)
             PROVE  \E r, q \in C : Opposed(r, q)
  BY DEF DeadlocksArePairs
<1>1. \A r \in C : \E q \in C : WaitsFor(r, q)
  BY DEF Deadlocked
<1>2. ASSUME NEW r \in C, NEW q \in C, WaitsFor(r, q)
      PROVE  \/ pc[q] = "lockRows" /\ userLock[q] = "noKey"
             \/ pc[q] = "deactivate"
  <2>1. PICK p \in C : WaitsFor(q, p)
    BY <1>1
  <2>2. PICK o \in C : WaitsFor(p, o)
    BY <1>1
  <2>3. userLock[p] # "key"
    BY <2>2, KeyHolderRuns
  <2> QED
    BY <1>2, <2>1, <2>3, Holding
<1>3. ASSUME NEW q \in C, pc[q] = "lockRows", userLock[q] = "noKey"
      PROVE  \E r, p \in C : Opposed(r, p)
  <2>1. PICK p \in C : WaitsFor(q, p)
    BY <1>1
  <2>2. touched[p] # {}
    BY <1>3, <2>1 DEF WaitsFor
  <2>3. pc[p] = "deactivate"
    BY <1>2, <2>1, <2>2 DEF Locking
  <2>4. op[q] = "reset_password" /\ op[p] = "delete_account"
    BY <1>3, <2>3 DEF Locking, IInv, Control
  <2>5. uid[q] = uid[p]
    BY <2>1, Within DEF WaitsWithin
  <2>6. WaitsFor(p, q)
    BY <1>3, <2>1, <2>3, <2>5 DEF WaitsFor
  <2> QED
    BY <2>1, <2>4, <2>5, <2>6 DEF Opposed
<1>4. ASSUME NEW q \in C, pc[q] = "deactivate"
      PROVE  \E r, p \in C : Opposed(r, p)
  <2>1. PICK p \in C : WaitsFor(q, p)
    BY <1>1
  <2>2. userLock[p] # "none"
    BY <1>4, <2>1 DEF WaitsFor
  <2>3. pc[p] = "lockRows" /\ userLock[p] = "noKey"
    <3>1. pc[p] # "deactivate"
      BY <2>2 DEF Locking, IInv, TypeOK
    <3> QED
      BY <1>2, <2>1, <3>1
  <2> QED
    BY <1>3, <2>3
<1>5. PICK r \in C : TRUE
  BY DEF Deadlocked
<1>6. PICK q \in C : WaitsFor(r, q)
  BY <1>1
<1> QED
  BY <1>2, <1>3, <1>4, <1>6

\* However many requests are in flight, a deadlock always has a reset-password
\* and a delete-account of one account that wait for each other: aborting one of
\* two requests that wait for each other (DeadlockVictim) resolves every
\* deadlock the locks of AuthService can form, and no other pair of operations
\* can form one.
THEOREM OnlyPairsDeadlock == Spec => []DeadlocksArePairs
  BY InvAlways, LockingAlways, PairInCycle, PTL

\* Waiting for a row lock never crosses from one account to another.
THEOREM WaitingStaysWithin == Spec => []WaitsWithin
  BY InvAlways, LockingAlways, Within, PTL

InFlight == {r \in Requests : pc[r] # "idle"}

\* Of the requests in flight one waits for no lock, or two wait for each other
\* and DeadlockVictim ends one of them: locks alone never stop all of them (the
\* safety half of RequestTerminates).
THEOREM NeverAllWait ==
  Spec => [](InFlight # {} =>
               \/ \E r \in InFlight : Granted(r)
               \/ \E q, r \in InFlight : WaitsFor(r, q) /\ WaitsFor(q, r))
<1>1. ASSUME WaitsWithin, DeadlocksArePairs, InFlight # {},
             \A r \in InFlight : ~Granted(r)
      PROVE  \E q, r \in InFlight : WaitsFor(r, q) /\ WaitsFor(q, r)
  <2>1. \A r \in InFlight : \E q \in InFlight : WaitsFor(r, q)
    BY <1>1 DEF Granted, WaitsWithin, InFlight
  <2>2. InFlight \in SUBSET Requests
    BY DEF InFlight
  <2>3. \E r, q \in InFlight : Opposed(r, q)
    BY <1>1, <2>1, <2>2 DEF DeadlocksArePairs, Deadlocked
  <2> QED
    BY <2>3 DEF Opposed
<1>2. WaitsWithin /\ DeadlocksArePairs =>
        (InFlight # {} =>
           \/ \E r \in InFlight : Granted(r)
           \/ \E q, r \in InFlight : WaitsFor(r, q) /\ WaitsFor(q, r))
  BY <1>1
<1> QED
  BY <1>2, OnlyPairsDeadlock, WaitingStaysWithin, PTL

\* A user who waits for each answer causes no deadlock, although a request may
\* wait for the commit of the one before it: of two requests that wait for each
\* other, neither would have answered.
THEOREM SerialNeverDeadlocks ==
  ASSUME ~Overlap
  PROVE  Spec => [](\A C \in SUBSET Requests : ~Deadlocked(C))
<1>1. ASSUME IInv, Locking, WaitsWithin, DeadlocksArePairs, NEW C \in SUBSET Requests
      PROVE  ~Deadlocked(C)
  <2> SUFFICES ASSUME Deadlocked(C) PROVE FALSE
    OBVIOUS
  <2>1. PICK r, q \in C : Opposed(r, q)
    BY <1>1 DEF DeadlocksArePairs
  <2>2. r # q /\ uid[r] = uid[q] /\ uid[r] \in Users
    BY <1>1, <2>1 DEF Opposed, WaitsFor, WaitsWithin
  <2>3. pc[r] # "commit" /\ pc[q] # "commit"
    BY <2>1 DEF Opposed, WaitsFor
  <2> QED
    BY <1>1, <2>2, <2>3, SessionsAssumption DEF IInv, Serial
<1>2. IInv /\ Locking /\ WaitsWithin /\ DeadlocksArePairs =>
        \A C \in SUBSET Requests : ~Deadlocked(C)
  BY <1>1
<1> QED
  BY <1>2, InvAlways, LockingAlways, WaitingStaysWithin, OnlyPairsDeadlock, PTL

-----------------------------------------------------------------------------
(* Clients whose requests follow one another: the inductive invariant,     *)
(* which builds on IInv                                                    *)

\* Between these awaits and the answer, every token _revoke_all_sessions is
\* about is dead, and the user has not been able to get another.
Swept(r) ==
  \/ pc[r] \in {"flushUser", "updateRows", "lockRows", "deactivate", "raise"}
  \/ op[r] \in Revoking /\ pc[r] = "respond"

\* What clients hold: tokens are answered before their rows are committed.
Answered ==
  /\ \A r \in Requests : pc[r] = "commit" /\ op[r] \in Issuing => newJti[r] \in delivered
  /\ \A r \in Requests : \A j \in held[r] : j \in delivered /\ sub[j] = uid[r]
  /\ \A r \in Requests : touched[r] \subseteq delivered
  /\ \A j \in Jtis : sessionRow[j] # "absent" => j \in delivered

\* The set of a user has every live token a client holds or is about to hold.
Indexed ==
  /\ DeliveredIndexed
  /\ \A r \in Requests : pc[r] = "respond" /\ op[r] \in Issuing
       => newJti[r] \in userSessions[uid[r]]
  /\ \A r \in Requests : pc[r] \in {"loop", "loopMark"} =>
       \A j \in userSessions[uid[r]] : refreshKey[j] # Nil => j \in todo[r]

\* What has been revoked in Redis, as seen from the requests and the rows.
Killed ==
  /\ \A r \in Requests : pc[r] \in {"srem", "updateRow"} => refreshKey[jti[r]] = Nil
  /\ \A r \in Requests : Swept(r) =>
       \A j \in delivered : sub[j] = uid[r] => refreshKey[j] = Nil
  /\ \A r \in Requests : op[r] \in Revoking /\ pc[r] = "commit" =>
       \A j \in held[r] : refreshKey[j] = Nil
  /\ \A r \in Requests : \A j \in touched[r] : refreshKey[j] = Nil
  /\ RevokedRowNotLive

SInv == Answered /\ Indexed /\ Killed

LEMMA SerialInit == Init => SInv
  BY SessionsAssumption DEF Init, SInv, Answered, Indexed, Killed, Swept, Issuing, Revoking,
     DeliveredIndexed, RevokedRowNotLive

LEMMA SerialRollback ==
  ASSUME SInv, IInv, NEW r \in Requests, Rollback(r)
  PROVE  SInv'
<1> USE SessionsAssumption
    DEF IInv, TypeOK, SInv, Answered, Indexed, Killed, Swept,
        DeliveredIndexed, RevokedRowNotLive,
        Rollback, Release, tokenVars, redisVars, dbVars, Issuing, Revoking
<1>1. Answered'
  OBVIOUS
<1>2. Indexed'
  OBVIOUS
<1>3. Killed'
  OBVIOUS
<1> QED
  BY <1>1, <1>2, <1>3

LEMMA SerialStep == ASSUME ~Overlap PROVE IInv /\ SInv /\ [Next]_vars => SInv'
<1> SUFFICES ASSUME ~Overlap, IInv, SInv, [Next]_vars PROVE SInv'
  OBVIOUS
<1> USE SessionsAssumption
    DEF IInv, TypeOK, Control, Published, Fresh, Revocation, Serial, Stored, LiveNotRevoked,
        SInv, Answered, Indexed, Killed, Swept,
        DeliveredIndexed, RevokedRowNotLive,
        tokenVars, redisVars, dbVars, txVars, reqVars, Issuing, Revoking, Step
<1>1. ASSUME NEW r \in Requests, StoreKey(r) PROVE SInv'
  <2>1. Answered'
    BY <1>1 DEF StoreKey
  <2>2. Indexed'
    BY <1>1 DEF StoreKey
  <2>3. Killed'
    BY <1>1 DEF StoreKey
  <2> QED
    BY <2>1, <2>2, <2>3
<1>2. ASSUME NEW r \in Requests, StoreMember(r) PROVE SInv'
  <2>1. Answered'
    BY <1>2 DEF StoreMember
  <2>2. Indexed'
    BY <1>2 DEF StoreMember
  <2>3. Killed'
    BY <1>2 DEF StoreMember
  <2> QED
    BY <2>1, <2>2, <2>3
<1>3. ASSUME NEW r \in Requests, CheckKey(r) PROVE SInv'
  <2>1. CASE Rollback(r)
    BY <2>1, SerialRollback
  <2>2. CASE ~Rollback(r)
    <3>1. /\ pc[r] = "checkKey" /\ pc' = [pc EXCEPT ![r] = "delKey"]
          /\ UNCHANGED <<tokenVars, redisVars, dbVars, txVars, reqVars>>
      BY <1>3, <2>2 DEF CheckKey
    <3>2. Answered'
      BY <3>1
    <3>3. Indexed'
      BY <3>1
    <3>4. Killed'
      BY <3>1
    <3> QED
      BY <3>2, <3>3, <3>4
  <2> QED
    BY <2>1, <2>2
<1>4. ASSUME NEW r \in Requests, LoadUser(r) PROVE SInv'
  <2>1. CASE Rollback(r)
    BY <2>1, SerialRollback
  <2>2. CASE ~Rollback(r)
    <3>1. PICK k \in Jtis \ Minted :
            /\ sub' = [sub EXCEPT ![k] = uid[r]]
            /\ newJti' = [newJti EXCEPT ![r] = k]
            /\ UNCHANGED <<parent, family, delivered, late>>
      BY <1>4, <2>2 DEF LoadUser, Mint
    <3>2. /\ pc[r] = "loadUser" /\ pc' = [pc EXCEPT ![r] = "setKey"]
          /\ isActive[uid[r]]
          /\ UNCHANGED <<redisVars, dbVars, txVars, op, uid, jti, todo, held>>
      BY <1>4, <2>2 DEF LoadUser
    <3>3. \A j \in delivered : sub'[j] = sub[j]
      BY <3>1 DEF Minted
    <3>4. Answered'
      BY <3>1, <3>2, <3>3
    <3>5. Indexed'
      BY <3>1, <3>2, <3>3
    <3>6. Killed'
      BY <3>1, <3>2, <3>3
    <3> QED
      BY <3>4, <3>5, <3>6
  <2> QED
    BY <2>1, <2>2
<1>5. ASSUME NEW r \in Requests, DeleteKey(r) PROVE SInv'
  <2>1. Answered'
    BY <1>5 DEF DeleteKey
  <2>2. Indexed'
    BY <1>5 DEF DeleteKey
  <2>3. Killed'
    BY <1>5 DEF DeleteKey
  <2> QED
    BY <2>1, <2>2, <2>3
<1>6. ASSUME NEW r \in Requests, MarkRevoked(r) PROVE SInv'
  <2>1. Answered'
    BY <1>6 DEF MarkRevoked
  <2>2. Indexed'
    BY <1>6 DEF MarkRevoked
  <2>3. Killed'
    BY <1>6 DEF MarkRevoked
  <2> QED
    BY <2>1, <2>2, <2>3
<1>7. ASSUME NEW r \in Requests, RemoveMember(r) PROVE SInv'
  <2>1. Answered'
    BY <1>7 DEF RemoveMember
  <2>2. Indexed'
    <3>1. /\ pc[r] = "srem" /\ pc' = [pc EXCEPT ![r] = "updateRow"]
          /\ userSessions' = [userSessions EXCEPT ![uid[r]] = @ \ {jti[r]}]
          /\ UNCHANGED <<sub, delivered, refreshKey, op, uid, jti, newJti, todo>>
      BY <1>7 DEF RemoveMember
    <3>2. jti[r] \in Jtis /\ refreshKey[jti[r]] = Nil /\ uid[r] \in Users
      BY <3>1
    <3>3. DeliveredIndexed'
      BY <3>1, <3>2
    <3>4. ASSUME NEW q \in Requests, pc'[q] = "respond", op'[q] \in Issuing
          PROVE  newJti'[q] \in userSessions'[uid'[q]]
      <4>1. q # r /\ pc[q] = "respond" /\ newJti[q] \in userSessions[uid[q]]
        BY <3>1, <3>4
      <4>2. \A y, z \in Requests :
              uid[y] # Nil /\ uid[y] = uid[z] /\ pc[y] # "commit" /\ pc[z] # "commit" => y = z
        BY DEF IInv, Serial
      <4>3. uid[r] # Nil
        BY <3>2, SessionsAssumption
      <4>4. uid[q] # uid[r]
        BY <3>1, <4>1, <4>2, <4>3
      <4> QED
        BY <3>1, <4>1, <4>4
    <3>5. ASSUME NEW q \in Requests, pc'[q] \in {"loop", "loopMark"},
                 NEW j \in userSessions'[uid'[q]], refreshKey'[j] # Nil
          PROVE  j \in todo'[q]
      BY <3>1, <3>5
    <3> QED
      BY <3>3, <3>4, <3>5
  <2>3. Killed'
    BY <1>7 DEF RemoveMember
  <2> QED
    BY <2>1, <2>2, <2>3
<1>8. ASSUME NEW r \in Requests, UpdateRow(r) PROVE SInv'
  <2>1. Answered'
    BY <1>8 DEF UpdateRow, OpenRows
  <2>2. Indexed'
    BY <1>8 DEF UpdateRow, OpenRows
  <2>3. Killed'
    BY <1>8 DEF UpdateRow, OpenRows
  <2> QED
    BY <2>1, <2>2, <2>3
<1>9. ASSUME NEW r \in Requests, ReadMembers(r) PROVE SInv'
  <2>1. Answered'
    BY <1>9 DEF ReadMembers
  <2>2. Indexed'
    BY <1>9 DEF ReadMembers
  <2>3. Killed'
    BY <1>9 DEF ReadMembers
  <2> QED
    BY <2>1, <2>2, <2>3
<1>10. ASSUME NEW r \in Requests, LoopDelete(r) PROVE SInv'
  <2>1. Answered'
    BY <1>10 DEF LoopDelete
  <2>2. Indexed'
    BY <1>10 DEF LoopDelete
  <2>3. Killed'
    BY <1>10 DEF LoopDelete
  <2> QED
    BY <2>1, <2>2, <2>3
<1>11. ASSUME NEW r \in Requests, LoopMark(r) PROVE SInv'
  <2>1. Answered'
    BY <1>11 DEF LoopMark
  <2>2. Indexed'
    BY <1>11 DEF LoopMark
  <2>3. Killed'
    BY <1>11 DEF LoopMark
  <2> QED
    BY <2>1, <2>2, <2>3
<1>12. ASSUME NEW r \in Requests, DropSet(r) PROVE SInv'
  <2>1. Answered'
    BY <1>12 DEF DropSet
  <2>2. Indexed'
    <3>1. /\ pc[r] = "loop" /\ todo[r] = {} /\ uid[r] \in Users
          /\ userSessions' = [userSessions EXCEPT ![uid[r]] = {}]
          /\ pc' \in {[pc EXCEPT ![r] = "flushUser"], [pc EXCEPT ![r] = "updateRows"]}
          /\ UNCHANGED <<sub, delivered, refreshKey, op, uid, jti, newJti, todo>>
      BY <1>12 DEF DropSet
    <3>2. \A j \in userSessions[uid[r]] : refreshKey[j] = Nil
      BY <3>1
    <3>3. DeliveredIndexed'
      BY <3>1, <3>2
    <3>4. ASSUME NEW q \in Requests, pc'[q] = "respond", op'[q] \in Issuing
          PROVE  newJti'[q] \in userSessions'[uid'[q]]
      <4>1. q # r /\ pc[q] = "respond" /\ newJti[q] \in userSessions[uid[q]]
        BY <3>1, <3>4
      <4>2. \A y, z \in Requests :
              uid[y] # Nil /\ uid[y] = uid[z] /\ pc[y] # "commit" /\ pc[z] # "commit" => y = z
        BY DEF IInv, Serial
      <4>3. uid[q] # uid[r]
        BY <3>1, <4>1, <4>2, SessionsAssumption
      <4> QED
        BY <3>1, <4>1, <4>3
    <3>5. ASSUME NEW q \in Requests, pc'[q] \in {"loop", "loopMark"},
                 NEW j \in userSessions'[uid'[q]], refreshKey'[j] # Nil
          PROVE  j \in todo'[q]
      BY <3>1, <3>5
    <3> QED
      BY <3>3, <3>4, <3>5
  <2>3. Killed'
    BY <1>12 DEF DropSet
  <2> QED
    BY <2>1, <2>2, <2>3
<1>13. ASSUME NEW r \in Requests, FlushUser(r) PROVE SInv'
  <2>1. Answered'
    BY <1>13 DEF FlushUser
  <2>2. Indexed'
    BY <1>13 DEF FlushUser
  <2>3. Killed'
    BY <1>13 DEF FlushUser
  <2> QED
    BY <2>1, <2>2, <2>3
<1>14. ASSUME NEW r \in Requests, UpdateRows(r) PROVE SInv'
  <2>1. Answered'
    BY <1>14 DEF UpdateRows, OpenRows, AfterRows
  <2>2. Indexed'
    BY <1>14 DEF UpdateRows, OpenRows, AfterRows
  <2>3. Killed'
    BY <1>14 DEF UpdateRows, OpenRows, AfterRows
  <2> QED
    BY <2>1, <2>2, <2>3
<1>15. ASSUME NEW r \in Requests, RaiseReuse(r) PROVE SInv'
  BY <1>15, SerialRollback DEF RaiseReuse
<1>16. ASSUME NEW r \in Requests, Deactivate(r) PROVE SInv'
  <2>1. Answered'
    BY <1>16 DEF Deactivate
  <2>2. Indexed'
    BY <1>16 DEF Deactivate
  <2>3. Killed'
    BY <1>16 DEF Deactivate
  <2> QED
    BY <2>1, <2>2, <2>3
<1>17. ASSUME NEW r \in Requests, Respond(r) PROVE SInv'
  <2>1. Answered'
    BY <1>17 DEF Respond
  <2>2. Indexed'
    BY <1>17 DEF Respond
  <2>3. Killed'
    BY <1>17 DEF Respond
  <2> QED
    BY <2>1, <2>2, <2>3
<1>18. ASSUME NEW r \in Requests, Commit(r) PROVE SInv'
  <2>1. Answered'
    BY <1>18 DEF Commit, Release
  <2>2. Indexed'
    BY <1>18 DEF Commit, Release
  <2>3. Killed'
    BY <1>18 DEF Commit, Release
  <2> QED
    BY <2>1, <2>2, <2>3
<1>19. ASSUME NEW r \in Requests, Fail(r) PROVE SInv'
  BY <1>19, SerialRollback DEF Fail
<1>20. ASSUME NEW r \in Requests, DeadlockVictim(r) PROVE SInv'
  BY <1>20, SerialRollback DEF DeadlockVictim
<1>21. ASSUME NEW r \in Requests, NEW u \in Users, Login(r, u) PROVE SInv'
  <2>1. Answered'
    BY <1>21 DEF Login, Admit, Begin, Mint, Minted
  <2>2. Indexed'
    BY <1>21 DEF Login, Admit, Begin, Mint, Minted
  <2>3. Killed'
    BY <1>21 DEF Login, Admit, Begin, Mint, Minted
  <2> QED
    BY <2>1, <2>2, <2>3
<1>22. ASSUME NEW r \in Requests, NEW u \in Users, RevokeAllSessions(r, u) PROVE SInv'
  <2>1. Answered'
    BY <1>22 DEF RevokeAllSessions, Admit, Begin, Held
  <2>2. Indexed'
    BY <1>22 DEF RevokeAllSessions, Admit, Begin, Held
  <2>3. Killed'
    BY <1>22 DEF RevokeAllSessions, Admit, Begin, Held
  <2> QED
    BY <2>1, <2>2, <2>3
<1>23. ASSUME NEW r \in Requests, NEW u \in Users, ResetPassword(r, u) PROVE SInv'
  <2>1. Answered'
    BY <1>23 DEF ResetPassword, Admit, Begin, Held
  <2>2. Indexed'
    BY <1>23 DEF ResetPassword, Admit, Begin, Held
  <2>3. Killed'
    BY <1>23 DEF ResetPassword, Admit, Begin, Held
  <2> QED
    BY <2>1, <2>2, <2>3
<1>24. ASSUME NEW r \in Requests, NEW j \in Jtis, Refresh(r, j) PROVE SInv'
  <2>1. Answered'
    BY <1>24 DEF Refresh, Admit, Begin
  <2>2. Indexed'
    BY <1>24 DEF Refresh, Admit, Begin
  <2>3. Killed'
    BY <1>24 DEF Refresh, Admit, Begin
  <2> QED
    BY <2>1, <2>2, <2>3
<1>25. ASSUME NEW r \in Requests, NEW j \in Jtis, RefreshReuse(r, j) PROVE SInv'
  <2>1. Answered'
    BY <1>25 DEF RefreshReuse, Admit, Begin, Held
  <2>2. Indexed'
    BY <1>25 DEF RefreshReuse, Admit, Begin, Held
  <2>3. Killed'
    BY <1>25 DEF RefreshReuse, Admit, Begin, Held
  <2> QED
    BY <2>1, <2>2, <2>3
<1>26. ASSUME NEW r \in Requests, NEW j \in Jtis, Logout(r, j) PROVE SInv'
  <2>1. Answered'
    BY <1>26 DEF Logout, Admit, Begin
  <2>2. Indexed'
    BY <1>26 DEF Logout, Admit, Begin
  <2>3. Killed'
    BY <1>26 DEF Logout, Admit, Begin
  <2> QED
    BY <2>1, <2>2, <2>3
<1>28. ASSUME NEW r \in Requests, FindRows(r) PROVE SInv'
  <2>1. Answered'
    BY <1>28 DEF FindRows
  <2>2. Indexed'
    BY <1>28 DEF FindRows
  <2>3. Killed'
    BY <1>28 DEF FindRows
  <2> QED
    BY <2>1, <2>2, <2>3
<1>29. ASSUME NEW r \in Requests, LockRows(r) PROVE SInv'
  <2>1. Answered'
    BY <1>29 DEF LockRows, OpenRows, AfterRows
  <2>2. Indexed'
    BY <1>29 DEF LockRows, OpenRows, AfterRows
  <2>3. Killed'
    BY <1>29 DEF LockRows, OpenRows, AfterRows
  <2> QED
    BY <2>1, <2>2, <2>3
<1>27. CASE UNCHANGED vars
  BY <1>27 DEF vars
<1> QED
  BY <1>1, <1>2, <1>3, <1>4, <1>5, <1>6, <1>7, <1>8, <1>9, <1>10, <1>11, <1>12, <1>13, <1>14, <1>15, <1>16, <1>17, <1>18, <1>19, <1>20, <1>21, <1>22, <1>23, <1>24, <1>25, <1>26, <1>27, <1>28, <1>29 DEF Next, Arrive, Handle

LEMMA SerialAlways == ASSUME ~Overlap PROVE Spec => []SInv
<1>1. IInv /\ SInv /\ [Next]_vars => SInv'
  BY SerialStep
<1> QED
  BY <1>1, SerialInit, InvAlways, PTL DEF Spec

-----------------------------------------------------------------------------
(* Deleted accounts                                                        *)

\* The request has minted a token its client does not have as yet.
Pending(r) == pc[r] \in {"setKey", "sadd", "respond"} /\ op[r] \in Issuing

\* A token on its way to a client is for an account that is still active, or
\* else was minted before the account was closed.
Active ==
  /\ InactiveHasNoSessions
  /\ \A r \in Requests : Pending(r) =>
       newJti[r] \notin delivered /\ (isActive[uid[r]] \/ newJti[r] \in late)

LEMMA ActiveInit == Init => Active
  BY DEF Init, Active, Pending, InactiveHasNoSessions

\* A step that neither mints nor delivers a token, and closes no account.
LEMMA Carried ==
  ASSUME Active,
         UNCHANGED <<isActive, delivered, late>>,
         \A j \in delivered : sub'[j] = sub[j] /\ refreshKey'[j] \in {refreshKey[j], Nil},
         \A r \in Requests : Pending(r)' =>
           Pending(r) /\ newJti'[r] = newJti[r] /\ uid'[r] = uid[r]
  PROVE  Active'
<1>1. InactiveHasNoSessions'
  BY DEF Active, InactiveHasNoSessions
<1>2. ASSUME NEW r \in Requests, Pending(r)'
      PROVE  newJti'[r] \notin delivered' /\ (isActive'[uid'[r]] \/ newJti'[r] \in late')
  BY <1>2 DEF Active
<1> QED
  BY <1>1, <1>2 DEF Active

\* A token is minted for an account that is active.
LEMMA MintedActive ==
  ASSUME Active, IInv, NEW r \in Requests, NEW u \in Users, isActive[u], Mint(r, u),
         uid'[r] = u,
         \A q \in Requests \ {r} : pc'[q] = pc[q] /\ op'[q] = op[q] /\ uid'[q] = uid[q],
         UNCHANGED <<isActive, refreshKey>>
  PROVE  Active'
<1>1. PICK k \in Jtis \ Minted :
        /\ sub' = [sub EXCEPT ![k] = u]
        /\ newJti' = [newJti EXCEPT ![r] = k]
        /\ UNCHANGED <<parent, family, delivered, late>>
  BY DEF Mint
<1>2. k \notin delivered
  BY <1>1 DEF Minted, IInv, Published
<1>3. \A j \in delivered : sub'[j] = sub[j]
  BY <1>1, <1>2 DEF IInv, TypeOK
<1>4. InactiveHasNoSessions'
  BY <1>1, <1>3 DEF Active, InactiveHasNoSessions
<1>5. newJti'[r] = k
  BY <1>1 DEF IInv, TypeOK
<1>6. ASSUME NEW q \in Requests, Pending(q)'
      PROVE  newJti'[q] \notin delivered' /\ (isActive'[uid'[q]] \/ newJti'[q] \in late')
  <2>1. CASE q = r
    BY <1>1, <1>2, <1>5, <2>1
  <2>2. CASE q # r
    <3>1. Pending(q) /\ newJti'[q] = newJti[q] /\ uid'[q] = uid[q]
      BY <1>1, <1>6, <2>2 DEF Pending, IInv, TypeOK
    <3> QED
      BY <1>1, <3>1 DEF Active
  <2> QED
    BY <2>1, <2>2
<1> QED
  BY <1>4, <1>6 DEF Active

\* What a client receives was minted before its account was closed, if it was.
LEMMA RespondActive == ASSUME Active, IInv, NEW r \in Requests, Respond(r) PROVE Active'
<1> USE DEF IInv, TypeOK
<1>1. /\ pc[r] = "respond" /\ pc' = [pc EXCEPT ![r] = "commit"]
      /\ delivered' = IF op[r] \in Issuing THEN delivered \cup {newJti[r]} ELSE delivered
      /\ UNCHANGED <<sub, late, refreshKey, isActive, op, uid, newJti>>
  BY DEF Respond, Step, redisVars, dbVars, reqVars
<1>2. op[r] \in Issuing =>
        newJti[r] # Nil /\ sub[newJti[r]] = uid[r] /\ (isActive[uid[r]] \/ newJti[r] \in late)
  BY <1>1 DEF Active, Pending, Control, Fresh
<1>3. InactiveHasNoSessions'
  BY <1>1, <1>2 DEF Active, InactiveHasNoSessions
<1>4. ASSUME NEW q \in Requests, Pending(q)'
      PROVE  newJti'[q] \notin delivered' /\ (isActive'[uid'[q]] \/ newJti'[q] \in late')
  <2>1. q # r /\ Pending(q) /\ newJti'[q] = newJti[q] /\ uid'[q] = uid[q]
    BY <1>1, <1>4 DEF Pending
  <2>2. newJti[q] # Nil
    BY <2>1 DEF Pending, Control
  <2>3. op[r] \in Issuing => newJti[q] # newJti[r]
    BY <1>2, <2>1, <2>2 DEF Fresh
  <2> QED
    BY <1>1, <2>1, <2>3 DEF Active
<1> QED
  BY <1>3, <1>4 DEF Active

\* When the commit closes an account, the tokens its clients held when the
\* deletion began are dead, and all others are late.
LEMMA CommitActive ==
  ASSUME Active, IInv, SInv, NEW r \in Requests, Commit(r) PROVE Active'
<1> USE DEF IInv, TypeOK
<1>1. /\ pc[r] = "commit" /\ pc' = [pc EXCEPT ![r] = "idle"]
      /\ uid' = [uid EXCEPT ![r] = Nil] /\ newJti' = [newJti EXCEPT ![r] = Nil]
      /\ op' = [op EXCEPT ![r] = "none"]
      /\ UNCHANGED <<sub, delivered, refreshKey>>
  BY DEF Commit, Release, redisVars
<1>2. \A q \in Requests : Pending(q)' =>
        q # r /\ Pending(q) /\ newJti'[q] = newJti[q] /\ uid'[q] = uid[q]
  BY <1>1 DEF Pending
<1>3. CASE op[r] # "delete_account"
  <2>1. late' = late /\ isActive' = isActive
    BY <1>3 DEF Commit
  <2> QED
    BY <1>1, <1>2, <2>1, Carried
<1>4. CASE op[r] = "delete_account"
  <2>1. late' = late \cup {j \in Minted \ held[r] : sub[j] = uid[r]}
    BY <1>4 DEF Commit
  <2>2. \A u \in Users : isActive'[u] = (isActive[u] /\ u # uid[r])
    BY <1>4 DEF Commit
  <2>3. \A j \in held[r] : j \in delivered /\ refreshKey[j] = Nil
    BY <1>1, <1>4 DEF SInv, Answered, Killed, Revoking
  <2>4. \A j \in delivered : sub[j] \in Users /\ j \in Minted
    BY DEF Published, Minted
  <2>5. ASSUME NEW j \in delivered', j \notin late', refreshKey'[j] # Nil
        PROVE  isActive'[sub'[j]]
    <3>1. sub[j] # uid[r]
      BY <1>1, <2>1, <2>3, <2>4, <2>5
    <3>2. isActive[sub[j]]
      BY <1>1, <2>1, <2>5 DEF Active, InactiveHasNoSessions
    <3> QED
      BY <1>1, <2>2, <2>4, <2>5, <3>1, <3>2
  <2>6. ASSUME NEW q \in Requests, Pending(q)'
        PROVE  newJti'[q] \notin delivered' /\ (isActive'[uid'[q]] \/ newJti'[q] \in late')
    <3>1. Pending(q) /\ newJti'[q] = newJti[q] /\ uid'[q] = uid[q]
      BY <1>2, <2>6
    <3>2. newJti[q] \notin delivered /\ (isActive[uid[q]] \/ newJti[q] \in late)
      BY <3>1 DEF Active
    <3>3. newJti[q] \in Minted /\ sub[newJti[q]] = uid[q] /\ uid[q] \in Users
      BY <3>1, SessionsAssumption DEF Pending, Control, Fresh, Minted
    <3>4. newJti[q] \notin held[r]
      BY <2>3, <3>2
    <3> QED
      BY <1>1, <2>1, <2>2, <3>1, <3>2, <3>3, <3>4
  <2> QED
    BY <2>5, <2>6 DEF Active, InactiveHasNoSessions
<1> QED
  BY <1>3, <1>4

LEMMA ActiveStep == IInv /\ SInv /\ Active /\ [Next]_vars => Active'
<1> SUFFICES ASSUME IInv, SInv, Active, [Next]_vars PROVE Active'
  OBVIOUS
<1> USE DEF IInv, TypeOK, tokenVars, redisVars, dbVars, txVars, reqVars, Step
<1>1. ASSUME NEW r \in Requests, Rollback(r) PROVE Active'
  BY <1>1, Carried DEF Rollback, Release, Pending
<1>2. ASSUME NEW r \in Requests, StoreKey(r) PROVE Active'
  <2>1. newJti[r] \notin delivered
    BY <1>2 DEF StoreKey, Control, Active, Pending
  <2>2. \A j \in delivered : refreshKey'[j] = refreshKey[j]
    BY <1>2, <2>1 DEF StoreKey
  <2> QED
    BY <1>2, <2>2, Carried DEF StoreKey, Pending
<1>3. ASSUME NEW r \in Requests, StoreMember(r) PROVE Active'
  BY <1>3, Carried DEF StoreMember, Pending
<1>4. ASSUME NEW r \in Requests, CheckKey(r) PROVE Active'
  BY <1>1, <1>4, Carried DEF CheckKey, Pending
<1>5. ASSUME NEW r \in Requests, LoadUser(r) PROVE Active'
  <2>1. CASE ~Rollback(r)
    <3>1. /\ pc[r] = "loadUser" /\ pc' = [pc EXCEPT ![r] = "setKey"]
          /\ isActive[uid[r]] /\ Mint(r, uid[r])
          /\ UNCHANGED <<isActive, refreshKey, op, uid>>
      BY <1>5, <2>1 DEF LoadUser
    <3>2. uid[r] \in Users
      BY <3>1 DEF Control
    <3> QED
      BY <3>1, <3>2, MintedActive
  <2> QED
    BY <1>1, <2>1
<1>6. ASSUME NEW r \in Requests, DeleteKey(r) PROVE Active'
  BY <1>6, Carried DEF DeleteKey, Pending
<1>7. ASSUME NEW r \in Requests, MarkRevoked(r) PROVE Active'
  BY <1>7, Carried DEF MarkRevoked, Pending
<1>8. ASSUME NEW r \in Requests, RemoveMember(r) PROVE Active'
  BY <1>8, Carried DEF RemoveMember, Pending
<1>9. ASSUME NEW r \in Requests, UpdateRow(r) PROVE Active'
  BY <1>9, Carried DEF UpdateRow, Pending, Issuing
<1>10. ASSUME NEW r \in Requests, ReadMembers(r) PROVE Active'
  BY <1>10, Carried DEF ReadMembers, Pending
<1>11. ASSUME NEW r \in Requests, LoopDelete(r) PROVE Active'
  BY <1>11, Carried DEF LoopDelete, Pending
<1>12. ASSUME NEW r \in Requests, LoopMark(r) PROVE Active'
  BY <1>12, Carried DEF LoopMark, Pending
<1>13. ASSUME NEW r \in Requests, DropSet(r) PROVE Active'
  BY <1>13, Carried DEF DropSet, Pending
<1>14. ASSUME NEW r \in Requests, FlushUser(r) PROVE Active'
  BY <1>14, Carried DEF FlushUser, Pending
<1>15. ASSUME NEW r \in Requests,
              UpdateRows(r) \/ LockRows(r)
       PROVE  Active'
  <2>1. op[r] \notin Issuing \/ AfterRows(r) = "raise"
    BY <1>15 DEF UpdateRows, LockRows, AfterRows, Control, Issuing
  <2>2. \A q \in Requests : Pending(q)' => Pending(q)
    BY <1>15, <2>1 DEF UpdateRows, LockRows, Pending
  <2> QED
    BY <1>15, <2>2, Carried DEF UpdateRows, LockRows
<1>16. ASSUME NEW r \in Requests, FindRows(r) PROVE Active'
  BY <1>16, Carried DEF FindRows, Pending
<1>17. ASSUME NEW r \in Requests, Deactivate(r) PROVE Active'
  BY <1>17, Carried DEF Deactivate, Pending, Control, Issuing
<1>18. ASSUME NEW r \in Requests, NEW u \in Users, Login(r, u) PROVE Active'
  <2>1. /\ isActive[u] /\ Mint(r, u) /\ uid'[r] = u
        /\ \A q \in Requests \ {r} : pc'[q] = pc[q] /\ op'[q] = op[q] /\ uid'[q] = uid[q]
        /\ UNCHANGED <<isActive, refreshKey>>
    BY <1>18 DEF Login, Begin
  <2> QED
    BY <2>1, MintedActive
<1>19. ASSUME NEW r \in Requests, NEW o, NEW u, NEW j,
              NEW to \in {"smembers", "checkKey", "delKey"},
              Begin(r, o, u, j, to), UNCHANGED <<newJti, tokenVars, redisVars, dbVars>>
       PROVE  Active'
  <2>1. \A q \in Requests : Pending(q)' => q # r /\ pc'[q] = pc[q] /\ op'[q] = op[q]
    BY <1>19 DEF Begin, Pending
  <2>2. \A q \in Requests \ {r} : uid'[q] = uid[q]
    BY <1>19 DEF Begin
  <2> QED
    BY <1>19, <2>1, <2>2, Carried DEF Pending
<1>20. ASSUME NEW r \in Requests, Arrive(r) PROVE Active'
  BY <1>18, <1>19, <1>20 DEF Arrive, RevokeAllSessions, ResetPassword, Refresh, RefreshReuse, Logout
<1>21. CASE UNCHANGED vars
  BY <1>21, Carried DEF vars, Pending
<1> QED
  BY <1>1, <1>2, <1>3, <1>4, <1>5, <1>6, <1>7, <1>8, <1>9, <1>10, <1>11, <1>12, <1>13, <1>14,
     <1>15, <1>16, <1>17, <1>20, <1>21, RespondActive, CommitActive
     DEF Next, Handle, Fail, DeadlockVictim, RaiseReuse

LEMMA ActiveAlways == ASSUME ~Overlap PROVE Spec => []Active
<1>1. IInv /\ SInv /\ Active /\ [Next]_vars => Active'
  BY ActiveStep
<1> QED
  BY <1>1, ActiveInit, InvAlways, SerialAlways, PTL DEF Spec

-----------------------------------------------------------------------------
(* Invariants                                                              *)

\* Every live token a client holds is in the set that _revoke_all_sessions
\* reads, also when requests die between SETEX and SADD.
THEOREM DeliveredAreIndexed == ASSUME ~Overlap PROVE Spec => []DeliveredIndexed
<1>1. SInv => DeliveredIndexed
  BY DEF SInv, Indexed
<1> QED
  BY <1>1, SerialAlways, PTL

\* When a revocation of all sessions answers, no token the clients held when it
\* began is live.
THEOREM RevokeAllKills == ASSUME ~Overlap PROVE Spec => []RevokeAllComplete
<1>1. SInv => RevokeAllComplete
  BY DEF SInv, Answered, Killed, Swept, RevokeAllComplete
<1> QED
  BY <1>1, SerialAlways, PTL

\* The table never says of a live token that it is revoked.
THEOREM RowsFollowRedis == ASSUME ~Overlap PROVE Spec => []RevokedRowNotLive
<1>1. SInv => RevokedRowNotLive
  BY DEF SInv, Killed
<1> QED
  BY <1>1, SerialAlways, PTL

\* A client of a closed account has no live token but one that was issued
\* between the beginning and the commit of its deletion.
THEOREM DeletedHaveNoSessions == ASSUME ~Overlap PROVE Spec => []InactiveHasNoSessions
<1>1. Active => InactiveHasNoSessions
  BY DEF Active
<1> QED
  BY <1>1, ActiveAlways, PTL
=============================================================================

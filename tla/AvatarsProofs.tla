--------------------------- MODULE AvatarsProofs ---------------------------
(***************************************************************************)
(* Proofs about Avatars, for every set of keys, sizes, images and          *)
(* requests, with overlapping requests and with failures at any await.     *)
(***************************************************************************)
EXTENDS Avatars, WellFoundedInduction, TLAPS

-----------------------------------------------------------------------------
(* Sizes                                                                   *)

\* Put and Remove take the smallest size that is left.
LEMMA SmallestIsLeft == ASSUME NEW T \in SUBSET Nat, T # {} PROVE Min(T) \in T
<1> DEFINE R == {ss \in Nat \X Nat : ss[1] < ss[2]}
<1>1. IsWellFoundedOn(R, Nat)
  BY NatLessThanWellFounded, Zenon DEF OpToRel
<1> HIDE DEF R
<1>2. PICK x \in T : \A y \in T : ~(<<y, x>> \in R)
  BY <1>1, WFMin
<1>3. \A y \in T : x <= y
  <2> TAKE y \in T
  <2>1. y \in Nat /\ x \in Nat
    OBVIOUS
  <2>2. ~(y < x)
    BY <1>2, <2>1 DEF R
  <2> QED
    BY <2>1, <2>2
<1> QED
  BY <1>3 DEF Min

\* An image scaled to a size is not empty and has an edge that is known.
LEMMA Scaled ==
  ASSUME NEW e \in (Edges \cup Sizes \cup {0}) \ {0}, NEW s \in Sizes
  PROVE  Thumbnail(e, s) \in (Edges \cup Sizes \cup {0}) \ {0}
  BY AvatarsAssumption DEF Thumbnail

-----------------------------------------------------------------------------
(* The inductive invariant                                                 *)

\* Where a request is tells what its local variables hold.
Control ==
  \A r \in Requests :
    /\ pc[r] = "idle" => op[r] = "none" /\ loaded[r] = Nil /\ newKey[r] = Nil
    /\ pc[r] # "idle" => op[r] # "none"
    /\ pc[r] = "put" => op[r] = "upload"
    /\ pc[r] = "remove" => loaded[r] # Nil
    /\ pc[r] \in {"respond", "commit"} => op[r] # "mistaken"
    /\ newKey[r] # Nil <=> op[r] = "upload"
    /\ op[r] = "upload" => edge[r] # 0
    /\ op[r] = "mistaken" => "mistake" \in happened

\* A key belongs to the upload that generated it until that commits it.
Apart ==
  /\ avatarKey # Nil => source[avatarKey] # 0
  /\ \A r \in Requests : loaded[r] # Nil => source[loaded[r]] # 0
  /\ \A r \in Requests : newKey[r] # Nil =>
       /\ source[newKey[r]] # 0
       /\ newKey[r] # avatarKey
       /\ \A q \in Requests : newKey[r] # loaded[q] /\ (newKey[q] = newKey[r] => q = r)

\* An upload has stored the sizes it has done, all of them before it goes on.
Uploaded ==
  \A r \in Requests : op[r] = "upload" =>
    /\ \A s \in Sizes : pc[r] = "put" /\ s \notin todo[r] => objects[newKey[r]][s] # 0
    /\ pc[r] # "put" => Complete(newKey[r])

\* Without overlap there is one request, and the row is as it has read it.
Alone ==
  "overlap" \notin happened =>
    /\ \A q, r \in Requests : pc[q] # "idle" /\ pc[r] # "idle" => q = r
    /\ \A r \in Requests : pc[r] # "idle" => loaded[r] = avatarKey /\ isActive

\* An object has the current key or that of an upload in flight, and a request
\* has removed the sizes it has done.
Clean ==
  happened \subseteq {"mistake"} =>
    /\ \A k \in Keys, s \in Sizes :
         objects[k][s] # 0 => k = avatarKey \/ \E r \in Requests : newKey[r] = k
    /\ \A r \in Requests, s \in Sizes :
         /\ pc[r] = "remove" /\ s \notin todo[r] => objects[loaded[r]][s] = 0
         /\ pc[r] \in {"flush", "respond", "commit"} /\ loaded[r] # Nil
              => objects[loaded[r]][s] = 0

IInv ==
  /\ TypeOK /\ Control /\ Apart /\ Uploaded
  /\ Alone /\ ClosedHasNoAvatar /\ ShownIsComplete /\ Clean

LEMMA InvInit == Init => IInv
  BY AvatarsAssumption
  DEF Init, IInv, TypeOK, Control, Apart, Uploaded, Alone, ClosedHasNoAvatar, ShownIsComplete,
      Clean, Complete, Ops, PcValues, Trouble

LEMMA InvStep == IInv /\ [Next]_vars => IInv'
<1> SUFFICES ASSUME IInv, [Next]_vars PROVE IInv'
  OBVIOUS
<1> USE AvatarsAssumption
    DEF IInv, TypeOK, Control, Apart, Uploaded, Alone, ClosedHasNoAvatar, ShownIsComplete,
        Clean, Complete, Ops, PcValues, Trouble, storeVars, localVars, Step, End
<1>1. ASSUME NEW r \in Requests, NEW k \in Keys, NEW e \in Edges, Upload(r, k, e) PROVE IInv'
  <2>1. TypeOK'
    BY <1>1 DEF Upload, Begin
  <2>2. Control'
    BY <1>1 DEF Upload, Begin
  <2>3. Apart'
    BY <1>1 DEF Upload, Begin
  <2>4. Uploaded'
    BY <1>1 DEF Upload, Begin
  <2>5. Alone'
    BY <1>1 DEF Upload, Begin
  <2>6. ClosedHasNoAvatar'
    BY <1>1 DEF Upload, Begin
  <2>7. ShownIsComplete'
    BY <1>1 DEF Upload, Begin
  <2>8. Clean'
    BY <1>1 DEF Upload, Begin
  <2> QED
    BY <2>1, <2>2, <2>3, <2>4, <2>5, <2>6, <2>7, <2>8
<1>2. ASSUME NEW r \in Requests, Put(r) PROVE IInv'
  <2>0. PICK s \in todo[r] : s = Min(todo[r])
    <3>1. todo[r] \in SUBSET Nat /\ todo[r] # {}
      BY <1>2 DEF Put
    <3> QED
      BY <3>1, SmallestIsLeft
  <2>1. TypeOK'
    BY <1>2, <2>0, Scaled DEF Put
  <2>2. Control'
    BY <1>2, <2>0, Scaled, ZenonT(40) DEF Put
  <2>3. Apart'
    BY <1>2, <2>0, Scaled DEF Put
  <2>4. Uploaded'
    <3>1. op[r] = "upload" /\ newKey[r] \in Keys /\ s \in Sizes
      BY <1>2, <2>0 DEF Put
    <3>2. Thumbnail(edge[r], s) # 0
      BY <3>1, Scaled
    <3>3. /\ pc[r] = "put"
          /\ objects' = [objects EXCEPT ![newKey[r]][s] = Thumbnail(edge[r], s)]
          /\ todo' = [todo EXCEPT ![r] = @ \ {s}]
          /\ UNCHANGED <<pc, op, newKey>>
      BY <1>2, <2>0 DEF Put
    <3>4. objects'[newKey[r]][s] # 0
      BY <3>1, <3>2, <3>3
    <3>5. \A k \in Keys, z \in Sizes : objects[k][z] # 0 => objects'[k][z] # 0
      BY <3>1, <3>3, <3>4
    <3> QED
      BY <3>1, <3>3, <3>4, <3>5
  <2>5. Alone'
    BY <1>2, <2>0, Scaled DEF Put
  <2>6. ClosedHasNoAvatar'
    BY <1>2, <2>0, Scaled DEF Put
  <2>7. ShownIsComplete'
    BY <1>2, <2>0, Scaled DEF Put
  <2>8. Clean'
    BY <1>2, <2>0, Scaled DEF Put
  <2> QED
    BY <2>1, <2>2, <2>3, <2>4, <2>5, <2>6, <2>7, <2>8
<1>3. ASSUME NEW r \in Requests, Stored(r) PROVE IInv'
  <2>1. TypeOK'
    BY <1>3 DEF Stored
  <2>2. Control'
    BY <1>3 DEF Stored
  <2>3. Apart'
    BY <1>3 DEF Stored
  <2>4. Uploaded'
    BY <1>3 DEF Stored
  <2>5. Alone'
    BY <1>3 DEF Stored
  <2>6. ClosedHasNoAvatar'
    BY <1>3 DEF Stored
  <2>7. ShownIsComplete'
    BY <1>3 DEF Stored
  <2>8. Clean'
    BY <1>3 DEF Stored
  <2> QED
    BY <2>1, <2>2, <2>3, <2>4, <2>5, <2>6, <2>7, <2>8
<1>4. ASSUME NEW r \in Requests, DeleteAvatar(r) PROVE IInv'
  <2>1. TypeOK'
    BY <1>4 DEF DeleteAvatar, Begin
  <2>2. Control'
    BY <1>4 DEF DeleteAvatar, Begin
  <2>3. Apart'
    BY <1>4 DEF DeleteAvatar, Begin
  <2>4. Uploaded'
    BY <1>4 DEF DeleteAvatar, Begin
  <2>5. Alone'
    BY <1>4 DEF DeleteAvatar, Begin
  <2>6. ClosedHasNoAvatar'
    BY <1>4 DEF DeleteAvatar, Begin
  <2>7. ShownIsComplete'
    BY <1>4 DEF DeleteAvatar, Begin
  <2>8. Clean'
    BY <1>4 DEF DeleteAvatar, Begin
  <2> QED
    BY <2>1, <2>2, <2>3, <2>4, <2>5, <2>6, <2>7, <2>8
<1>5. ASSUME NEW r \in Requests, DeleteAccount(r) PROVE IInv'
  <2>1. TypeOK'
    BY <1>5 DEF DeleteAccount, Begin
  <2>2. Control'
    BY <1>5 DEF DeleteAccount, Begin
  <2>3. Apart'
    BY <1>5 DEF DeleteAccount, Begin
  <2>4. Uploaded'
    BY <1>5 DEF DeleteAccount, Begin
  <2>5. Alone'
    BY <1>5 DEF DeleteAccount, Begin
  <2>6. ClosedHasNoAvatar'
    BY <1>5 DEF DeleteAccount, Begin
  <2>7. ShownIsComplete'
    BY <1>5 DEF DeleteAccount, Begin
  <2>8. Clean'
    BY <1>5 DEF DeleteAccount, Begin
  <2> QED
    BY <2>1, <2>2, <2>3, <2>4, <2>5, <2>6, <2>7, <2>8
<1>6. ASSUME NEW r \in Requests, Remove(r) PROVE IInv'
  <2>0. PICK s \in todo[r] : s = Min(todo[r])
    <3>1. todo[r] \in SUBSET Nat /\ todo[r] # {}
      BY <1>6 DEF Remove
    <3> QED
      BY <3>1, SmallestIsLeft
  <2>1. TypeOK'
    <3>1. /\ loaded[r] \in Keys /\ s \in Sizes /\ todo' = [todo EXCEPT ![r] = @ \ {s}]
          /\ objects' \in {objects, [objects EXCEPT ![loaded[r]][s] = 0]}
          /\ happened' \in {happened, happened \cup {"fault"}}
          /\ UNCHANGED <<avatarKey, isActive, source, pc, localVars, locked>>
      BY <1>6, <2>0 DEF Remove
    <3>2. objects' \in [Keys -> [Sizes -> Edges \cup Sizes \cup {0}]]
      <4>1. [objects[loaded[r]] EXCEPT ![s] = 0] \in [Sizes -> Edges \cup Sizes \cup {0}]
        BY <3>1
      <4>2. CASE objects' = objects
        BY <4>2
      <4>3. CASE objects' = [objects EXCEPT ![loaded[r]][s] = 0]
        BY <3>1, <4>1, <4>3
      <4> QED
        BY <3>1, <4>2, <4>3
    <3>3. todo' \in [Requests -> SUBSET Sizes] /\ happened' \subseteq Trouble
      BY <3>1
    <3> QED
      BY <3>1, <3>2, <3>3
  <2>2. Control'
    BY <1>6, <2>0 DEF Remove
  <2>3. Apart'
    BY <1>6, <2>0 DEF Remove
  <2>4. Uploaded'
    BY <1>6, <2>0 DEF Remove
  <2>5. Alone'
    BY <1>6, <2>0 DEF Remove
  <2>6. ClosedHasNoAvatar'
    BY <1>6, <2>0 DEF Remove
  <2>7. ShownIsComplete'
    BY <1>6, <2>0 DEF Remove
  <2>8. Clean'
    BY <1>6, <2>0 DEF Remove
  <2> QED
    BY <2>1, <2>2, <2>3, <2>4, <2>5, <2>6, <2>7, <2>8
<1>7. ASSUME NEW r \in Requests, Removed(r) PROVE IInv'
  <2>1. TypeOK'
    BY <1>7 DEF Removed
  <2>2. Control'
    BY <1>7 DEF Removed
  <2>3. Apart'
    BY <1>7 DEF Removed
  <2>4. Uploaded'
    BY <1>7 DEF Removed
  <2>5. Alone'
    BY <1>7 DEF Removed
  <2>6. ClosedHasNoAvatar'
    BY <1>7 DEF Removed
  <2>7. ShownIsComplete'
    BY <1>7 DEF Removed
  <2>8. Clean'
    BY <1>7 DEF Removed
  <2> QED
    BY <2>1, <2>2, <2>3, <2>4, <2>5, <2>6, <2>7, <2>8
<1>8. ASSUME NEW r \in Requests, Refuse(r) PROVE IInv'
  <2>1. TypeOK'
    BY <1>8 DEF Refuse, Rollback
  <2>2. Control'
    BY <1>8 DEF Refuse, Rollback
  <2>3. Apart'
    BY <1>8 DEF Refuse, Rollback
  <2>4. Uploaded'
    BY <1>8 DEF Refuse, Rollback
  <2>5. Alone'
    BY <1>8 DEF Refuse, Rollback
  <2>6. ClosedHasNoAvatar'
    BY <1>8 DEF Refuse, Rollback
  <2>7. ShownIsComplete'
    BY <1>8 DEF Refuse, Rollback
  <2>8. Clean'
    BY <1>8 DEF Refuse, Rollback
  <2> QED
    BY <2>1, <2>2, <2>3, <2>4, <2>5, <2>6, <2>7, <2>8
<1>9. ASSUME NEW r \in Requests, Flush(r) PROVE IInv'
  <2>1. TypeOK'
    <3>1. CASE Rollback(r) /\ UNCHANGED happened
      BY <3>1 DEF Rollback
    <3>2. CASE ~(Rollback(r) /\ UNCHANGED happened)
      <4>1. /\ pc' = [pc EXCEPT ![r] = "respond"]
            /\ locked' = [locked EXCEPT ![r] = TRUE]
            /\ UNCHANGED <<storeVars, happened, localVars, todo>>
        BY <1>9, <3>2 DEF Flush
      <4>2. pc' \in [Requests -> PcValues]
        BY <4>1
      <4>3. locked' \in [Requests -> BOOLEAN]
        BY <4>1
      <4> QED
        BY <4>1, <4>2, <4>3
    <3> QED
      BY <3>1, <3>2
  <2>2. Control'
    BY <1>9 DEF Flush, Rollback
  <2>3. Apart'
    BY <1>9 DEF Flush, Rollback
  <2>4. Uploaded'
    BY <1>9 DEF Flush, Rollback
  <2>5. Alone'
    BY <1>9 DEF Flush, Rollback
  <2>6. ClosedHasNoAvatar'
    BY <1>9 DEF Flush, Rollback
  <2>7. ShownIsComplete'
    BY <1>9 DEF Flush, Rollback
  <2>8. Clean'
    BY <1>9 DEF Flush, Rollback
  <2> QED
    BY <2>1, <2>2, <2>3, <2>4, <2>5, <2>6, <2>7, <2>8
<1>10. ASSUME NEW r \in Requests, Respond(r) PROVE IInv'
  <2>1. TypeOK'
    BY <1>10 DEF Respond
  <2>2. Control'
    BY <1>10 DEF Respond
  <2>3. Apart'
    BY <1>10 DEF Respond
  <2>4. Uploaded'
    BY <1>10 DEF Respond
  <2>5. Alone'
    BY <1>10 DEF Respond
  <2>6. ClosedHasNoAvatar'
    BY <1>10 DEF Respond
  <2>7. ShownIsComplete'
    BY <1>10 DEF Respond
  <2>8. Clean'
    BY <1>10 DEF Respond
  <2> QED
    BY <2>1, <2>2, <2>3, <2>4, <2>5, <2>6, <2>7, <2>8
<1>11. ASSUME NEW r \in Requests, Commit(r) PROVE IInv'
  <2>1. TypeOK'
    BY <1>11 DEF Commit
  <2>2. Control'
    BY <1>11 DEF Commit
  <2>3. Apart'
    BY <1>11 DEF Commit
  <2>4. Uploaded'
    BY <1>11 DEF Commit
  <2>5. Alone'
    BY <1>11 DEF Commit
  <2>6. ClosedHasNoAvatar'
    BY <1>11 DEF Commit
  <2>7. ShownIsComplete'
    BY <1>11 DEF Commit
  <2>8. Clean'
    BY <1>11 DEF Commit
  <2> QED
    BY <2>1, <2>2, <2>3, <2>4, <2>5, <2>6, <2>7, <2>8
<1>12. ASSUME NEW r \in Requests, Fail(r) PROVE IInv'
  <2>1. TypeOK'
    BY <1>12 DEF Fail, Rollback
  <2>2. Control'
    BY <1>12 DEF Fail, Rollback
  <2>3. Apart'
    BY <1>12 DEF Fail, Rollback
  <2>4. Uploaded'
    BY <1>12 DEF Fail, Rollback
  <2>5. Alone'
    BY <1>12 DEF Fail, Rollback
  <2>6. ClosedHasNoAvatar'
    BY <1>12 DEF Fail, Rollback
  <2>7. ShownIsComplete'
    BY <1>12 DEF Fail, Rollback
  <2>8. Clean'
    BY <1>12 DEF Fail, Rollback
  <2> QED
    BY <2>1, <2>2, <2>3, <2>4, <2>5, <2>6, <2>7, <2>8
<1>13. CASE UNCHANGED vars
  BY <1>13 DEF vars
<1> QED
  BY <1>1, <1>2, <1>3, <1>4, <1>5, <1>6, <1>7, <1>8, <1>9, <1>10, <1>11, <1>12, <1>13 DEF Next

LEMMA InvAlways == Spec => []IInv
  BY InvInit, InvStep, PTL DEF Spec

-----------------------------------------------------------------------------
(* Invariants and steps                                                    *)

\* Every variable keeps its type (the objects, the row, the requests).
THEOREM AvatarsTyped == Spec => []TypeOK
<1>1. IInv => TypeOK
  BY DEF IInv
<1> QED
  BY <1>1, InvAlways, PTL

\* Whatever overlaps and whatever fails, the row gets only the key of an avatar
\* that is there in all sizes.
THEOREM CommittedAreStored == Spec => CommittedIsStored
<1>1. IInv /\ [Next]_vars =>
        [avatarKey' # avatarKey /\ avatarKey' # Nil => Complete(avatarKey')]_vars
  <2> SUFFICES ASSUME IInv, [Next]_vars, avatarKey' # avatarKey, avatarKey' # Nil
               PROVE  Complete(avatarKey')
    OBVIOUS
  <2>1. PICK r \in Requests : Commit(r)
    BY DEF Next, Upload, Begin, Put, Stored, DeleteAvatar, DeleteAccount, Remove, Removed,
           Refuse, Flush, Respond, Fail, Rollback, storeVars, vars
  <2> QED
    BY <2>1 DEF Commit, IInv, Control, Uploaded
<1> QED
  BY <1>1, InvAlways, PTL DEF Spec, CommittedIsStored

\* While nothing fails, the avatar of an open account is complete, or a request
\* that will replace or clear it is in flight.
THEOREM ShownCanBeFetched == Spec => []ShownIsComplete
<1>1. IInv => ShownIsComplete
  BY DEF IInv
<1> QED
  BY <1>1, InvAlways, PTL

\* While nothing fails and nothing overlaps, nothing is left behind in MinIO.
THEOREM NothingLeftBehind == Spec => []NoOrphans
<1>1. IInv => NoOrphans
  <2> SUFFICES ASSUME IInv, happened \subseteq {"mistake"}, Quiet,
                      NEW k \in Keys \ {avatarKey}, NEW s \in Sizes, objects[k][s] # 0
               PROVE  FALSE
    BY DEF NoOrphans
  <2>1. \A r \in Requests : newKey[r] = Nil
    BY DEF IInv, Control, Quiet
  <2>2. PICK r \in Requests : newKey[r] = k
    BY DEF IInv, Clean
  <2> QED
    BY <2>1, <2>2, AvatarsAssumption
<1> QED
  BY <1>1, InvAlways, PTL

\* While nothing overlaps, a closed account names no avatar.
THEOREM ClosedNamesNone == Spec => []ClosedHasNoAvatar
<1>1. IInv => ClosedHasNoAvatar
  BY DEF IInv
<1> QED
  BY <1>1, InvAlways, PTL
=============================================================================

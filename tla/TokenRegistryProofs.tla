------------------------ MODULE TokenRegistryProofs ------------------------
(***************************************************************************)
(* Proofs about TokenRegistry, for every set of users and tokens.          *)
(***************************************************************************)
EXTENDS TokenRegistry, TLAPS

\* The token at the end of a chain of rotations.
Tip(j) == status[j] # "unissued" /\ family[j] # Nil /\ ~HasSuccessor(j)

\* What makes OneLivePerFamily inductive: a chain has one end, only an end can
\* be live, and no token is the root or the origin of another before it is
\* issued itself.
ChainInv ==
  /\ TypeOK
  /\ Inheritance
  /\ \A j \in Jtis : status[j] = "unissued" => family[j] = Nil /\ origin[j] = Nil
  /\ \A j \in Jtis : status[j] = "live" => family[j] # Nil
  /\ \A j \in Jtis : family[j] # Nil => status[family[j]] # "unissued"
  /\ OneSuccessor =>
       \A i, j \in Jtis : Tip(i) /\ Tip(j) /\ family[i] = family[j] => i = j

LEMMA ChainInit == RegistryAssumption /\ Init => ChainInv
  BY DEF RegistryAssumption, Init, ChainInv, TypeOK, Inheritance, Tip, HasSuccessor

LEMMA ChainStep == RegistryAssumption /\ ChainInv /\ [Next]_vars => ChainInv'
<1> SUFFICES ASSUME RegistryAssumption, ChainInv, [Next]_vars PROVE ChainInv'
  OBVIOUS
<1> USE DEF RegistryAssumption
<1>1. ASSUME NEW u \in Users, NEW j \in Jtis, Open(u, j) PROVE ChainInv'
  BY <1>1 DEF ChainInv, TypeOK, Inheritance, Open, Issue, Tip, HasSuccessor
<1>2. ASSUME NEW u \in Users, NEW j \in Jtis, Discard(u, j) PROVE ChainInv'
  BY <1>2 DEF ChainInv, TypeOK, Inheritance, Discard, Tip, HasSuccessor
<1>3. ASSUME NEW i \in Jtis, NEW j \in Jtis, Succeed(i, j) PROVE ChainInv'
  BY <1>3 DEF ChainInv, TypeOK, Inheritance, Succeed, Issue, Tip, HasSuccessor
<1>4. ASSUME NEW j \in Jtis, Retire(j) PROVE ChainInv'
  BY <1>4 DEF ChainInv, TypeOK, Inheritance, Retire, Tip, HasSuccessor
<1>5. CASE UNCHANGED vars
  BY <1>5 DEF ChainInv, TypeOK, Inheritance, vars, Tip, HasSuccessor
<1> QED
  BY <1>1, <1>2, <1>3, <1>4, <1>5 DEF Next

LEMMA ChainOneLive == RegistryAssumption /\ ChainInv => OneLivePerFamily
  BY DEF RegistryAssumption, ChainInv, OneLivePerFamily, Tip, HasSuccessor, Inheritance, TypeOK

\* Rotation never leaves two live tokens in one family, for any number of
\* users and tokens, as long as no token is rotated twice.
THEOREM RegistryOneLive ==
  ASSUME RegistryAssumption
  PROVE  Spec => []OneLivePerFamily
<1>1. Spec => []ChainInv
  BY ChainInit, ChainStep, PTL DEF Spec
<1> QED
  BY <1>1, ChainOneLive, PTL

\* A successor inherits user and family, and its origin is dead for good.
THEOREM RegistryInheritance ==
  ASSUME RegistryAssumption
  PROVE  Spec => []Inheritance
<1>1. Spec => []ChainInv
  BY ChainInit, ChainStep, PTL DEF Spec
<1>2. ChainInv => Inheritance
  BY DEF ChainInv
<1> QED
  BY <1>1, <1>2, PTL
=============================================================================

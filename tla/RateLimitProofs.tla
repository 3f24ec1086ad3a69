--------------------------- MODULE RateLimitProofs ---------------------------
(***************************************************************************)
(* Proofs about RateLimit, for every limit, every length of the window and *)
(* any number of requests.                                                 *)
(***************************************************************************)
EXTENDS RateLimit, WellFoundedInduction, TLAPS

-----------------------------------------------------------------------------
(* Sums over the ticks of a window                                         *)

\* Induction, for a set of numbers.
LEMMA Climb ==
  ASSUME NEW S, 0 \in S, \A n \in Nat : n \in S => n + 1 \in S, NEW k \in Nat
  PROVE  k \in S
<1> DEFINE R == {ss \in Nat \X Nat : ss[1] < ss[2]}
           T == {n \in Nat : n \notin S}
<1>1. IsWellFoundedOn(R, Nat)
  BY NatLessThanWellFounded, Zenon DEF OpToRel
<1> HIDE DEF R
<1>2. CASE T = {}
  BY <1>2
<1>3. CASE T # {}
  <2>1. PICK x \in T : \A y \in T : ~(<<y, x>> \in R)
    BY <1>1, <1>3, WFMin
  <2>2. x \in Nat /\ x \notin S /\ x # 0
    OBVIOUS
  <2>3. x - 1 \in Nat /\ (x - 1) + 1 = x
    BY <2>2
  <2>4. <<x - 1, x>> \in R
    BY <2>2, <2>3 DEF R
  <2>5. x - 1 \in S
    BY <2>1, <2>3, <2>4
  <2>6. (x - 1) + 1 \in S
    BY <2>3, <2>5
  <2> QED
    BY <2>2, <2>3, <2>6
<1> QED
  BY <1>2, <1>3

\* What Passed adds up, by its recursive definition.
LEMMA PassedDefined ==
  ASSUME NEW h \in [0..(Window - 1) -> Nat]
  PROVE  /\ Passed(h) \in [0..Window -> Nat]
         /\ Passed(h)[0] = 0
         /\ \A n \in 1..Window : Passed(h)[n] = Passed(h)[n - 1] + h[n - 1]
<1> USE RateLimitAssumption
<1> DEFINE Sums(g, k) ==
             /\ g \in [0..k -> Nat] /\ g[0] = 0
             /\ \A n \in 1..k : g[n] = g[n - 1] + h[n - 1]
           S == {k \in Nat : k <= Window => \E g : Sums(g, k)}
<1>1. 0 \in S
  <2>1. Sums([n \in 0..0 |-> 0], 0)
    OBVIOUS
  <2> QED
    BY <2>1
<1>2. ASSUME NEW k \in Nat, k \in S PROVE k + 1 \in S
  <2> HIDE DEF Sums
  <2> SUFFICES ASSUME k + 1 <= Window PROVE \E g : Sums(g, k + 1)
    OBVIOUS
  <2>1. PICK g : Sums(g, k)
    BY <1>2
  <2> USE DEF Sums
  <2>2. PICK e : e = [n \in 0..(k + 1) |-> IF n = k + 1 THEN g[k] + h[k] ELSE g[n]]
    OBVIOUS
  <2>3. g[k] \in Nat /\ h[k] \in Nat
    BY <2>1
  <2>4. e \in [0..(k + 1) -> Nat] /\ e[0] = 0
    BY <2>1, <2>2, <2>3
  <2>5. \A n \in 1..k : e[n] = e[n - 1] + h[n - 1]
    BY <2>1, <2>2
  <2>6. e[k + 1] = e[k] + h[k]
    BY <2>2
  <2>7. \A n \in 1..(k + 1) : e[n] = e[n - 1] + h[n - 1]
    <3> TAKE n \in 1..(k + 1)
    <3>1. n \in 1..k \/ n = k + 1
      OBVIOUS
    <3>2. (k + 1) - 1 = k
      OBVIOUS
    <3> HIDE DEF Sums
    <3> QED
      BY <2>5, <2>6, <3>1, <3>2
  <2> QED
    BY <2>4, <2>7, Zenon
<1> HIDE DEF S
<1>3. Window \in S
  BY <1>1, <1>2, Climb
<1> USE DEF S
<1>4. PICK g : Sums(g, Window)
  BY <1>3
<1>5. g = [n \in 0..Window |-> IF n = 0 THEN 0 ELSE g[n - 1] + h[n - 1]]
  BY <1>4
<1> DEFINE f == Passed(h)
<1>6. f = [n \in 0..Window |-> IF n = 0 THEN 0 ELSE f[n - 1] + h[n - 1]]
  BY <1>5, Zenon DEF Passed
<1> HIDE DEF f
<1>7. /\ f[0] = 0
      /\ \A n \in 1..Window : f[n] = f[n - 1] + h[n - 1]
      /\ DOMAIN f = 0..Window
  BY <1>6
<1>8. \A n \in 0..Window : f[n] \in Nat
  <2> DEFINE P == {k \in Nat : k <= Window => f[k] \in Nat}
  <2>1. 0 \in P
    BY <1>7
  <2>2. ASSUME NEW k \in Nat, k \in P PROVE k + 1 \in P
    <3> SUFFICES ASSUME k + 1 <= Window PROVE f[k + 1] \in Nat
      OBVIOUS
    <3>1. f[k] \in Nat /\ h[k] \in Nat /\ f[k + 1] = f[k] + h[k]
      BY <1>7, <2>2
    <3> QED
      BY <3>1
  <2> HIDE DEF P
  <2>3. \A k \in Nat : k \in P
    BY <2>1, <2>2, Climb
  <2> QED
    BY <2>3 DEF P
<1>9. f \in [0..Window -> Nat]
  BY <1>6, <1>8
<1> QED
  BY <1>7, <1>9 DEF f

\* A request that is counted adds one to every sum.
LEMMA PassedOneMore ==
  ASSUME NEW h \in [0..(Window - 1) -> Nat]
  PROVE  LET e == [h EXCEPT ![0] = @ + 1]
         IN  \A n \in 1..Window : Passed(e)[n] = Passed(h)[n] + 1
<1> USE RateLimitAssumption
<1> DEFINE e == [h EXCEPT ![0] = @ + 1]
           f == Passed(h)
           g == Passed(e)
           S == {k \in Nat : k + 1 <= Window => g[k + 1] = f[k + 1] + 1}
<1>1. e \in [0..(Window - 1) -> Nat]
  OBVIOUS
<1>2. f \in [0..Window -> Nat] /\ f[0] = 0 /\ \A n \in 1..Window : f[n] = f[n - 1] + h[n - 1]
  BY PassedDefined
<1>3. g \in [0..Window -> Nat] /\ g[0] = 0 /\ \A n \in 1..Window : g[n] = g[n - 1] + e[n - 1]
  BY <1>1, PassedDefined
<1>4. e[0] = h[0] + 1 /\ h[0] \in Nat /\ \A n \in 1..(Window - 1) : e[n] = h[n]
  OBVIOUS
<1> HIDE DEF f, g, e
<1>5. 0 \in S
  <2>1. f[1] = f[0] + h[0] /\ g[1] = g[0] + e[0]
    BY <1>2, <1>3
  <2> QED
    BY <2>1, <1>2, <1>3, <1>4
<1>6. ASSUME NEW k \in Nat, k \in S PROVE k + 1 \in S
  <2> SUFFICES ASSUME (k + 1) + 1 <= Window PROVE g[(k + 1) + 1] = f[(k + 1) + 1] + 1
    OBVIOUS
  <2>1. f[(k + 1) + 1] = f[k + 1] + h[k + 1] /\ f[k + 1] \in Nat /\ h[k + 1] \in Nat
    BY <1>2
  <2>2. g[(k + 1) + 1] = g[k + 1] + e[k + 1]
    BY <1>3
  <2>3. e[k + 1] = h[k + 1]
    BY <1>4
  <2>4. g[k + 1] = f[k + 1] + 1
    BY <1>6
  <2> QED
    BY <2>1, <2>2, <2>3, <2>4
<1> HIDE DEF S
<1>7. \A k \in Nat : k \in S
  BY <1>5, <1>6, Climb
<1>8. ASSUME NEW n \in 1..Window PROVE g[n] = f[n] + 1
  <2>1. n - 1 \in Nat /\ (n - 1) + 1 = n
    OBVIOUS
  <2>2. n - 1 \in S
    BY <1>7, <2>1
  <2> QED
    BY <2>1, <2>2 DEF S
<1> QED
  BY <1>8 DEF f, g, e

\* A tick moves every sum by one place, and drops what has grown too old.
LEMMA PassedShifted ==
  ASSUME NEW h \in [0..(Window - 1) -> Nat]
  PROVE  LET e == [a \in 0..(Window - 1) |-> IF a = 0 THEN 0 ELSE h[a - 1]]
         IN  \A n \in 1..Window : Passed(e)[n] = Passed(h)[n - 1]
<1> USE RateLimitAssumption
<1> DEFINE e == [a \in 0..(Window - 1) |-> IF a = 0 THEN 0 ELSE h[a - 1]]
           f == Passed(h)
           g == Passed(e)
           S == {k \in Nat : k + 1 <= Window => g[k + 1] = f[k]}
<1>1. e \in [0..(Window - 1) -> Nat]
  OBVIOUS
<1>2. f \in [0..Window -> Nat] /\ f[0] = 0 /\ \A n \in 1..Window : f[n] = f[n - 1] + h[n - 1]
  BY PassedDefined
<1>3. g \in [0..Window -> Nat] /\ g[0] = 0 /\ \A n \in 1..Window : g[n] = g[n - 1] + e[n - 1]
  BY <1>1, PassedDefined
<1>4. e[0] = 0 /\ \A n \in 1..(Window - 1) : e[n] = h[n - 1]
  OBVIOUS
<1> HIDE DEF f, g, e
<1>5. 0 \in S
  <2>1. g[1] = g[0] + e[0]
    BY <1>3
  <2> QED
    BY <2>1, <1>2, <1>3, <1>4
<1>6. ASSUME NEW k \in Nat, k \in S PROVE k + 1 \in S
  <2> SUFFICES ASSUME (k + 1) + 1 <= Window PROVE g[(k + 1) + 1] = f[k + 1]
    OBVIOUS
  <2>1. f[k + 1] = f[k] + h[k]
    BY <1>2
  <2>2. g[(k + 1) + 1] = g[k + 1] + e[k + 1]
    BY <1>3
  <2>3. e[k + 1] = h[k]
    BY <1>4
  <2>4. g[k + 1] = f[k]
    BY <1>6
  <2> QED
    BY <2>1, <2>2, <2>3, <2>4
<1> HIDE DEF S
<1>7. \A k \in Nat : k \in S
  BY <1>5, <1>6, Climb
<1>8. ASSUME NEW n \in 1..Window PROVE g[n] = f[n - 1]
  <2>1. n - 1 \in Nat /\ (n - 1) + 1 = n
    OBVIOUS
  <2>2. n - 1 \in S
    BY <1>7, <2>1
  <2> QED
    BY <2>1, <2>2 DEF S
<1> QED
  BY <1>8 DEF f, g, e

-----------------------------------------------------------------------------
(* The inductive invariant                                                 *)

\* The requests of the current window that were let through.
Admitted == IF count <= Limit THEN count ELSE Limit

\* The key that is counted has no time to live exactly as long as the request
\* that created it is about to give it one, or has ended before it could.
Owed ==
  /\ \A r \in Requests : pc[r] = "expire" => count > 0 /\ ttl = 0
  /\ \A q, r \in Requests : pc[q] = "expire" /\ pc[r] = "expire" => q = r
  /\ count > 0 /\ ttl = 0 /\ ~lost => \E r \in Requests : pc[r] = "expire"
  /\ count = 0 => ttl = 0

\* What was let through within the last Window ticks is what the current window
\* has let through and, before it, at most one window's limit; since the key
\* got its expiry, it is the current window's alone.
Budget ==
  /\ Passed(recent)[Window] <= Limit + Admitted
  /\ ttl > 0 => Passed(recent)[Window - ttl] <= Admitted
  /\ recent[0] <= Admitted

IInv == TypeOK /\ Owed /\ Budget

\* The window before any request.
LEMMA PassedNothing ==
  LET z == [a \in 0..(Window - 1) |-> 0]
  IN  \A n \in 0..Window : Passed(z)[n] = 0
<1> USE RateLimitAssumption
<1> DEFINE z == [a \in 0..(Window - 1) |-> 0]
           f == Passed(z)
           S == {k \in Nat : k <= Window => f[k] = 0}
<1>1. f[0] = 0 /\ \A n \in 1..Window : f[n] = f[n - 1] + z[n - 1]
  BY PassedDefined
<1>2. \A n \in 1..Window : z[n - 1] = 0
  OBVIOUS
<1> HIDE DEF f, z
<1>3. 0 \in S
  BY <1>1
<1>4. ASSUME NEW k \in Nat, k \in S PROVE k + 1 \in S
  <2> SUFFICES ASSUME k + 1 <= Window PROVE f[k + 1] = 0
    OBVIOUS
  <2>1. f[k + 1] = f[k] + z[k]
    BY <1>1
  <2>2. z[k] = 0
    <3>1. (k + 1) - 1 = k /\ k + 1 \in 1..Window
      OBVIOUS
    <3> QED
      BY <1>2, <3>1
  <2> QED
    BY <1>4, <2>1, <2>2
<1> HIDE DEF S
<1>5. \A k \in Nat : k \in S
  BY <1>3, <1>4, Climb
<1> QED
  BY <1>5 DEF S, f, z

LEMMA InvInit == Init => IInv
<1> SUFFICES ASSUME Init PROVE IInv
  OBVIOUS
<1> USE RateLimitAssumption
<1>1. TypeOK
  <2>1. recent \in [0..(Window - 1) -> 0..MaxCount]
    BY DEF Init
  <2>2. count \in 0..MaxCount /\ ttl \in 0..Window
    BY DEF Init
  <2>3. pc \in [Requests -> {"idle", "expire"}]
    BY DEF Init
  <2> QED
    BY <2>1, <2>2, <2>3, Zenon DEF Init, TypeOK
<1>2. Owed
  BY DEF Init, Owed
<1>3. Budget
  <2>1. Passed(recent)[Window] = 0
    BY PassedNothing DEF Init
  <2> QED
    BY <2>1 DEF Init, Budget, Admitted
<1> QED
  BY <1>1, <1>2, <1>3 DEF IInv

LEMMA InvStep == IInv /\ [Next]_vars => IInv'
<1> SUFFICES ASSUME IInv, [Next]_vars PROVE IInv'
  OBVIOUS
<1> USE RateLimitAssumption DEF IInv
<1>t. recent \in [0..(Window - 1) -> Nat] /\ ttl \in 0..Window /\ count \in 0..MaxCount
  BY DEF TypeOK
<1> DEFINE f == Passed(recent)
           g == Passed(recent')
<1>f. /\ f \in [0..Window -> Nat] /\ f[0] = 0
      /\ \A n \in 1..Window : f[n] = f[n - 1] + recent[n - 1]
  BY <1>t, PassedDefined
<1>1. ASSUME NEW r \in Requests, Incr(r) PROVE IInv'
  <2>1. CASE count' > Limit
    <3>1. Admitted' = Admitted
      BY <1>1, <1>t, <2>1 DEF Incr, Admitted
    <3>2. UNCHANGED <<recent, ttl>>
      BY <1>1, <2>1 DEF Incr
    <3>3. Budget'
      BY <3>1, <3>2 DEF Budget
    <3>4. TypeOK'
      BY <1>1, <2>1 DEF Incr, TypeOK
    <3>5. Owed'
      BY <1>1, <2>1, <1>t DEF Incr, Owed, TypeOK
    <3> QED
      BY <3>3, <3>4, <3>5
  <2>2. CASE ~(count' > Limit)
    <3>1. Admitted' = Admitted + 1 /\ Admitted \in Nat /\ Admitted' <= Limit
      BY <1>1, <1>t, <2>2 DEF Incr, Admitted
    <3>2. recent' = [recent EXCEPT ![0] = @ + 1] /\ ttl' = ttl
      BY <1>1, <2>2 DEF Incr
    <3>3. \A n \in 1..Window : g[n] = f[n] + 1
      BY <1>t, <3>2, PassedOneMore
    <3>4. recent'[0] = recent[0] + 1 /\ recent'[0] <= Admitted'
      BY <1>t, <3>1, <3>2 DEF Budget
    <3>5. TypeOK'
      BY <1>1, <2>2, <1>t, <3>1, <3>2, <3>4 DEF Incr, TypeOK
    <3>6. Owed'
      BY <1>1, <2>2, <1>t DEF Incr, Owed, TypeOK
    <3>7. g[0] = 0
      <4>1. recent' \in [0..(Window - 1) -> Nat]
        BY <1>t, <3>2
      <4> QED
        BY <4>1, PassedDefined
    <3> HIDE DEF f, g
    <3>8. g[Window] <= Limit + Admitted'
      <4>1. f[Window] <= Limit + Admitted
        BY DEF Budget, f
      <4> QED
        BY <1>f, <3>1, <3>3, <4>1
    <3>9. ttl' > 0 => g[Window - ttl'] <= Admitted'
      <4>1. ttl > 0 => f[Window - ttl] <= Admitted
        BY DEF Budget, f
      <4>2. CASE ttl = Window
        BY <3>1, <3>2, <3>7, <4>2
      <4>3. CASE ttl > 0 /\ ttl # Window
        <5>1. Window - ttl \in 1..Window
          BY <1>t, <4>3
        <5>2. g[Window - ttl] = f[Window - ttl] + 1 /\ f[Window - ttl] \in Nat
          BY <1>f, <3>3, <5>1
        <5> QED
          BY <3>1, <3>2, <4>1, <4>3, <5>2
      <4> QED
        BY <3>2, <4>2, <4>3
    <3>10. Budget'
      BY <3>4, <3>8, <3>9 DEF Budget, g
    <3> QED
      BY <3>5, <3>6, <3>10
  <2> QED
    BY <2>1, <2>2
<1>2. ASSUME NEW r \in Requests, Expire(r) PROVE IInv'
  <2>1. TypeOK' /\ Owed'
    BY <1>2, <1>t DEF Expire, TypeOK, Owed
  <2>2. ttl' = Window /\ UNCHANGED <<count, recent>>
    BY <1>2 DEF Expire, Owed
  <2>3. Admitted' = Admitted /\ Admitted \in Nat
    BY <1>t, <2>2 DEF Admitted
  <2>4. Passed(recent')[Window - ttl'] <= Admitted'
    BY <1>f, <2>2, <2>3
  <2>5. Budget'
    BY <2>2, <2>3, <2>4 DEF Budget
  <2> QED
    BY <2>1, <2>5
<1>3. ASSUME NEW r \in Requests, Fail(r) PROVE IInv'
  BY <1>3 DEF Fail, TypeOK, Owed, Budget, Admitted
<1>4. CASE Tick
  <2>1. recent' = [a \in 0..(Window - 1) |-> IF a = 0 THEN 0 ELSE recent[a - 1]]
    BY <1>4 DEF Tick
  <2>2. \A n \in 1..Window : g[n] = f[n - 1]
    BY <1>t, <2>1, PassedShifted
  <2>3. recent'[0] = 0
    BY <2>1
  <2>4. TypeOK'
    <3>1. recent' \in [0..(Window - 1) -> 0..MaxCount]
      BY <2>1 DEF TypeOK
    <3> QED
      BY <1>4, <3>1, <1>t DEF Tick, TypeOK
  <2>5. Owed'
    BY <1>4, <1>t DEF Tick, TypeOK, Owed
  <2>6. f[Window - 1] <= f[Window] /\ f[Window - 1] \in Nat
    <3>1. f[Window] = f[Window - 1] + recent[Window - 1]
      BY <1>f
    <3> HIDE DEF f
    <3> QED
      BY <1>f, <1>t, <3>1
  <2>7. g[Window] = f[Window - 1]
    BY <2>2
  <2>8. /\ f[Window] <= Limit + Admitted
        /\ ttl > 0 => f[Window - ttl] <= Admitted
    BY DEF Budget
  <2>9. Admitted \in 0..Limit /\ Admitted' \in 0..Limit
    BY <1>4, <1>t DEF Admitted, Tick
  <2> HIDE DEF f, g
  <2>10. CASE ttl = 1
    <3>1. ttl' = 0 /\ g[Window] <= Limit + Admitted'
      BY <1>4, <2>6, <2>7, <2>8, <2>9, <2>10 DEF Tick
    <3> QED
      BY <2>3, <2>4, <2>5, <2>9, <3>1 DEF Budget, g
  <2>11. CASE ttl # 1
    <3>1. Admitted' = Admitted
      BY <1>4, <2>11 DEF Tick, Admitted
    <3>2. g[Window] <= Limit + Admitted'
      BY <1>f, <2>6, <2>7, <2>8, <2>9, <3>1
    <3>3. ttl' > 0 => g[Window - ttl'] <= Admitted'
      <4> SUFFICES ASSUME ttl' > 0 PROVE g[Window - ttl'] <= Admitted'
        OBVIOUS
      <4>1. ttl > 1 /\ ttl' = ttl - 1
        BY <1>4, <1>t, <2>11 DEF Tick
      <4>2. Window - ttl' \in 1..Window /\ (Window - ttl') - 1 = Window - ttl
        BY <1>t, <4>1
      <4>3. g[Window - ttl'] = f[Window - ttl]
        BY <2>2, <4>2
      <4> QED
        BY <1>t, <2>8, <3>1, <4>1, <4>3
    <3> QED
      BY <2>3, <2>4, <2>5, <2>9, <3>2, <3>3 DEF Budget, g
  <2> QED
    BY <2>10, <2>11
<1>5. CASE UNCHANGED vars
  BY <1>5 DEF vars, TypeOK, Owed, Budget, Admitted
<1> QED
  BY <1>1, <1>2, <1>3, <1>4, <1>5 DEF Next

LEMMA InvAlways == Spec => []IInv
  BY InvInit, InvStep, PTL DEF Spec

-----------------------------------------------------------------------------
\* Counter, time to live and history keep their types: the counter of one route
\* and address, however its requests interleave.
THEOREM RateLimitTyped == Spec => []TypeOK
<1>1. IInv => TypeOK
  BY DEF IInv
<1> QED
  BY <1>1, InvAlways, PTL

\* No stretch as long as the window lets more than two limits through, for any
\* limit, window and number of requests between INCR and EXPIRE.
THEOREM TwoLimitsAtMost == Spec => []SlidingBound
<1>1. IInv => SlidingBound
  <2> SUFFICES ASSUME IInv PROVE SlidingBound
    OBVIOUS
  <2>1. Admitted \in 0..Limit
    BY RateLimitAssumption DEF IInv, TypeOK, Admitted
  <2>2. Passed(recent)[Window] \in Nat
    <3>1. recent \in [0..(Window - 1) -> Nat]
      BY DEF IInv, TypeOK
    <3> QED
      BY <3>1, PassedDefined, RateLimitAssumption
  <2> QED
    BY <2>1, <2>2, RateLimitAssumption DEF IInv, Budget, SlidingBound
<1> QED
  BY <1>1, InvAlways, PTL

\* As long as no request has ended between INCR and EXPIRE, a key without expiry
\* is about to get one: nobody stays locked out (the safety half of
\* BlockedRecovers, for any number of requests that count meanwhile).
THEOREM ExpiryOwed ==
  Spec => [](count > 0 /\ ttl = 0 /\ ~lost => \E r \in Requests : pc[r] = "expire")
<1>1. IInv => (count > 0 /\ ttl = 0 /\ ~lost => \E r \in Requests : pc[r] = "expire")
  BY DEF IInv, Owed
<1> QED
  BY <1>1, InvAlways, PTL

=============================================================================

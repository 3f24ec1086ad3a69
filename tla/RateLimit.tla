----------------------------- MODULE RateLimit -----------------------------
(***************************************************************************)
(* The fixed-window rate limiter (src/app/middleware/rate_limit.py) for    *)
(* one route and one client address: INCR of a counter in Redis, EXPIRE    *)
(* by the request that found it at 1, and a comparison with the limit.     *)
(* Keys of other routes and addresses are independent of this one.         *)
(*                                                                         *)
(* Time is counted in ticks; the key disappears when its time to live is   *)
(* up.  Between INCR and EXPIRE the request is suspended, and other        *)
(* requests count.                                                         *)
(***************************************************************************)
EXTENDS Integers

CONSTANTS Limit,      \* requests let through per window
          Window,     \* its length, in ticks
          MaxCount,   \* bound on the counter
          Requests    \* the requests that can wait for their EXPIRE at once

ASSUME RateLimitAssumption ==
  /\ Limit \in Nat \ {0} /\ Window \in Nat \ {0}
  /\ MaxCount \in Nat /\ MaxCount > Limit

VARIABLES count,   \* the counter, 0 if there is no key
          ttl,     \* ticks the key has left, 0 if it has no expiry
          pc,      \* "idle", or "expire" between INCR and EXPIRE
          recent,  \* history: requests counted within the limit, a ticks ago
          lost     \* history: has a request ended between INCR and EXPIRE?

vars == <<count, ttl, pc, recent, lost>>

TypeOK ==
  /\ count \in 0..MaxCount
  /\ ttl \in 0..Window
  /\ pc \in [Requests -> {"idle", "expire"}]
  /\ recent \in [0..(Window - 1) -> 0..MaxCount]
  /\ lost \in BOOLEAN

Init ==
  /\ count = 0 /\ ttl = 0
  /\ pc = [r \in Requests |-> "idle"]
  /\ recent = [a \in 0..(Window - 1) |-> 0]
  /\ lost = FALSE

\* Mutation: the counter is compared as it was before the request.
IncrLenient(r) ==
  /\ pc[r] = "idle"
  /\ count < MaxCount
  /\ count' = count + 1
  /\ pc' = [pc EXCEPT ![r] = IF count' = 1 THEN "expire" ELSE "idle"]
  /\ recent' = IF count > Limit THEN recent ELSE [recent EXCEPT ![0] = @ + 1]
  /\ UNCHANGED <<ttl, lost>>

\* current = INCR key; current > limit raises.  Only current = 1 waits for
\* another command before it is answered.
Incr(r) ==
  /\ pc[r] = "idle"
  /\ count < MaxCount
  /\ count' = count + 1
  /\ pc' = [pc EXCEPT ![r] = IF count' = 1 THEN "expire" ELSE "idle"]
  /\ recent' = IF count' > Limit THEN recent ELSE [recent EXCEPT ![0] = @ + 1]
  /\ UNCHANGED <<ttl, lost>>

\* Mutation: the key never gets its expiry.
ExpireNever(r) ==
  /\ pc[r] = "expire"
  /\ pc' = [pc EXCEPT ![r] = "idle"]
  /\ UNCHANGED <<count, ttl, recent, lost>>

\* Mutation: window_seconds is handed over in a smaller unit than EXPIRE takes.
ExpireTooLong(r) ==
  /\ pc[r] = "expire"
  /\ ttl' = IF count > 0 THEN 2 * Window ELSE 0
  /\ pc' = [pc EXCEPT ![r] = "idle"]
  /\ UNCHANGED <<count, recent, lost>>

\* EXPIRE of a key that is gone does nothing.
Expire(r) ==
  /\ pc[r] = "expire"
  /\ ttl' = IF count > 0 THEN Window ELSE 0
  /\ pc' = [pc EXCEPT ![r] = "idle"]
  /\ UNCHANGED <<count, recent, lost>>

\* Redis cannot be reached, the client has gone, the worker stops.
Fail(r) ==
  /\ pc[r] = "expire"
  /\ pc' = [pc EXCEPT ![r] = "idle"]
  /\ lost' = TRUE
  /\ UNCHANGED <<count, ttl, recent>>

Tick ==
  /\ count' = IF ttl = 1 THEN 0 ELSE count
  /\ ttl' = IF ttl = 0 THEN 0 ELSE ttl - 1
  /\ recent' = [a \in 0..(Window - 1) |-> IF a = 0 THEN 0 ELSE recent[a - 1]]
  /\ UNCHANGED <<pc, lost>>

Next == Tick \/ \E r \in Requests : Incr(r) \/ Expire(r) \/ Fail(r)

Spec == Init /\ [][Next]_vars

\* Time passes; a suspended request is resumed.
Fairness == WF_vars(Tick) /\ \A r \in Requests : WF_vars(Expire(r))

FairSpec == Spec /\ Fairness

-----------------------------------------------------------------------------
\* Passed(h)[n] adds up the counts h[0] to h[n - 1].
Passed(h) ==
  LET sum[n \in 0..Window] == IF n = 0 THEN 0 ELSE sum[n - 1] + h[n - 1]
  IN  sum

\* In no stretch of Window ticks are more than twice Limit requests let
\* through: a fixed window promises no better, and requests that count between
\* INCR and EXPIRE do not make it worse.
SlidingBound == Passed(recent)[Window] <= 2 * Limit

\* A client over the limit is let through again some time later, unless a
\* request has ended between INCR and EXPIRE.
BlockedRecovers == count > Limit ~> count = 0 \/ lost
=============================================================================

--------------------------- MODULE TokenRegistry ---------------------------
(***************************************************************************)
(* What the refresh-token sessions of the authentication service promise,  *)
(* with no Redis, no database and no request in sight.                     *)
(*                                                                         *)
(* A refresh token is unissued, then live, then dead, and never moves      *)
(* backwards.  A login opens a family of tokens; rotating a token first    *)
(* kills it and only then brings its successor to life in the same family, *)
(* for the same user.  OneSuccessor says whether a token may be rotated    *)
(* more than once: the service promises single use only when the requests  *)
(* of one user do not overlap.                                             *)
(***************************************************************************)
CONSTANTS Users,         \* the accounts
          Jtis,          \* the token identifiers (uuid4 in the program)
          Nil,           \* "no user", "no token"
          OneSuccessor   \* TRUE: a token is rotated at most once

\* What the proofs need of the constants; RefreshSessions, which instantiates
\* this module, assumes as much of its own.
RegistryAssumption ==
  /\ Nil \notin Users \cup Jtis
  /\ OneSuccessor \in BOOLEAN

VARIABLES status,   \* status[j]: "unissued", "live" or "dead"
          holder,   \* holder[j]: the user token j was issued to
          origin,   \* origin[j]: the token j replaced, Nil if j came from a login
          family    \* family[j]: the login token at the start of j's chain

vars == <<status, holder, origin, family>>

TypeOK ==
  /\ status \in [Jtis -> {"unissued", "live", "dead"}]
  /\ holder \in [Jtis -> Users \cup {Nil}]
  /\ origin \in [Jtis -> Jtis \cup {Nil}]
  /\ family \in [Jtis -> Jtis \cup {Nil}]

Init ==
  /\ status = [j \in Jtis |-> "unissued"]
  /\ holder = [j \in Jtis |-> Nil]
  /\ origin = [j \in Jtis |-> Nil]
  /\ family = [j \in Jtis |-> Nil]

Issue(u, j, from, root) ==
  /\ status[j] = "unissued"
  /\ status' = [status EXCEPT ![j] = "live"]
  /\ holder' = [holder EXCEPT ![j] = u]
  /\ origin' = [origin EXCEPT ![j] = from]
  /\ family' = [family EXCEPT ![j] = root]

\* A login: the first token of a new family.
Open(u, j) == Issue(u, j, Nil, j)

HasSuccessor(i) == \E k \in Jtis : origin[k] = i

\* The second half of a rotation: i is already dead when j comes to life.
Succeed(i, j) ==
  /\ status[i] = "dead"
  /\ family[i] # Nil
  /\ OneSuccessor => ~HasSuccessor(i)
  /\ Issue(holder[i], j, i, family[i])

\* Logout, the first half of a rotation, one step of revoking all sessions.
Retire(j) ==
  /\ status[j] = "live"
  /\ status' = [status EXCEPT ![j] = "dead"]
  /\ UNCHANGED <<holder, origin, family>>

\* A request that failed after minting a token and before storing it.
Discard(u, j) ==
  /\ status[j] = "unissued"
  /\ status' = [status EXCEPT ![j] = "dead"]
  /\ holder' = [holder EXCEPT ![j] = u]
  /\ UNCHANGED <<origin, family>>

Next ==
  \/ \E u \in Users, j \in Jtis : Open(u, j) \/ Discard(u, j)
  \/ \E i, j \in Jtis : Succeed(i, j)
  \/ \E j \in Jtis : Retire(j)

Spec == Init /\ [][Next]_vars

-----------------------------------------------------------------------------
\* A login has at most one live refresh token at any time, however often it
\* was rotated, provided tokens are single-use.
OneLivePerFamily ==
  OneSuccessor =>
    \A i, j \in Jtis :
      status[i] = "live" /\ status[j] = "live" /\ family[i] = family[j] => i = j

\* A successor belongs to the user and the family of the token it replaced.
Inheritance ==
  \A j \in Jtis : origin[j] # Nil =>
    /\ holder[j] = holder[origin[j]]
    /\ family[j] = family[origin[j]]
    /\ status[origin[j]] = "dead"
=============================================================================

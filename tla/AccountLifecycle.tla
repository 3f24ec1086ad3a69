------------------------- MODULE AccountLifecycle -------------------------
(***************************************************************************)
(* What the account service promises: an account is opened under an e-mail *)
(* address nobody else holds, is verified at most once, and once closed is *)
(* closed for good.  Closing gives the address free.                       *)
(***************************************************************************)
CONSTANTS Users,   \* the accounts there may ever be
          Emails,  \* the addresses
          Nil      \* no address

VARIABLES state,   \* state[u]: "none", "unverified", "verified" or "closed"
          address  \* address[u]: the e-mail address of u while it is open

vars == <<state, address>>

Open(u) == state[u] \in {"unverified", "verified"}

Init == state = [u \in Users |-> "none"] /\ address = [u \in Users |-> Nil]

Register(u, e) ==
  /\ state[u] = "none"
  /\ \A w \in Users : Open(w) => address[w] # e
  /\ state' = [state EXCEPT ![u] = "unverified"]
  /\ address' = [address EXCEPT ![u] = e]

Verify(u) ==
  /\ state[u] = "unverified"
  /\ state' = [state EXCEPT ![u] = "verified"]
  /\ UNCHANGED address

Close(u) ==
  /\ Open(u)
  /\ state' = [state EXCEPT ![u] = "closed"]
  /\ address' = [address EXCEPT ![u] = Nil]

Next == \E u \in Users : Verify(u) \/ Close(u) \/ \E e \in Emails : Register(u, e)

Spec == Init /\ [][Next]_vars
=============================================================================

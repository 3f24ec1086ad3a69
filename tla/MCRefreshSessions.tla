------------------------ MODULE MCRefreshSessions ------------------------
(* Small instances of RefreshSessions for TLC.                            *)
EXTENDS RefreshSessions, TLC

\* Users, tokens and request slots are interchangeable.  Used by the runs
\* without liveness properties only.
Symmetry == Permutations(Users) \cup Permutations(Jtis) \cup Permutations(Requests)
=============================================================================

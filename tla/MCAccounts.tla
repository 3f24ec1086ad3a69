---------------------------- MODULE MCAccounts ----------------------------
(* Small instances of Accounts for TLC.                                   *)
EXTENDS Accounts, TLC

Symmetry ==
  Permutations(Users) \cup Permutations(Emails) \cup Permutations(Names)
    \cup Permutations(Passwords) \cup Permutations(Tokens) \cup Permutations(Requests)
=============================================================================

----------------------------- MODULE MCAvatars -----------------------------
(* Small instances of Avatars for TLC.                                     *)
EXTENDS Avatars, TLC

Symmetry == Permutations(Keys) \cup Permutations(Requests)
=============================================================================

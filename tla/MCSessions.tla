----------------------------- MODULE MCSessions -----------------------------
(* Small instances of Sessions. *)
EXTENDS SessionsRefinement, TLC

SessionSymmetry ==
  Permutations(Calls) \cup Permutations(Devices)
    \cup Permutations(Users) \cup Permutations(Passwords)
=============================================================================

----------------------------- MODULE MCProfiles -----------------------------
(* Symmetry for Profiles: requests, addresses and races are interchangeable. *)
EXTENDS Profiles, TLC

Symmetric == Permutations(Requests) \cup Permutations(Emails)
             \cup Permutations(Races)
=============================================================================

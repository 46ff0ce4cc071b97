--------------------------- MODULE MCAccessTokens ---------------------------
(* A small instance of AccessTokens. *)
EXTENDS AccessTokens, TLC

AccessSymmetry == Permutations(Calls) \cup Permutations(Users)
                    \cup Permutations(Passwords)
=============================================================================

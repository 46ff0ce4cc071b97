--------------------------- MODULE MCRegistration ---------------------------
(* Small instances of Registration: who confirms what, and the symmetry of *)
(* the identifiers that no constant tells apart.                           *)
EXTENDS RegistrationLedger, RegistrationRaces, TLC

CONSTANT q1

MCNoConfirmCalls == {}
MCPaidForNothing == <<>>

(* The payment seam is called for the registration of q1. *)
MCPaidForQ1 == [p \in ConfirmCalls |-> q1]

AllSymmetry == Permutations(Requests) \cup Permutations(Emails)

(* For the runs in which q1 is the one that is paid for. *)
DataSymmetry == Permutations(Emails) \cup Permutations(RaceIds)
=============================================================================

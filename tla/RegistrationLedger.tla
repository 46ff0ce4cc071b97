------------------------- MODULE RegistrationLedger -------------------------
(* Registration implements DorsalLedger: the roll of a race is read off the *)
(* dorsals of its rows.                                                     *)
EXTENDS Registration, Sequences

Roll ==
  [r \in RaceIds |->
    [d \in 1..Cardinality(Holders(r)) |->
      regs[CHOOSE q \in Holders(r) : regs[q].dorsal = d].email]]

Announced ==
  {[race |-> raceId[q], email |-> form[q].email, dorsal |-> cand[q]] :
    q \in {o \in Requests : Told(o)}}

Ledger == INSTANCE DorsalLedger WITH roll <- Roll, announced <- Announced

(* As long as no reply of the database is lost and nothing calls the payment
   seam, every step of every request admits the next person to a roll,
   announces a dorsal that is on it, or changes neither. *)
ImplementsLedger == Ledger!Spec

=============================================================================

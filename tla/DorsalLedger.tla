---------------------------- MODULE DorsalLedger ----------------------------
(***************************************************************************)
(* What registration promises, without statements, retries or failures:    *)
(* each race keeps a roll of the people it admitted, in order.  A person's *)
(* dorsal is the place on the roll, a roll only grows at its end, nobody   *)
(* is on it twice, and a dorsal is announced only when it is on the roll.  *)
(***************************************************************************)
EXTENDS Naturals, Sequences

CONSTANTS RaceIds, Emails

VARIABLES
  roll,       \* race id -> the admitted people, by dorsal
  announced   \* the dorsals people were told

ledger == <<roll, announced>>

OnRoll(r, e) == \E d \in 1..Len(roll[r]) : roll[r][d] = e

Init ==
  /\ roll = [r \in RaceIds |-> <<>>]
  /\ announced = {}

Admit(r, e) ==
  /\ ~OnRoll(r, e)
  /\ roll' = [roll EXCEPT ![r] = Append(@, e)]
  /\ UNCHANGED announced

Announce(r, d) ==
  /\ d \in 1..Len(roll[r])
  /\ announced' = announced \cup {[race |-> r, email |-> roll[r][d], dorsal |-> d]}
  /\ UNCHANGED roll

Next ==
  \E r \in RaceIds :
    \/ \E e \in Emails : Admit(r, e)
    \/ \E d \in 1..Len(roll[r]) : Announce(r, d)

Spec == Init /\ [][Next]_ledger

=============================================================================

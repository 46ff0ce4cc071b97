-------------------------- MODULE SessionLifecycle --------------------------
(***************************************************************************)
(* What a session is to its user: it is opened once, for one user, and     *)
(* once it is over nothing brings it back.                                 *)
(***************************************************************************)
CONSTANTS Sessions, Users, Nobody

VARIABLES
  state,   \* "new", "live" or "over"
  holder   \* the user the session was opened for

session == <<state, holder>>

Init ==
  /\ state = [f \in Sessions |-> "new"]
  /\ holder = [f \in Sessions |-> Nobody]

Open(f, u) ==
  /\ state[f] = "new"
  /\ state' = [state EXCEPT ![f] = "live"]
  /\ holder' = [holder EXCEPT ![f] = u]

(* One statement may end several sessions, and open none. *)
End(S) ==
  /\ \A f \in S : state[f] = "live"
  /\ state' = [f \in Sessions |-> IF f \in S THEN "over" ELSE state[f]]
  /\ UNCHANGED holder

Next ==
  \/ \E f \in Sessions, u \in Users : Open(f, u)
  \/ \E S \in SUBSET Sessions : End(S)

Spec == Init /\ [][Next]_session

=============================================================================

------------------------- MODULE SessionsRefinement -------------------------
(* Sessions implements SessionLifecycle. *)
EXTENDS Sessions

(* Calls that read a usable token of family f and may still insert another. *)
Continuing(f) == {c \in Calls : pc[c] \in {"rotate", "issue"} /\ family[c] = f}

State ==
  [f \in Calls |->
    IF \E t \in FamilyOf(f) : IsActive(t) THEN "live"
    ELSE IF FamilyOf(f) = {} THEN "new"
    ELSE IF Continuing(f) # {} THEN "live" ELSE "over"]

Holder == [f \in Calls |-> IF f \in Stored /\ FamilyOf(f) # {}
                           THEN tokens[f].user ELSE NoToken]

Lifecycle ==
  INSTANCE SessionLifecycle
    WITH Sessions <- Calls, Nobody <- NoToken, state <- State, holder <- Holder

(* Once all tokens of a session are used or expired and no refresh that saw
   one of them usable is under way, nothing revives the session: no retry, no
   late statement, no concurrent login of the same user. *)
ImplementsLifecycle == Lifecycle!Spec

=============================================================================

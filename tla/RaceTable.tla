----------------------------- MODULE RaceTable -----------------------------
(***************************************************************************)
(* What the rest of the system may rely on about races: a race in use      *)
(* keeps its identity.  A document of the CMS has at most one race at a    *)
(* time, a race comes into being under an id no race ever had, what the    *)
(* CMS says of it later does not touch that id, and it goes away only when *)
(* nothing refers to it.  References are made to races that exist.         *)
(*                                                                         *)
(* RaceSync implements this with the two statements of the webhook's       *)
(* upsert (RaceSyncTable), Registration with its atomic SyncRace and       *)
(* RemoveRace (RegistrationRaces): either may stand for the other.         *)
(***************************************************************************)
CONSTANTS Slugs, Ids, NoId

VARIABLES
  id,      \* the id of each document's race, NoId when it has none
  drawn,   \* ids that races have had
  inUse    \* ids that registrations refer to

race == <<id, drawn, inUse>>

Init ==
  /\ id = [s \in Slugs |-> NoId]
  /\ drawn = {}
  /\ inUse = {}

Begin(s, r) ==
  /\ id[s] = NoId
  /\ r \notin drawn
  /\ id' = [id EXCEPT ![s] = r]
  /\ drawn' = drawn \cup {r}
  /\ UNCHANGED inUse

End(s) ==
  /\ id[s] \notin inUse
  /\ id' = [id EXCEPT ![s] = NoId]
  /\ UNCHANGED <<drawn, inUse>>

Use(s) ==
  /\ id[s] # NoId
  /\ inUse' = inUse \cup {id[s]}
  /\ UNCHANGED <<id, drawn>>

(* The only registration of a race is taken back. *)
Release(r) ==
  /\ inUse' = inUse \ {r}
  /\ UNCHANGED <<id, drawn>>

Next ==
  \/ \E s \in Slugs : End(s) \/ Use(s) \/ \E r \in Ids : Begin(s, r)
  \/ \E r \in inUse : Release(r)

Spec == Init /\ [][Next]_race

=============================================================================

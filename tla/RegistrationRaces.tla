-------------------------- MODULE RegistrationRaces --------------------------
(* Registration implements RaceTable, which RaceSync implements as well: the *)
(* webhook of Registration, one step per delivery, does to the table what   *)
(* the statements of RaceSync do, and registrations use races only as        *)
(* RaceSync assumes.                                                         *)
EXTENDS Registration

Races ==
  INSTANCE RaceTable
    WITH Ids <- RaceIds, NoId <- NoRace, drawn <- spent,
         inUse <- {regs[q].race : q \in Stored},
         id <- [s \in Slugs |-> IF races[s] = NoRace THEN NoRace
                                                     ELSE races[s].id]

(* A registration, a dorsal, a compensating delete or a lost reply never gives
   a race another id nor refers to a race that is not there, though the race
   was read statements earlier (internal/participant/service/service.go). *)
ImplementsRaceTable == Races!Spec

=============================================================================

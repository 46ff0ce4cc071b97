---------------------------- MODULE RaceSyncTable ----------------------------
(* RaceSync implements RaceTable: the webhook, as internal/participant sees  *)
(* it through the races table.                                              *)
EXTENDS RaceSync

Table ==
  INSTANCE RaceTable
    WITH Ids <- RaceIds, NoId <- NoRace, drawn <- spent, inUse <- referenced,
         id <- [s \in Slugs |-> IF races[s] = NoRace THEN NoRace
                                                     ELSE races[s].id]

(* Whatever deliveries are repeated, reordered or cut short, each statement of
   the webhook begins a race under a fresh id, ends one that nothing refers
   to, or leaves every id alone (internal/race/adapters/postgres). *)
ImplementsRaceTable == Table!Spec

=============================================================================

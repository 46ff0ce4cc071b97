SPECIFICATION FairSpec
CONSTANTS
  Slugs = {s1}
  RaceIds = {r1, r2, r3}
  Handlers = {h1, h2}
  MaxEvents = 3
  MaxFaults = 2
  Faults = {"fail", "lostAnswer", "timeout", "duplicate", "overtaken"}
  NoRace = NoRace
INVARIANTS
  AnsweredIdsAreReal
PROPERTIES
  ImplementsRaceTable
  EndsInStep
CHECK_DEADLOCK FALSE

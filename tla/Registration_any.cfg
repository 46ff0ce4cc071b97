SPECIFICATION Spec
CONSTANTS
  q1 = q1
  Requests = {q1, q2}
  ConfirmCalls = {c1}
  PaidFor <- MCPaidForQ1
  Emails = {ana, bea}
  Slugs = {s1}
  RaceIds = {r1, r2}
  MaxCapacity = 2
  MaxAttempts = 2
  Faults = {"lostReply", "cancel"}
  NoRace = NoRace
  NoReg = NoReg
  NoForm = NoForm
SYMMETRY DataSymmetry
INVARIANTS
  NoSharedDorsal
  NeverOversold
PROPERTIES
  ImplementsRaceTable
CHECK_DEADLOCK FALSE

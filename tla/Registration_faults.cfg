SPECIFICATION Spec
CONSTANTS
  q1 = q1
  Requests = {q1, q2, q3}
  ConfirmCalls <- MCNoConfirmCalls
  PaidFor <- MCPaidForNothing
  Emails = {ana, bea, carl}
  Slugs = {s1}
  RaceIds = {r1}
  MaxCapacity = 2
  MaxAttempts = 2
  Faults = {"transient", "crash"}
  NoRace = NoRace
  NoReg = NoReg
  NoForm = NoForm
SYMMETRY AllSymmetry
INVARIANTS
  FullIsJustified
  RejectionIsExplained
  SettledUnlessHit
  ToldDorsalStands
  GapFree
PROPERTIES
  ImplementsLedger
CHECK_DEADLOCK FALSE

SPECIFICATION Spec
CONSTANTS
  q1 = q1
  Requests = {q1}
  ConfirmCalls <- MCNoConfirmCalls
  PaidFor <- MCPaidForNothing
  Emails = {ana}
  Slugs = {s1}
  RaceIds = {r1}
  MaxCapacity = 1
  MaxAttempts = 2
  Faults = {"cancel"}
  NoRace = NoRace
  NoReg = NoReg
  NoForm = NoForm
INVARIANTS
  NoPendingLeftBehind
CHECK_DEADLOCK FALSE

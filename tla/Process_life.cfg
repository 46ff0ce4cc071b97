SPECIFICATION ProcessSpec
CONSTANTS
  Instances = {i1, i2}
  Visits = {v1}
  MaxFaults = 1
  Nobody = Nobody
  Logins = {l1, l2, l3}
  Ips = {home, office}
  Burst = 2
  TokenTicks = 2
  MaxTime = 3
  NoOne = NoOne
  NoIp = NoIp
  NoLimiter = NoLimiter
  Requests = {q1, q2}
  ConfirmCalls = {}
  PaidFor <- NothingPaid
  MaxCapacity = 2
  MaxAttempts = 2
  Faults = {"cancel", "crash"}
  Emails = {ana, bea}
  Slugs = {s1}
  RaceIds = {u1}
  NoRace = NoRace
  NoReg = NoReg
  NoForm = NoForm
INVARIANTS
  ProcessTypeOK
  ServesOnlyWhenReady
  LimitHolds
  RefusalIsEarned
PROPERTIES
  CleanExit
  StopsWhenAsked
  ComesUp
  EveryRequestDecided
  EveryCallEnds
CHECK_DEADLOCK FALSE

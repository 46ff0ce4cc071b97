SPECIFICATION Spec
CONSTANTS
  Calls = {c1, c2, c3, c4}
  Devices = {d1}
  Users = {u1}
  Passwords = {p1}
  WeakPassword = WeakPassword
  Kinds = {"login", "refresh", "logout", "change"}
  Faults = {"transient"}
  NoToken = NoToken
  NoCall = NoCall
  NoUser = NoUser
SYMMETRY SessionSymmetry
INVARIANTS
  SuccessorContinuesSession
  TwoActiveNeedOverlap
  IdleCookieIsUnrotated
  RevocationCoversThePast
CHECK_DEADLOCK FALSE

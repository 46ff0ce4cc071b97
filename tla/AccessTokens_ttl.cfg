SPECIFICATION AccessSpec
CONSTANTS
  Calls = {c1, c2, c3}
  Devices = {d1}
  Users = {u1, u2}
  Passwords = {p1}
  WeakPassword = WeakPassword
  Kinds = {"login", "refresh", "logout", "change"}
  Faults = {}
  NoToken = NoToken
  NoCall = NoCall
  NoUser = NoUser
  Visits = {v1}
  Second = 2
  TTL = 2
  MaxTime = 3
  NoAccess = NoAccess
  NoVisit = NoVisit
SYMMETRY AccessSymmetry
INVARIANTS AccessTypeOK AccessEndsWithSession TokensServeTheirOwner
CHECK_DEADLOCK FALSE

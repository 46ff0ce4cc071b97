SPECIFICATION Spec
CONSTANTS
  Calls = {c1, c2}
  Devices = {d1}
  Users = {u1}
  Passwords = {p1, p2}
  WeakPassword = WeakPassword
  Kinds = {"login", "change"}
  Faults = {}
  NoToken = NoToken
  NoCall = NoCall
  NoUser = NoUser
INVARIANTS
  ChangeEndsEverySession
CHECK_DEADLOCK FALSE

SPECIFICATION Spec
CONSTANTS
  Calls = {c1, c2, c3}
  Devices = {d1}
  Users = {u1}
  Passwords = {p1, p2}
  WeakPassword = WeakPassword
  Kinds = {"login", "refresh", "logout", "change", "create", "ensure"}
  Faults = {"crash", "lostResponse"}
  NoToken = NoToken
  NoCall = NoCall
  NoUser = NoUser
SYMMETRY SessionSymmetry
INVARIANTS
  RevokedForAReason
  PasswordStands
PROPERTY
  ImplementsLifecycle
CHECK_DEADLOCK FALSE

SPECIFICATION Spec
CONSTANTS
  Requests = {q1, q2, q3}
  Emails = {e1, e2}
  Races = {r1, r2}
  Legacy = Legacy
  Missing = Missing
  NoPerson = NoPerson
  NoReg = NoReg
  NoForm = NoForm
SYMMETRY Symmetric
INVARIANTS ShowsNoOlderPerson KeepsItsPerson

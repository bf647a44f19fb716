SPECIFICATION Spec
CONSTANTS
  NULL = NULL
  Emails = {m1}
  Passwords = {w1, w2}
  Ids = {i1, i2}
  Requests = {p1, p2, p3}
INVARIANTS
  AcknowledgedStays
PROPERTIES
  ImplementsAccountLedger
  RegisteredCanLogIn
SYMMETRY AccountSymmetry

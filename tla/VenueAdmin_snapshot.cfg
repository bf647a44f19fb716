SPECIFICATION Spec
CONSTANTS
  NULL = NULL
  Users = {u1, u2}
  Venues = {v1}
  Labels = {l1, l2}
  EventIds = {e1, e2}
  Requests = {p1, p2}
  MaxBatch = 2
SYMMETRY AdminSymmetry
INVARIANTS
  IInv
PROPERTIES
  MembersAreTheVenue
  BatchesAreWhole
  ImplementsVenueLedger

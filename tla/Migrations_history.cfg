SPECIFICATION Spec
CONSTANTS
  NULL = NULL
  Events = {e1, e2}
  Seats = {s1}
  Bookings = {r1, r2}
INVARIANTS
  IInv
  HistorySurvives
  GuardSuffices
SYMMETRY MigrationSymmetry

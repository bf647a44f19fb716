SPECIFICATION Spec
CONSTANTS
  e1 = e1
  s1 = s1
  NULL = NULL
  Reservations = {1, 2}
  Users = {alice, carol}
  Customers = {alice, carol}
  Events = {e1}
  Seats = {s1}
  Keys = {k1, k2}
  Members <- OneSeat
  PageSize = 1
  MaxVersion = 3
CHECK_DEADLOCK FALSE
INVARIANTS
  OwnNewestFirst
  WalkMissesNothing
  ToldIsSo
  NoContradiction
  FreshAfterRefresh
SYMMETRY HistorySymmetry

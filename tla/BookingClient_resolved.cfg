SPECIFICATION Spec
CONSTANTS
  e1 = e1
  s1 = s1
  s2 = s2
  NULL = NULL
  Reservations = {r1, r2}
  Users = {alice, carol, bob}
  Customers = {alice, carol}
  Events = {e1}
  Seats = {s1}
  Keys = {k1, k2, k9}
  PageKeys = {k1, k2}
  Members <- OneSeat
  MaxAttempts = 3
  MaxSessions = 3
SYMMETRY PageSymmetry
INVARIANT
  ResolvedBeforeNext

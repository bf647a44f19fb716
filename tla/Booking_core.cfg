SPECIFICATION Spec
CONSTANTS
  alice = alice
  orga = orga
  e1 = e1
  s1 = s1
  s2 = s2
  NULL = NULL
  PoolSize = 2
  Users = {alice, orga}
  Organizers = {orga}
  Events = {e1}
  Seats = {s1, s2}
  Keys = {k1}
  Details = {d1, d2}
  Reservations = {r1, r2}
  Requests = {p1, p2}
  Owner <- OneOwner
  Members <- OneMembers
  StartsAt <- StartsAtOne
  MaxTime = 1
SYMMETRY SlotSymmetry
INVARIANTS
  IInv
  NoDoubleBooking
  ClaimsFollowBooking
  IntegrityErrorUnreachable
  CancelledEventReleasesAll
  OneBookingPerKey
  Timeline
PROPERTIES
  HistoryPermanent
  AcknowledgedIsStored
  CancelledEventFrozen
  ImplementsLedger

SPECIFICATION ListingSpec
CONSTANTS
  e1 = e1
  NoEvent = NoEvent
  Reservations = {r1, r2}
  Users = {alice}
  Events = {e1}
  Seats <- ThreeSeats
  Keys = {k1, k2}
  Members <- AllThree
  Readers = {c1}
  PageSize = 2
INVARIANT
  NeverFreeNeverOffered

SPECIFICATION FairSpec
CONSTANTS
  alice = alice
  orga = orga
  e1 = e1
  s1 = s1
  s2 = s2
  NULL = NULL
  PoolSize = 2
  Users = {orga}
  Organizers = {orga}
  Events = {e1}
  Seats = {s1}
  Keys = {k1}
  Details = {d1}
  Reservations = {r1}
  Requests = {p1, p2, p3}
  Owner <- OneOwner
  Members <- OneSeat
  StartsAt <- StartsAtOne
  MaxTime = 0
PROPERTIES
  EveryRequestAnswered

------------------------------ MODULE VenueLedger ------------------------------
(***************************************************************************)
(* What venue administration promises, with nothing said of how: a ledger  *)
(* of venues, their seats, who may create events at them, and the events,  *)
(* in which every operation takes effect at once.  Seats are only added,   *)
(* an event once announced never changes, and what it is sold on are the   *)
(* seats of its venue.  Module VenueAdmin, with its row locks, reads       *)
(* outdated by the time they are used, rollbacks and lost replies,         *)
(* implements this one.                                                    *)
(***************************************************************************)
EXTENDS Naturals, FiniteSets

CONSTANTS Users, Venues,
          Labels,     \* (section, row, number)
          EventIds,
          MaxBatch,   \* seats in one batch
          NULL

VARIABLES owner,       \* owner[v]: NULL while there is no such venue
          managers, organizers,
          grants,      \* who besides its owner may create events at a venue
          seats,       \* the seats of each venue
          event        \* the events, NULL before they are announced

registry == <<owner, managers, organizers, grants, seats, event>>

RegistryInit == /\ owner = [v \in Venues |-> NULL]
                /\ managers = {} /\ organizers = {} /\ grants = {}
                /\ seats = [v \in Venues |-> {}]
                /\ event = [e \in EventIds |-> NULL]

\* A venue is run by its owner, who never loses the permission.
Managed(v) == owner[v] # NULL /\ owner[v] \in managers

Appoint(u) == /\ \/ organizers' = organizers \union {u} /\ UNCHANGED managers
                 \/ managers' = managers \union {u} /\ UNCHANGED organizers
              /\ UNCHANGED <<owner, grants, seats, event>>

Open(v, u) == /\ owner[v] = NULL /\ u \in managers
              /\ owner' = [owner EXCEPT ![v] = u]
              /\ UNCHANGED <<managers, organizers, grants, seats, event>>

Grant(v, u) == /\ Managed(v) /\ u \in organizers
               /\ grants' = grants \union {<<v, u>>}
               /\ UNCHANGED <<owner, managers, organizers, seats, event>>

Revoke(v, u) == /\ Managed(v)
                /\ grants' = grants \ {<<v, u>>}
                /\ UNCHANGED <<owner, managers, organizers, seats, event>>

\* All the seats of a batch, none of which exists, or none.
Furnish(v, added) == /\ Managed(v)
                     /\ IsFiniteSet(added) /\ Cardinality(added) \in 1..MaxBatch
                     /\ added \intersect seats[v] = {}
                     /\ seats' = [seats EXCEPT ![v] = @ \union added]
                     /\ UNCHANGED <<owner, managers, organizers, grants, event>>

\* An event is new, at a venue with seats that its organizer has access to, and
\* takes all of them.
Announce(e, v, u) == /\ event[e] = NULL
                     /\ u \in organizers
                     /\ owner[v] = u \/ <<v, u>> \in grants
                     /\ seats[v] # {}
                     /\ event' = [event EXCEPT ![e] = [venue |-> v, organizer |-> u, members |-> seats[v],
                                                       capacity |-> Cardinality(seats[v])]]
                     /\ UNCHANGED <<owner, managers, organizers, grants, seats>>

RegistryNext == \/ \E u \in Users : Appoint(u)
                \/ \E v \in Venues :
                      \/ \E u \in Users : Open(v, u) \/ Grant(v, u) \/ Revoke(v, u)
                      \/ \E added \in SUBSET Labels : Furnish(v, added)
                      \/ \E e \in EventIds, u \in Users : Announce(e, v, u)

RegistrySpec == RegistryInit /\ [][RegistryNext]_registry
================================================================================

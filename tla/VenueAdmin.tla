------------------------------ MODULE VenueAdmin -------------------------------
(***************************************************************************)
(* Venues, their seats, the organizers granted access to them, and the     *)
(* events created from them: the operations serialized on a venue's row    *)
(* (services/venues.py lock_venue), and the promotions that are not.       *)
(*                                                                         *)
(*   grant, revoke  services/venue_access.py  change_access                *)
(*   seats          services/seats.py         create_seats                 *)
(*   event          services/events.py        create_event                 *)
(*                                                                         *)
(* Steps are READ COMMITTED statements, as in module Booking: what a       *)
(* statement reads is what has been committed by then, save that the       *)
(* session's identity map answers change_access with the caller's account  *)
(* as it was when the request was authenticated.  Permissions are never    *)
(* taken away, and an event's members never change.  That the start asked  *)
(* for has passed by the time the clock is read is a choice.               *)
(***************************************************************************)
EXTENDS Integers, Sequences, FiniteSets, Functions

CONSTANTS Users, Venues,
          Labels,     \* (section, row, number)
          EventIds,   \* the pool uuid4() draws event ids from
          Requests,   \* slots for concurrent HTTP requests
          MaxBatch,   \* seats in one batch, 500 in the schema
          NULL

ASSUME BatchAssumption == MaxBatch \in Nat \ {0}

VARIABLES
  owner,       \* venues.owner_id, NULL while there is no such venue
  managers,    \* the users with is_venue_manager
  organizers,  \* the users with is_organizer
  grants,      \* venue_organizers
  seats,       \* the seats of each venue
  event,       \* events with their event_seats
  lock,        \* the request whose transaction holds the venue's row
  pc, req,
  caller,      \* the caller's is_organizer as loaded by authentication
  snapshot     \* the seat ids read for an event

stored == <<owner, managers, organizers, grants, seats, event>>
vars == <<stored, lock, pc, req, caller, snapshot>>

Event == [venue : Venues, organizer : Users, members : SUBSET Labels, capacity : Nat]
Batches == UNION {[1..n -> Labels] : n \in 1..MaxBatch}

AccessRequest == [op : {"grant", "revoke"}, user : Users, venue : Venues,
                  organizer : Users \union {NULL}]
SeatsRequest == [op : {"seats"}, user : Users, venue : Venues, batch : Batches]
EventRequest == [op : {"event"}, user : Users, venue : Venues, id : EventIds]
Request == AccessRequest \union SeatsRequest \union EventRequest

ASSUME NullAssumption == NULL \notin Users /\ NULL \notin Requests /\ NULL \notin Request

Resting == {"idle", "ok", "refused", "failed"}
Holding == {"check", "read", "write"}
Busy == Holding \union {"lock"}

Init == /\ owner = [v \in Venues |-> NULL]
        /\ managers = {} /\ organizers = {} /\ grants = {}
        /\ seats = [v \in Venues |-> {}]
        /\ event = [e \in EventIds |-> NULL]
        /\ lock = [v \in Venues |-> NULL]
        /\ pc = [p \in Requests |-> "idle"]
        /\ req = [p \in Requests |-> NULL]
        /\ caller = [p \in Requests |-> FALSE]
        /\ snapshot = [p \in Requests |-> {}]

--------------------------------------------------------------------------------
(* One-statement operations *)

Promote(u) == /\ \/ u \notin organizers /\ organizers' = organizers \union {u} /\ UNCHANGED managers
                 \/ u \notin managers /\ managers' = managers \union {u} /\ UNCHANGED organizers
              /\ UNCHANGED <<owner, grants, seats, event, lock, pc, req, caller, snapshot>>

CreateVenue(u, v) == /\ u \in managers /\ owner[v] = NULL
                     /\ owner' = [owner EXCEPT ![v] = u]
                     /\ UNCHANGED <<managers, organizers, grants, seats, event>>
                     /\ UNCHANGED <<lock, pc, req, caller, snapshot>>

--------------------------------------------------------------------------------
(* Requests *)

Goto(p, label) == pc' = [pc EXCEPT ![p] = label]

\* The session closes: what is not committed is undone, the row lock given up.
Answer(p, outcome) == /\ Goto(p, outcome)
                      /\ lock' = [v \in Venues |-> IF lock[v] = p THEN NULL ELSE lock[v]]
                      /\ req' = [req EXCEPT ![p] = NULL]
                      /\ caller' = [caller EXCEPT ![p] = FALSE]
                      /\ snapshot' = [snapshot EXCEPT ![p] = {}]

Refuse(p) == Answer(p, "refused") /\ UNCHANGED stored

Fail(p) == pc[p] \in Busy /\ Answer(p, "failed") /\ UNCHANGED stored

\* The answer to a commit may be lost.
Commit(p) == \E outcome \in {"ok", "failed"} : Answer(p, outcome)

Proceed(p, label) == Goto(p, label) /\ UNCHANGED <<stored, lock, req, caller>>

Start(p, q) == /\ pc[p] \in Resting
               /\ Goto(p, "lock")
               /\ req' = [req EXCEPT ![p] = q]
               /\ caller' = [caller EXCEPT ![p] = q.user \in organizers]
               /\ UNCHANGED <<stored, lock, snapshot>>

\* Who lacks the permission of the route is answered 403 at once.
StartManage(p) == \E q \in AccessRequest \union SeatsRequest : q.user \in managers /\ Start(p, q)

StartEvent(p) == \E q \in EventRequest : /\ q.user \in organizers
                                         /\ event[q.id] = NULL
                                         /\ \A o \in Requests : req[o] # NULL /\ req[o].op = "event"
                                                                   => req[o].id # q.id
                                         /\ Start(p, q)

\* Mutant: a plain SELECT.
ReadVenue(p) == /\ pc[p] = "lock"
                /\ owner[req[p].venue] # NULL
                /\ Proceed(p, "check") /\ UNCHANGED snapshot

LockVenue(p) == /\ pc[p] = "lock"
                /\ owner[req[p].venue] # NULL
                /\ lock[req[p].venue] = NULL
                /\ lock' = [lock EXCEPT ![req[p].venue] = p]
                /\ Goto(p, "check")
                /\ UNCHANGED <<stored, req, caller, snapshot>>

VenueMissing(p) == pc[p] = "lock" /\ owner[req[p].venue] = NULL /\ Refuse(p)

Owns(p) == owner[req[p].venue] = req[p].user

--------------------------------------------------------------------------------
(* change_access *)

\* session.get() of an account: the caller's comes from the identity map.
IsOrganizer(p, u) == IF u = req[p].user THEN caller[p] ELSE u \in organizers

\* Mutant: anybody may be granted access.
CheckOwnerOnly(p) == /\ pc[p] = "check" /\ req[p].op \in {"grant", "revoke"}
                     /\ IF Owns(p) /\ req[p].organizer \in Users
                        THEN Proceed(p, "write") /\ UNCHANGED snapshot
                        ELSE Refuse(p)

CheckAccess(p) ==
  /\ pc[p] = "check" /\ req[p].op \in {"grant", "revoke"}
  /\ IF /\ Owns(p)
        /\ req[p].organizer \in Users
        /\ req[p].op = "grant" => IsOrganizer(p, req[p].organizer)
     THEN Proceed(p, "write") /\ UNCHANGED snapshot
     ELSE Refuse(p)

WriteAccess(p) ==
  /\ pc[p] = "write" /\ req[p].op \in {"grant", "revoke"}
  /\ LET grant == <<req[p].venue, req[p].organizer>>
     IN  grants' = IF req[p].op = "grant" THEN grants \union {grant} ELSE grants \ {grant}
  /\ Commit(p)
  /\ UNCHANGED <<owner, managers, organizers, seats, event>>

--------------------------------------------------------------------------------
(* create_seats *)

CheckSeats(p) ==
  /\ pc[p] = "check" /\ req[p].op = "seats"
  /\ IF Owns(p) /\ IsInjective(req[p].batch)
     THEN Proceed(p, "write") /\ UNCHANGED snapshot
     ELSE Refuse(p)

\* Mutant: seats that exist are passed over.
WriteNewSeats(p) ==
  /\ pc[p] = "write" /\ req[p].op = "seats"
  /\ seats' = [seats EXCEPT ![req[p].venue] = @ \union Range(req[p].batch)]
  /\ Commit(p)
  /\ UNCHANGED <<owner, managers, organizers, grants, event>>

\* uq_seats_identity decides; one seat that exists undoes the batch.
WriteSeats(p) ==
  /\ pc[p] = "write" /\ req[p].op = "seats"
  /\ LET added == Range(req[p].batch)
         v == req[p].venue
     IN  \/ /\ added \intersect seats[v] # {}
            /\ Refuse(p)
         \/ /\ added \intersect seats[v] = {}
            /\ seats' = [seats EXCEPT ![v] = @ \union added]
            /\ Commit(p)
            /\ UNCHANGED <<owner, managers, organizers, grants, event>>

--------------------------------------------------------------------------------
(* create_event *)

Granted(p) == <<req[p].venue, req[p].user>> \in grants

\* Mutant: the organizer permission is taken for enough.
CheckOrganizer(p) == /\ pc[p] = "check" /\ req[p].op = "event"
                     /\ req[p].user \in organizers
                     /\ Proceed(p, "read") /\ UNCHANGED snapshot

CheckEvent(p) ==
  /\ pc[p] = "check" /\ req[p].op = "event"
  /\ IF req[p].user \in organizers /\ (Owns(p) \/ Granted(p))
     THEN Proceed(p, "read") /\ UNCHANGED snapshot
     ELSE Refuse(p)

\* The seats are read; then the clock, and the start may have passed.
ReadSeats(p) ==
  /\ pc[p] = "read"
  /\ \/ /\ seats[req[p].venue] # {}
        /\ snapshot' = [snapshot EXCEPT ![p] = seats[req[p].venue]]
        /\ Proceed(p, "write")
     \/ Refuse(p)

WriteEvent(p) ==
  /\ pc[p] = "write" /\ req[p].op = "event"
  /\ event' = [event EXCEPT ![req[p].id] =
                 [venue |-> req[p].venue, organizer |-> req[p].user,
                  members |-> snapshot[p], capacity |-> Cardinality(snapshot[p])]]
  /\ Commit(p)
  /\ UNCHANGED <<owner, managers, organizers, grants, seats>>

--------------------------------------------------------------------------------
(* Specification *)

Next == \/ \E u \in Users : Promote(u) \/ \E v \in Venues : CreateVenue(u, v)
        \/ \E p \in Requests :
              \/ StartManage(p) \/ StartEvent(p) \/ LockVenue(p) \/ VenueMissing(p) \/ Fail(p)
              \/ CheckAccess(p) \/ WriteAccess(p)
              \/ CheckSeats(p) \/ WriteSeats(p)
              \/ CheckEvent(p) \/ ReadSeats(p) \/ WriteEvent(p)

Spec == Init /\ [][Next]_vars

--------------------------------------------------------------------------------
(* Properties *)

\* Types: access is given to accounts, events have members of the seats' type.
TypeOK == /\ owner \in [Venues -> Users \union {NULL}]
          /\ managers \subseteq Users /\ organizers \subseteq Users
          /\ grants \subseteq Venues \X Users
          /\ seats \in [Venues -> SUBSET Labels]
          /\ event \in [EventIds -> Event \union {NULL}]
          /\ lock \in [Venues -> Requests \union {NULL}]
          /\ pc \in [Requests -> Busy \union Resting]
          /\ req \in [Requests -> Request \union {NULL}]
          /\ caller \in [Requests -> BOOLEAN]
          /\ snapshot \in [Requests -> SUBSET Labels]

Appearing(e) == event[e] = NULL /\ event'[e] # NULL

\* An event is sold on exactly the seats its venue has when the event appears,
\* and its capacity counts them: no batch gets in between.
MembersAreTheVenue == [][\A e \in EventIds : Appearing(e) =>
   LET new == event'[e]
   IN  /\ new.members = seats[new.venue] /\ new.members # {}
       /\ new.capacity = Cardinality(new.members) ]_vars

\* An event appears only at a venue its organizer then owns or has access to:
\* access revoked while the request waited is gone.
NoEventAfterRevocation == [][\A e \in EventIds : Appearing(e) =>
   LET new == event'[e]
   IN  owner[new.venue] = new.organizer \/ <<new.venue, new.organizer>> \in grants ]_vars

\* A venue's seats grow by whole batches of its owner, each seat once.
BatchesAreWhole == [][\A v \in Venues : seats'[v] # seats[v] =>
   \E p \in Requests : LET q == req[p]
                       IN  /\ q # NULL /\ q.op = "seats" /\ <<q.venue, q.user>> = <<v, owner[v]>>
                           /\ seats[v] \subseteq seats'[v]
                           /\ seats'[v] \ seats[v] = Range(q.batch)
                           /\ Cardinality(Range(q.batch)) = Len(q.batch) ]_vars

\* Seen from outside, each operation takes effect at once or not at all: what was
\* read before the row lock, or is answered by the identity map, never shows, and
\* an announced event is never overwritten.
Ledger == INSTANCE VenueLedger

ImplementsVenueLedger == Ledger!RegistrySpec

\* Access is only ever held by organizers, and to venues that exist.
GrantsNameOrganizers == \A g \in grants : owner[g[1]] # NULL /\ g[2] \in organizers

\* Who is at work holds the row of the venue it was asked about.
HoldsVenue(p) == req[p] # NULL /\ lock[req[p].venue] = p /\ owner[req[p].venue] # NULL

\* What it is about to write was checked, and is still true.
ReadyToWrite(p) ==
  /\ req[p].op = "event" => snapshot[p] = seats[req[p].venue] /\ snapshot[p] # {}
  /\ req[p].op = "grant" => req[p].organizer \in organizers
  /\ req[p].op = "revoke" => req[p].organizer \in Users
  /\ req[p].op = "seats" => Owns(p) /\ IsInjective(req[p].batch)

\* What a request relies on at its position.
RequestSound(p) ==
  /\ pc[p] \in Busy => req[p] # NULL
  /\ caller[p] => req[p] # NULL /\ req[p].user \in organizers
  /\ pc[p] \in Holding => HoldsVenue(p)
  /\ pc[p] = "read" => req[p].op = "event"
  /\ pc[p] \in {"read", "write"} /\ req[p].op = "event" => Owns(p) \/ Granted(p)
  /\ pc[p] = "write" => ReadyToWrite(p)

\* An organizer asks for an event, and the id drawn for it is nobody else's.
EventsAsked == \A p \in Requests : req[p] # NULL /\ req[p].op = "event" =>
   /\ req[p].user \in organizers
   /\ event[req[p].id] = NULL
   /\ \A o \in Requests : o # p /\ req[o] # NULL /\ req[o].op = "event" => req[o].id # req[p].id

\* Venues belong to managers.
OwnersManage == \A v \in Venues : owner[v] # NULL => owner[v] \in managers

\* The inductive invariant: what a request that holds the venue's row has
\* checked and read stays true until it commits; access is given to organizers.
IInv == /\ TypeOK /\ GrantsNameOrganizers /\ OwnersManage /\ EventsAsked
        /\ \A v \in Venues : IsFiniteSet(seats[v])
        /\ \A p \in Requests : RequestSound(p)
================================================================================

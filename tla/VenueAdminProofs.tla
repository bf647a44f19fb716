--------------------------- MODULE VenueAdminProofs ---------------------------
(***************************************************************************)
(* Proofs about VenueAdmin, for every number of users, venues, labels and  *)
(* requests: what is read under the venue's row lock stays true, and so    *)
(* events, grants and batches are what they should be.                     *)
(***************************************************************************)
EXTENDS VenueAdmin, FiniteSetTheorems, SequenceTheorems, TLAPS

--------------------------------------------------------------------------------
(* Requests *)

\* An operation's name determines the fields of its request.
LEMMA RequestFields ==
  ASSUME NEW q \in Request
  PROVE  /\ q.user \in Users /\ q.venue \in Venues
         /\ q.op \in {"grant", "revoke", "seats", "event"}
         /\ q.op \in {"grant", "revoke"} => q.organizer \in Users \union {NULL}
         /\ q.op = "seats" => q.batch \in Batches
         /\ q.op = "event" => q.id \in EventIds
BY DEF Request, AccessRequest, SeatsRequest, EventRequest

\* A batch names finitely many labels, as many as it is long if none twice.
LEMMA BatchLabels ==
  ASSUME NEW b \in Batches
  PROVE  /\ Range(b) \in SUBSET Labels /\ IsFiniteSet(Range(b))
         /\ IsInjective(b) => Cardinality(Range(b)) = Len(b)
<1>1. PICK n \in 1..MaxBatch : b \in [1..n -> Labels]
  BY DEF Batches
<1>2. n \in Nat /\ IsFiniteSet(1..n) /\ Cardinality(1..n) = n
  BY BatchAssumption, FS_Interval
<1>3. Range(b) \in SUBSET Labels /\ b \in Surjection(1..n, Range(b))
  BY <1>1 DEF Range, Surjection
<1>4. IsFiniteSet(Range(b))
  BY <1>2, <1>3, FS_Surjection
<1>5. ASSUME IsInjective(b)
      PROVE  Cardinality(Range(b)) = n
  <2>1. b \in Bijection(1..n, Range(b))
    BY <1>1, <1>3, <1>5 DEF Bijection, Injection, Surjection, IsInjective, Range
  <2>2. ExistsBijection(1..n, Range(b))
    BY <2>1 DEF ExistsBijection
  <2>3. QED
    BY <1>2, <2>2, FS_CountingElements
<1>6. Len(b) = n
  <2>1. b \in Seq(Labels)
    BY <1>1, <1>2, SeqDef
  <2>2. QED
    BY <1>1, <1>2, <2>1, LenProperties
<1>7. QED
  BY <1>3, <1>4, <1>5, <1>6

--------------------------------------------------------------------------------
(* What a step of one request leaves alone *)

Step(p) == \/ StartManage(p) \/ StartEvent(p) \/ LockVenue(p) \/ VenueMissing(p) \/ Fail(p)
           \/ CheckAccess(p) \/ WriteAccess(p)
           \/ CheckSeats(p) \/ WriteSeats(p)
           \/ CheckEvent(p) \/ ReadSeats(p) \/ WriteEvent(p)

\* The position and the locals of request o.
Untouched(o) == /\ pc'[o] = pc[o] /\ req'[o] = req[o]
                /\ caller'[o] = caller[o] /\ snapshot'[o] = snapshot[o]

LEMMA OthersUntouched ==
  ASSUME TypeOK, NEW p \in Requests, Step(p), NEW o \in Requests \ {p}
  PROVE  /\ Untouched(o)
         /\ \A v \in Venues : lock[v] = o => lock'[v] = o
<1> USE DEF Untouched, TypeOK, Goto
<1>1. ASSUME NEW outcome, Answer(p, outcome)
      PROVE  Untouched(o) /\ \A v \in Venues : lock[v] = o => lock'[v] = o
  BY <1>1 DEF Answer
<1>2. ASSUME NEW label, Proceed(p, label), snapshot' = snapshot \/ \E S : snapshot' = [snapshot EXCEPT ![p] = S]
      PROVE  Untouched(o) /\ \A v \in Venues : lock[v] = o => lock'[v] = o
  BY <1>2 DEF Proceed
<1>3. CASE StartManage(p) \/ StartEvent(p)
  BY <1>3 DEF StartManage, StartEvent, Start
<1>4. CASE LockVenue(p)
  BY <1>4, NullAssumption DEF LockVenue
<1>5. CASE VenueMissing(p) \/ Fail(p)
  BY <1>1, <1>5 DEF VenueMissing, Fail, Refuse
<1>6. CASE CheckAccess(p) \/ CheckSeats(p) \/ CheckEvent(p)
  BY <1>1, <1>2, <1>6 DEF CheckAccess, CheckSeats, CheckEvent, Refuse
<1>7. CASE WriteAccess(p) \/ WriteSeats(p) \/ WriteEvent(p)
  BY <1>1, <1>7 DEF WriteAccess, WriteSeats, WriteEvent, Commit, Refuse
<1>8. CASE ReadSeats(p)
  BY <1>1, <1>2, <1>8 DEF ReadSeats, Refuse
<1>9. QED
  BY <1>3, <1>4, <1>5, <1>6, <1>7, <1>8 DEF Step

\* Whoever writes holds the row of the venue it writes about.
LEMMA WritersHold ==
  ASSUME IInv, NEW p \in Requests, pc[p] = "write"
  PROVE  /\ req[p] \in Request /\ req[p].venue \in Venues /\ lock[req[p].venue] = p
         /\ owner[req[p].venue] # NULL /\ ReadyToWrite(p)
<1>1. RequestSound(p) /\ HoldsVenue(p) /\ ReadyToWrite(p)
  BY DEF IInv, RequestSound, Holding
<1>2. req[p] \in Request
  BY <1>1 DEF IInv, TypeOK, HoldsVenue
<1>3. QED
  BY <1>1, <1>2, RequestFields DEF HoldsVenue

\* A request writes about no venue but the one whose row it holds.
LEMMA VenueUntouched ==
  ASSUME IInv, NEW p \in Requests, Step(p), NEW v \in Venues, lock[v] # p
  PROVE  /\ owner' = owner /\ managers' = managers /\ organizers' = organizers
         /\ seats'[v] = seats[v]
         /\ \A u \in Users : <<v, u>> \in grants' <=> <<v, u>> \in grants
<1>1. CASE StartManage(p) \/ StartEvent(p) \/ LockVenue(p) \/ VenueMissing(p) \/ Fail(p)
  BY <1>1 DEF StartManage, StartEvent, Start, LockVenue, VenueMissing, Fail, Refuse, stored
<1>2. CASE CheckAccess(p) \/ CheckSeats(p) \/ CheckEvent(p) \/ ReadSeats(p)
  BY <1>2 DEF CheckAccess, CheckSeats, CheckEvent, ReadSeats, Refuse, Proceed, stored
<1>3. CASE WriteAccess(p)
  BY <1>3, WritersHold DEF WriteAccess
<1>4. CASE WriteSeats(p)
  BY <1>4, WritersHold DEF WriteSeats, Refuse, stored, IInv, TypeOK
<1>5. CASE WriteEvent(p)
  BY <1>5 DEF WriteEvent
<1>6. QED
  BY <1>1, <1>2, <1>3, <1>4, <1>5 DEF Step

\* What another request relies on still holds: it is written only under a lock
\* that the other holds.
LEMMA OthersSound ==
  ASSUME IInv, NEW p \in Requests, Step(p), NEW o \in Requests \ {p}
  PROVE  RequestSound(o)'
<1>1. Untouched(o) /\ \A v \in Venues : lock[v] = o => lock'[v] = o
  BY OthersUntouched DEF IInv
<1>2. RequestSound(o) /\ req[o] \in Request \union {NULL}
  BY DEF IInv, TypeOK
<1>3. organizers' = organizers
  BY DEF Step, StartManage, StartEvent, Start, LockVenue, VenueMissing, Fail, CheckAccess, CheckSeats, CheckEvent,
         ReadSeats, WriteAccess, WriteSeats, WriteEvent, Refuse, Proceed, stored
<1>4. CASE pc[o] \notin Holding
  BY <1>1, <1>2, <1>3, <1>4 DEF Untouched, RequestSound, Holding
<1>5. CASE pc[o] \in Holding
  <2> DEFINE v == req[o].venue
  <2>1. HoldsVenue(o) /\ req[o] \in Request /\ v \in Venues /\ req[o].user \in Users
    BY <1>2, <1>5, RequestFields DEF RequestSound, HoldsVenue
  <2>2. /\ owner' = owner /\ seats'[v] = seats[v]
        /\ \A u \in Users : <<v, u>> \in grants' <=> <<v, u>> \in grants
    BY <2>1, VenueUntouched DEF HoldsVenue
  <2>3. HoldsVenue(o)'
    BY <1>1, <2>1, <2>2 DEF HoldsVenue, Untouched
  <2>4. Owns(o)' = Owns(o) /\ Granted(o)' = Granted(o)
    BY <1>1, <2>1, <2>2 DEF Owns, Granted, Untouched
  <2>5. ReadyToWrite(o) => ReadyToWrite(o)'
    BY <1>1, <1>3, <2>1, <2>2, <2>4 DEF ReadyToWrite, Untouched
  <2>6. QED
    BY <1>1, <1>2, <1>3, <1>5, <2>1, <2>3, <2>4, <2>5 DEF RequestSound, Untouched
<1>6. QED
  BY <1>4, <1>5

--------------------------------------------------------------------------------
(* What a step establishes for its own request *)

\* An answered request relies on nothing.
LEMMA AnsweredSound ==
  ASSUME IInv, NEW p \in Requests, NEW outcome \in {"ok", "refused", "failed"}, Answer(p, outcome)
  PROVE  /\ RequestSound(p)'
         /\ pc' \in [Requests -> Busy \union Resting] /\ req' \in [Requests -> Request \union {NULL}]
         /\ lock' \in [Venues -> Requests \union {NULL}]
         /\ caller' \in [Requests -> BOOLEAN] /\ snapshot' \in [Requests -> SUBSET Labels]
  BY DEF IInv, TypeOK, Answer, Goto, RequestSound, Busy, Holding, Resting

\* A request is accepted with the permission of its route.
LEMMA StartSound ==
  ASSUME IInv, NEW p \in Requests, StartManage(p) \/ StartEvent(p)
  PROVE  TypeOK' /\ RequestSound(p)'
<1>1. PICK q \in Request : Start(p, q)
  BY DEF StartManage, StartEvent, Request
<1>2. q # NULL
  BY NullAssumption
<1>3. TypeOK'
  BY <1>1 DEF IInv, TypeOK, Start, Goto, stored, Busy
<1>4. pc'[p] = "lock" /\ req'[p] = q /\ organizers' = organizers
  BY <1>1 DEF IInv, TypeOK, Start, Goto, stored
<1>5. caller'[p] => q.user \in organizers
  BY <1>1 DEF IInv, TypeOK, Start
<1>6. RequestSound(p)'
  BY <1>2, <1>4, <1>5 DEF RequestSound, Busy, Holding
<1>7. QED
  BY <1>3, <1>6

LEMMA LockSound ==
  ASSUME IInv, NEW p \in Requests, LockVenue(p)
  PROVE  TypeOK' /\ RequestSound(p)'
<1>1. /\ pc[p] = "lock" /\ owner[req[p].venue] # NULL /\ lock' = [lock EXCEPT ![req[p].venue] = p]
      /\ pc' = [pc EXCEPT ![p] = "check"] /\ UNCHANGED <<stored, req, caller, snapshot>>
  BY DEF LockVenue, Goto
<1>2. RequestSound(p) /\ req[p] # NULL /\ req[p] \in Request
  BY <1>1 DEF IInv, TypeOK, RequestSound, Busy
<1>3. req[p].venue \in Venues
  BY <1>2, RequestFields
<1>4. TypeOK'
  BY <1>1 DEF IInv, TypeOK, stored, Busy, Holding
<1>5. HoldsVenue(p)'
  BY <1>1, <1>2, <1>3 DEF IInv, TypeOK, HoldsVenue, stored
<1>6. RequestSound(p)'
  BY <1>1, <1>2, <1>5 DEF IInv, TypeOK, RequestSound, Busy, Holding, stored
<1>7. QED
  BY <1>4, <1>6

\* A check that passes: what is checked is what the next position relies on.
LEMMA CheckSound ==
  ASSUME IInv, NEW p \in Requests, CheckAccess(p) \/ CheckSeats(p) \/ CheckEvent(p), pc'[p] \in Holding
  PROVE  TypeOK' /\ RequestSound(p)'
<1>1. pc[p] = "check" /\ UNCHANGED <<stored, lock, req, caller, snapshot>>
  BY DEF IInv, TypeOK, CheckAccess, CheckSeats, CheckEvent, Refuse, Answer, Goto, Proceed, Holding
<1>2. RequestSound(p) /\ HoldsVenue(p) /\ req[p] \in Request
  BY <1>1 DEF IInv, TypeOK, RequestSound, Holding, HoldsVenue
<1>3. HoldsVenue(p)'
  BY <1>1, <1>2 DEF HoldsVenue, stored
<1>4. TypeOK'
  BY <1>1 DEF IInv, TypeOK, stored, Busy, Holding, CheckAccess, CheckSeats, CheckEvent, Refuse, Answer, Proceed, Goto
<1>5. CASE CheckAccess(p)
  <2>1. /\ pc'[p] = "write" /\ req[p].op \in {"grant", "revoke"} /\ req[p].organizer \in Users
        /\ req[p].op = "grant" => IsOrganizer(p, req[p].organizer)
    BY <1>5 DEF IInv, TypeOK, CheckAccess, Refuse, Answer, Goto, Proceed, Holding
  <2>2. req[p].op = "grant" => req[p].organizer \in organizers
    BY <1>2, <2>1 DEF IsOrganizer, RequestSound
  <2>3. ReadyToWrite(p)'
    BY <1>1, <2>1, <2>2 DEF ReadyToWrite, stored
  <2>4. QED
    BY <1>1, <1>2, <1>3, <1>4, <2>1, <2>3 DEF RequestSound, Busy, Holding, stored
<1>6. CASE CheckSeats(p)
  <2>1. pc'[p] = "write" /\ req[p].op = "seats" /\ Owns(p) /\ IsInjective(req[p].batch)
    BY <1>6 DEF IInv, TypeOK, CheckSeats, Refuse, Answer, Goto, Proceed, Holding
  <2>2. ReadyToWrite(p)'
    BY <1>1, <2>1 DEF ReadyToWrite, Owns, stored
  <2>3. QED
    BY <1>1, <1>2, <1>3, <1>4, <2>1, <2>2 DEF RequestSound, Busy, Holding, stored
<1>7. CASE CheckEvent(p)
  <2>1. pc'[p] = "read" /\ req[p].op = "event" /\ (Owns(p) \/ Granted(p))
    BY <1>7 DEF IInv, TypeOK, CheckEvent, Refuse, Answer, Goto, Proceed, Holding
  <2>2. (Owns(p) \/ Granted(p))'
    BY <1>1, <2>1 DEF Owns, Granted, stored
  <2>3. QED
    BY <1>1, <1>2, <1>3, <1>4, <2>1, <2>2 DEF RequestSound, Busy, Holding, stored
<1>8. QED
  BY <1>5, <1>6, <1>7

LEMMA ReadSound ==
  ASSUME IInv, NEW p \in Requests, ReadSeats(p), pc'[p] \in Holding
  PROVE  TypeOK' /\ RequestSound(p)'
<1>1. /\ pc[p] = "read" /\ seats[req[p].venue] # {}
      /\ snapshot' = [snapshot EXCEPT ![p] = seats[req[p].venue]]
      /\ pc' = [pc EXCEPT ![p] = "write"] /\ UNCHANGED <<stored, lock, req, caller>>
  BY DEF IInv, TypeOK, ReadSeats, Refuse, Answer, Goto, Proceed, Holding
<1>2. RequestSound(p) /\ HoldsVenue(p) /\ req[p] \in Request
  BY <1>1 DEF IInv, TypeOK, RequestSound, Holding, HoldsVenue
<1>3. req[p].venue \in Venues
  BY <1>2, RequestFields
<1>4. TypeOK'
  BY <1>1, <1>3 DEF IInv, TypeOK, stored, Busy, Holding
<1>5. HoldsVenue(p)' /\ req[p].op = "event" /\ (Owns(p) \/ Granted(p))'
  BY <1>1, <1>2 DEF HoldsVenue, RequestSound, Owns, Granted, stored
<1>6. ReadyToWrite(p)'
  BY <1>1, <1>3, <1>5 DEF IInv, TypeOK, ReadyToWrite, stored
<1>7. pc'[p] = "write" /\ req'[p] # NULL
  BY <1>1, <1>2 DEF IInv, TypeOK, HoldsVenue
<1>8. caller'[p] => req'[p].user \in organizers'
  BY <1>1, <1>2 DEF RequestSound, stored
<1>9. QED
  BY <1>4, <1>5, <1>6, <1>7, <1>8 DEF RequestSound

--------------------------------------------------------------------------------
(* What is stored *)

\* The stored part of the invariant.
StoredSound == /\ owner \in [Venues -> Users \union {NULL}]
               /\ managers \subseteq Users /\ organizers \subseteq Users
               /\ grants \subseteq Venues \X Users
               /\ seats \in [Venues -> SUBSET Labels]
               /\ event \in [EventIds -> Event \union {NULL}]
               /\ GrantsNameOrganizers /\ OwnersManage
               /\ \A v \in Venues : IsFiniteSet(seats[v])

LEMMA StoredKept ==
  ASSUME IInv, UNCHANGED stored
  PROVE  StoredSound'
  BY DEF StoredSound, IInv, TypeOK, GrantsNameOrganizers, OwnersManage, stored

\* The three commits.
LEMMA WriteAccessStored ==
  ASSUME IInv, NEW p \in Requests, WriteAccess(p)
  PROVE  StoredSound'
<1>1. /\ pc[p] = "write" /\ req[p].op \in {"grant", "revoke"}
      /\ UNCHANGED <<owner, managers, organizers, seats, event>>
  BY DEF WriteAccess
<1>2. /\ req[p].venue \in Venues /\ owner[req[p].venue] # NULL
      /\ req[p].op = "grant" => req[p].organizer \in organizers
  BY <1>1, WritersHold DEF ReadyToWrite
<1>3. \A g \in grants' : g \in grants \/ (req[p].op = "grant" /\ g = <<req[p].venue, req[p].organizer>>)
  BY DEF WriteAccess
<1>4. grants' \subseteq Venues \X Users
  BY <1>2, <1>3 DEF IInv, TypeOK
<1>5. GrantsNameOrganizers'
  BY <1>1, <1>2, <1>3 DEF IInv, GrantsNameOrganizers
<1>6. QED
  BY <1>1, <1>4, <1>5 DEF StoredSound, IInv, TypeOK, OwnersManage

\* A batch that is written whole.
LEMMA BatchAdded ==
  ASSUME IInv, NEW p \in Requests, WriteSeats(p), seats' # seats
  PROVE  LET v == req[p].venue
             added == Range(req[p].batch)
         IN  /\ v \in Venues /\ req[p].op = "seats" /\ req[p] # NULL
             /\ Owns(p) /\ IsInjective(req[p].batch)
             /\ added \intersect seats[v] = {} /\ seats' = [seats EXCEPT ![v] = @ \union added]
             /\ added \in SUBSET Labels /\ IsFiniteSet(added) /\ Cardinality(added) = Len(req[p].batch)
             /\ UNCHANGED <<owner, managers, organizers, grants, event>>
<1>1. pc[p] = "write" /\ req[p].op = "seats"
  BY DEF WriteSeats
<1>2. /\ req[p].venue \in Venues /\ req[p] \in Request /\ req[p] # NULL
      /\ Owns(p) /\ IsInjective(req[p].batch)
  BY <1>1, WritersHold, NullAssumption DEF ReadyToWrite
<1>3. req[p].batch \in Batches
  BY <1>1, <1>2, RequestFields
<1>4. LET v == req[p].venue
          added == Range(req[p].batch)
      IN  /\ added \intersect seats[v] = {} /\ seats' = [seats EXCEPT ![v] = @ \union added]
          /\ UNCHANGED <<owner, managers, organizers, grants, event>>
  BY DEF WriteSeats, Refuse, stored
<1>5. QED
  BY <1>1, <1>2, <1>3, <1>4, BatchLabels

LEMMA WriteSeatsStored ==
  ASSUME IInv, NEW p \in Requests, WriteSeats(p)
  PROVE  StoredSound'
<1>1. CASE seats' = seats
  BY <1>1 DEF WriteSeats, Refuse, stored, StoredSound, IInv, TypeOK, GrantsNameOrganizers, OwnersManage
<1>2. CASE seats' # seats
  <2> DEFINE v == req[p].venue
             added == Range(req[p].batch)
  <2>1. /\ v \in Venues /\ seats' = [seats EXCEPT ![v] = @ \union added]
        /\ added \in SUBSET Labels /\ IsFiniteSet(added)
        /\ UNCHANGED <<owner, managers, organizers, grants, event>>
    BY <1>2, BatchAdded
  <2> HIDE DEF v, added
  <2>2. seats' \in [Venues -> SUBSET Labels]
    BY <2>1 DEF IInv, TypeOK
  <2>3. IsFiniteSet(seats[v] \union added)
    BY <2>1, FS_Union DEF IInv
  <2>4. \A w \in Venues : IsFiniteSet(seats'[w])
    BY <2>1, <2>3 DEF IInv, TypeOK
  <2>5. QED
    BY <2>1, <2>2, <2>4 DEF StoredSound, IInv, TypeOK, GrantsNameOrganizers, OwnersManage
<1>3. QED
  BY <1>1, <1>2

\* An event that is written: on the seats of its venue, by who has access.
LEMMA EventAdded ==
  ASSUME IInv, NEW p \in Requests, WriteEvent(p)
  PROVE  LET v == req[p].venue
             new == [venue |-> v, organizer |-> req[p].user, members |-> seats[v],
                     capacity |-> Cardinality(seats[v])]
         IN  /\ v \in Venues /\ req[p].id \in EventIds /\ req[p].user \in Users
             /\ seats[v] # {} /\ seats[v] \in SUBSET Labels /\ Cardinality(seats[v]) \in Nat
             /\ owner[v] = req[p].user \/ <<v, req[p].user>> \in grants
             /\ event' = [event EXCEPT ![req[p].id] = new]
             /\ UNCHANGED <<owner, managers, organizers, grants, seats>>
<1>1. pc[p] = "write" /\ req[p].op = "event"
  BY DEF WriteEvent
<1>2. /\ req[p].venue \in Venues /\ req[p].id \in EventIds /\ req[p].user \in Users
      /\ snapshot[p] = seats[req[p].venue] /\ snapshot[p] # {}
  BY <1>1, WritersHold, RequestFields DEF ReadyToWrite
<1>3. Owns(p) \/ Granted(p)
  BY <1>1 DEF IInv, RequestSound
<1>4. IsFiniteSet(seats[req[p].venue]) /\ seats[req[p].venue] \in SUBSET Labels
  BY <1>2 DEF IInv, TypeOK
<1>5. Cardinality(seats[req[p].venue]) \in Nat
  BY <1>4, FS_CardinalityType
<1>6. QED
  BY <1>2, <1>3, <1>4, <1>5 DEF WriteEvent, Owns, Granted

LEMMA WriteEventStored ==
  ASSUME IInv, NEW p \in Requests, WriteEvent(p)
  PROVE  StoredSound'
<1> DEFINE new == [venue |-> req[p].venue, organizer |-> req[p].user, members |-> seats[req[p].venue],
                   capacity |-> Cardinality(seats[req[p].venue])]
<1>1. /\ new \in Event /\ event' = [event EXCEPT ![req[p].id] = new]
      /\ UNCHANGED <<owner, managers, organizers, grants, seats>>
  BY EventAdded DEF Event
<1> HIDE DEF new
<1>2. event' \in [EventIds -> Event \union {NULL}]
  BY <1>1 DEF IInv, TypeOK
<1>3. QED
  BY <1>1, <1>2 DEF StoredSound, IInv, TypeOK, GrantsNameOrganizers, OwnersManage

--------------------------------------------------------------------------------
(* What is asked for *)

\* A request asks for an event as an organizer, under an id of its own, until it
\* is answered.
LEMMA AskedSound ==
  ASSUME IInv, NEW p \in Requests, Step(p)
  PROVE  EventsAsked'
<1>1. EventsAsked /\ req \in [Requests -> Request \union {NULL}] /\ event \in [EventIds -> Event \union {NULL}]
  BY DEF IInv, TypeOK
<1>2. organizers' = organizers
  BY DEF Step, StartManage, StartEvent, Start, LockVenue, VenueMissing, Fail, CheckAccess, CheckSeats, CheckEvent,
         ReadSeats, WriteAccess, WriteSeats, WriteEvent, Refuse, Proceed, stored
<1>3. CASE StartManage(p)
  <2>1. PICK q \in AccessRequest \union SeatsRequest : Start(p, q)
    BY <1>3 DEF StartManage
  <2>2. q.op # "event" /\ req' = [req EXCEPT ![p] = q] /\ event' = event
    BY <2>1 DEF AccessRequest, SeatsRequest, Start, stored
  <2>3. QED
    BY <1>1, <1>2, <2>2 DEF EventsAsked
<1>4. CASE StartEvent(p)
  <2>1. PICK q \in EventRequest : /\ q.user \in organizers /\ event[q.id] = NULL /\ Start(p, q)
                                 /\ \A o \in Requests : req[o] # NULL /\ req[o].op = "event" => req[o].id # q.id
    BY <1>4 DEF StartEvent
  <2>2. req' = [req EXCEPT ![p] = q] /\ event' = event
    BY <2>1 DEF Start, stored
  <2>3. QED
    BY <1>1, <1>2, <2>1, <2>2 DEF EventsAsked
<1>5. CASE WriteEvent(p)
  <2>1. /\ req' = [req EXCEPT ![p] = NULL] /\ pc[p] = "write" /\ req[p].op = "event"
        /\ \A e \in EventIds : e # req[p].id => event'[e] = event[e]
    BY <1>1, <1>5 DEF WriteEvent, Commit, Answer
  <2>2. req[p] # NULL
    BY <2>1, WritersHold, NullAssumption
  <2>3. ASSUME NEW o \in Requests, req'[o] # NULL, req'[o].op = "event"
        PROVE  o # p /\ req'[o] = req[o] /\ event'[req[o].id] = event[req[o].id]
    <3>1. o # p /\ req'[o] = req[o]
      BY <1>1, <2>1, <2>3
    <3>2. req[o].id \in EventIds /\ req[o].id # req[p].id
      BY <1>1, <2>1, <2>2, <2>3, <3>1, RequestFields DEF EventsAsked
    <3>3. QED
      BY <2>1, <3>1, <3>2
  <2>4. QED
    BY <1>1, <1>2, <2>3 DEF EventsAsked
<1>6. CASE ~(StartManage(p) \/ StartEvent(p) \/ WriteEvent(p))
  <2>1. event' = event
    BY <1>6 DEF Step, LockVenue, VenueMissing, Fail, CheckAccess, CheckSeats, CheckEvent,
                ReadSeats, WriteAccess, WriteSeats, Refuse, Proceed, stored
  <2>2. req' = req \/ req' = [req EXCEPT ![p] = NULL]
    BY <1>6 DEF Step, LockVenue, VenueMissing, Fail, CheckAccess, CheckSeats, CheckEvent,
                ReadSeats, WriteAccess, WriteSeats, Refuse, Commit, Answer, Proceed
  <2>3. QED
    BY <1>1, <1>2, <2>1, <2>2 DEF EventsAsked
<1>7. QED
  BY <1>3, <1>4, <1>5, <1>6

--------------------------------------------------------------------------------
(* The inductive invariant *)

LEMMA StepSound ==
  ASSUME IInv, NEW p \in Requests, Step(p)
  PROVE  IInv'
<1>1. StoredSound'
  <2>1. CASE StartManage(p) \/ StartEvent(p) \/ LockVenue(p) \/ VenueMissing(p) \/ Fail(p)
    BY <2>1, StoredKept DEF StartManage, StartEvent, Start, LockVenue, VenueMissing, Fail, Refuse
  <2>2. CASE CheckAccess(p) \/ CheckSeats(p) \/ CheckEvent(p) \/ ReadSeats(p)
    BY <2>2, StoredKept DEF CheckAccess, CheckSeats, CheckEvent, ReadSeats, Refuse, Proceed
  <2>3. CASE WriteAccess(p) \/ WriteSeats(p) \/ WriteEvent(p)
    BY <2>3, WriteAccessStored, WriteSeatsStored, WriteEventStored
  <2>4. QED
    BY <2>1, <2>2, <2>3 DEF Step
<1>2. CASE \E outcome \in {"ok", "refused", "failed"} : Answer(p, outcome)
  <2>1. TypeOK' /\ RequestSound(p)'
    BY <1>1, <1>2, AnsweredSound DEF StoredSound, TypeOK
  <2>2. QED
    BY <1>1, <2>1, OthersSound, AskedSound DEF IInv, StoredSound
<1>3. CASE ~\E outcome \in {"ok", "refused", "failed"} : Answer(p, outcome)
  <2>1. TypeOK' /\ RequestSound(p)'
    <3>1. CASE StartManage(p) \/ StartEvent(p)
      BY <3>1, StartSound
    <3>2. CASE LockVenue(p)
      BY <3>2, LockSound
    <3>3. CASE CheckAccess(p) \/ CheckSeats(p) \/ CheckEvent(p)
      <4>1. pc'[p] \in Holding
        BY <1>3, <3>3 DEF CheckAccess, CheckSeats, CheckEvent, Refuse, Proceed, Goto, Holding, IInv, TypeOK
      <4>2. QED
        BY <3>3, <4>1, CheckSound
    <3>4. CASE ReadSeats(p)
      <4>1. pc'[p] \in Holding
        BY <1>3, <3>4 DEF ReadSeats, Refuse, Proceed, Goto, Holding, IInv, TypeOK
      <4>2. QED
        BY <3>4, <4>1, ReadSound
    <3>5. CASE VenueMissing(p) \/ Fail(p) \/ WriteAccess(p) \/ WriteSeats(p) \/ WriteEvent(p)
      BY <1>3, <3>5 DEF VenueMissing, Fail, WriteAccess, WriteSeats, WriteEvent, Commit, Refuse
    <3>6. QED
      BY <3>1, <3>2, <3>3, <3>4, <3>5 DEF Step
  <2>2. QED
    BY <1>1, <2>1, OthersSound, AskedSound DEF IInv, StoredSound
<1>4. QED
  BY <1>2, <1>3

\* Promotions and new venues disturb nobody at work.
LEMMA OutsideSound ==
  ASSUME IInv, NEW u \in Users, Promote(u) \/ \E v \in Venues : CreateVenue(u, v)
  PROVE  IInv'
<1>1. /\ UNCHANGED <<grants, seats, event, lock, pc, req, caller, snapshot>>
      /\ organizers \subseteq organizers' /\ organizers' \subseteq Users /\ managers' \subseteq Users
      /\ OwnersManage'
      /\ owner' \in [Venues -> Users \union {NULL}]
      /\ \A v \in Venues : owner[v] # NULL => owner'[v] = owner[v]
  BY DEF IInv, TypeOK, OwnersManage, Promote, CreateVenue
<1>2. TypeOK'
  BY <1>1 DEF IInv, TypeOK
<1>3. GrantsNameOrganizers'
  BY <1>1 DEF IInv, TypeOK, GrantsNameOrganizers
<1>4. ASSUME NEW p \in Requests
      PROVE  RequestSound(p)'
  <2>1. RequestSound(p) /\ req[p] \in Request \union {NULL}
    BY DEF IInv, TypeOK
  <2>2. CASE pc[p] \notin Holding
    BY <1>1, <2>1, <2>2 DEF RequestSound, Holding
  <2>3. CASE pc[p] \in Holding
    <3>1. HoldsVenue(p) /\ req[p].venue \in Venues /\ req[p].user \in Users
      BY <2>1, <2>3, RequestFields DEF RequestSound, HoldsVenue
    <3>2. owner'[req[p].venue] = owner[req[p].venue]
      BY <1>1, <3>1 DEF HoldsVenue
    <3>3. HoldsVenue(p)' /\ Owns(p)' = Owns(p) /\ Granted(p)' = Granted(p)
      BY <1>1, <3>1, <3>2 DEF HoldsVenue, Owns, Granted
    <3>4. ReadyToWrite(p) => ReadyToWrite(p)'
      BY <1>1, <3>3 DEF ReadyToWrite
    <3>5. QED
      BY <1>1, <2>1, <2>3, <3>3, <3>4 DEF RequestSound
  <2>4. QED
    BY <2>2, <2>3
<1>5. EventsAsked'
  BY <1>1 DEF IInv, EventsAsked
<1>6. QED
  BY <1>1, <1>2, <1>3, <1>4, <1>5 DEF IInv

\* A stuttering step keeps it.
LEMMA StutterSound ==
  ASSUME IInv, UNCHANGED vars
  PROVE  IInv'
<1>1. /\ owner' = owner /\ managers' = managers /\ organizers' = organizers /\ grants' = grants
      /\ seats' = seats /\ event' = event /\ lock' = lock /\ pc' = pc /\ req' = req
      /\ caller' = caller /\ snapshot' = snapshot
  BY DEF vars, stored
<1>2. TypeOK' /\ GrantsNameOrganizers' /\ OwnersManage' /\ EventsAsked'
  BY <1>1 DEF IInv, TypeOK, GrantsNameOrganizers, OwnersManage, EventsAsked
<1>3. ASSUME NEW p \in Requests
      PROVE  RequestSound(p)'
  <2>1. RequestSound(p)
    BY DEF IInv
  <2>2. HoldsVenue(p)' = HoldsVenue(p) /\ Owns(p)' = Owns(p) /\ Granted(p)' = Granted(p)
    BY <1>1 DEF HoldsVenue, Owns, Granted
  <2>3. ReadyToWrite(p) => ReadyToWrite(p)'
    BY <1>1, <2>2 DEF ReadyToWrite
  <2>4. QED
    BY <1>1, <2>1, <2>2, <2>3 DEF RequestSound
<1>4. QED
  BY <1>1, <1>2, <1>3 DEF IInv

\* No step leads out of the invariant.
THEOREM VenueInvariance == Spec => []IInv
<1>1. Init => IInv
  BY FS_EmptySet DEF Init, IInv, TypeOK, GrantsNameOrganizers, OwnersManage, EventsAsked, RequestSound,
                     Busy, Holding, Resting
<1>2. ASSUME IInv, [Next]_vars
      PROVE  IInv'
  BY <1>2, StutterSound, StepSound, OutsideSound DEF Next, Step
<1>3. QED
  BY <1>1, <1>2, PTL DEF Spec

\* Access is only ever held by organizers, to venues that exist.
THEOREM AccessIsForOrganizers == Spec => []GrantsNameOrganizers
<1>1. IInv => GrantsNameOrganizers
  BY DEF IInv
<1>2. QED
  BY <1>1, VenueInvariance, PTL

--------------------------------------------------------------------------------
(* What appears *)

\* An event that appears is one that is written.
LEMMA AppearingIsWritten ==
  ASSUME IInv, [Next]_vars, NEW e \in EventIds, Appearing(e)
  PROVE  \E p \in Requests : WriteEvent(p) /\ req[p].id = e
<1>1. event'[e] # event[e]
  BY DEF Appearing
<1>2. PICK p \in Requests : Step(p)
  BY <1>1 DEF Next, Step, vars, stored, Promote, CreateVenue
<1>3. WriteEvent(p)
  BY <1>1, <1>2 DEF Step, StartManage, StartEvent, Start, LockVenue, VenueMissing, Fail, CheckAccess, CheckSeats,
                    CheckEvent, ReadSeats, WriteAccess, WriteSeats, Refuse, Proceed, stored
<1>4. req[p].id = e
  BY <1>1, <1>3 DEF WriteEvent, IInv, TypeOK
<1>5. QED
  BY <1>3, <1>4

LEMMA WrittenEvent ==
  ASSUME IInv, [Next]_vars, NEW e \in EventIds, Appearing(e)
  PROVE  LET new == event'[e]
         IN  /\ new.members = seats[new.venue] /\ new.members # {}
             /\ new.capacity = Cardinality(new.members)
             /\ owner[new.venue] = new.organizer \/ <<new.venue, new.organizer>> \in grants
<1>1. PICK p \in Requests : WriteEvent(p) /\ req[p].id = e
  BY AppearingIsWritten
<1> DEFINE v == req[p].venue
<1>2. event'[e] = [venue |-> v, organizer |-> req[p].user, members |-> seats[v],
                   capacity |-> Cardinality(seats[v])]
  BY <1>1, EventAdded DEF IInv, TypeOK
<1>3. seats[v] # {} /\ (owner[v] = req[p].user \/ <<v, req[p].user>> \in grants)
  BY <1>1, EventAdded
<1>4. QED
  BY <1>2, <1>3

\* An event is sold on exactly the seats its venue has when it appears.
THEOREM SnapshotIsTheVenue == Spec => MembersAreTheVenue
<1> DEFINE Whole == \A e \in EventIds : Appearing(e) =>
              LET new == event'[e]
              IN  /\ new.members = seats[new.venue] /\ new.members # {}
                  /\ new.capacity = Cardinality(new.members)
<1>1. IInv /\ [Next]_vars => [Whole]_vars
  BY WrittenEvent
<1>2. QED
  BY <1>1, VenueInvariance, PTL DEF MembersAreTheVenue, Spec

\* An event appears only where its organizer then has access.
THEOREM RevocationHolds == Spec => NoEventAfterRevocation
<1> DEFINE Allowed == \A e \in EventIds : Appearing(e) =>
              LET new == event'[e]
              IN  owner[new.venue] = new.organizer \/ <<new.venue, new.organizer>> \in grants
<1>1. IInv /\ [Next]_vars => [Allowed]_vars
  BY WrittenEvent
<1>2. QED
  BY <1>1, VenueInvariance, PTL DEF NoEventAfterRevocation, Spec

\* Seats are added by whole batches of the venue's owner, each once.
THEOREM BatchesWhole == Spec => BatchesAreWhole
<1> DEFINE Batch(v, p) == LET q == req[p]
                          IN  /\ q # NULL /\ q.op = "seats" /\ <<q.venue, q.user>> = <<v, owner[v]>>
                              /\ seats[v] \subseteq seats'[v]
                              /\ seats'[v] \ seats[v] = Range(q.batch)
                              /\ Cardinality(Range(q.batch)) = Len(q.batch)
           Whole == \A v \in Venues : seats'[v] # seats[v] => \E p \in Requests : Batch(v, p)
<1>1. ASSUME IInv, [Next]_vars, NEW v \in Venues, seats'[v] # seats[v]
      PROVE  \E p \in Requests : Batch(v, p)
  <2>1. PICK p \in Requests : Step(p)
    BY <1>1 DEF Next, Step, vars, stored, Promote, CreateVenue
  <2>2. WriteSeats(p)
    BY <1>1, <2>1 DEF Step, StartManage, StartEvent, Start, LockVenue, VenueMissing, Fail, CheckAccess, CheckSeats,
                      CheckEvent, ReadSeats, WriteAccess, WriteEvent, Refuse, Proceed, stored
  <2> DEFINE added == Range(req[p].batch)
  <2>3. /\ req[p].venue \in Venues /\ req[p].op = "seats" /\ req[p] # NULL /\ Owns(p)
        /\ added \intersect seats[req[p].venue] = {}
        /\ seats' = [seats EXCEPT ![req[p].venue] = @ \union added]
        /\ Cardinality(added) = Len(req[p].batch)
    BY <1>1, <2>2, BatchAdded
  <2>4. v = req[p].venue
    BY <1>1, <2>3 DEF IInv, TypeOK
  <2>5. owner[v] = req[p].user
    BY <2>3, <2>4 DEF Owns
  <2> HIDE DEF added
  <2>6. seats'[v] = seats[v] \union added
    BY <1>1, <2>3, <2>4 DEF IInv, TypeOK
  <2>7. seats[v] \subseteq seats'[v] /\ seats'[v] \ seats[v] = added
    BY <2>3, <2>4, <2>6
  <2>8. Batch(v, p)
    BY <2>3, <2>4, <2>5, <2>7 DEF added
  <2>9. QED
    BY <2>8
<1>2. IInv /\ [Next]_vars => [Whole]_vars
  BY <1>1
<1>3. QED
  BY <1>2, VenueInvariance, PTL DEF BatchesAreWhole, Spec

--------------------------------------------------------------------------------
(* The refinement *)

LEMMA LedgerStutters ==
  ASSUME UNCHANGED stored
  PROVE  UNCHANGED Ledger!registry
  BY DEF stored, Ledger!registry

\* Only commits change what is stored.
LEMMA OnlyCommitsWrite ==
  ASSUME NEW p \in Requests, Step(p), ~(WriteAccess(p) \/ WriteSeats(p) \/ WriteEvent(p))
  PROVE  UNCHANGED stored
  BY DEF Step, StartManage, StartEvent, Start, LockVenue, VenueMissing, Fail, CheckAccess, CheckSeats, CheckEvent,
         ReadSeats, Refuse, Proceed, stored

\* Sizes are the same in both modules.
LEMMA SameSize ==
  ASSUME NEW S
  PROVE  /\ Ledger!Cardinality(S) = Cardinality(S)
         /\ Ledger!IsFiniteSet(S) <=> IsFiniteSet(S)
<1>1. Ledger!Cardinality(S) = Cardinality(S)
  BY Zenon DEF Ledger!Cardinality, Cardinality
<1>2. Ledger!IsFiniteSet(S) <=> IsFiniteSet(S)
  BY Zenon DEF Ledger!IsFiniteSet, IsFiniteSet
<1>3. QED
  BY <1>1, <1>2

\* The commits are operations of the ledger.
LEMMA AccessIsGrantOrRevoke ==
  ASSUME IInv, NEW p \in Requests, WriteAccess(p)
  PROVE  Ledger!RegistryNext
<1> DEFINE v == req[p].venue
           u == req[p].organizer
<1>1. /\ pc[p] = "write" /\ req[p].op \in {"grant", "revoke"}
      /\ grants' = IF req[p].op = "grant" THEN grants \union {<<v, u>>} ELSE grants \ {<<v, u>>}
      /\ UNCHANGED <<owner, managers, organizers, seats, event>>
  BY DEF WriteAccess
<1>2. /\ v \in Venues /\ owner[v] # NULL
      /\ req[p].op = "grant" => u \in organizers
      /\ req[p].op = "revoke" => u \in Users
  BY <1>1, WritersHold DEF ReadyToWrite
<1>3. u \in Users /\ Ledger!Managed(v)
  BY <1>1, <1>2 DEF IInv, TypeOK, OwnersManage, Ledger!Managed
<1>4. Ledger!Grant(v, u) \/ Ledger!Revoke(v, u)
  BY <1>1, <1>2, <1>3 DEF Ledger!Grant, Ledger!Revoke
<1>5. QED
  BY <1>2, <1>3, <1>4 DEF Ledger!RegistryNext

LEMMA SeatsIsFurnish ==
  ASSUME IInv, NEW p \in Requests, WriteSeats(p)
  PROVE  Ledger!RegistryNext \/ UNCHANGED stored
<1>1. CASE seats' = seats
  BY <1>1 DEF WriteSeats, Refuse, stored
<1>2. CASE seats' # seats
  <2> DEFINE v == req[p].venue
             added == Range(req[p].batch)
  <2>1. /\ v \in Venues /\ Owns(p) /\ req[p].op = "seats"
        /\ added \intersect seats[v] = {} /\ seats' = [seats EXCEPT ![v] = @ \union added]
        /\ added \in SUBSET Labels /\ IsFiniteSet(added) /\ Cardinality(added) = Len(req[p].batch)
        /\ UNCHANGED <<owner, managers, organizers, grants, event>>
    BY <1>2, BatchAdded
  <2>2. pc[p] = "write"
    BY DEF WriteSeats
  <2>3. req[p].batch \in Batches /\ owner[v] # NULL
    BY <2>1, <2>2, WritersHold, RequestFields
  <2>4. Len(req[p].batch) \in 1..MaxBatch
    <3>1. PICK n \in 1..MaxBatch : req[p].batch \in [1..n -> Labels]
      BY <2>3 DEF Batches
    <3>2. n \in Nat /\ req[p].batch \in Seq(Labels)
      BY <3>1, BatchAssumption, SeqDef
    <3>3. Len(req[p].batch) = n
      BY <3>1, <3>2, LenProperties
    <3>4. QED
      BY <3>3
  <2>5. Ledger!Managed(v)
    BY <2>1, <2>3 DEF IInv, OwnersManage, Ledger!Managed
  <2> HIDE DEF v, added
  <2>6. Ledger!Furnish(v, added)
    BY <2>1, <2>4, <2>5, SameSize DEF Ledger!Furnish
  <2>7. QED
    BY <2>1, <2>6 DEF Ledger!RegistryNext
<1>3. QED
  BY <1>1, <1>2

LEMMA EventIsAnnounce ==
  ASSUME IInv, NEW p \in Requests, WriteEvent(p)
  PROVE  Ledger!RegistryNext
<1> DEFINE v == req[p].venue
           u == req[p].user
           e == req[p].id
<1>1. /\ v \in Venues /\ e \in EventIds /\ u \in Users /\ seats[v] # {}
      /\ owner[v] = u \/ <<v, u>> \in grants
      /\ event' = [event EXCEPT ![e] = [venue |-> v, organizer |-> u, members |-> seats[v],
                                        capacity |-> Cardinality(seats[v])]]
      /\ UNCHANGED <<owner, managers, organizers, grants, seats>>
  BY EventAdded
<1>2. pc[p] = "write" /\ req[p].op = "event"
  BY DEF WriteEvent
<1>3. req[p] # NULL
  BY <1>2, WritersHold, NullAssumption
<1>4. u \in organizers /\ event[e] = NULL
  BY <1>2, <1>3 DEF IInv, EventsAsked
<1> HIDE DEF v, u, e
<1>5. Ledger!Announce(e, v, u)
  BY <1>1, <1>4, SameSize DEF Ledger!Announce
<1>6. QED
  BY <1>1, <1>5 DEF Ledger!RegistryNext

\* Requests, waits, checks and failures are invisible, and the three commits,
\* promotions and new venues are what the ledger allows: the services of venues,
\* access, seats and event creation each take effect at once.
THEOREM VenueRefinement == Spec => ImplementsVenueLedger
<1>1. Init => Ledger!RegistryInit
  BY DEF Init, Ledger!RegistryInit
<1>2. ASSUME IInv, [Next]_vars
      PROVE  Ledger!RegistryNext \/ UNCHANGED stored
  <2>1. CASE \E p \in Requests : Step(p)
    BY <1>2, <2>1, OnlyCommitsWrite, AccessIsGrantOrRevoke, SeatsIsFurnish, EventIsAnnounce
  <2>2. CASE \E u \in Users : Promote(u)
    BY <2>2 DEF Promote, Ledger!RegistryNext, Ledger!Appoint
  <2>3. CASE \E u \in Users, v \in Venues : CreateVenue(u, v)
    BY <2>3 DEF CreateVenue, Ledger!RegistryNext, Ledger!Open
  <2>4. CASE UNCHANGED vars
    BY <2>4 DEF vars
  <2>5. QED
    BY <1>2, <2>1, <2>2, <2>3, <2>4 DEF Next, Step
<1>3. IInv /\ [Next]_vars => [Ledger!RegistryNext]_(Ledger!registry)
  BY <1>2, LedgerStutters
<1>4. QED
  BY <1>1, <1>3, VenueInvariance, PTL DEF Spec, ImplementsVenueLedger, Ledger!RegistrySpec
===============================================================================

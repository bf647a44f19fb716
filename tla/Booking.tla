-------------------------------- MODULE Booking --------------------------------
(***************************************************************************)
(* The booking core of the VenuePass API: the four operations that write   *)
(* under an event's row lock, as the interleaved READ COMMITTED            *)
(* transactions of concurrent HTTP requests.                               *)
(*                                                                         *)
(*   create        services/reservations.py  create_reservation            *)
(*   cancel        services/reservations.py  cancel_reservation            *)
(*   cancel_event  services/events.py        cancel_event                  *)
(*   edit          services/events.py        update_event                  *)
(*                                                                         *)
(* A step runs from one point where other transactions can be observed to  *)
(* the next: a statement that waits for the row lock, a read the decision  *)
(* rests on, the flush of staged rows, the commit.  What a transaction     *)
(* writes is staged with the request until its commit publishes it, so a   *)
(* failure anywhere before that (an exception, a lost connection, a        *)
(* crashed server) leaves nothing behind but the answer, or its absence.   *)
(*                                                                         *)
(* Limits.  Clocks: one clock serves utc_now() and PostgreSQL's now().     *)
(* Accounts: no code path revokes is_organizer, changes an event's owner,  *)
(* start or seats, so those are constants.  Bounds: MaxTime and the sizes  *)
(* of the constant sets; requests come without end, by reusing slots.      *)
(***************************************************************************)
EXTENDS Integers, FiniteSets

CONSTANTS Users, Organizers, Events, Seats, Keys, Details,
          Reservations,  \* the pool uuid4() draws reservation ids from
          Requests,      \* slots for concurrent HTTP requests
          Owner,         \* Owner[e]: events.organizer_id
          Members,       \* Members[e]: the seats of e in event_seats
          StartsAt,      \* StartsAt[e]: events.starts_at
          MaxTime,
          PoolSize,      \* connections the engine's pool hands out at most
          NULL           \* SQL NULL, None, and the id that matches no row

VARIABLES
  clock,         \* wall-clock time
  cancelledAt,   \* events.cancelled_at
  details,       \* events.name and events.description
  booking,       \* reservations: the columns no statement updates
  cancellation,  \* reservations.cancelled_at and cancellation_reason
  releasedAt,    \* reservation_seats.released_at of (reservation, seat)
  lock,          \* the request whose transaction holds the event's row lock
  pc,            \* where each request stands
  req,           \* what it asks for
  rsv,           \* the reservation id it creates, found or replays
  evt,           \* the event id it locks
  seen,          \* event.cancelled_at as loaded with the lock
  stamp,         \* its transaction's now(), then the utc_now() it writes
  rows,          \* staged: reservations it cancels
  claims         \* staged: (reservation, seat) claims it releases

db == <<cancelledAt, details, booking, cancellation, releasedAt>>
locals == <<req, rsv, evt, seen, stamp, rows, claims>>
vars == <<clock, db, lock, pc, locals>>

--------------------------------------------------------------------------------
(* Values *)

Time == 0..MaxTime
SeatSets == (SUBSET Seats) \ {{}}
AnyEvent == Events \union {NULL}

BookingRow == [event : Events, user : Users, key : Keys, seats : SeatSets, createdAt : Time]
Cancellation == [at : Time, reason : {"customer", "event_cancelled"}]

CreateRequest == [op : {"create"}, user : Users, event : AnyEvent, key : Keys, seats : SeatSets]
CancelRequest == [op : {"cancel"}, user : Users, reservation : Reservations]
CancelEventRequest == [op : {"cancel_event"}, user : Users, event : AnyEvent]
EditRequest == [op : {"edit"}, user : Users, event : AnyEvent, detail : Details]
Request == CreateRequest \union CancelRequest \union CancelEventRequest \union EditRequest

Resting == {"idle", "ok", "refused", "failed"}      \* no request, or answered
Critical == {"decide", "seats", "insert", "commit", "replay"}
Busy == Critical \union {"connect", "find", "lock", "refresh"}

ASSUME SetAssumption == /\ MaxTime \in Nat
                        /\ PoolSize \in Nat \ {0}
                        /\ Organizers \subseteq Users
                        /\ Owner \in [Events -> Organizers]
                        /\ Members \in [Events -> SUBSET Seats]
                        /\ StartsAt \in [Events -> Nat]

ASSUME NullAssumption == /\ NULL \notin Events
                         /\ NULL \notin Requests
                         /\ NULL \notin Reservations
                         /\ NULL \notin Time
                         /\ NULL \notin BookingRow
                         /\ NULL \notin Cancellation
                         /\ NULL \notin Request

--------------------------------------------------------------------------------
(* Queries *)

Booked == {r \in Reservations : booking[r] # NULL}
Active == {r \in Booked : cancellation[r] = NULL}
BookedFor(e) == {r \in Booked : booking[r].event = e}

\* Mutant: the retry lookup and the index leave cancelled bookings out.
MatchingActive(u, e, k) ==
   {r \in BookedFor(e) \intersect Active : booking[r].user = u /\ booking[r].key = k}

\* The rows the retry lookup reads and uq_reservations_retry constrains.
Matching(u, e, k) == {r \in BookedFor(e) : booking[r].user = u /\ booking[r].key = k}

\* The seats with an unreleased claim, which uq_reservation_seats_event_seat indexes.
Held(e) == {s \in Seats : \E r \in BookedFor(e) : s \in booking[r].seats /\ releasedAt[r][s] = NULL}

Started(e) == StartsAt[e] <= clock

\* A session takes a connection with its first statement and keeps it until it
\* commits or rolls back; it waits for a row lock with the connection in hand.
Connected == {p \in Requests : pc[p] \in Busy \ {"connect", "refresh"}}

FreeConnection == Cardinality(Connected) < PoolSize

--------------------------------------------------------------------------------
(* Requests: arrival, answer and failure *)

Init == /\ clock = 0
        /\ cancelledAt = [e \in Events |-> NULL]
        /\ details \in [Events -> Details]
        /\ booking = [r \in Reservations |-> NULL]
        /\ cancellation = [r \in Reservations |-> NULL]
        /\ releasedAt = [r \in Reservations |-> [s \in Seats |-> NULL]]
        /\ lock = [e \in Events |-> NULL]
        /\ pc = [p \in Requests |-> "idle"]
        /\ req = [p \in Requests |-> NULL]
        /\ rsv = [p \in Requests |-> NULL]
        /\ evt = [p \in Requests |-> NULL]
        /\ seen = [p \in Requests |-> NULL]
        /\ stamp = [p \in Requests |-> NULL]
        /\ rows = [p \in Requests |-> {}]
        /\ claims = [p \in Requests |-> {}]

Goto(p, label) == pc' = [pc EXCEPT ![p] = label]

\* The end of p's transaction gives up its row lock.
Unlock(p) == lock' = [e \in Events |-> IF lock[e] = p THEN NULL ELSE lock[e]]

Forget(p) == /\ req' = [req EXCEPT ![p] = NULL]
             /\ rsv' = [rsv EXCEPT ![p] = NULL]
             /\ evt' = [evt EXCEPT ![p] = NULL]
             /\ seen' = [seen EXCEPT ![p] = NULL]
             /\ stamp' = [stamp EXCEPT ![p] = NULL]
             /\ rows' = [rows EXCEPT ![p] = {}]
             /\ claims' = [claims EXCEPT ![p] = {}]

\* The request is answered; its session closes.
Answer(p, outcome) == Goto(p, outcome) /\ Unlock(p) /\ Forget(p)

\* Mutant: an application error leaves its transaction open.
RefuseWithoutRollback(p) == Goto(p, "refused") /\ Forget(p) /\ UNCHANGED <<clock, db, lock>>

\* An application error (4xx): everything staged is rolled back.
Refuse(p) == Answer(p, "refused") /\ UNCHANGED <<clock, db>>

\* An unexpected failure (5xx, or no answer at all) before the commit, or of the
\* read that follows it: rolled back, and the client cannot tell what happened.
Fail(p) == /\ pc[p] \in Busy
           /\ Answer(p, "failed")
           /\ UNCHANGED <<clock, db>>

Start(p, q, r, e) == /\ pc[p] \in Resting
                     /\ Goto(p, "connect")
                     /\ req' = [req EXCEPT ![p] = q]
                     /\ rsv' = [rsv EXCEPT ![p] = r]
                     /\ evt' = [evt EXCEPT ![p] = e]
                     /\ UNCHANGED <<clock, db, lock, seen, stamp, rows, claims>>

\* The id is drawn here rather than at the flush that first uses it; no request
\* starts once the pool is empty.
StartCreate(p) == \E q \in CreateRequest, r \in Reservations :
                     /\ r \notin Booked
                     /\ \A o \in Requests : rsv[o] # r
                     /\ Start(p, q, r, q.event)

StartCancel(p) == \E q \in CancelRequest : Start(p, q, q.reservation, NULL)

StartCancelEvent(p) == \E q \in CancelEventRequest : Start(p, q, NULL, q.event)

StartEdit(p) == \E q \in EditRequest : Start(p, q, NULL, q.event)

\* Authentication runs the first statement.  It waits for a free connection and
\* fixes the transaction's now(), before any wait for a lock.
Connect(p) == /\ pc[p] = "connect"
              /\ FreeConnection
              /\ Goto(p, IF req[p].op = "cancel" THEN "find" ELSE "lock")
              /\ stamp' = [stamp EXCEPT ![p] = clock]
              /\ UNCHANGED <<clock, db, lock, req, rsv, evt, seen, rows, claims>>

Tick == /\ clock < MaxTime
        /\ clock' = clock + 1
        /\ UNCHANGED <<db, lock, pc, locals>>

--------------------------------------------------------------------------------
(* The event row *)

\* cancel reads its booking before the lock, to learn which event to lock.
FindBooking(p) ==
  /\ pc[p] = "find"
  /\ LET b == booking[rsv[p]]
     IN  IF b # NULL /\ b.user = req[p].user
         THEN /\ evt' = [evt EXCEPT ![p] = b.event]
              /\ Goto(p, "lock")
              /\ UNCHANGED <<clock, db, lock, req, rsv, seen, stamp, rows, claims>>
         ELSE Refuse(p)

\* Mutant: a plain SELECT.
ReadEvent(p) == /\ pc[p] = "lock"
                /\ evt[p] \in Events
                /\ seen' = [seen EXCEPT ![p] = cancelledAt[evt[p]]]
                /\ Goto(p, "decide")
                /\ UNCHANGED <<clock, db, lock, req, rsv, evt, stamp, rows, claims>>

\* SELECT ... FOR UPDATE: waits for the holder, then loads the committed row.
LockEvent(p) == /\ pc[p] = "lock"
                /\ evt[p] \in Events
                /\ lock[evt[p]] = NULL
                /\ lock' = [lock EXCEPT ![evt[p]] = p]
                /\ seen' = [seen EXCEPT ![p] = cancelledAt[evt[p]]]
                /\ Goto(p, "decide")
                /\ UNCHANGED <<clock, db, req, rsv, evt, stamp, rows, claims>>

EventMissing(p) == /\ pc[p] = "lock"
                   /\ evt[p] \notin Events
                   /\ Refuse(p)

--------------------------------------------------------------------------------
(* create_reservation *)

\* Mutant: a known key is answered without comparing the seats.
ReplayAnySeats(p) ==
  /\ pc[p] = "decide" /\ req[p].op = "create"
  /\ LET existing == Matching(req[p].user, evt[p], req[p].key)
     IN  \/ /\ rsv' \in {[rsv EXCEPT ![p] = r] : r \in existing}
            /\ Goto(p, "replay")
            /\ UNCHANGED <<clock, db, lock, req, evt, seen, stamp, rows, claims>>
         \/ existing = {} /\ (seen[p] # NULL \/ Started(evt[p])) /\ Refuse(p)
         \/ /\ existing = {} /\ seen[p] = NULL /\ ~Started(evt[p])
            /\ Goto(p, "seats")
            /\ UNCHANGED <<clock, db, lock, locals>>

\* A retry is answered from the stored booking before the event's state, the
\* clock or availability are looked at.
CreateCheckRetry(p) ==
  /\ pc[p] = "decide" /\ req[p].op = "create"
  /\ LET q == req[p]
         existing == Matching(q.user, evt[p], q.key)
     IN  \/ \E r \in existing :
              IF booking[r].seats = q.seats
              THEN /\ rsv' = [rsv EXCEPT ![p] = r]
                   /\ Goto(p, "replay")
                   /\ UNCHANGED <<clock, db, lock, req, evt, seen, stamp, rows, claims>>
              ELSE Refuse(p)
         \/ /\ existing = {}
            /\ seen[p] # NULL \/ Started(evt[p])
            /\ Refuse(p)
         \/ /\ existing = {}
            /\ seen[p] = NULL /\ ~Started(evt[p])
            /\ Goto(p, "seats")
            /\ UNCHANGED <<clock, db, lock, locals>>

CreateCheckSeats(p) ==
  /\ pc[p] = "seats"
  /\ IF req[p].seats \subseteq Members[evt[p]] /\ req[p].seats \intersect Held(evt[p]) = {}
     THEN Goto(p, "insert") /\ UNCHANGED <<clock, db, lock, locals>>
     ELSE Refuse(p)

\* The two flushes: each IntegrityError ends the request, the one on seat
\* claims as a conflict and the one on the retry identity as a server error.
CreateInsert(p) ==
  /\ pc[p] = "insert"
  /\ IF Matching(req[p].user, evt[p], req[p].key) # {}
     THEN Answer(p, "failed") /\ UNCHANGED <<clock, db>>
     ELSE IF req[p].seats \intersect Held(evt[p]) # {}
          THEN Refuse(p)
          ELSE Goto(p, "commit") /\ UNCHANGED <<clock, db, lock, locals>>

\* A commit publishes what was staged; its acknowledgement may still be lost.
CommitCreate(p) ==
  /\ pc[p] = "commit" /\ req[p].op = "create"
  /\ booking' = [booking EXCEPT ![rsv[p]] =
                   [event |-> evt[p], user |-> req[p].user, key |-> req[p].key,
                    seats |-> req[p].seats, createdAt |-> stamp[p]]]
  /\ \E outcome \in {"ok", "failed"} : Answer(p, outcome)
  /\ UNCHANGED <<clock, cancelledAt, details, cancellation, releasedAt>>

--------------------------------------------------------------------------------
(* cancel_reservation and cancel_event *)

\* The rows the UPDATE statements match.  Mutants: bookings cancelled
\* before, no claims at all.
OwnClaims(r) == {r} \X booking[r].seats

EveryRow(e) == BookedFor(e)
OpenRows(e) == {r \in BookedFor(e) : cancellation[r] = NULL}

NoClaims(e) == {}
OpenClaims(e) == {c \in BookedFor(e) \X Seats :
                    c[2] \in booking[c[1]].seats /\ releasedAt[c[1]][c[2]] = NULL}

\* Mutant: the seats are released, the booking is not cancelled.
StageClaimsOnly(p, hitRows, hitClaims) == /\ stamp' = [stamp EXCEPT ![p] = clock]
                                          /\ claims' = [claims EXCEPT ![p] = hitClaims]
                                          /\ Goto(p, "commit")
                                          /\ UNCHANGED <<clock, db, lock, req, rsv, evt, seen, rows>>

\* A cancellation reads the clock and stages its updates.
Stage(p, hitRows, hitClaims) == /\ stamp' = [stamp EXCEPT ![p] = clock]
                                /\ rows' = [rows EXCEPT ![p] = hitRows]
                                /\ claims' = [claims EXCEPT ![p] = hitClaims]
                                /\ Goto(p, "commit")
                                /\ UNCHANGED <<clock, db, lock, req, rsv, evt, seen>>

Publish(p, reason) ==
  /\ cancellation' = [r \in Reservations |->
                        IF r \in rows[p] THEN [at |-> stamp[p], reason |-> reason]
                                         ELSE cancellation[r]]
  /\ releasedAt' = [r \in Reservations |-> [s \in Seats |->
                        IF <<r, s>> \in claims[p] THEN stamp[p] ELSE releasedAt[r][s]]]

\* Mutant: the event may have started.
CancelAnyTime(p) ==
  /\ pc[p] = "decide" /\ req[p].op = "cancel"
  /\ \/ /\ cancellation[rsv[p]] # NULL
        /\ Goto(p, "replay")
        /\ UNCHANGED <<clock, db, lock, locals>>
     \/ /\ cancellation[rsv[p]] = NULL
        /\ Stage(p, {rsv[p]}, OwnClaims(rsv[p]))

\* The booking is reloaded under the lock: a cancellation may have come first.
CancelDecide(p) ==
  /\ pc[p] = "decide" /\ req[p].op = "cancel"
  /\ \/ /\ cancellation[rsv[p]] # NULL
        /\ Goto(p, "replay")
        /\ UNCHANGED <<clock, db, lock, locals>>
     \/ /\ cancellation[rsv[p]] = NULL
        /\ Started(evt[p])
        /\ Refuse(p)
     \/ /\ cancellation[rsv[p]] = NULL
        /\ ~Started(evt[p])
        /\ Stage(p, {rsv[p]}, OwnClaims(rsv[p]))

CommitCancel(p) ==
  /\ pc[p] = "commit" /\ req[p].op = "cancel"
  /\ Publish(p, "customer")
  /\ \E outcome \in {"ok", "failed"} : Answer(p, outcome)
  /\ UNCHANGED <<clock, cancelledAt, details, booking>>

MayManage(p) == req[p].user \in Organizers /\ Owner[evt[p]] = req[p].user

CancelEventDecide(p) ==
  /\ pc[p] = "decide" /\ req[p].op = "cancel_event"
  /\ \/ /\ \/ ~MayManage(p)
           \/ seen[p] = NULL /\ Started(evt[p])
        /\ Refuse(p)
     \/ /\ MayManage(p) /\ seen[p] # NULL
        /\ Goto(p, "replay")
        /\ UNCHANGED <<clock, db, lock, locals>>
     \/ /\ MayManage(p) /\ seen[p] = NULL /\ ~Started(evt[p])
        /\ Stage(p, OpenRows(evt[p]), OpenClaims(evt[p]))

\* Mutant: the row stays locked while the response is read.
RereadLocked(p) == Goto(p, "refresh") /\ UNCHANGED <<lock, locals>>

\* After its commit the service reads the event once more for the response: the
\* lock and the connection are gone by then, and that read may still fail.
Reread(p) == Goto(p, "refresh") /\ Unlock(p) /\ UNCHANGED locals

CommitCancelEvent(p) ==
  /\ pc[p] = "commit" /\ req[p].op = "cancel_event"
  /\ cancelledAt' = [cancelledAt EXCEPT ![evt[p]] = stamp[p]]
  /\ Publish(p, "event_cancelled")
  /\ Reread(p) \/ Answer(p, "failed")
  /\ UNCHANGED <<clock, details, booking>>

--------------------------------------------------------------------------------
(* update_event *)

EditDecide(p) ==
  /\ pc[p] = "decide" /\ req[p].op = "edit"
  /\ IF MayManage(p) /\ seen[p] = NULL /\ ~Started(evt[p])
     THEN Goto(p, "commit") /\ UNCHANGED <<clock, db, lock, locals>>
     ELSE Refuse(p)

CommitEdit(p) ==
  /\ pc[p] = "commit" /\ req[p].op = "edit"
  /\ details' = [details EXCEPT ![evt[p]] = req[p].detail]
  /\ Reread(p) \/ Answer(p, "failed")
  /\ UNCHANGED <<clock, cancelledAt, booking, cancellation, releasedAt>>

--------------------------------------------------------------------------------
(* Ends common to several operations *)

\* The commit of a transaction that found its work already done.
CommitNothing(p) ==
  /\ pc[p] = "replay"
  /\ \/ req[p].op = "cancel_event" /\ Reread(p)
     \/ req[p].op # "cancel_event" /\ Answer(p, "ok")
  /\ UNCHANGED <<clock, db>>

RefreshEvent(p) == /\ pc[p] = "refresh"
                   /\ FreeConnection
                   /\ Answer(p, "ok")
                   /\ UNCHANGED <<clock, db>>

--------------------------------------------------------------------------------
(* Specification *)

Arrive(p) == StartCreate(p) \/ StartCancel(p) \/ StartCancelEvent(p) \/ StartEdit(p) \/ Connect(p)

\* The steps a request takes once it has its connection and its lock.
Work(p) == \/ FindBooking(p) \/ EventMissing(p)
           \/ CreateCheckRetry(p) \/ CreateCheckSeats(p) \/ CreateInsert(p) \/ CommitCreate(p)
           \/ CancelDecide(p) \/ CommitCancel(p)
           \/ CancelEventDecide(p) \/ CommitCancelEvent(p)
           \/ EditDecide(p) \/ CommitEdit(p)
           \/ CommitNothing(p) \/ RefreshEvent(p)

Next == \/ Tick
        \/ \E p \in Requests : Arrive(p) \/ LockEvent(p) \/ Work(p) \/ Fail(p)

Spec == Init /\ [][Next]_vars

\* A statement returns or raises.  PostgreSQL queues the waiters of a row lock,
\* so none is passed over for ever, nor is one of the pool: it gets a connection
\* in turn or gives up after pool_timeout.  A request that waits for nobody stays
\* enabled, and for it SF says no more than WF.
Fairness == \A p \in Requests : SF_vars(Connect(p) \/ LockEvent(p) \/ Work(p))

FairSpec == Spec /\ Fairness

--------------------------------------------------------------------------------
(* Properties *)

\* Every variable keeps its type: columns, positions, requests, staged writes.
TypeOK == /\ clock \in Time
          /\ cancelledAt \in [Events -> Time \union {NULL}]
          /\ details \in [Events -> Details]
          /\ booking \in [Reservations -> BookingRow \union {NULL}]
          /\ cancellation \in [Reservations -> Cancellation \union {NULL}]
          /\ releasedAt \in [Reservations -> [Seats -> Time \union {NULL}]]
          /\ lock \in [Events -> Requests \union {NULL}]
          /\ pc \in [Requests -> Busy \union Resting]
          /\ req \in [Requests -> Request \union {NULL}]
          /\ rsv \in [Requests -> Reservations \union {NULL}]
          /\ evt \in [Requests -> AnyEvent]
          /\ seen \in [Requests -> Time \union {NULL}]
          /\ stamp \in [Requests -> Time \union {NULL}]
          /\ rows \in [Requests -> SUBSET Reservations]
          /\ claims \in [Requests -> SUBSET (Reservations \X Seats)]

\* Two bookings in force for one event never share a seat.
NoDoubleBooking == \A e \in Events : \A r1, r2 \in BookedFor(e) \intersect Active :
                      r1 # r2 => booking[r1].seats \intersect booking[r2].seats = {}

\* The claims of a booking are released together, when it is cancelled and at
\* the time its cancellation records; until then all of them are held.
ClaimsFollowBooking ==
  \A r \in Booked : \A s \in booking[r].seats :
     releasedAt[r][s] = IF cancellation[r] = NULL THEN NULL ELSE cancellation[r].at

\* Once an event is cancelled none of its bookings is in force.
CancelledEventReleasesAll == \A e \in Events :
   cancelledAt[e] # NULL => BookedFor(e) \intersect Active = {}

\* A customer's idempotency key stands for at most one booking of an event.
OneBookingPerKey == \A r1, r2 \in Booked :
   (/\ booking[r1].event = booking[r2].event
    /\ booking[r1].user = booking[r2].user
    /\ booking[r1].key = booking[r2].key) => r1 = r2

\* History reads in order: booked, then cancelled, before the event starts; and
\* nothing happens to a booking after its event was cancelled.
Timeline == \A r \in Booked :
   LET b == booking[r]
       c == cancellation[r]
       closedAt == cancelledAt[b.event]
   IN  /\ b.createdAt < StartsAt[b.event]
       /\ c # NULL => b.createdAt <= c.at /\ c.at < StartsAt[b.event]
       /\ closedAt # NULL => c # NULL /\ c.at <= closedAt
       /\ c # NULL /\ c.reason = "event_cancelled" => c.at = closedAt

\* Under the lock the checks of create_reservation are conclusive: its handler
\* for IntegrityError is never entered.
IntegrityErrorUnreachable == \A p \in Requests : pc[p] = "insert" =>
   /\ Matching(req[p].user, evt[p], req[p].key) = {}
   /\ req[p].seats \intersect Held(evt[p]) = {}

\* Nothing recorded is ever taken back or overwritten: bookings, cancellations
\* of bookings and of events, releases.
HistoryPermanent == [][
   /\ \A r \in Booked : booking'[r] = booking[r]
   /\ \A r \in Reservations : cancellation[r] # NULL => cancellation'[r] = cancellation[r]
   /\ \A e \in Events : cancelledAt[e] # NULL => cancelledAt'[e] = cancelledAt[e]
   /\ \A r \in Reservations, s \in Seats :
         releasedAt[r][s] # NULL => releasedAt'[r][s] = releasedAt[r][s] ]_vars

\* A cancelled event gets no new booking and no edit, from requests that were
\* under way when it was cancelled either.
CancelledEventFrozen == [][\A e \in Events : cancelledAt[e] # NULL =>
   /\ details'[e] = details[e]
   /\ \A r \in Reservations : booking'[r] # booking[r] => booking'[r].event # e ]_vars

\* A success is only ever reported of what the database then holds: the booking
\* asked for, seat by seat, or the cancellation.
AcknowledgedIsStored == [][\A p \in Requests : pc[p] \in Busy /\ pc'[p] = "ok" =>
   LET q == req[p]
   IN  /\ q.op = "create" => LET b == booking'[rsv[p]]
                             IN  /\ <<b.user, b.event, b.key>> = <<q.user, q.event, q.key>>
                                 /\ b.seats = q.seats
       /\ q.op = "cancel" => /\ cancellation'[q.reservation] # NULL
                             /\ \A s \in booking[q.reservation].seats :
                                   releasedAt'[q.reservation][s] # NULL
       /\ q.op = "cancel_event" => cancelledAt'[q.event] # NULL ]_vars

\* Every request is answered, whatever the others do, and even if none gives up
\* waiting: those that wait for an event row with a connection in hand never keep
\* the one they wait for from the connection it needs.
EveryRequestAnswered == \A p \in Requests : pc[p] \in Busy ~> pc[p] \in Resting

\* Seen from outside, each operation takes effect at once or not at all.
Ledger == INSTANCE SeatLedger WITH
   bookings <- {[id |-> r, user |-> booking[r].user, event |-> booking[r].event,
                 key |-> booking[r].key, seats |-> booking[r].seats] : r \in Booked},
   inForce <- Active,
   closed <- {e \in Events : cancelledAt[e] # NULL}

ImplementsLedger == Ledger!LedgerSpec

--------------------------------------------------------------------------------
(* The inductive invariant: what a request may rely on at each position *)

\* Past the lock a request holds its event's row, as it was when loaded.
HoldsLock(p) == pc[p] \in Critical => /\ evt[p] \in Events
                                      /\ lock[evt[p]] = p
                                      /\ seen[p] = cancelledAt[evt[p]]

ArgumentsFit(p) == pc[p] \in Busy =>
   /\ req[p] \in Request
   /\ pc[p] # "connect" => stamp[p] \in Time /\ stamp[p] <= clock
   /\ pc[p] = "find" => req[p].op = "cancel"
   /\ pc[p] \in {"seats", "insert"} => req[p].op = "create"
   /\ pc[p] = "refresh" => req[p].op \in {"cancel_event", "edit"} /\ evt[p] \in Events
   /\ req[p].op # "cancel" => evt[p] = req[p].event
   /\ req[p].op = "create" => rsv[p] \in Reservations
   /\ req[p].op = "cancel" => /\ rsv[p] = req[p].reservation
                              /\ pc[p] \notin {"connect", "find"} => rsv[p] \in BookedFor(evt[p])

\* What a create has checked stays true until it commits.
CreateChecked(p) == req[p] # NULL /\ req[p].op = "create" =>
   /\ pc[p] \in {"seats", "insert", "commit"} =>
         /\ Matching(req[p].user, evt[p], req[p].key) = {}
         /\ seen[p] = NULL
         /\ stamp[p] < StartsAt[evt[p]]
   /\ pc[p] \in {"insert", "commit"} =>
         /\ req[p].seats \subseteq Members[evt[p]]
         /\ req[p].seats \intersect Held(evt[p]) = {}

\* What a cancellation has staged is what its event's rows still call for, and
\* the time it writes is not before any they hold.
CancelStaged(p) == pc[p] = "commit" /\ req[p].op \in {"cancel", "cancel_event"} =>
   /\ req[p].op = "cancel" => /\ rows[p] = {rsv[p]} /\ claims[p] = OwnClaims(rsv[p])
                              /\ cancellation[rsv[p]] = NULL
   /\ req[p].op = "cancel_event" => /\ rows[p] = OpenRows(evt[p])
                                    /\ claims[p] = OpenClaims(evt[p])
                                    /\ seen[p] = NULL
   /\ stamp[p] < StartsAt[evt[p]]
   /\ \A r \in BookedFor(evt[p]) : /\ booking[r].createdAt <= stamp[p]
                                   /\ cancellation[r] # NULL => cancellation[r].at <= stamp[p]

EditChecked(p) == pc[p] = "commit" /\ req[p].op = "edit" => seen[p] = NULL

\* A request that reports earlier work reports work that was done.
ReplayJustified(p) ==
   /\ pc[p] = "replay" /\ req[p].op = "create" =>
         /\ rsv[p] \in Matching(req[p].user, evt[p], req[p].key)
         /\ booking[rsv[p]].seats = req[p].seats
   /\ pc[p] = "replay" /\ req[p].op = "cancel" => cancellation[rsv[p]] # NULL
   /\ pc[p] \in {"replay", "refresh"} /\ req[p].op = "cancel_event" => cancelledAt[evt[p]] # NULL

RequestSound(p) == /\ HoldsLock(p)
                   /\ ArgumentsFit(p)
                   /\ CreateChecked(p)
                   /\ CancelStaged(p)
                   /\ EditChecked(p)
                   /\ ReplayJustified(p)

\* No lock outlives its request's critical section.
NoStrayLock == \A e \in Events : lock[e] # NULL => /\ pc[lock[e]] \in Critical
                                                   /\ evt[lock[e]] = e

\* A drawn id belongs to one create, and to no booking until that one commits.
Drawn(p) == /\ pc[p] \in {"connect", "lock", "decide", "seats", "insert", "commit"}
            /\ req[p].op = "create"

FreshIds == \A p \in Requests : Drawn(p) =>
   /\ rsv[p] \notin Booked
   /\ \A o \in Requests : Drawn(o) /\ rsv[o] = rsv[p] => o = p

\* Without a booking there is nothing to cancel or to release.
UnbookedBlank == \A r \in Reservations \ Booked :
   cancellation[r] = NULL /\ \A s \in Seats : releasedAt[r][s] = NULL

\* No recorded time lies in the future.
RecordedInPast == \A r \in Booked : /\ booking[r].createdAt <= clock
                                    /\ cancellation[r] # NULL => cancellation[r].at <= clock

\* What is stored, whoever is at work.
StoreSound == /\ UnbookedBlank
              /\ RecordedInPast
              /\ NoDoubleBooking
              /\ ClaimsFollowBooking
              /\ CancelledEventReleasesAll
              /\ OneBookingPerKey
              /\ Timeline

\* The conditions every step preserves, from which the safety properties follow.
IInv == /\ TypeOK
        /\ NoStrayLock
        /\ FreshIds
        /\ \A p \in Requests : RequestSound(p)
        /\ StoreSound
================================================================================

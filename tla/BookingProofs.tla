----------------------------- MODULE BookingProofs -----------------------------
(***************************************************************************)
(* Proofs about module Booking, for every number of requests, customers,   *)
(* events, seats and keys.                                                 *)
(***************************************************************************)
EXTENDS Booking, TLAPS

--------------------------------------------------------------------------------
(* Requests by operation *)

\* An operation's name determines the fields of its request.
LEMMA RequestFields ==
  ASSUME NEW q \in Request
  PROVE  /\ q.user \in Users
         /\ q.op \in {"create", "cancel", "cancel_event", "edit"}
         /\ q.op # "cancel" => q.event \in AnyEvent
         /\ q.op = "create" => q.key \in Keys /\ q.seats \in SeatSets
         /\ q.op = "cancel" => q.reservation \in Reservations
         /\ q.op = "edit" => q.detail \in Details
BY DEF Request, CreateRequest, CancelRequest, CancelEventRequest, EditRequest

LEMMA ConstructedRequests ==
  /\ \A q \in CreateRequest : q \in Request /\ q.op = "create"
  /\ \A q \in CancelRequest : q \in Request /\ q.op = "cancel"
  /\ \A q \in CancelEventRequest : q \in Request /\ q.op = "cancel_event"
  /\ \A q \in EditRequest : q \in Request /\ q.op = "edit"
BY DEF Request, CreateRequest, CancelRequest, CancelEventRequest, EditRequest

LEMMA CancellationRecords ==
  ASSUME NEW t \in Time, NEW w \in {"customer", "event_cancelled"}
  PROVE  /\ [at |-> t, reason |-> w] \in Cancellation
         /\ [at |-> t, reason |-> w] # NULL
BY NullAssumption DEF Cancellation

--------------------------------------------------------------------------------
(* Frames: what a step of one request leaves alone *)

Step(p) == Arrive(p) \/ LockEvent(p) \/ Work(p) \/ Fail(p)

\* The locals and position of request o.
Untouched(o) == /\ pc'[o] = pc[o] /\ req'[o] = req[o] /\ rsv'[o] = rsv[o]
                /\ evt'[o] = evt[o] /\ seen'[o] = seen[o] /\ stamp'[o] = stamp[o]
                /\ rows'[o] = rows[o] /\ claims'[o] = claims[o]

LEMMA OthersUntouched ==
  ASSUME TypeOK, NEW p \in Requests, Step(p), NEW o \in Requests \ {p}
  PROVE  Untouched(o)
<1> USE DEF Untouched, TypeOK, Goto
<1>1. CASE Arrive(p)
  BY <1>1 DEF Arrive, StartCreate, StartCancel, StartCancelEvent, StartEdit, Start, Connect
<1>2. CASE LockEvent(p)
  BY <1>2 DEF LockEvent
<1>3. ASSUME NEW outcome, Answer(p, outcome) PROVE Untouched(o)
  BY <1>3 DEF Answer, Forget
<1>4. CASE Fail(p)
  BY <1>3, <1>4 DEF Fail
<1>5. CASE FindBooking(p) \/ EventMissing(p)
  BY <1>3, <1>5 DEF FindBooking, EventMissing, Refuse
<1>6. CASE CreateCheckRetry(p)
  BY <1>3, <1>6 DEF CreateCheckRetry, Refuse, locals
<1>7. CASE CreateCheckSeats(p) \/ CreateInsert(p)
  BY <1>3, <1>7 DEF CreateCheckSeats, CreateInsert, Refuse, locals
<1>8. CASE CommitCreate(p) \/ CommitCancel(p)
  BY <1>3, <1>8 DEF CommitCreate, CommitCancel
<1>9. CASE CancelDecide(p) \/ CancelEventDecide(p)
  BY <1>3, <1>9 DEF CancelDecide, CancelEventDecide, Refuse, Stage, locals
<1>10. CASE CommitCancelEvent(p) \/ CommitEdit(p)
  BY <1>3, <1>10 DEF CommitCancelEvent, CommitEdit, Reread, locals
<1>11. CASE EditDecide(p)
  BY <1>3, <1>11 DEF EditDecide, Refuse, locals
<1>12. CASE CommitNothing(p) \/ RefreshEvent(p)
  BY <1>3, <1>12 DEF CommitNothing, RefreshEvent, Reread, locals
<1> QED
  BY <1>1, <1>2, <1>4, <1>5, <1>6, <1>7, <1>8, <1>9, <1>10, <1>11, <1>12 DEF Step, Work

\* Locks change hands only through p, and no time passes.
LEMMA LocksOfOthers ==
  ASSUME TypeOK, NEW p \in Requests, Step(p)
  PROVE  /\ clock' = clock
         /\ \A e \in Events : lock'[e] = lock[e] \/ (lock[e] = p /\ lock'[e] = NULL)
                                                 \/ (lock[e] = NULL /\ lock'[e] = p)
<1> DEFINE Goal == /\ clock' = clock
                   /\ \A e \in Events : lock'[e] = lock[e] \/ (lock[e] = p /\ lock'[e] = NULL)
                                                           \/ (lock[e] = NULL /\ lock'[e] = p)
<1> USE DEF TypeOK
<1>1. CASE Arrive(p)
  BY <1>1 DEF Arrive, StartCreate, StartCancel, StartCancelEvent, StartEdit, Start, Connect
<1>2. CASE LockEvent(p)
  BY <1>2 DEF LockEvent
<1>3. ASSUME Unlock(p), clock' = clock PROVE Goal
  BY <1>3 DEF Unlock
<1>4. CASE Fail(p)
  BY <1>3, <1>4 DEF Fail, Answer
<1>5. CASE FindBooking(p) \/ EventMissing(p)
  BY <1>3, <1>5 DEF FindBooking, EventMissing, Refuse, Answer
<1>6. CASE CreateCheckRetry(p)
  BY <1>3, <1>6 DEF CreateCheckRetry, Refuse, Answer
<1>7. CASE CreateCheckSeats(p) \/ CreateInsert(p)
  BY <1>3, <1>7 DEF CreateCheckSeats, CreateInsert, Refuse, Answer
<1>8. CASE CommitCreate(p) \/ CommitCancel(p)
  BY <1>3, <1>8 DEF CommitCreate, CommitCancel, Answer
<1>9. CASE CancelDecide(p) \/ CancelEventDecide(p)
  BY <1>3, <1>9 DEF CancelDecide, CancelEventDecide, Refuse, Answer, Stage
<1>10. CASE CommitCancelEvent(p) \/ CommitEdit(p)
  BY <1>3, <1>10 DEF CommitCancelEvent, CommitEdit, Reread, Answer
<1>11. CASE EditDecide(p)
  BY <1>3, <1>11 DEF EditDecide, Refuse, Answer
<1>12. CASE CommitNothing(p) \/ RefreshEvent(p)
  BY <1>3, <1>12 DEF CommitNothing, RefreshEvent, Reread, Answer
<1> QED
  BY <1>1, <1>2, <1>4, <1>5, <1>6, <1>7, <1>8, <1>9, <1>10, <1>11, <1>12 DEF Step, Work

Commit(p) == CommitCreate(p) \/ CommitCancel(p) \/ CommitCancelEvent(p) \/ CommitEdit(p)

\* Nothing is stored before a commit.
LEMMA OnlyCommitsWrite ==
  ASSUME NEW p \in Requests, Step(p), ~Commit(p)
  PROVE  UNCHANGED db
<1>1. CASE Arrive(p)
  BY <1>1 DEF Arrive, StartCreate, StartCancel, StartCancelEvent, StartEdit, Start, Connect
<1>2. CASE LockEvent(p) \/ Fail(p)
  BY <1>2 DEF LockEvent, Fail
<1>3. CASE FindBooking(p) \/ EventMissing(p)
  BY <1>3 DEF FindBooking, EventMissing, Refuse
<1>4. CASE CreateCheckRetry(p) \/ CreateCheckSeats(p) \/ CreateInsert(p)
  BY <1>4 DEF CreateCheckRetry, CreateCheckSeats, CreateInsert, Refuse
<1>5. CASE CancelDecide(p) \/ CancelEventDecide(p) \/ EditDecide(p)
  BY <1>5 DEF CancelDecide, CancelEventDecide, EditDecide, Refuse, Stage
<1>6. CASE CommitNothing(p) \/ RefreshEvent(p)
  BY <1>6 DEF CommitNothing, RefreshEvent
<1> QED
  BY <1>1, <1>2, <1>3, <1>4, <1>5, <1>6 DEF Step, Work, Commit

\* What a transaction publishes concerns its own event.
RowsSame(e) == /\ cancelledAt'[e] = cancelledAt[e]
               /\ BookedFor(e)' = BookedFor(e)
               /\ \A r \in BookedFor(e) : /\ booking'[r] = booking[r]
                                          /\ cancellation'[r] = cancellation[r]
                                          /\ \A s \in Seats : releasedAt'[r][s] = releasedAt[r][s]

\* Facts about a request that is about to commit.
LEMMA AtCommit ==
  ASSUME IInv, NEW p \in Requests, pc[p] = "commit"
  PROVE  /\ evt[p] \in Events /\ lock[evt[p]] = p /\ seen[p] = cancelledAt[evt[p]]
         /\ req[p] \in Request /\ req[p] # NULL
         /\ stamp[p] \in Time /\ stamp[p] <= clock
         /\ req[p].op = "create" =>
              /\ rsv[p] \in Reservations \ Booked
              /\ req[p].seats \in SeatSets /\ req[p].key \in Keys /\ req[p].user \in Users
         /\ req[p].op = "cancel" => rsv[p] \in BookedFor(evt[p])
BY RequestFields, NullAssumption
   DEF IInv, RequestSound, HoldsLock, ArgumentsFit, Critical, Busy, FreshIds, Drawn

LEMMA OtherEvents ==
  ASSUME IInv, NEW p \in Requests, Step(p), NEW e \in Events, pc[p] = "commit" => e # evt[p]
  PROVE  RowsSame(e)
<1>1. CASE UNCHANGED db
  BY <1>1 DEF db, RowsSame, BookedFor, Booked
<1>2. CASE CommitCreate(p)
  <2>1. rsv[p] \in Reservations \ Booked /\ evt[p] # e
    BY <1>2, AtCommit DEF CommitCreate
  <2> QED
    BY <1>2, <2>1, NullAssumption DEF CommitCreate, RowsSame, BookedFor, Booked, IInv, TypeOK
<1>3. CASE CommitCancel(p)
  <2>1. /\ rsv[p] \in BookedFor(evt[p]) /\ evt[p] # e
        /\ rows[p] = {rsv[p]} /\ claims[p] = OwnClaims(rsv[p])
    BY <1>3, AtCommit DEF CommitCancel, IInv, RequestSound, CancelStaged
  <2> QED
    BY <1>3, <2>1 DEF CommitCancel, Publish, OwnClaims, RowsSame, BookedFor, Booked, IInv, TypeOK
<1>4. CASE CommitCancelEvent(p)
  <2>1. evt[p] # e /\ rows[p] = OpenRows(evt[p]) /\ claims[p] = OpenClaims(evt[p])
    BY <1>4, AtCommit DEF CommitCancelEvent, IInv, RequestSound, CancelStaged
  <2> QED
    BY <1>4, <2>1 DEF CommitCancelEvent, Publish, OpenRows, OpenClaims, RowsSame, BookedFor,
                      Booked, IInv, TypeOK
<1>5. CASE CommitEdit(p)
  BY <1>5 DEF CommitEdit, RowsSame, BookedFor, Booked
<1> QED
  BY <1>1, <1>2, <1>3, <1>4, <1>5, OnlyCommitsWrite DEF Commit

\* Bookings and event cancellations are permanent.
LEMMA RowsKept ==
  ASSUME IInv, NEW p \in Requests, Step(p)
  PROVE  /\ \A r \in Booked : booking'[r] = booking[r]
         /\ \A e \in Events : BookedFor(e) \subseteq BookedFor(e)'
         /\ \A e \in Events : cancelledAt[e] # NULL => cancelledAt'[e] # NULL
         /\ \A r \in Reservations : cancellation[r] # NULL => cancellation'[r] # NULL
<1>1. CASE UNCHANGED db
  BY <1>1 DEF db, BookedFor, Booked
<1>2. CASE CommitCreate(p)
  BY <1>2, AtCommit DEF CommitCreate, BookedFor, Booked, IInv, TypeOK
<1>3. CASE CommitCancel(p)
  BY <1>3, AtCommit, CancellationRecords DEF CommitCancel, Publish, BookedFor, Booked, IInv, TypeOK
<1>4. CASE CommitCancelEvent(p)
  BY <1>4, AtCommit, CancellationRecords, NullAssumption
     DEF CommitCancelEvent, Publish, BookedFor, Booked, IInv, TypeOK
<1>5. CASE CommitEdit(p)
  BY <1>5 DEF CommitEdit, BookedFor, Booked
<1> QED
  BY <1>1, <1>2, <1>3, <1>4, <1>5, OnlyCommitsWrite DEF Commit

--------------------------------------------------------------------------------
(* A step of p keeps every other request sound *)

LEMMA QueriesSame ==
  ASSUME NEW e \in Events, RowsSame(e)
  PROVE  /\ Held(e)' = Held(e)
         /\ \A u \in Users, k \in Keys : Matching(u, e, k)' = Matching(u, e, k)
         /\ OpenRows(e)' = OpenRows(e)
         /\ OpenClaims(e)' = OpenClaims(e)
         /\ \A r \in BookedFor(e) : OwnClaims(r)' = OwnClaims(r)
<1>1. Held(e)' = Held(e)
  BY DEF RowsSame, Held
<1>2. ASSUME NEW u \in Users, NEW k \in Keys PROVE Matching(u, e, k)' = Matching(u, e, k)
  BY DEF RowsSame, Matching
<1>3. OpenRows(e)' = OpenRows(e)
  BY DEF RowsSame, OpenRows
<1>4. OpenClaims(e)' = OpenClaims(e)
  <2>1. \A c \in BookedFor(e) \X Seats : c[1] \in BookedFor(e) /\ c[2] \in Seats
    OBVIOUS
  <2> QED
    BY <2>1 DEF RowsSame, OpenClaims
<1>5. ASSUME NEW r \in BookedFor(e) PROVE OwnClaims(r)' = OwnClaims(r)
  BY DEF RowsSame, OwnClaims
<1> QED
  BY <1>1, <1>2, <1>3, <1>4, <1>5

LEMMA OthersSound ==
  ASSUME IInv, NEW p \in Requests, Step(p), NEW o \in Requests \ {p}
  PROVE  RequestSound(o)'
<1>1. Untouched(o) /\ clock' = clock
  BY OthersUntouched, LocksOfOthers DEF IInv
<1>2. RequestSound(o)
  BY DEF IInv
<1>3. ASSUME pc[o] \in Critical, NEW e \in {evt[o]}
      PROVE  /\ e \in Events /\ RowsSame(e)
             /\ lock'[e] = o /\ seen[o] = cancelledAt'[e]
             /\ req[o] \in Request
             /\ Held(e)' = Held(e)
             /\ \A u \in Users, k \in Keys : Matching(u, e, k)' = Matching(u, e, k)
             /\ OpenRows(e)' = OpenRows(e)
             /\ OpenClaims(e)' = OpenClaims(e)
             /\ \A r \in BookedFor(e) : OwnClaims(r)' = OwnClaims(r)
  <2>1. e \in Events /\ lock[e] = o /\ seen[o] = cancelledAt[e] /\ req[o] \in Request
    BY <1>2, <1>3 DEF RequestSound, HoldsLock, ArgumentsFit, Busy
  <2>2. RowsSame(e)
    BY <1>3, <2>1, AtCommit, OtherEvents
  <2>3. lock'[e] = o
    BY <2>1, LocksOfOthers, NullAssumption DEF IInv
  <2> QED
    BY <2>1, <2>2, <2>3, QueriesSame DEF RowsSame
<1>4. HoldsLock(o)'
  BY <1>1, <1>3 DEF HoldsLock, Untouched
<1>5. ArgumentsFit(o)'
  <2>1. ASSUME pc[o] \in Busy \ {"connect", "find"}, req[o].op = "cancel"
        PROVE  rsv[o] \in BookedFor(evt[o])'
    BY <1>1, <1>2, <2>1, RowsKept DEF RequestSound, ArgumentsFit, Untouched, BookedFor, Booked
  <2> QED
    BY <1>1, <1>2, <2>1 DEF RequestSound, ArgumentsFit, Untouched, BookedFor, Booked
<1>6. CreateChecked(o)'
  <2>1. ASSUME pc[o] \in {"seats", "insert", "commit"}, req[o].op = "create"
        PROVE  pc[o] \in Critical /\ req[o].user \in Users /\ req[o].key \in Keys /\ req[o] # NULL
    BY <1>3, <2>1, RequestFields, NullAssumption DEF Critical
  <2> QED
    BY <1>1, <1>2, <1>3, <2>1 DEF RequestSound, CreateChecked, Untouched, Matching, Held,
                                     BookedFor, Booked
<1>7. CancelStaged(o)'
  <2>1. pc[o] = "commit" => pc[o] \in Critical
    BY DEF Critical
  <2>2. pc[o] = "commit" /\ req[o].op = "cancel" => rsv[o] \in BookedFor(evt[o])
    BY <1>2 DEF RequestSound, ArgumentsFit, Busy, Critical
  <2> QED
    BY <1>1, <1>2, <1>3, <2>1, <2>2
       DEF RequestSound, CancelStaged, Untouched, RowsSame, OwnClaims, OpenRows, OpenClaims, BookedFor
<1>8. ReplayJustified(o)'
  <2>1. ASSUME pc[o] = "replay", req[o].op = "create"
        PROVE  /\ rsv[o] \in Matching(req[o].user, evt[o], req[o].key)'
               /\ booking'[rsv[o]].seats = req[o].seats
    <3>1. rsv[o] \in Matching(req[o].user, evt[o], req[o].key) /\ booking[rsv[o]].seats = req[o].seats
      BY <1>2, <2>1 DEF RequestSound, ReplayJustified, EditChecked
    <3> QED
      BY <1>1, <3>1, RowsKept DEF Untouched, Matching, BookedFor, Booked
  <2>2. pc[o] = "replay" /\ req[o].op = "cancel" => cancellation'[rsv[o]] # NULL
    BY <1>2, RowsKept DEF RequestSound, ReplayJustified, EditChecked, ArgumentsFit, BookedFor, Booked, Busy, Critical
  <2>3. pc[o] \in {"replay", "refresh"} /\ req[o].op = "cancel_event" => cancelledAt'[evt[o]] # NULL
    BY <1>2, RowsKept DEF RequestSound, ReplayJustified, EditChecked, ArgumentsFit, HoldsLock, Busy, Critical
  <2> QED
    BY <1>1, <2>1, <2>2, <2>3 DEF ReplayJustified, EditChecked, Untouched, Matching, BookedFor, Booked
<1>9. EditChecked(o)'
  BY <1>1, <1>2 DEF RequestSound, EditChecked, Untouched
<1> QED
  BY <1>4, <1>5, <1>6, <1>7, <1>8, <1>9 DEF RequestSound

--------------------------------------------------------------------------------
(* A step of p keeps p sound: one lemma for each phase of a request *)

LEMMA AnsweredSound ==
  ASSUME TypeOK, NEW p \in Requests, NEW outcome \in Resting, Answer(p, outcome)
  PROVE  RequestSound(p)'
<1>1. pc'[p] \in Resting /\ req'[p] = NULL
  BY DEF Answer, Goto, Forget, TypeOK
<1> QED
  BY <1>1 DEF RequestSound, HoldsLock, ArgumentsFit, CreateChecked, CancelStaged, ReplayJustified, EditChecked,
              Resting, Critical, Busy

LEMMA RefusedSound ==
  ASSUME TypeOK, NEW p \in Requests, Refuse(p)
  PROVE  RequestSound(p)'
BY AnsweredSound DEF Refuse, Resting

\* A request that only moves to a new position within its critical section.
LEMMA AdvancedSound ==
  ASSUME TypeOK, NEW p \in Requests, RequestSound(p), pc[p] \in Critical,
         NEW label \in {"seats", "insert", "commit", "replay"}, Goto(p, label),
         UNCHANGED <<clock, db, lock, req, evt, seen>>
  PROVE  /\ HoldsLock(p)'
         /\ /\ label \in {"seats", "insert"} => req[p].op = "create"
            /\ req[p].op = "create" => rsv'[p] \in Reservations
            /\ req[p].op = "cancel" => rsv'[p] = rsv[p]
            /\ stamp'[p] \in Time /\ stamp'[p] <= clock
            => ArgumentsFit(p)'
<1>1. pc'[p] = label
  BY DEF Goto, TypeOK
<1> QED
  BY <1>1 DEF RequestSound, HoldsLock, ArgumentsFit, db, BookedFor, Booked, Critical, Busy

LEMMA StartSound ==
  ASSUME TypeOK, NEW p \in Requests, NEW q \in Request, NEW r \in Reservations \union {NULL},
         NEW e \in AnyEvent, Start(p, q, r, e),
         q.op = "cancel" => r = q.reservation,
         q.op # "cancel" => e = q.event /\ (q.op = "create" => r \in Reservations)
  PROVE  RequestSound(p)'
<1>1. pc'[p] = "connect" /\ req'[p] = q /\ rsv'[p] = r /\ evt'[p] = e
  BY DEF Start, Goto, TypeOK
<1>2. ArgumentsFit(p)'
  BY <1>1 DEF ArgumentsFit
<1> QED
  BY <1>1, <1>2 DEF RequestSound, HoldsLock, CreateChecked, CancelStaged, ReplayJustified, EditChecked, Critical

LEMMA ConnectSound ==
  ASSUME TypeOK, NEW p \in Requests, RequestSound(p), Connect(p)
  PROVE  RequestSound(p)'
<1>1. /\ pc[p] = "connect" /\ req[p] \in Request
      /\ pc'[p] = IF req[p].op = "cancel" THEN "find" ELSE "lock"
      /\ req'[p] = req[p] /\ rsv'[p] = rsv[p] /\ evt'[p] = evt[p]
      /\ stamp'[p] = clock /\ clock' = clock /\ clock \in Time
  BY DEF Connect, Goto, TypeOK, RequestSound, ArgumentsFit, Busy
<1>2. clock <= clock
  BY <1>1, SetAssumption DEF Time
<1>3. ArgumentsFit(p)'
  BY <1>1, <1>2 DEF RequestSound, ArgumentsFit, Busy
<1> QED
  BY <1>1, <1>3 DEF RequestSound, HoldsLock, CreateChecked, CancelStaged, ReplayJustified, EditChecked, Critical

LEMMA ArrivalSound ==
  ASSUME IInv, NEW p \in Requests, Arrive(p)
  PROVE  RequestSound(p)'
<1>0. TypeOK
  BY DEF IInv
<1>1. CASE StartCreate(p)
  <2>1. PICK q \in CreateRequest, r \in Reservations : Start(p, q, r, q.event)
    BY <1>1 DEF StartCreate
  <2> QED
    BY <1>0, <2>1, ConstructedRequests, RequestFields, StartSound
<1>2. CASE StartCancel(p)
  <2>1. PICK q \in CancelRequest : Start(p, q, q.reservation, NULL)
    BY <1>2 DEF StartCancel
  <2> QED
    BY <1>0, <2>1, ConstructedRequests, RequestFields, StartSound DEF AnyEvent
<1>3. CASE StartCancelEvent(p)
  <2>1. PICK q \in CancelEventRequest : Start(p, q, NULL, q.event)
    BY <1>3 DEF StartCancelEvent
  <2> QED
    BY <1>0, <2>1, ConstructedRequests, RequestFields, StartSound
<1>4. CASE StartEdit(p)
  <2>1. PICK q \in EditRequest : Start(p, q, NULL, q.event)
    BY <1>4 DEF StartEdit
  <2> QED
    BY <1>0, <2>1, ConstructedRequests, RequestFields, StartSound
<1>5. CASE Connect(p)
  BY <1>0, <1>5, ConnectSound DEF IInv
<1> QED
  BY <1>1, <1>2, <1>3, <1>4, <1>5 DEF Arrive

LEMMA LockingSound ==
  ASSUME IInv, NEW p \in Requests, FindBooking(p) \/ LockEvent(p) \/ EventMissing(p)
  PROVE  RequestSound(p)'
<1>0. TypeOK /\ RequestSound(p)
  BY DEF IInv
<1>1. CASE Refuse(p)
  BY <1>0, <1>1, RefusedSound
<1>2. CASE FindBooking(p) /\ ~Refuse(p)
  <2>1. /\ pc[p] = "find" /\ req[p] \in Request /\ req[p].op = "cancel"
        /\ rsv[p] = req[p].reservation /\ rsv[p] \in Reservations /\ req[p] # NULL
    BY <1>0, <1>2, RequestFields, NullAssumption DEF FindBooking, RequestSound, ArgumentsFit, Busy, TypeOK
  <2> QED
    BY <1>0, <1>2, <2>1
       DEF FindBooking, Goto, TypeOK, RequestSound, HoldsLock, ArgumentsFit, CreateChecked, db,
           CancelStaged, ReplayJustified, EditChecked, BookedFor, Booked, Critical, Busy
<1>3. CASE LockEvent(p)
  BY <1>0, <1>3
     DEF LockEvent, Goto, TypeOK, RequestSound, HoldsLock, ArgumentsFit, CreateChecked, db,
         CancelStaged, ReplayJustified, EditChecked, BookedFor, Booked, Critical, Busy
<1> QED
  BY <1>1, <1>2, <1>3 DEF EventMissing

LEMMA CreateSound ==
  ASSUME IInv, NEW p \in Requests, CreateCheckRetry(p) \/ CreateCheckSeats(p) \/ CreateInsert(p)
  PROVE  RequestSound(p)'
<1>0. /\ TypeOK /\ RequestSound(p)
      /\ pc[p] \in Critical /\ pc[p] \in Busy /\ req[p] \in Request /\ req[p].op = "create"
      /\ rsv[p] \in Reservations /\ evt[p] \in Events
      /\ stamp[p] \in Time /\ stamp[p] <= clock
  BY DEF IInv, CreateCheckRetry, CreateCheckSeats, CreateInsert, RequestSound, HoldsLock,
         ArgumentsFit, Critical, Busy
<1>1. CASE Refuse(p)
  BY <1>0, <1>1, RefusedSound
<1>2. CASE Answer(p, "failed")
  BY <1>0, <1>2, AnsweredSound DEF Resting
<1>3. ASSUME NEW r \in Matching(req[p].user, evt[p], req[p].key), booking[r].seats = req[p].seats,
             pc[p] = "decide", rsv' = [rsv EXCEPT ![p] = r], Goto(p, "replay"),
             UNCHANGED <<clock, db, lock, req, evt, seen, stamp, rows, claims>>
      PROVE  RequestSound(p)'
  <2>1. pc'[p] = "replay" /\ rsv'[p] = r /\ r \in Reservations
    BY <1>0, <1>3 DEF Goto, TypeOK, Matching, BookedFor, Booked
  <2>2. HoldsLock(p)' /\ ArgumentsFit(p)'
    BY <1>0, <1>3, <2>1, AdvancedSound
  <2>3. ReplayJustified(p)'
    BY <1>0, <1>3, <2>1 DEF ReplayJustified, EditChecked, Matching, BookedFor, Booked, db
  <2> QED
    BY <1>3, <2>1, <2>2, <2>3 DEF RequestSound, CreateChecked, CancelStaged, EditChecked
<1>4. ASSUME Matching(req[p].user, evt[p], req[p].key) = {}, seen[p] = NULL, ~Started(evt[p]),
             pc[p] = "decide", Goto(p, "seats"), UNCHANGED <<clock, db, lock, locals>>
      PROVE  RequestSound(p)'
  <2>1. pc'[p] = "seats" /\ UNCHANGED <<clock, db, lock, req, rsv, evt, seen, stamp>>
    BY <1>0, <1>4 DEF Goto, TypeOK, locals
  <2>2. HoldsLock(p)' /\ ArgumentsFit(p)'
    BY <1>0, <1>4, <2>1, AdvancedSound
  <2>3. stamp[p] < StartsAt[evt[p]]
    BY <1>0, <1>4, SetAssumption DEF Started, Time, TypeOK
  <2>4. CreateChecked(p)'
    BY <1>0, <1>4, <2>1, <2>3 DEF CreateChecked, Matching, BookedFor, Booked, db
  <2> QED
    BY <2>1, <2>2, <2>4 DEF RequestSound, CancelStaged, ReplayJustified, EditChecked
<1>5. CASE CreateCheckSeats(p) /\ ~Refuse(p)
  <2>1. pc'[p] = "insert" /\ UNCHANGED <<clock, db, lock, req, rsv, evt, seen, stamp>>
    BY <1>0, <1>5 DEF CreateCheckSeats, Goto, TypeOK, locals
  <2>2. HoldsLock(p)' /\ ArgumentsFit(p)'
    BY <1>0, <1>5, <2>1, AdvancedSound DEF CreateCheckSeats
  <2>3. CreateChecked(p)'
    BY <1>0, <1>5, <2>1
       DEF CreateCheckSeats, RequestSound, CreateChecked, Matching, Held, BookedFor, Booked, db
  <2> QED
    BY <1>0, <2>1, <2>2, <2>3 DEF RequestSound, CancelStaged, ReplayJustified, EditChecked
<1>6. CASE CreateInsert(p) /\ ~Refuse(p) /\ ~Answer(p, "failed")
  <2>1. pc'[p] = "commit" /\ UNCHANGED <<clock, db, lock, req, rsv, evt, seen, stamp>>
    BY <1>0, <1>6 DEF CreateInsert, Goto, TypeOK, locals
  <2>2. HoldsLock(p)' /\ ArgumentsFit(p)'
    BY <1>0, <1>6, <2>1, AdvancedSound DEF CreateInsert
  <2>3. CreateChecked(p)'
    BY <1>0, <1>6, <2>1
       DEF CreateInsert, RequestSound, CreateChecked, Matching, Held, BookedFor, Booked, db
  <2> QED
    BY <1>0, <2>1, <2>2, <2>3 DEF RequestSound, CancelStaged, ReplayJustified, EditChecked
<1> QED
  BY <1>1, <1>2, <1>3, <1>4, <1>5, <1>6 DEF CreateCheckRetry

\* Reading the clock and staging the updates of a cancellation.
LEMMA StageSound ==
  ASSUME IInv, NEW p \in Requests, pc[p] = "decide", req[p].op \in {"cancel", "cancel_event"},
         ~Started(evt[p]), NEW R, NEW C, Stage(p, R, C),
         req[p].op = "cancel" => /\ R = {rsv[p]} /\ C = OwnClaims(rsv[p])
                                 /\ cancellation[rsv[p]] = NULL,
         req[p].op = "cancel_event" => /\ R = OpenRows(evt[p]) /\ C = OpenClaims(evt[p])
                                       /\ seen[p] = NULL
  PROVE  RequestSound(p)'
<1>0. /\ TypeOK /\ RequestSound(p) /\ RecordedInPast
      /\ pc[p] \in Critical /\ pc[p] \in Busy /\ evt[p] \in Events /\ clock \in Time
      /\ req[p].op = "cancel" => rsv[p] \in BookedFor(evt[p])
  BY DEF IInv, StoreSound, RequestSound, HoldsLock, ArgumentsFit, Critical, Busy, TypeOK
<1>1. /\ pc'[p] = "commit" /\ stamp'[p] = clock /\ rows'[p] = R /\ claims'[p] = C
      /\ Goto(p, "commit") /\ UNCHANGED <<clock, db, lock, req, rsv, evt, seen>>
  BY <1>0 DEF Stage, Goto, TypeOK
<1>2. clock <= clock /\ clock < StartsAt[evt[p]]
  BY <1>0, SetAssumption DEF Started, Time
<1>3. HoldsLock(p)' /\ ArgumentsFit(p)'
  BY <1>0, <1>1, <1>2, AdvancedSound
<1>4. CancelStaged(p)'
  BY <1>0, <1>1, <1>2
     DEF CancelStaged, OwnClaims, OpenRows, OpenClaims, RecordedInPast, BookedFor, Booked, db
<1> QED
  BY <1>1, <1>3, <1>4 DEF RequestSound, CreateChecked, ReplayJustified, EditChecked

LEMMA DecideSound ==
  ASSUME IInv, NEW p \in Requests, CancelDecide(p) \/ CancelEventDecide(p) \/ EditDecide(p)
  PROVE  RequestSound(p)'
<1>0. /\ TypeOK /\ RequestSound(p)
      /\ pc[p] = "decide" /\ pc[p] \in Critical /\ pc[p] \in Busy
      /\ req[p].op \in {"cancel", "cancel_event", "edit"}
      /\ stamp[p] \in Time /\ stamp[p] <= clock
  BY DEF IInv, CancelDecide, CancelEventDecide, EditDecide, RequestSound, ArgumentsFit, Critical, Busy
<1>1. CASE Refuse(p)
  BY <1>0, <1>1, RefusedSound
<1>2. CASE /\ CancelDecide(p) \/ CancelEventDecide(p)
           /\ Goto(p, "replay")
           /\ UNCHANGED <<clock, db, lock, locals>>
           /\ req[p].op = "cancel" => cancellation[rsv[p]] # NULL
           /\ req[p].op = "cancel_event" => seen[p] # NULL
  <2>1. pc'[p] = "replay" /\ UNCHANGED <<req, rsv, evt, seen, stamp, rows, claims>>
    BY <1>0, <1>2 DEF Goto, TypeOK, locals
  <2>2. HoldsLock(p)' /\ ArgumentsFit(p)'
    BY <1>0, <1>2, <2>1, AdvancedSound DEF CancelDecide, CancelEventDecide
  <2>3. ReplayJustified(p)'
    BY <1>0, <1>2, <2>1 DEF ReplayJustified, EditChecked, RequestSound, HoldsLock, CancelDecide,
                            CancelEventDecide, db
  <2> QED
    BY <2>1, <2>2, <2>3, <1>0 DEF RequestSound, CreateChecked, CancelStaged, EditChecked
<1>3. CASE /\ req[p].op = "cancel" /\ cancellation[rsv[p]] = NULL /\ ~Started(evt[p])
           /\ Stage(p, {rsv[p]}, OwnClaims(rsv[p]))
  BY <1>0, <1>3, StageSound
<1>4. CASE /\ req[p].op = "cancel_event" /\ seen[p] = NULL /\ ~Started(evt[p])
           /\ Stage(p, OpenRows(evt[p]), OpenClaims(evt[p]))
  BY <1>0, <1>4, StageSound
<1>5. CASE EditDecide(p) /\ ~Refuse(p)
  <2>1. pc'[p] = "commit" /\ UNCHANGED <<clock, db, lock, req, rsv, evt, seen, stamp, rows, claims>>
    BY <1>0, <1>5 DEF EditDecide, Goto, TypeOK, locals
  <2>2. HoldsLock(p)' /\ ArgumentsFit(p)'
    BY <1>0, <1>5, <2>1, AdvancedSound DEF EditDecide
  <2> QED
    BY <1>5, <2>1, <2>2 DEF EditDecide, RequestSound, CreateChecked, CancelStaged, ReplayJustified, EditChecked
<1> QED
  BY <1>1, <1>2, <1>3, <1>4, <1>5 DEF CancelDecide, CancelEventDecide

LEMMA RereadSound ==
  ASSUME TypeOK, NEW p \in Requests, RequestSound(p), pc[p] \in {"commit", "replay"}, Reread(p),
         req[p].op \in {"cancel_event", "edit"}, clock' = clock,
         req[p].op = "cancel_event" => cancelledAt'[evt[p]] # NULL
  PROVE  RequestSound(p)'
<1>1. pc'[p] = "refresh" /\ UNCHANGED <<req, rsv, evt, seen, stamp, rows, claims>>
  BY DEF Reread, Goto, TypeOK, locals
<1>2. /\ pc[p] \in Critical /\ pc[p] \in Busy /\ pc'[p] \in Busy
      /\ pc'[p] \notin Critical /\ evt[p] \in Events
  BY <1>1 DEF RequestSound, HoldsLock, Critical, Busy
<1>3. ArgumentsFit(p)'
  BY <1>1, <1>2 DEF RequestSound, ArgumentsFit
<1> QED
  BY <1>1, <1>2, <1>3 DEF RequestSound, HoldsLock, CreateChecked, CancelStaged, ReplayJustified, EditChecked

LEMMA EndSound ==
  ASSUME IInv, NEW p \in Requests, Commit(p) \/ CommitNothing(p) \/ RefreshEvent(p) \/ Fail(p)
  PROVE  RequestSound(p)'
<1>0. TypeOK /\ RequestSound(p)
  BY DEF IInv
<1>1. CASE \E outcome \in Resting : Answer(p, outcome)
  BY <1>0, <1>1, AnsweredSound
<1>2. CASE CommitCancelEvent(p) /\ Reread(p)
  <2>1. stamp[p] \in Time /\ evt[p] \in Events
    BY <1>2, AtCommit DEF CommitCancelEvent
  <2>2. cancelledAt'[evt[p]] # NULL
    BY <1>0, <1>2, <2>1, NullAssumption DEF CommitCancelEvent, TypeOK
  <2> QED
    BY <1>0, <1>2, <2>2, RereadSound DEF CommitCancelEvent
<1>3. CASE CommitEdit(p) /\ Reread(p)
  BY <1>0, <1>3, RereadSound DEF CommitEdit
<1>4. CASE CommitNothing(p) /\ Reread(p) /\ req[p].op = "cancel_event"
  BY <1>0, <1>4, RereadSound DEF CommitNothing, RequestSound, ReplayJustified, EditChecked, db
<1> QED
  BY <1>1, <1>2, <1>3, <1>4
     DEF Commit, CommitCreate, CommitCancel, CommitCancelEvent, CommitEdit, CommitNothing,
         RefreshEvent, Fail, Resting

LEMMA AllSound ==
  ASSUME IInv, NEW p \in Requests, Step(p)
  PROVE  \A o \in Requests : RequestSound(o)'
<1>1. RequestSound(p)'
  BY ArrivalSound, LockingSound, CreateSound, DecideSound, EndSound DEF Step, Work, Commit
<1> QED
  BY <1>1, OthersSound

--------------------------------------------------------------------------------
(* Types *)

LEMMA AnswerTyped ==
  ASSUME TypeOK, NEW p \in Requests, NEW outcome \in Resting, Answer(p, outcome)
  PROVE  /\ lock' \in [Events -> Requests \union {NULL}]
         /\ pc' \in [Requests -> Busy \union Resting]
         /\ req' \in [Requests -> Request \union {NULL}]
         /\ rsv' \in [Requests -> Reservations \union {NULL}]
         /\ evt' \in [Requests -> AnyEvent]
         /\ seen' \in [Requests -> Time \union {NULL}]
         /\ stamp' \in [Requests -> Time \union {NULL}]
         /\ rows' \in [Requests -> SUBSET Reservations]
         /\ claims' \in [Requests -> SUBSET (Reservations \X Seats)]
BY DEF Answer, Goto, Unlock, Forget, TypeOK, AnyEvent

LEMMA RefuseTyped ==
  ASSUME TypeOK, NEW p \in Requests, Refuse(p)
  PROVE  TypeOK'
BY AnswerTyped DEF Refuse, TypeOK, Resting, db

LEMMA StartTyped ==
  ASSUME TypeOK, NEW p \in Requests, NEW q \in Request, NEW r \in Reservations \union {NULL},
         NEW e \in AnyEvent, Start(p, q, r, e)
  PROVE  TypeOK'
BY DEF Start, Goto, TypeOK, db, Busy

LEMMA MoveTyped ==
  ASSUME TypeOK, NEW p \in Requests, NEW label \in Busy, Goto(p, label)
  PROVE  pc' \in [Requests -> Busy \union Resting]
BY DEF Goto, TypeOK

LEMMA PublishTyped ==
  ASSUME TypeOK, NEW p \in Requests, stamp[p] \in Time,
         NEW reason \in {"customer", "event_cancelled"}, Publish(p, reason)
  PROVE  /\ cancellation' \in [Reservations -> Cancellation \union {NULL}]
         /\ releasedAt' \in [Reservations -> [Seats -> Time \union {NULL}]]
<1>1. [at |-> stamp[p], reason |-> reason] \in Cancellation
  BY CancellationRecords
<1>2. cancellation' \in [Reservations -> Cancellation \union {NULL}]
  BY <1>1 DEF Publish, TypeOK
<1>3. releasedAt' \in [Reservations -> [Seats -> Time \union {NULL}]]
  BY DEF Publish, TypeOK
<1> QED
  BY <1>2, <1>3

LEMMA RereadTyped ==
  ASSUME TypeOK, NEW p \in Requests, Reread(p)
  PROVE  /\ lock' \in [Events -> Requests \union {NULL}]
         /\ pc' \in [Requests -> Busy \union Resting]
         /\ UNCHANGED <<req, rsv, evt, seen, stamp, rows, claims>>
BY MoveTyped DEF Reread, Unlock, TypeOK, Busy, locals

LEMMA TypePreserved ==
  ASSUME IInv, NEW p \in Requests, Step(p)
  PROVE  TypeOK'
<1>0. TypeOK
  BY DEF IInv
<1>1. CASE Arrive(p)
  <2>1. CASE StartCreate(p)
    BY <1>0, <2>1, StartTyped, ConstructedRequests, RequestFields DEF StartCreate
  <2>2. CASE StartCancel(p)
    BY <1>0, <2>2, StartTyped, ConstructedRequests, RequestFields DEF StartCancel, AnyEvent
  <2>3. CASE StartCancelEvent(p)
    BY <1>0, <2>3, StartTyped, ConstructedRequests, RequestFields DEF StartCancelEvent
  <2>4. CASE StartEdit(p)
    BY <1>0, <2>4, StartTyped, ConstructedRequests, RequestFields DEF StartEdit
  <2>5. CASE Connect(p)
    <3>1. pc' \in [Requests -> Busy \union Resting]
      BY <1>0, <2>5, MoveTyped DEF Connect, Busy
    <3> QED
      BY <1>0, <2>5, <3>1 DEF Connect, TypeOK, db
  <2> QED
    BY <1>1, <2>1, <2>2, <2>3, <2>4, <2>5 DEF Arrive
<1>2. CASE LockEvent(p)
  <2>1. pc' \in [Requests -> Busy \union Resting]
    BY <1>0, <1>2, MoveTyped DEF LockEvent, Busy, Critical
  <2> QED
    BY <1>0, <1>2, <2>1 DEF LockEvent, TypeOK, db
<1>3. CASE Refuse(p)
  BY <1>0, <1>3, RefuseTyped
<1>4. CASE UNCHANGED <<clock, db>> /\ \E outcome \in Resting : Answer(p, outcome)
  BY <1>0, <1>4, AnswerTyped DEF TypeOK, db
<1>5. CASE UNCHANGED <<clock, db>> /\ Reread(p)
  BY <1>0, <1>5, RereadTyped DEF TypeOK, db
<1>6. CASE /\ \E label \in Busy : Goto(p, label)
           /\ UNCHANGED <<clock, db, lock, locals>>
  BY <1>0, <1>6, MoveTyped DEF TypeOK, db, locals
<1>7. CASE FindBooking(p) /\ ~Refuse(p)
  <2>1. booking[rsv[p]].event \in Events
    <3>1. rsv[p] \in Reservations /\ booking[rsv[p]] # NULL
      BY <1>7, RequestFields DEF FindBooking, IInv, RequestSound, ArgumentsFit, Busy
    <3> QED
      BY <1>0, <3>1 DEF TypeOK, BookingRow
  <2>2. pc' \in [Requests -> Busy \union Resting]
    BY <1>0, <1>7, MoveTyped DEF FindBooking, Busy
  <2> QED
    BY <1>0, <1>7, <2>1, <2>2 DEF FindBooking, TypeOK, db, AnyEvent
<1>8. ASSUME NEW r \in Reservations, rsv' = [rsv EXCEPT ![p] = r], Goto(p, "replay"),
             UNCHANGED <<clock, db, lock, req, evt, seen, stamp, rows, claims>>
      PROVE  TypeOK'
  BY <1>0, <1>8, MoveTyped DEF TypeOK, db, Busy, Critical
<1>9. CASE CreateCheckRetry(p)
  BY <1>3, <1>6, <1>8, <1>9 DEF CreateCheckRetry, Matching, BookedFor, Booked, Busy, Critical
<1>10. ASSUME NEW R \in SUBSET Reservations, NEW C \in SUBSET (Reservations \X Seats), Stage(p, R, C)
       PROVE  TypeOK'
  BY <1>0, <1>10, MoveTyped DEF Stage, TypeOK, db, Busy, Critical
<1>11. CASE CancelDecide(p)
  <2>1. rsv[p] \in Booked
    BY <1>11 DEF CancelDecide, IInv, RequestSound, ArgumentsFit, BookedFor, Busy, Critical
  <2>2. {rsv[p]} \in SUBSET Reservations /\ OwnClaims(rsv[p]) \in SUBSET (Reservations \X Seats)
    BY <1>0, <2>1 DEF OwnClaims, TypeOK, Booked, BookingRow, SeatSets
  <2> QED
    BY <1>3, <1>6, <1>10, <1>11, <2>2 DEF CancelDecide, Busy, Critical
<1>12. CASE CancelEventDecide(p)
  <2>1. /\ OpenRows(evt[p]) \in SUBSET Reservations
        /\ OpenClaims(evt[p]) \in SUBSET (Reservations \X Seats)
    BY DEF OpenRows, OpenClaims, BookedFor, Booked
  <2> QED
    BY <1>3, <1>6, <1>10, <1>12, <2>1 DEF CancelEventDecide, Busy, Critical
<1>13. CASE CommitCreate(p)
  <2> DEFINE row == [event |-> evt[p], user |-> req[p].user, key |-> req[p].key,
                     seats |-> req[p].seats, createdAt |-> stamp[p]]
  <2>1. row \in BookingRow
    BY <1>13, AtCommit DEF CommitCreate, BookingRow
  <2>2. booking' \in [Reservations -> BookingRow \union {NULL}]
    BY <1>0, <1>13, <2>1 DEF CommitCreate, TypeOK
  <2> QED
    BY <1>0, <1>13, <2>2, AnswerTyped DEF CommitCreate, TypeOK, Resting
<1>14. CASE CommitCancel(p)
  <2>1. stamp[p] \in Time
    BY <1>14, AtCommit DEF CommitCancel
  <2> QED
    BY <1>0, <1>14, <2>1, PublishTyped, AnswerTyped DEF CommitCancel, TypeOK, Resting
<1>15. CASE CommitCancelEvent(p)
  <2>1. stamp[p] \in Time
    BY <1>15, AtCommit DEF CommitCancelEvent
  <2>2. cancelledAt' \in [Events -> Time \union {NULL}]
    BY <1>0, <1>15, <2>1 DEF CommitCancelEvent, TypeOK
  <2> QED
    BY <1>0, <1>15, <2>1, <2>2, PublishTyped, AnswerTyped, RereadTyped
       DEF CommitCancelEvent, TypeOK, Resting
<1>16. CASE CommitEdit(p)
  <2>1. details' \in [Events -> Details]
    BY <1>0, <1>16, AtCommit, RequestFields DEF CommitEdit, TypeOK
  <2> QED
    BY <1>0, <1>16, <2>1, AnswerTyped, RereadTyped DEF CommitEdit, TypeOK, Resting
<1>17. CASE CreateCheckSeats(p) \/ CreateInsert(p) \/ EditDecide(p)
  BY <1>3, <1>4, <1>6, <1>17
     DEF CreateCheckSeats, CreateInsert, EditDecide, Busy, Critical, Resting
<1>18. CASE CommitNothing(p) \/ RefreshEvent(p) \/ Fail(p)
  BY <1>4, <1>5, <1>18 DEF CommitNothing, RefreshEvent, Fail, Resting
<1> QED
  BY <1>1, <1>2, <1>3, <1>7, <1>9, <1>11, <1>12, <1>13, <1>14, <1>15, <1>16, <1>17, <1>18
     DEF Step, Work, EventMissing

--------------------------------------------------------------------------------
(* Locks and drawn ids *)

\* p holds a lock after its step only inside the critical section of that event.
LEMMA OwnLock ==
  ASSUME IInv, NEW p \in Requests, Step(p), NEW e \in Events, lock'[e] = p
  PROVE  pc'[p] \in Critical /\ evt'[p] = e
<1>0. /\ TypeOK
      /\ lock[e] = p => pc[p] \in Critical /\ evt[p] = e
  BY NullAssumption DEF IInv, NoStrayLock
<1>1. CASE Unlock(p)
  BY <1>1, NullAssumption DEF Unlock
<1>2. CASE LockEvent(p)
  BY <1>0, <1>2, NullAssumption DEF LockEvent, Goto, TypeOK, Critical
<1>3. CASE lock' = lock /\ pc[p] \notin Critical
  BY <1>0, <1>3
<1>4. CASE /\ \E label \in Critical : Goto(p, label)
           /\ UNCHANGED <<lock, evt>>
  BY <1>0, <1>4 DEF Goto, TypeOK
<1>5. CASE Arrive(p)
  BY <1>3, <1>5 DEF Arrive, StartCreate, StartCancel, StartCancelEvent, StartEdit, Start, Connect,
                    Resting, Critical
<1>6. CASE FindBooking(p) \/ EventMissing(p)
  BY <1>1, <1>3, <1>6 DEF FindBooking, EventMissing, Refuse, Answer, Critical
<1>7. CASE CreateCheckRetry(p) \/ CreateCheckSeats(p) \/ CreateInsert(p)
  BY <1>1, <1>4, <1>7 DEF CreateCheckRetry, CreateCheckSeats, CreateInsert, Refuse, Answer,
                          Critical, locals
<1>8. CASE CancelDecide(p) \/ CancelEventDecide(p) \/ EditDecide(p)
  BY <1>1, <1>4, <1>8 DEF CancelDecide, CancelEventDecide, EditDecide, Refuse, Answer, Stage,
                          Critical, locals
<1>9. CASE Commit(p) \/ CommitNothing(p) \/ RefreshEvent(p) \/ Fail(p)
  BY <1>1, <1>9 DEF Commit, CommitCreate, CommitCancel, CommitCancelEvent, CommitEdit,
                    CommitNothing, RefreshEvent, Fail, Answer, Reread
<1> QED
  BY <1>2, <1>5, <1>6, <1>7, <1>8, <1>9 DEF Step, Work, Commit

LEMMA NoStrayLockPreserved ==
  ASSUME IInv, NEW p \in Requests, Step(p)
  PROVE  NoStrayLock'
<1> SUFFICES ASSUME NEW e \in Events, lock'[e] # NULL
             PROVE  pc'[lock'[e]] \in Critical /\ evt'[lock'[e]] = e
  BY DEF NoStrayLock
<1>1. CASE lock'[e] = p
  BY <1>1, OwnLock
<1>2. CASE lock'[e] # p
  <2>1. lock'[e] = lock[e] /\ lock[e] \in Requests \ {p}
    BY <1>2, LocksOfOthers DEF IInv, TypeOK
  <2> QED
    BY <2>1, OthersUntouched DEF IInv, NoStrayLock, Untouched
<1> QED
  BY <1>1, <1>2

\* An id in p's hands was there before the step, unless p has just drawn it.
LEMMA OwnDraw ==
  ASSUME IInv, NEW p \in Requests, Step(p), Drawn(p)', ~StartCreate(p)
  PROVE  Drawn(p) /\ rsv'[p] = rsv[p] /\ Booked' = Booked
<1>0. TypeOK /\ ArgumentsFit(p)
  BY DEF IInv, RequestSound
<1>1. CASE \E outcome \in Resting : Answer(p, outcome)
  BY <1>0, <1>1 DEF Answer, Goto, TypeOK, Resting, Drawn
<1>2. CASE Reread(p)
  BY <1>0, <1>2 DEF Reread, Goto, TypeOK, Drawn
<1>3. CASE StartCancel(p) \/ StartCancelEvent(p) \/ StartEdit(p)
  BY <1>0, <1>3, ConstructedRequests DEF StartCancel, StartCancelEvent, StartEdit, Start, TypeOK, Drawn
<1>4. CASE LockEvent(p)
  BY <1>0, <1>4 DEF LockEvent, TypeOK, Drawn, Booked, db
<1>8. CASE Connect(p)
  BY <1>0, <1>8 DEF Connect, Goto, TypeOK, Drawn, Booked, db
<1>5. CASE FindBooking(p) /\ ~Refuse(p)
  BY <1>0, <1>5 DEF FindBooking, ArgumentsFit, Busy, TypeOK, Drawn
<1>6. CASE Goto(p, "replay")
  BY <1>0, <1>6 DEF Goto, TypeOK, Drawn
<1>7. CASE /\ pc[p] \in {"decide", "seats", "insert"}
           /\ UNCHANGED <<db, req, rsv>>
  BY <1>0, <1>7 DEF Drawn, Booked, db
<1> QED
  <2>1. CASE CreateCheckRetry(p) \/ CreateCheckSeats(p) \/ CreateInsert(p)
    BY <1>1, <1>6, <1>7, <2>1 DEF CreateCheckRetry, CreateCheckSeats, CreateInsert, Refuse,
                                  Resting, locals
  <2>2. CASE CancelDecide(p) \/ CancelEventDecide(p) \/ EditDecide(p)
    BY <1>1, <1>7, <2>2 DEF CancelDecide, CancelEventDecide, EditDecide, Refuse, Stage,
                            Resting, locals
  <2>3. CASE Commit(p) \/ CommitNothing(p) \/ RefreshEvent(p) \/ Fail(p) \/ EventMissing(p)
    BY <1>1, <1>2, <2>3 DEF Commit, CommitCreate, CommitCancel, CommitCancelEvent, CommitEdit,
                            CommitNothing, RefreshEvent, Fail, EventMissing, Refuse, Resting
  <2>4. CASE FindBooking(p)
    BY <1>1, <1>5, <2>4 DEF Refuse, Resting
  <2> QED
    BY <1>3, <1>4, <1>8, <2>1, <2>2, <2>3, <2>4 DEF Step, Work, Arrive, Commit

LEMMA FreshIdsPreserved ==
  ASSUME IInv, NEW p \in Requests, Step(p)
  PROVE  FreshIds'
<1>1. \A o \in Requests \ {p} : Untouched(o)
  BY OthersUntouched DEF IInv
<1>2. \A r \in Booked' \ Booked : CommitCreate(p) /\ r = rsv[p]
  <2>1. CASE Booked' = Booked
    BY <2>1
  <2>2. CASE CommitCreate(p)
    BY <2>2 DEF CommitCreate, Booked, IInv, TypeOK
  <2>3. CASE CommitCancel(p) \/ CommitCancelEvent(p) \/ CommitEdit(p)
    BY <2>3 DEF CommitCancel, CommitCancelEvent, CommitEdit, Booked
  <2> QED
    BY <2>1, <2>2, <2>3, OnlyCommitsWrite DEF Commit, db, Booked
<1>3. ASSUME NEW o \in Requests \ {p}, Drawn(o)'
      PROVE  Drawn(o) /\ rsv'[o] = rsv[o] /\ rsv[o] \notin Booked'
  <2>1. Drawn(o) /\ rsv'[o] = rsv[o]
    BY <1>1, <1>3 DEF Drawn, Untouched
  <2>2. CommitCreate(p) => Drawn(p)
    BY DEF CommitCreate, Drawn
  <2> QED
    BY <1>2, <2>1, <2>2 DEF IInv, FreshIds
<1>4. CASE StartCreate(p)
  <2>1. PICK r \in Reservations : /\ r \notin Booked /\ (\A o \in Requests : rsv[o] # r)
                                  /\ rsv' = [rsv EXCEPT ![p] = r] /\ UNCHANGED db
    BY <1>4 DEF StartCreate, Start
  <2>2. rsv'[p] = r /\ Booked' = Booked
    BY <2>1 DEF IInv, TypeOK, Booked, db
  <2> QED
    BY <1>3, <2>1, <2>2 DEF IInv, FreshIds
<1>5. CASE ~StartCreate(p)
  BY <1>3, <1>5, OwnDraw DEF IInv, FreshIds
<1> QED
  BY <1>4, <1>5

--------------------------------------------------------------------------------
(* What is stored *)

LEMMA StoreUndisturbed ==
  ASSUME StoreSound, UNCHANGED <<clock, cancelledAt, booking, cancellation, releasedAt>>
  PROVE  StoreSound'
BY DEF StoreSound, UnbookedBlank, RecordedInPast, NoDoubleBooking, ClaimsFollowBooking,
       CancelledEventReleasesAll, OneBookingPerKey, Timeline, Booked, BookedFor, Active

LEMMA CreateStored ==
  ASSUME IInv, NEW p \in Requests, CommitCreate(p)
  PROVE  StoreSound'
<1> DEFINE e == evt[p]
           n == rsv[p]
           row == [event |-> evt[p], user |-> req[p].user, key |-> req[p].key,
                   seats |-> req[p].seats, createdAt |-> stamp[p]]
<1>1. /\ e \in Events /\ n \in Reservations /\ n \notin Booked /\ row \in BookingRow /\ row # NULL
      /\ stamp[p] \in Time /\ stamp[p] <= clock /\ stamp[p] < StartsAt[e]
      /\ cancelledAt[e] = NULL /\ cancellation[n] = NULL /\ \A s \in Seats : releasedAt[n][s] = NULL
  BY AtCommit, NullAssumption
     DEF CommitCreate, BookingRow, IInv, RequestSound, CreateChecked, StoreSound, UnbookedBlank
<1>2. /\ booking' = [booking EXCEPT ![n] = row]
      /\ UNCHANGED <<clock, cancelledAt, cancellation, releasedAt>>
  BY DEF CommitCreate
<1>3. /\ booking'[n] = row
      /\ \A r \in Reservations \ {n} : booking'[r] = booking[r]
      /\ Booked' = Booked \union {n}
  BY <1>1, <1>2 DEF Booked, IInv, TypeOK
<1>4. /\ Matching(req[p].user, e, req[p].key) = {}
      /\ req[p].seats \intersect Held(e) = {}
  BY <1>1, AtCommit DEF CommitCreate, IInv, RequestSound, CreateChecked
<1> HIDE DEF row, n, e
<1>5. row.event = e /\ row.user = req[p].user /\ row.key = req[p].key
      /\ row.seats = req[p].seats /\ row.createdAt = stamp[p]
  BY DEF row, e
<1>6. StoreSound
  BY DEF IInv
<1>7. UnbookedBlank' /\ RecordedInPast' /\ ClaimsFollowBooking'
  <2>1. UnbookedBlank' /\ RecordedInPast'
    BY <1>1, <1>2, <1>3, <1>5, <1>6 DEF StoreSound, UnbookedBlank, RecordedInPast, Booked
  <2>2. row.seats \subseteq Seats
    BY <1>1 DEF BookingRow, SeatSets
  <2>3. ClaimsFollowBooking'
    BY <1>1, <1>2, <1>3, <1>6, <2>2 DEF StoreSound, ClaimsFollowBooking, Booked
  <2> QED
    BY <2>1, <2>3
<1>8. NoDoubleBooking'
  <2>1. ASSUME NEW r \in BookedFor(e) \intersect Active PROVE booking[r].seats \intersect row.seats = {}
    <3>1. /\ booking[r].seats \subseteq Seats
          /\ \A s \in booking[r].seats : releasedAt[r][s] = NULL
      BY <1>6, <2>1 DEF IInv, TypeOK, BookingRow, SeatSets, StoreSound, ClaimsFollowBooking,
                        BookedFor, Booked, Active
    <3>2. booking[r].seats \subseteq Held(e)
      BY <2>1, <3>1 DEF Held
    <3> QED
      BY <1>4, <1>5, <3>2
  <2>2. ASSUME NEW f \in Events, NEW r1 \in (BookedFor(f) \intersect Active)',
               NEW r2 \in (BookedFor(f) \intersect Active)', r1 # r2
        PROVE  booking'[r1].seats \intersect booking'[r2].seats = {}
    <3>1. CASE r1 # n /\ r2 # n
      BY <1>2, <1>3, <1>6, <2>2, <3>1 DEF StoreSound, NoDoubleBooking, BookedFor, Booked, Active
    <3>2. CASE r1 = n
      <4>1. f = e /\ r2 \in BookedFor(e) \intersect Active /\ booking'[r2] = booking[r2]
        BY <1>2, <1>3, <1>5, <2>2, <3>2 DEF BookedFor, Booked, Active
      <4> QED
        BY <1>3, <2>1, <3>2, <4>1
    <3>3. CASE r2 = n
      <4>1. f = e /\ r1 \in BookedFor(e) \intersect Active /\ booking'[r1] = booking[r1]
        BY <1>2, <1>3, <1>5, <2>2, <3>3 DEF BookedFor, Booked, Active
      <4> QED
        BY <1>3, <2>1, <3>3, <4>1
    <3> QED
      BY <3>1, <3>2, <3>3
  <2> QED
    BY <2>2 DEF NoDoubleBooking
<1>9. CancelledEventReleasesAll'
  BY <1>1, <1>2, <1>3, <1>5, <1>6 DEF StoreSound, CancelledEventReleasesAll, BookedFor, Booked, Active
<1>10. OneBookingPerKey'
  BY <1>3, <1>4, <1>5, <1>6 DEF StoreSound, OneBookingPerKey, Matching, BookedFor, Booked
<1>11. Timeline'
  BY <1>1, <1>2, <1>3, <1>5, <1>6 DEF StoreSound, Timeline, Booked
<1> QED
  BY <1>7, <1>8, <1>9, <1>10, <1>11 DEF StoreSound

LEMMA CancelStored ==
  ASSUME IInv, NEW p \in Requests, CommitCancel(p)
  PROVE  StoreSound'
<1> DEFINE n == rsv[p]
           t == stamp[p]
           mark == [at |-> t, reason |-> "customer"]
<1>1. /\ n \in Booked /\ booking[n].event \in Events /\ cancellation[n] = NULL
      /\ t \in Time /\ t <= clock /\ t < StartsAt[booking[n].event] /\ booking[n].createdAt <= t
      /\ rows[p] = {n} /\ claims[p] = {n} \X booking[n].seats
  BY AtCommit DEF CommitCancel, IInv, RequestSound, CancelStaged, OwnClaims, BookedFor
<1>2. mark.at = t /\ mark.reason = "customer" /\ mark # NULL
  BY <1>1, CancellationRecords
<1>3. UNCHANGED <<clock, cancelledAt, booking>> /\ Booked' = Booked /\ StoreSound
  BY DEF CommitCancel, Booked, IInv
<1>4. cancellation'[n] = mark /\ \A r \in Reservations \ {n} : cancellation'[r] = cancellation[r]
  BY <1>1 DEF CommitCancel, Publish, Booked
<1>5. \A r \in Reservations, s \in Seats :
         releasedAt'[r][s] = IF r = n /\ s \in booking[n].seats THEN t ELSE releasedAt[r][s]
  BY <1>1 DEF CommitCancel, Publish
<1>6. Active' \subseteq Active
  BY <1>1, <1>2, <1>3, <1>4 DEF Active, Booked
<1>7. \A r \in Booked : booking[r].seats \subseteq Seats
  BY DEF IInv, TypeOK, BookingRow, SeatSets, Booked
<1> HIDE DEF n, t, mark
<1>8. UnbookedBlank' /\ RecordedInPast'
  BY <1>1, <1>2, <1>3, <1>4, <1>5 DEF StoreSound, UnbookedBlank, RecordedInPast, Booked
<1>9. NoDoubleBooking' /\ CancelledEventReleasesAll' /\ OneBookingPerKey'
  BY <1>3, <1>6 DEF StoreSound, NoDoubleBooking, CancelledEventReleasesAll, OneBookingPerKey, BookedFor
<1>10. ClaimsFollowBooking'
  BY <1>1, <1>2, <1>3, <1>4, <1>5, <1>7 DEF StoreSound, ClaimsFollowBooking, Booked
<1>11. Timeline'
  <2>1. cancelledAt[booking[n].event] = NULL
    BY <1>1, <1>3 DEF StoreSound, CancelledEventReleasesAll, BookedFor, Active
  <2> QED
    BY <1>1, <1>2, <1>3, <1>4, <2>1 DEF StoreSound, Timeline, Booked
<1> QED
  BY <1>8, <1>9, <1>10, <1>11 DEF StoreSound

LEMMA CancelEventStored ==
  ASSUME IInv, NEW p \in Requests, CommitCancelEvent(p)
  PROVE  StoreSound'
<1> DEFINE e == evt[p]
           t == stamp[p]
           mark == [at |-> t, reason |-> "event_cancelled"]
<1>1. /\ e \in Events /\ cancelledAt[e] = NULL
      /\ t \in Time /\ t <= clock /\ t < StartsAt[e]
      /\ \A r \in BookedFor(e) : /\ booking[r].createdAt <= t
                                 /\ cancellation[r] # NULL => cancellation[r].at <= t
      /\ rows[p] = OpenRows(e) /\ claims[p] = OpenClaims(e)
  BY AtCommit DEF CommitCancelEvent, IInv, RequestSound, CancelStaged
<1>2. mark.at = t /\ mark.reason = "event_cancelled" /\ mark # NULL
  BY <1>1, CancellationRecords
<1>3. UNCHANGED <<clock, booking>> /\ Booked' = Booked /\ StoreSound
  BY DEF CommitCancelEvent, Booked, IInv
<1>4. cancelledAt'[e] = t /\ \A f \in Events \ {e} : cancelledAt'[f] = cancelledAt[f]
  BY <1>1 DEF CommitCancelEvent, IInv, TypeOK
<1>5. \A r \in Reservations : cancellation'[r] = IF r \in OpenRows(e) THEN mark ELSE cancellation[r]
  BY <1>1 DEF CommitCancelEvent, Publish
<1>6. \A r \in Reservations, s \in Seats :
         releasedAt'[r][s] = IF /\ r \in BookedFor(e) /\ s \in booking[r].seats
                                /\ releasedAt[r][s] = NULL
                             THEN t ELSE releasedAt[r][s]
  BY <1>1 DEF CommitCancelEvent, Publish, OpenClaims
<1>7. /\ Active' \subseteq Active
      /\ \A r \in BookedFor(e) : cancellation'[r] # NULL
  BY <1>2, <1>3, <1>5 DEF Active, OpenRows, BookedFor, Booked
<1>8. \A r \in Booked : booking[r].seats \subseteq Seats /\ booking[r].event \in Events
  BY DEF IInv, TypeOK, BookingRow, SeatSets, Booked
<1>9. t # NULL /\ \A r \in Reservations : cancellation[r] # NULL => cancellation[r].at # NULL
  BY <1>1, NullAssumption DEF IInv, TypeOK, Cancellation
<1> HIDE DEF e, t, mark
<1>10. UnbookedBlank' /\ RecordedInPast'
  BY <1>1, <1>2, <1>3, <1>5, <1>6 DEF StoreSound, UnbookedBlank, RecordedInPast, OpenRows, BookedFor, Booked
<1>11. NoDoubleBooking' /\ OneBookingPerKey'
  BY <1>3, <1>7 DEF StoreSound, NoDoubleBooking, OneBookingPerKey, BookedFor
<1>12. CancelledEventReleasesAll'
  <2>1. ASSUME NEW f \in Events, cancelledAt'[f] # NULL PROVE (BookedFor(f) \intersect Active)' = {}
    <3>1. CASE f = e
      BY <1>3, <1>7, <3>1 DEF BookedFor, Active
    <3>2. CASE f # e
      BY <1>3, <1>4, <1>7, <2>1, <3>2 DEF StoreSound, CancelledEventReleasesAll, BookedFor
    <3> QED
      BY <3>1, <3>2
  <2> QED
    BY <2>1 DEF CancelledEventReleasesAll
<1>13. ClaimsFollowBooking'
  BY <1>2, <1>3, <1>5, <1>6, <1>8, <1>9
     DEF StoreSound, ClaimsFollowBooking, OpenRows, BookedFor, Booked
<1>14. Timeline'
  <2>1. ASSUME NEW r \in BookedFor(e)
        PROVE  /\ r \in Booked /\ booking[r].event = e
               /\ cancellation'[r] # NULL /\ cancellation'[r].at <= t
               /\ booking[r].createdAt <= cancellation'[r].at
               /\ cancellation'[r].at < StartsAt[e]
               /\ cancellation'[r].reason = "event_cancelled" => cancellation'[r].at = t
    <3>1. r \in Booked /\ r \in Reservations /\ booking[r].event = e /\ t <= t
      BY <1>1, SetAssumption DEF BookedFor, Booked, Time
    <3>2. CASE cancellation[r] = NULL
      BY <1>1, <1>2, <1>5, <3>1, <3>2 DEF OpenRows
    <3>3. CASE cancellation[r] # NULL
      BY <1>1, <1>3, <1>5, <1>9, <3>1, <3>3 DEF OpenRows, StoreSound, Timeline
    <3> QED
      BY <3>2, <3>3
  <2>2. ASSUME NEW r \in Booked, r \notin BookedFor(e)
        PROVE  cancellation'[r] = cancellation[r] /\ cancelledAt'[booking[r].event] = cancelledAt[booking[r].event]
    BY <1>4, <1>5, <1>8, <2>2 DEF OpenRows, BookedFor, Booked
  <2> QED
    BY <1>3, <1>4, <2>1, <2>2 DEF StoreSound, Timeline
<1> QED
  BY <1>10, <1>11, <1>12, <1>13, <1>14 DEF StoreSound

LEMMA StorePreserved ==
  ASSUME IInv, NEW p \in Requests, Step(p)
  PROVE  StoreSound'
<1>1. CASE ~Commit(p) \/ CommitEdit(p)
  BY <1>1, StoreUndisturbed, OnlyCommitsWrite, LocksOfOthers DEF IInv, CommitEdit, db
<1> QED
  BY <1>1, CreateStored, CancelStored, CancelEventStored DEF Commit

--------------------------------------------------------------------------------
(* The inductive invariant *)

LEMMA InitSound == Init => IInv
<1> SUFFICES ASSUME Init PROVE IInv
  OBVIOUS
<1>1. TypeOK
  BY SetAssumption DEF Init, TypeOK, Time, AnyEvent, Resting
<1>2. NoStrayLock /\ FreshIds
  BY DEF Init, NoStrayLock, FreshIds, Drawn
<1>3. ASSUME NEW p \in Requests PROVE RequestSound(p)
  BY DEF Init, RequestSound, HoldsLock, ArgumentsFit, CreateChecked, CancelStaged, ReplayJustified, EditChecked,
         Critical, Busy
<1>4. StoreSound
  BY DEF Init, StoreSound, UnbookedBlank, RecordedInPast, NoDoubleBooking, ClaimsFollowBooking,
         CancelledEventReleasesAll, OneBookingPerKey, Timeline, Booked, BookedFor, Active
<1> QED
  BY <1>1, <1>2, <1>3, <1>4 DEF IInv

LEMMA TickSound == IInv /\ Tick => IInv'
<1> SUFFICES ASSUME IInv, Tick PROVE IInv'
  OBVIOUS
<1>1. clock \in Nat /\ clock' = clock + 1 /\ UNCHANGED <<db, lock, pc, locals>> /\ clock' \in Time
  BY SetAssumption DEF Tick, IInv, TypeOK, Time
<1>2. UNCHANGED <<cancelledAt, details, booking, cancellation, releasedAt, lock, pc,
                  req, rsv, evt, seen, stamp, rows, claims>>
  BY <1>1 DEF db, locals
<1>3. TypeOK' /\ NoStrayLock' /\ FreshIds'
  BY <1>1, <1>2 DEF IInv, TypeOK, NoStrayLock, FreshIds, Drawn, Booked
<1>4. ASSUME NEW p \in Requests PROVE RequestSound(p)'
  <2>1. RequestSound(p)
    BY DEF IInv
  <2>2. stamp[p] \in Time /\ stamp[p] <= clock => stamp[p] <= clock'
    BY <1>1, SetAssumption DEF Time
  <2> QED
    BY <1>2, <2>1, <2>2
       DEF RequestSound, HoldsLock, ArgumentsFit, CreateChecked, CancelStaged, ReplayJustified, EditChecked,
           Matching, Held, OwnClaims, OpenRows, OpenClaims, BookedFor, Booked
<1>5. StoreSound'
  <2>1. RecordedInPast'
    BY <1>1, <1>2, SetAssumption
       DEF IInv, TypeOK, StoreSound, RecordedInPast, Booked, BookingRow, Cancellation, Time
  <2> QED
    BY <1>2, <2>1
       DEF IInv, StoreSound, UnbookedBlank, NoDoubleBooking, ClaimsFollowBooking,
           CancelledEventReleasesAll, OneBookingPerKey, Timeline, Booked, BookedFor, Active
<1> QED
  BY <1>3, <1>4, <1>5 DEF IInv

LEMMA StutterSound == IInv /\ UNCHANGED vars => IInv'
<1> SUFFICES ASSUME IInv, UNCHANGED vars PROVE IInv'
  OBVIOUS
<1> USE DEF vars, db, locals
<1>1. TypeOK' /\ NoStrayLock' /\ FreshIds'
  BY DEF IInv, TypeOK, NoStrayLock, FreshIds, Drawn, Booked
<1>2. ASSUME NEW p \in Requests PROVE RequestSound(p)'
  BY DEF IInv, RequestSound, HoldsLock, ArgumentsFit, CreateChecked, CancelStaged, ReplayJustified, EditChecked,
         Matching, Held, OwnClaims, OpenRows, OpenClaims, BookedFor, Booked
<1>3. StoreSound'
  BY StoreUndisturbed DEF IInv
<1> QED
  BY <1>1, <1>2, <1>3 DEF IInv

\* What concurrent requests rely on holds at all times: the invariant that the
\* runs check as IInv, preserved by every step of every request.
THEOREM Invariance == Spec => []IInv
<1>1. ASSUME IInv, NEW p \in Requests, Step(p) PROVE IInv'
  BY <1>1, TypePreserved, NoStrayLockPreserved, FreshIdsPreserved, AllSound, StorePreserved DEF IInv
<1>2. IInv /\ [Next]_vars => IInv'
  BY <1>1, TickSound, StutterSound DEF Next, Step
<1> QED
  BY InitSound, <1>2, PTL DEF Spec

--------------------------------------------------------------------------------
(* Safety *)

\* Every variable keeps its type.
THEOREM TypeCorrect == Spec => []TypeOK
BY Invariance, PTL DEF IInv

\* However many requests compete, no seat of an event is in force twice.
THEOREM NoSeatSoldTwice == Spec => []NoDoubleBooking
BY Invariance, PTL DEF IInv, StoreSound

\* A booking's claims are all held until it is cancelled, and then all released
\* at the time of its cancellation.
THEOREM ClaimsConsistent == Spec => []ClaimsFollowBooking
BY Invariance, PTL DEF IInv, StoreSound

\* Cancelling an event ends every booking of it, those being made meanwhile too.
THEOREM CancellationComplete == Spec => []CancelledEventReleasesAll
BY Invariance, PTL DEF IInv, StoreSound

\* Retries of one creation request never book twice.
THEOREM RetriesBookOnce == Spec => []OneBookingPerKey
BY Invariance, PTL DEF IInv, StoreSound

\* Recorded times are in order and precede the event's start.
THEOREM TimesInOrder == Spec => []Timeline
BY Invariance, PTL DEF IInv, StoreSound

\* The checks made under the event lock make the unique indexes a second line of
\* defence that is never reached.
THEOREM LockMakesChecksConclusive == Spec => []IntegrityErrorUnreachable
<1>1. IInv => IntegrityErrorUnreachable
  BY NullAssumption DEF IInv, RequestSound, CreateChecked, ArgumentsFit, IntegrityErrorUnreachable,
                        Critical, Busy
<1> QED
  BY <1>1, Invariance, PTL

\* No step overwrites or removes a recorded booking, cancellation or release.
THEOREM HistoryKept == Spec => HistoryPermanent
<1> DEFINE Kept ==
      /\ \A r \in Booked : booking'[r] = booking[r]
      /\ \A r \in Reservations : cancellation[r] # NULL => cancellation'[r] = cancellation[r]
      /\ \A e \in Events : cancelledAt[e] # NULL => cancelledAt'[e] = cancelledAt[e]
      /\ \A r \in Reservations, s \in Seats :
            releasedAt[r][s] # NULL => releasedAt'[r][s] = releasedAt[r][s]
<1>1. ASSUME IInv, NEW p \in Requests, Step(p) PROVE Kept
  <2>1. CASE UNCHANGED <<cancelledAt, booking, cancellation, releasedAt>>
    BY <2>1
  <2>2. CASE CommitCreate(p)
    BY <1>1, <2>2, RowsKept DEF CommitCreate
  <2>3. CASE CommitCancel(p)
    <3>1. /\ rsv[p] \in Booked /\ cancellation[rsv[p]] = NULL
          /\ rows[p] = {rsv[p]} /\ claims[p] = {rsv[p]} \X booking[rsv[p]].seats
      BY <1>1, <2>3, AtCommit DEF CommitCancel, IInv, RequestSound, CancelStaged, OwnClaims, BookedFor
    <3>2. \A s \in booking[rsv[p]].seats : releasedAt[rsv[p]][s] = NULL
      BY <1>1, <3>1 DEF IInv, StoreSound, ClaimsFollowBooking
    <3> QED
      BY <2>3, <3>1, <3>2 DEF CommitCancel, Publish, Booked
  <2>4. CASE CommitCancelEvent(p)
    <3>1. /\ evt[p] \in Events /\ cancelledAt[evt[p]] = NULL
          /\ rows[p] = OpenRows(evt[p]) /\ claims[p] = OpenClaims(evt[p])
      BY <1>1, <2>4, AtCommit DEF CommitCancelEvent, IInv, RequestSound, CancelStaged
    <3> QED
      BY <1>1, <2>4, <3>1 DEF CommitCancelEvent, Publish, OpenRows, OpenClaims, Booked, IInv, TypeOK
  <2> QED
    BY <1>1, <2>1, <2>2, <2>3, <2>4, OnlyCommitsWrite DEF Commit, CommitEdit, db
<1>2. IInv /\ [Next]_vars => [Kept]_vars
  BY <1>1 DEF Next, Step, Tick, db
<1> QED
  BY <1>2, Invariance, PTL DEF Spec, HistoryPermanent

\* A cancelled event is never booked or edited again.
THEOREM CancelledStaysFrozen == Spec => CancelledEventFrozen
<1> DEFINE Frozen == \A e \in Events : cancelledAt[e] # NULL =>
             /\ details'[e] = details[e]
             /\ \A r \in Reservations : booking'[r] # booking[r] => booking'[r].event # e
<1>1. ASSUME IInv, NEW p \in Requests, Step(p) PROVE Frozen
  <2>1. CASE UNCHANGED <<details, booking>>
    BY <2>1
  <2>2. CASE CommitCreate(p)
    <3>1. cancelledAt[evt[p]] = NULL /\ rsv[p] \in Reservations
      BY <1>1, <2>2, AtCommit DEF CommitCreate, IInv, RequestSound, CreateChecked
    <3> QED
      BY <1>1, <2>2, <3>1 DEF CommitCreate, IInv, TypeOK
  <2>3. CASE CommitEdit(p)
    <3>1. cancelledAt[evt[p]] = NULL
      BY <1>1, <2>3, AtCommit DEF CommitEdit, IInv, RequestSound, EditChecked
    <3> QED
      BY <1>1, <2>3, <3>1 DEF CommitEdit, IInv, TypeOK
  <2> QED
    BY <1>1, <2>1, <2>2, <2>3, OnlyCommitsWrite DEF Commit, CommitCancel, CommitCancelEvent, db
<1>2. IInv /\ [Next]_vars => [Frozen]_vars
  BY <1>1 DEF Next, Step, Tick, db
<1> QED
  BY <1>2, Invariance, PTL DEF Spec, CancelledEventFrozen

\* A success is reported only of what is stored.
THEOREM SuccessIsStored == Spec => AcknowledgedIsStored
<1> DEFINE Stored(p) == pc[p] \in Busy /\ pc'[p] = "ok" =>
      LET q == req[p]
      IN  /\ q.op = "create" => LET b == booking'[rsv[p]]
                                IN  /\ <<b.user, b.event, b.key>> = <<q.user, q.event, q.key>>
                                    /\ b.seats = q.seats
          /\ q.op = "cancel" => /\ cancellation'[q.reservation] # NULL
                                /\ \A s \in booking[q.reservation].seats :
                                      releasedAt'[q.reservation][s] # NULL
          /\ q.op = "cancel_event" => cancelledAt'[q.event] # NULL
<1>1. ASSUME IInv, NEW p \in Requests, Step(p) PROVE Stored(p)
  <2> SUFFICES ASSUME pc[p] \in Busy, pc'[p] = "ok" PROVE Stored(p)
    OBVIOUS
  <2>0. TypeOK /\ RequestSound(p) /\ ArgumentsFit(p)
    BY <1>1 DEF IInv, RequestSound
  <2>1. CASE CommitCreate(p)
    <3>1. rsv[p] \in Reservations /\ evt[p] = req[p].event
      BY <1>1, <2>0, <2>1, AtCommit DEF CommitCreate, ArgumentsFit, Busy
    <3> QED
      BY <2>0, <2>1, <3>1 DEF CommitCreate, TypeOK
  <2>2. CASE CommitCancel(p)
    <3>1. /\ rsv[p] \in Booked /\ rsv[p] = req[p].reservation /\ stamp[p] \in Time
          /\ rows[p] = {rsv[p]} /\ claims[p] = {rsv[p]} \X booking[rsv[p]].seats
      BY <1>1, <2>0, <2>2, AtCommit
         DEF CommitCancel, RequestSound, CancelStaged, ArgumentsFit, OwnClaims, BookedFor, Busy
    <3>2. booking[rsv[p]].seats \subseteq Seats
      BY <2>0, <3>1 DEF TypeOK, Booked, BookingRow, SeatSets
    <3> QED
      BY <2>2, <3>1, <3>2, CancellationRecords, NullAssumption DEF CommitCancel, Publish, Booked
  <2>3. CASE CommitNothing(p) /\ req[p].op = "create"
    BY <2>0, <2>3 DEF CommitNothing, RequestSound, ReplayJustified, ArgumentsFit, Matching, BookedFor, db
  <2>4. CASE CommitNothing(p) /\ req[p].op = "cancel"
    <3>1. /\ rsv[p] \in Booked /\ rsv[p] = req[p].reservation /\ cancellation[rsv[p]] # NULL
          /\ UNCHANGED <<cancellation, releasedAt>>
      BY <2>0, <2>4 DEF CommitNothing, RequestSound, ReplayJustified, ArgumentsFit, BookedFor, db, Busy
    <3>2. cancellation[rsv[p]].at # NULL
      BY <2>0, <3>1, NullAssumption DEF TypeOK, Booked, Cancellation
    <3> QED
      BY <1>1, <2>4, <3>1, <3>2 DEF IInv, StoreSound, ClaimsFollowBooking
  <2>5. CASE RefreshEvent(p)
    BY <2>0, <2>5 DEF RefreshEvent, RequestSound, ReplayJustified, ArgumentsFit, db
  <2>6. CASE CommitNothing(p) /\ req[p].op \notin {"create", "cancel", "cancel_event"}
    BY <2>6
  <2>7. CASE Reread(p) \/ Answer(p, "failed") \/ Refuse(p)
    BY <2>0, <2>7 DEF Reread, Refuse, Answer, Goto, TypeOK
  <2>8. CASE \E label \in Busy : Goto(p, label)
    BY <2>0, <2>8 DEF Goto, TypeOK, Busy, Critical
  <2>9. CASE Arrive(p)
    BY <2>8, <2>9 DEF Arrive, StartCreate, StartCancel, StartCancelEvent, StartEdit, Start,
                      Connect, Busy, Critical, Resting
  <2>10. CASE FindBooking(p) \/ LockEvent(p) \/ EventMissing(p)
    BY <2>7, <2>8, <2>10 DEF FindBooking, LockEvent, EventMissing, Busy, Critical
  <2>11. CASE CreateCheckRetry(p) \/ CreateCheckSeats(p) \/ CreateInsert(p)
    BY <2>7, <2>8, <2>11 DEF CreateCheckRetry, CreateCheckSeats, CreateInsert, Busy, Critical
  <2>12. CASE CancelDecide(p) \/ CancelEventDecide(p) \/ EditDecide(p)
    BY <2>7, <2>8, <2>12 DEF CancelDecide, CancelEventDecide, EditDecide, Stage, Busy, Critical
  <2>13. CASE CommitCancelEvent(p) \/ CommitEdit(p) \/ Fail(p)
    BY <2>7, <2>13 DEF CommitCancelEvent, CommitEdit, Fail
  <2>14. CASE CommitNothing(p) /\ req[p].op = "cancel_event"
    BY <2>7, <2>14 DEF CommitNothing
  <2> QED
    BY <1>1, <2>1, <2>2, <2>3, <2>4, <2>5, <2>6, <2>9, <2>10, <2>11, <2>12, <2>13, <2>14
       DEF Step, Work
<1>2. IInv /\ [Next]_vars => [\A p \in Requests : Stored(p)]_vars
  <2>1. ASSUME IInv, Tick, NEW p \in Requests PROVE Stored(p)
    BY <2>1 DEF Tick, Busy, Critical
  <2>2. ASSUME IInv, NEW o \in Requests, Step(o), NEW p \in Requests PROVE Stored(p)
    <3>1. CASE p = o
      BY <1>1, <2>2, <3>1
    <3>2. CASE p # o
      <4>1. pc'[p] = pc[p]
        BY <2>2, <3>2, OthersUntouched DEF IInv, Untouched
      <4> QED
        BY <4>1 DEF Busy, Critical
    <3> QED
      BY <3>1, <3>2
  <2> QED
    BY <2>1, <2>2 DEF Next, Step
<1> QED
  BY <1>2, Invariance, PTL DEF Spec, AcknowledgedIsStored

--------------------------------------------------------------------------------
(* Refinement *)

\* The abstract state a state of Booking stands for.
EntryOf(r) == [id |-> r, user |-> booking[r].user, event |-> booking[r].event,
               key |-> booking[r].key, seats |-> booking[r].seats]
Entries == {EntryOf(r) : r \in Booked}
ClosedEvents == {e \in Events : cancelledAt[e] # NULL}

\* With the claims of a booking following it, what the ledger calls taken is
\* what an unreleased claim holds.
LEMMA TakenIsHeld ==
  ASSUME TypeOK, ClaimsFollowBooking, NEW e \in Events
  PROVE  Ledger!Taken(e) = Held(e)
<1>1. ASSUME NEW s \in Held(e) PROVE s \in Ledger!Taken(e)
  <2>1. PICK r \in BookedFor(e) : s \in booking[r].seats /\ releasedAt[r][s] = NULL
    BY <1>1 DEF Held
  <2>2. r \in Active
    <3>1. cancellation[r] # NULL => cancellation[r].at \in Time
      BY <2>1 DEF TypeOK, BookedFor, Booked, Cancellation
    <3> QED
      BY <2>1, <3>1, NullAssumption DEF ClaimsFollowBooking, BookedFor, Active
  <2> DEFINE InForce == {x \in Entries : x.event = e /\ x.id \in Active}
  <2>3. EntryOf(r) \in InForce
    <3>1. EntryOf(r) \in Entries
      BY <2>1 DEF Entries, BookedFor
    <3>2. EntryOf(r).event = e /\ EntryOf(r).id = r
      BY <2>1 DEF EntryOf, BookedFor
    <3> QED
      BY <2>2, <3>1, <3>2
  <2>4. s \in EntryOf(r).seats
    BY <2>1 DEF EntryOf
  <2>5. s \in UNION {b.seats : b \in InForce}
    BY <2>3, <2>4
  <2>6. Ledger!Taken(e) = UNION {b.seats : b \in InForce}
    BY DEF Ledger!Taken, Entries, EntryOf
  <2> QED
    BY <2>5, <2>6
<1>2. ASSUME NEW s \in Ledger!Taken(e) PROVE s \in Held(e)
  <2>1. PICK r \in Booked : booking[r].event = e /\ r \in Active /\ s \in booking[r].seats
    BY <1>2 DEF Ledger!Taken
  <2> QED
    BY <2>1 DEF Held, BookedFor, Active, ClaimsFollowBooking, TypeOK, BookingRow, SeatSets, Booked
<1> QED
  BY <1>1, <1>2

\* Without a change of these the ledger stutters.
LEMMA LedgerStutters ==
  ASSUME UNCHANGED <<booking, cancellation, cancelledAt>>
  PROVE  UNCHANGED Ledger!ledger
BY DEF Ledger!ledger, Booked, Active

LEMMA CreateIsBook ==
  ASSUME IInv, NEW p \in Requests, CommitCreate(p)
  PROVE  Ledger!LedgerNext
<1> DEFINE e == evt[p]
           q == req[p]
<1>0. PICK r \in Reservations : r = rsv[p]
  BY AtCommit DEF CommitCreate
<1>1. /\ r \in Reservations \ Booked /\ e \in Events /\ cancelledAt[e] = NULL
      /\ q.user \in Users /\ q.key \in Keys /\ q.seats \in SeatSets /\ stamp[p] \in Time
      /\ q.seats \subseteq Members[e] /\ q.seats \intersect Held(e) = {}
      /\ Matching(q.user, e, q.key) = {}
  BY <1>0, AtCommit DEF CommitCreate, IInv, RequestSound, CreateChecked
<1>2. /\ booking'[r] = [event |-> e, user |-> q.user, key |-> q.key, seats |-> q.seats,
                        createdAt |-> stamp[p]]
      /\ booking'[r] # NULL
      /\ \A x \in Reservations \ {r} : booking'[x] = booking[x]
      /\ UNCHANGED <<cancellation, cancelledAt>>
  BY <1>0, <1>1, NullAssumption DEF CommitCreate, IInv, TypeOK, BookingRow
<1>3. PICK b \in Ledger!Entry :
        b = [id |-> r, user |-> q.user, event |-> e, key |-> q.key, seats |-> q.seats]
  BY <1>1 DEF Ledger!Entry, SeatSets
<1>4. Booked' = Booked \union {r}
  BY <1>1, <1>2 DEF Booked
<1>5. Entries' = Entries \union {b}
  <2> DEFINE Later(x) == [id |-> x, user |-> booking'[x].user, event |-> booking'[x].event,
                          key |-> booking'[x].key, seats |-> booking'[x].seats]
  <2>1. \A x \in Booked : Later(x) = EntryOf(x)
    BY <1>1, <1>2 DEF EntryOf, Booked
  <2>2. Later(r) = b
    BY <1>2, <1>3
  <2>3. Entries' = {Later(x) : x \in Booked \union {r}}
    BY <1>4 DEF Entries, EntryOf
  <2> HIDE DEF Later
  <2> QED
    BY <2>1, <2>2, <2>3 DEF Entries
<1>6. Active' = Active \union {r} /\ ClosedEvents' = ClosedEvents
  BY <1>1, <1>2, <1>4 DEF Active, ClosedEvents, IInv, StoreSound, UnbookedBlank
<1>7. b.seats # {}
  BY <1>1, <1>3 DEF SeatSets
<1>8. b.seats \subseteq Ledger!FreeSeats(b.event)
  <2>1. Ledger!Taken(e) = Held(e)
    BY <1>1, TakenIsHeld DEF IInv, StoreSound
  <2> QED
    BY <1>1, <1>3, <2>1 DEF Ledger!FreeSeats
<1>9. \A x \in Entries : /\ x.id # b.id
                         /\ <<x.user, x.event, x.key>> # <<b.user, b.event, b.key>>
  BY <1>1, <1>3 DEF Entries, EntryOf, Matching, BookedFor
<1>10. Ledger!Book(b)
  BY <1>3, <1>5, <1>6, <1>7, <1>8, <1>9 DEF Ledger!Book, Entries, EntryOf, ClosedEvents
<1> QED
  BY <1>10 DEF Ledger!LedgerNext

LEMMA CancelIsWithdraw ==
  ASSUME IInv, NEW p \in Requests, CommitCancel(p)
  PROVE  Ledger!LedgerNext
<1>0. PICK r \in Reservations : r = rsv[p]
  BY AtCommit DEF CommitCancel, BookedFor, Booked
<1>1. r \in Booked /\ cancellation[r] = NULL /\ rows[p] = {r} /\ stamp[p] \in Time
  BY <1>0, AtCommit DEF CommitCancel, IInv, RequestSound, CancelStaged, BookedFor
<1>2. /\ UNCHANGED <<booking, cancelledAt>>
      /\ cancellation'[r] # NULL
      /\ \A x \in Reservations \ {r} : cancellation'[x] = cancellation[x]
  BY <1>1, CancellationRecords DEF CommitCancel, Publish, Booked
<1>3. r \in Active /\ Active' = Active \ {r}
  BY <1>1, <1>2 DEF Active, Booked
<1>4. Ledger!Withdraw(r)
  BY <1>2, <1>3 DEF Ledger!Withdraw, Booked
<1> QED
  BY <1>4 DEF Ledger!LedgerNext

LEMMA CancelEventIsClose ==
  ASSUME IInv, NEW p \in Requests, CommitCancelEvent(p)
  PROVE  Ledger!LedgerNext
<1>0. PICK e \in Events : e = evt[p]
  BY AtCommit DEF CommitCancelEvent
<1>1. /\ cancelledAt[e] = NULL /\ rows[p] = OpenRows(e)
      /\ stamp[p] \in Time /\ stamp[p] # NULL
  BY <1>0, AtCommit, NullAssumption DEF CommitCancelEvent, IInv, RequestSound, CancelStaged
<1>2. /\ UNCHANGED booking
      /\ \A f \in Events : cancelledAt'[f] = IF f = e THEN stamp[p] ELSE cancelledAt[f]
      /\ \A x \in OpenRows(e) : cancellation'[x] # NULL
      /\ \A x \in Reservations \ OpenRows(e) : cancellation'[x] = cancellation[x]
  BY <1>0, <1>1, CancellationRecords
     DEF CommitCancelEvent, Publish, OpenRows, BookedFor, Booked, IInv, TypeOK
<1> DEFINE OfEvent == {x.id : x \in {y \in Entries : y.event = e}}
<1>3. OfEvent = BookedFor(e)
  <2>1. ASSUME NEW r \in BookedFor(e) PROVE r \in OfEvent
    <3>1. EntryOf(r) \in Entries /\ EntryOf(r).event = e /\ EntryOf(r).id = r
      BY DEF Entries, EntryOf, BookedFor
    <3> QED
      BY <3>1
  <2>2. ASSUME NEW r \in OfEvent PROVE r \in BookedFor(e)
    BY DEF Entries, EntryOf, BookedFor
  <2> QED
    BY <2>1, <2>2
<1>4. Active' = Active \ BookedFor(e)
  BY <1>2 DEF Active, Booked, BookedFor, OpenRows
<1>5. ClosedEvents' = ClosedEvents \union {e} /\ e \notin ClosedEvents
  BY <1>1, <1>2 DEF ClosedEvents
<1>6. Entries' = Entries
  BY <1>2 DEF Entries, EntryOf, Booked
<1>7. Ledger!Close(e)
  BY <1>3, <1>4, <1>5, <1>6 DEF Ledger!Close, Entries, EntryOf, ClosedEvents
<1> QED
  BY <1>7 DEF Ledger!LedgerNext

\* Each operation takes effect at its commit, all at once: locks, staged writes,
\* rollbacks and lost answers cannot be told from outside.
THEOREM Refinement == Spec => ImplementsLedger
<1>1. Init => Ledger!LedgerInit
  BY DEF Init, Ledger!LedgerInit, Booked, Active
<1>2. ASSUME IInv, NEW p \in Requests, Step(p)
      PROVE  Ledger!LedgerNext \/ UNCHANGED Ledger!ledger
  <2>1. CASE ~Commit(p) \/ CommitEdit(p)
    <3>1. UNCHANGED <<booking, cancellation, cancelledAt>>
      BY <1>2, <2>1, OnlyCommitsWrite DEF CommitEdit, db
    <3> QED
      BY <3>1, LedgerStutters
  <2> QED
    BY <1>2, <2>1, CreateIsBook, CancelIsWithdraw, CancelEventIsClose DEF Commit
<1>3. IInv /\ [Next]_vars => [Ledger!LedgerNext]_(Ledger!ledger)
  <2>1. ASSUME UNCHANGED <<booking, cancellation, cancelledAt>> PROVE UNCHANGED Ledger!ledger
    BY <2>1, LedgerStutters
  <2>2. Tick \/ UNCHANGED vars => UNCHANGED <<booking, cancellation, cancelledAt>>
    BY DEF Tick, vars, db
  <2> QED
    BY <1>2, <2>1, <2>2 DEF Next, Step
<1> QED
  BY <1>1, <1>3, Invariance, PTL DEF Spec, ImplementsLedger, Ledger!LedgerSpec
================================================================================

------------------------------ MODULE SeatLedger ------------------------------
(***************************************************************************)
(* What the booking service promises, with nothing said of how: a ledger   *)
(* of seat bookings in which every operation takes effect at once.  A      *)
(* booking is a permanent entry; it is in force until its customer         *)
(* withdraws it or its event is closed.  Module Booking, with its row      *)
(* locks, staged writes, rollbacks and lost replies, implements this one.  *)
(***************************************************************************)
CONSTANTS Reservations,  \* identifiers of bookings
          Users, Events, Seats,
          Keys,          \* idempotency keys
          Members        \* Members[e]: the seats event e was created with

VARIABLES bookings,      \* every booking ever made
          inForce,       \* the identifiers of those that hold their seats
          closed         \* the cancelled events

ledger == <<bookings, inForce, closed>>

Entry == [id : Reservations, user : Users, event : Events, key : Keys,
          seats : SUBSET Seats]

LedgerTypeOK == /\ bookings \subseteq Entry
                /\ inForce \subseteq Reservations
                /\ closed \subseteq Events

Taken(e) == UNION {b.seats : b \in {x \in bookings : x.event = e /\ x.id \in inForce}}

FreeSeats(e) == IF e \in closed THEN {} ELSE Members[e] \ Taken(e)

LedgerInit == bookings = {} /\ inForce = {} /\ closed = {}

\* All the seats asked for, or none; one entry for each user, event and key.
Book(b) == /\ b.seats # {}
           /\ b.seats \subseteq FreeSeats(b.event)
           /\ \A x \in bookings : /\ x.id # b.id
                                  /\ <<x.user, x.event, x.key>> # <<b.user, b.event, b.key>>
           /\ bookings' = bookings \union {b}
           /\ inForce' = inForce \union {b.id}
           /\ UNCHANGED closed

Withdraw(r) == /\ r \in inForce
               /\ inForce' = inForce \ {r}
               /\ UNCHANGED <<bookings, closed>>

Close(e) == /\ e \notin closed
            /\ closed' = closed \union {e}
            /\ inForce' = inForce \ {b.id : b \in {x \in bookings : x.event = e}}
            /\ UNCHANGED bookings

LedgerNext == \/ \E b \in Entry : Book(b)
              \/ \E r \in Reservations : Withdraw(r)
              \/ \E e \in Events : Close(e)

LedgerSpec == LedgerInit /\ [][LedgerNext]_ledger
===============================================================================

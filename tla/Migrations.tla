------------------------------ MODULE Migrations ------------------------------
(***************************************************************************)
(* The schema revisions 0001 to 0009 (alembic/versions), run upwards and   *)
(* downwards over a database in use, as alembic/env.py runs them: all the  *)
(* revisions of one command in one transaction.                            *)
(*                                                                         *)
(* A revision is a guard, read by a statement of its own, and then the     *)
(* changes of the tables.  The first change locks the tables against the   *)
(* service until the end of the transaction; until then the service, of    *)
(* the release that fits the committed revision, goes on committing.  What *)
(* it commits between a guard and the lock, the gap, no guard has seen.    *)
(*                                                                         *)
(* The data are what guards, constraints and dropped columns tell apart:   *)
(* events, and bookings of one seat each together with their claim.  A     *)
(* column that a revision lacks has the value it would be added with.      *)
(*                                                                         *)
(* Limits.  Releases before the present one are taken to do what their     *)
(* schema has columns for.  Accounts, venues, seats and grants, which have *)
(* neither guard nor backfill, are left out.  A transaction that has made  *)
(* its first change keeps the service off all tables, not only those it    *)
(* has changed.                                                            *)
(***************************************************************************)
EXTENDS Integers, FiniteSets

CONSTANTS Events, Seats, Bookings, NULL

ASSUME NullAssumption == NULL \notin {"customer", "event_cancelled"}

Head == 9

VARIABLES
  rev,        \* the committed revision
  db,         \* the committed rows
  migration,  \* the command under way
  recorded    \* the cancellations on record, but those erased in a gap

vars == <<rev, db, migration, recorded>>

Reasons == {"customer", "event_cancelled"}
Booking == [id : Bookings, event : Events, seat : Seats, cancelled : BOOLEAN,
            reason : Reasons \union {NULL}, released : BOOLEAN]
Database == [events : SUBSET Events, off : SUBSET Events, bookings : SUBSET Booking]
Record == [of : Events \union Bookings, why : Reasons]

Command == [goal : 0..Head, at : 0..Head, checked : BOOLEAN, locked : BOOLEAN,
            work : Database, disturbed : BOOLEAN, gap : SUBSET Record]

Empty == [events |-> {}, off |-> {}, bookings |-> {}]

Init == rev = 0 /\ db = Empty /\ migration = NULL /\ recorded = {}

--------------------------------------------------------------------------------
(* The revisions *)

SeatsDistinct(claims) == \A b, c \in claims : <<b.event, b.seat>> = <<c.event, c.seat>> => b = c

\* The constraints of revision r.
Admits(r, d) ==
  /\ r < 1 => d.events = {}
  /\ r < 7 => d.bookings = {}
  /\ r = 7 => SeatsDistinct(d.bookings)
  /\ r >= 8 => SeatsDistinct({b \in d.bookings : ~b.released})
  /\ r < 8 => \A b \in d.bookings : ~b.cancelled /\ ~b.released
  /\ r < 9 => d.off = {} /\ \A b \in d.bookings : b.reason = NULL
  /\ r >= 9 => \A b \in d.bookings : b.cancelled <=> b.reason # NULL

\* Mutant: revision 0008 is left whatever has been cancelled.
OnlyEventGuard(r, d) ==
  r = 9 => d.off = {} /\ \A b \in d.bookings : b.reason # "event_cancelled"

\* What the guard of the downgrade from revision r lets pass.
DownGuard(r, d) ==
  /\ r = 9 => d.off = {} /\ \A b \in d.bookings : b.reason # "event_cancelled"
  /\ r = 8 => \A b \in d.bookings : ~b.released /\ ~b.cancelled

UpGuard(r, d) == r = 6 => d.events = {}

\* Mutant: the reasons of earlier cancellations are not filled in.
NoBackfill(bs) == bs

Backfill(bs) == {IF b.cancelled THEN [b EXCEPT !.reason = "customer"] ELSE b : b \in bs}

\* 0003 deletes the ownerless events; the others add what they add empty.
Up(r, d) == CASE r = 3 -> [d EXCEPT !.events = {}]
              [] r = 9 -> [d EXCEPT !.bookings = Backfill(@)]
              [] OTHER -> d

\* Dropped columns and tables; 0006 keeps the events, with their venue's name.
Down(r, d) ==
  CASE r = 9 -> [d EXCEPT !.off = {}, !.bookings = {[b EXCEPT !.reason = NULL] : b \in @}]
    [] r = 8 -> [d EXCEPT !.bookings = {[b EXCEPT !.cancelled = FALSE, !.released = FALSE] : b \in @}]
    [] r = 7 -> [d EXCEPT !.bookings = {}]
    [] r = 1 -> [d EXCEPT !.events = {}]
    [] OTHER -> d

--------------------------------------------------------------------------------
(* The command *)

Rising(m) == m.goal > m.at
Target(m) == IF Rising(m) THEN m.at + 1 ELSE m.at - 1
Rows(m) == IF m.locked THEN m.work ELSE db
Changed(m) == IF Rising(m) THEN Up(m.at + 1, Rows(m)) ELSE Down(m.at, Rows(m))

\* Also: a column NOT NULL without a default can be added to an empty table only.
Fits(m) == /\ Admits(Target(m), Changed(m))
           /\ Rising(m) /\ Target(m) = 6 => Rows(m).events = {}

Begin(goal) == /\ migration = NULL /\ goal # rev
               /\ migration' = [goal |-> goal, at |-> rev, checked |-> FALSE, locked |-> FALSE,
                                work |-> Empty, disturbed |-> FALSE, gap |-> {}]
               /\ UNCHANGED <<rev, db, recorded>>

Passes(m) == IF Rising(m) THEN UpGuard(m.at + 1, Rows(m)) ELSE DownGuard(m.at, Rows(m))

\* RAISE EXCEPTION rolls everything back.
Guard == /\ migration # NULL /\ migration.at # migration.goal /\ ~migration.checked
         /\ migration' = IF Passes(migration) THEN [migration EXCEPT !.checked = TRUE, !.disturbed = FALSE]
                         ELSE NULL
         /\ UNCHANGED <<rev, db, recorded>>

\* A violated constraint rolls everything back as well.
Alter == /\ migration # NULL /\ migration.checked
         /\ migration' = IF Fits(migration)
                         THEN [migration EXCEPT !.at = Target(migration), !.work = Changed(migration),
                                                !.locked = TRUE, !.checked = FALSE]
                         ELSE NULL
         /\ UNCHANGED <<rev, db, recorded>>

Commit == /\ migration # NULL /\ migration.at = migration.goal
          /\ rev' = migration.goal /\ db' = migration.work
          /\ recorded' = recorded \ migration.gap
          /\ migration' = NULL

\* A crash, a lost connection, the victim of a deadlock with the service.
Abort == /\ migration # NULL
         /\ migration' = NULL
         /\ UNCHANGED <<rev, db, recorded>>

--------------------------------------------------------------------------------
(* The service *)

\* One transaction of the service; unseen are cancellations that the guard of a
\* downgrade would have refused.
Serve(d, records, unseen) ==
  /\ migration # NULL => ~migration.locked
  /\ db' = d
  /\ recorded' = recorded \union records
  /\ migration' = IF migration # NULL /\ migration.checked
                  THEN [migration EXCEPT !.disturbed = TRUE,
                                         !.gap = IF Rising(migration) THEN @ ELSE @ \union unseen]
                  ELSE migration
  /\ UNCHANGED rev

CreateEvent(e) == /\ rev >= 1 /\ e \notin db.events
                  /\ Serve([db EXCEPT !.events = @ \union {e}], {}, {})

Book(r, e, s) ==
  /\ rev >= 7 /\ e \in db.events \ db.off
  /\ \A b \in db.bookings : b.id # r /\ (<<b.event, b.seat>> = <<e, s>> => b.released)
  /\ Serve([db EXCEPT !.bookings = @ \union
              {[id |-> r, event |-> e, seat |-> s, cancelled |-> FALSE, reason |-> NULL,
                released |-> FALSE]}], {}, {})

\* Mutant: the booking is marked cancelled, with no reason.
NoReason(b, why) == [b EXCEPT !.cancelled = TRUE, !.released = TRUE]

Withdrawn(b, why) == [b EXCEPT !.cancelled = TRUE, !.released = TRUE,
                               !.reason = IF rev >= 9 THEN why ELSE NULL]

CancelBooking(b) ==
  /\ rev >= 8 /\ ~b.cancelled
  /\ LET records == {[of |-> b.id, why |-> "customer"]}
     IN  Serve([db EXCEPT !.bookings = (@ \ {b}) \union {Withdrawn(b, "customer")}],
               records, IF rev = 8 THEN records ELSE {})

CancelEvent(e) ==
  /\ rev >= 9 /\ e \in db.events \ db.off
  /\ LET mine == {b \in db.bookings : b.event = e /\ ~b.cancelled}
         records == {[of |-> x, why |-> "event_cancelled"] : x \in {e} \union {b.id : b \in mine}}
     IN  Serve([db EXCEPT !.off = @ \union {e},
                          !.bookings = (@ \ mine) \union {Withdrawn(b, "event_cancelled") : b \in mine}],
               records, records)

Next == \/ \E goal \in 0..Head : Begin(goal)
        \/ Guard \/ Alter \/ Commit \/ Abort
        \/ \E e \in Events : CreateEvent(e) \/ CancelEvent(e)
        \/ \E r \in Bookings, e \in Events, s \in Seats : Book(r, e, s)
        \/ \E b \in db.bookings : CancelBooking(b)

Spec == Init /\ [][Next]_vars

--------------------------------------------------------------------------------
\* Types; the committed rows satisfy the constraints of the committed revision,
\* and the rows of a migration those of the revision it has reached.
TypeOK == /\ rev \in 0..Head /\ db \in Database /\ Admits(rev, db)
          /\ recorded \subseteq Record
          /\ migration \in Command \union {NULL}
          /\ migration # NULL => /\ migration.gap \subseteq recorded
                                 /\ migration.locked => Admits(migration.at, migration.work)

\* Cancellations are history that no sequence of upgrades and downgrades erases
\* or alters, except those committed in the gap between a guard and the lock:
\* a cancelled booking stays cancelled, its seat released, for the same reason
\* wherever there is a column for it, and an event stays cancelled.
HistorySurvives == \A h \in recorded :
   \/ h.of \in db.off
   \/ \E b \in db.bookings : /\ b.id = h.of /\ b.cancelled /\ b.released
                             /\ rev >= 9 => b.reason = h.why

\* Once the guard has passed, and if the service has not written since, the
\* revision can be applied: no row is in the way of its constraints.
GuardSuffices == migration # NULL /\ migration.checked /\ ~migration.disturbed => Fits(migration)

\* The rows d of revision r bear out the records hs.
Kept(r, d, hs) == \A h \in hs :
   /\ r < 9 => h.why = "customer"
   /\ \/ r = 9 /\ h.why = "event_cancelled" /\ h.of \in d.off
      \/ \E b \in d.bookings : /\ b.id = h.of /\ b.cancelled /\ b.released
                               /\ r = 9 => b.reason = h.why

\* What holds on the way of a migration m: its rows bear out the records, but
\* for its gap; between a guard and the change it guards, the guard has let the
\* rows pass, unless they have changed since, and the records in any case.
Course(m, records) ==
  /\ Kept(m.at, Rows(m), records)
  /\ ~m.locked => m.at = rev
  /\ m.checked => m.at # m.goal
  /\ m.at = m.goal => m.locked
  /\ m.checked /\ ~m.disturbed => Passes(m)
  /\ m.checked /\ ~Rising(m) /\ m.at = 9 => \A h \in records : h.why = "customer"
  /\ m.checked /\ ~Rising(m) /\ m.at = 8 => records = {}

\* The inductive invariant: the committed rows bear out the records, and the
\* migration under way is on course with those outside its gap.
IInv == /\ TypeOK
        /\ Kept(rev, db, recorded)
        /\ migration # NULL => Course(migration, recorded \ migration.gap)
================================================================================

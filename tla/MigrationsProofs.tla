--------------------------- MODULE MigrationsProofs ---------------------------
(***************************************************************************)
(* Proofs about Migrations, for all sets of events, seats and bookings:    *)
(* IInv is inductive, and the properties its run checks follow from it.    *)
(***************************************************************************)
EXTENDS Migrations, TLAPS

USE DEF Head, Reasons

--------------------------------------------------------------------------------
(* The revisions, as functions of the rows *)

\* What a revision makes of well-typed rows is well typed.
LEMMA ChangeTyped ==
  ASSUME NEW d \in Database, NEW r \in 1..9
  PROVE  Up(r, d) \in Database /\ Down(r, d) \in Database
<1>1. \A b \in d.bookings : b \in Booking
  BY DEF Database
<1>2. Backfill(d.bookings) \in SUBSET Booking
  BY <1>1 DEF Backfill, Booking
<1>3. Up(r, d) \in Database
  BY <1>2 DEF Up, Database
<1>4. {[b EXCEPT !.reason = NULL] : b \in d.bookings} \in SUBSET Booking
  BY <1>1 DEF Booking
<1>5. {[b EXCEPT !.cancelled = FALSE, !.released = FALSE] : b \in d.bookings} \in SUBSET Booking
  BY <1>1 DEF Booking
<1>6. Down(r, d) \in Database
  BY <1>4, <1>5 DEF Down, Database
<1>7. QED
  BY <1>3, <1>6

\* An upgrade whose guard passes meets the constraints of the next revision.
LEMMA UpFits ==
  ASSUME NEW d \in Database, NEW r \in 1..9, Admits(r - 1, d), UpGuard(r, d)
  PROVE  Admits(r, Up(r, d))
<1>1. CASE r = 9
  <2>1. \A b \in d.bookings : b \in Booking /\ b.reason = NULL
    BY <1>1 DEF Admits, Database
  <2>2. \A b \in d.bookings : b.cancelled \in BOOLEAN
    BY <2>1 DEF Booking
  <2> DEFINE full(b) == IF b.cancelled THEN [b EXCEPT !.reason = "customer"] ELSE b
  <2>3. ASSUME NEW b \in d.bookings
        PROVE  /\ full(b).event = b.event /\ full(b).seat = b.seat
               /\ full(b).released = b.released /\ full(b).cancelled = b.cancelled
               /\ full(b).cancelled <=> full(b).reason # NULL
    BY <2>1, <2>2, NullAssumption DEF Booking
  <2>4. Up(r, d).bookings = {full(b) : b \in d.bookings}
    BY <1>1 DEF Up, Backfill, Database
  <2>5. SeatsDistinct({b \in d.bookings : ~b.released})
    BY <1>1 DEF Admits
  <2>6. SeatsDistinct({b \in Up(r, d).bookings : ~b.released})
    <3>1. SUFFICES ASSUME NEW x \in Up(r, d).bookings, NEW y \in Up(r, d).bookings, ~x.released, ~y.released,
                          <<x.event, x.seat>> = <<y.event, y.seat>>
                   PROVE  x = y
      BY DEF SeatsDistinct
    <3>2. PICK b \in d.bookings : x = full(b)
      BY <2>4
    <3>3. PICK c \in d.bookings : y = full(c)
      BY <2>4
    <3>4. b = c
      BY <3>1, <3>2, <3>3, <2>3, <2>5 DEF SeatsDistinct
    <3>5. QED
      BY <3>2, <3>3, <3>4
  <2>7. \A b \in Up(r, d).bookings : b.cancelled <=> b.reason # NULL
    BY <2>3, <2>4
  <2>8. QED
    BY <1>1, <2>6, <2>7 DEF Admits
<1>2. CASE r = 8
  BY <1>2 DEF Admits, Up, SeatsDistinct
<1>3. CASE r = 7
  BY <1>3 DEF Admits, Up, SeatsDistinct
<1>4. CASE r < 7
  BY <1>4 DEF Admits, Up, Database
<1>5. QED
  BY <1>1, <1>2, <1>3, <1>4

\* A downgrade whose guard passes meets the constraints of the revision before.
LEMMA DownFits ==
  ASSUME NEW d \in Database, NEW r \in 1..9, Admits(r, d), DownGuard(r, d)
  PROVE  Admits(r - 1, Down(r, d))
<1>1. CASE r = 9
  <2>1. \A b \in d.bookings : b \in Booking
    BY DEF Database
  <2> DEFINE bare(b) == [b EXCEPT !.reason = NULL]
  <2>2. ASSUME NEW b \in d.bookings
        PROVE  /\ bare(b).event = b.event /\ bare(b).seat = b.seat
               /\ bare(b).released = b.released /\ bare(b).reason = NULL
    BY <2>1 DEF Booking
  <2>3. Down(r, d).bookings = {bare(b) : b \in d.bookings} /\ Down(r, d).off = {}
    <3>1. Down(r, d) = [d EXCEPT !.off = {}, !.bookings = {bare(b) : b \in d.bookings}]
      BY <1>1 DEF Down
    <3>2. QED
      BY <3>1 DEF Database
  <2>4. SeatsDistinct({b \in d.bookings : ~b.released})
    BY <1>1 DEF Admits
  <2>5. SeatsDistinct({b \in Down(r, d).bookings : ~b.released})
    <3>1. SUFFICES ASSUME NEW x \in Down(r, d).bookings, NEW y \in Down(r, d).bookings, ~x.released, ~y.released,
                          <<x.event, x.seat>> = <<y.event, y.seat>>
                   PROVE  x = y
      BY DEF SeatsDistinct
    <3>2. PICK b \in d.bookings : x = bare(b)
      BY <2>3
    <3>3. PICK c \in d.bookings : y = bare(c)
      BY <2>3
    <3>4. b = c
      BY <3>1, <3>2, <3>3, <2>2, <2>4 DEF SeatsDistinct
    <3>5. QED
      BY <3>2, <3>3, <3>4
  <2>6. \A b \in Down(r, d).bookings : b.reason = NULL
    BY <2>2, <2>3
  <2>7. QED
    BY <1>1, <2>3, <2>5, <2>6 DEF Admits
<1>2. CASE r = 8
  <2>1. \A b \in d.bookings : b \in Booking /\ ~b.released /\ ~b.cancelled /\ b.reason = NULL
    BY <1>2 DEF Database, DownGuard, Admits
  <2>2. \A b \in d.bookings : [b EXCEPT !.cancelled = FALSE, !.released = FALSE] = b
    BY <2>1 DEF Booking
  <2>3. Down(r, d).bookings = d.bookings /\ Down(r, d).off = d.off
    <3>1. Down(r, d) = [d EXCEPT !.bookings =
                          {[b EXCEPT !.cancelled = FALSE, !.released = FALSE] : b \in d.bookings}]
      BY <1>2 DEF Down
    <3>2. {[b EXCEPT !.cancelled = FALSE, !.released = FALSE] : b \in d.bookings} = d.bookings
      BY <2>2
    <3>3. QED
      BY <3>1, <3>2 DEF Database
  <2>4. SeatsDistinct(d.bookings)
    BY <1>2, <2>1 DEF Admits, SeatsDistinct
  <2>5. QED
    BY <1>2, <2>1, <2>3, <2>4 DEF Admits
<1>3. CASE r = 7
  BY <1>3 DEF Admits, Down, Database
<1>4. CASE r \in 2..6
  <2>0. r # 9 /\ r # 8 /\ r # 7 /\ r # 1
    BY <1>4
  <2>1. Down(r, d) = d
    BY <2>0, Zenon DEF Down
  <2>2. QED
    BY <1>4, <2>1 DEF Admits
<1>5. CASE r = 1
  <2>1. Down(r, d) = [d EXCEPT !.events = {}]
    BY <1>5 DEF Down
  <2>2. /\ Down(r, d).events = {} /\ Down(r, d).off = d.off
        /\ Down(r, d).bookings = d.bookings
    BY <2>1 DEF Database
  <2>3. d.off = {} /\ d.bookings = {}
    BY <1>5 DEF Admits
  <2>4. r - 1 = 0
    BY <1>5
  <2>5. Admits(0, Down(r, d))
    BY <2>2, <2>3 DEF Admits
  <2>6. QED
    BY <2>4, <2>5
<1>6. QED
  BY <1>1, <1>2, <1>3, <1>4, <1>5

\* An upgrade bears out the records that its rows bore out.
LEMMA UpKeeps ==
  ASSUME NEW d \in Database, NEW r \in 1..9, Admits(r - 1, d),
         NEW hs \in SUBSET Record, Kept(r - 1, d, hs)
  PROVE  Kept(r, Up(r, d), hs)
<1>1. SUFFICES ASSUME NEW h \in hs
               PROVE  /\ h.why = "customer"
                      /\ \E b \in Up(r, d).bookings : /\ b.id = h.of /\ b.cancelled /\ b.released
                                                      /\ r = 9 => b.reason = h.why
  BY DEF Kept
<1>2. h.why = "customer"
  BY DEF Kept
<1>3. PICK b \in d.bookings : b.id = h.of /\ b.cancelled /\ b.released
  BY DEF Kept
<1>4. b \in Booking
  BY DEF Database
<1>5. CASE r = 9
  <2>1. [b EXCEPT !.reason = "customer"] \in Up(r, d).bookings
    BY <1>3, <1>5 DEF Up, Backfill, Database
  <2>2. QED
    BY <1>2, <1>3, <1>4, <2>1 DEF Booking
<1>6. CASE r # 9
  <2>1. Up(r, d).bookings = d.bookings
    BY <1>6 DEF Up, Database
  <2>2. QED
    BY <1>2, <1>3, <1>6, <2>1
<1>7. QED
  BY <1>5, <1>6

\* A downgrade bears out the records its guard lets pass.
LEMMA DownKeeps ==
  ASSUME NEW d \in Database, NEW r \in 1..9, Admits(r, d),
         NEW hs \in SUBSET Record, Kept(r, d, hs),
         r = 9 => \A h \in hs : h.why = "customer",
         r = 8 => hs = {}
  PROVE  Kept(r - 1, Down(r, d), hs)
<1>1. SUFFICES ASSUME NEW h \in hs
               PROVE  /\ r = 9 /\ h.why = "customer"
                      /\ \E b \in Down(r, d).bookings : b.id = h.of /\ b.cancelled /\ b.released
  BY DEF Kept
<1>2. h.why = "customer"
  BY DEF Kept
<1>3. PICK b \in d.bookings : b.id = h.of /\ b.cancelled /\ b.released
  BY <1>2 DEF Kept
<1>4. r >= 8
  BY <1>3 DEF Admits
<1>5. r = 9
  BY <1>4
<1>6. b \in Booking
  BY DEF Database
<1>7. [b EXCEPT !.reason = NULL] \in Down(r, d).bookings
  <2>1. Down(r, d) = [d EXCEPT !.off = {}, !.bookings = {[x EXCEPT !.reason = NULL] : x \in d.bookings}]
    BY <1>5 DEF Down
  <2>2. QED
    BY <2>1 DEF Database
<1>8. QED
  BY <1>2, <1>3, <1>5, <1>6, <1>7 DEF Booking

\* What a guard of a downgrade says of the records its rows bear out.
LEMMA GuardSays ==
  ASSUME NEW d \in Database, NEW r \in 1..9, Admits(r, d), DownGuard(r, d),
         NEW hs \in SUBSET Record, Kept(r, d, hs)
  PROVE  /\ r = 9 => \A h \in hs : h.why = "customer"
         /\ r = 8 => hs = {}
<1>1. ASSUME r = 9, NEW h \in hs
      PROVE  h.why = "customer"
  <2>1. h.why \in {"customer", "event_cancelled"}
    BY DEF Record
  <2>2. PICK b \in d.bookings : b.reason = h.why
    BY <1>1 DEF Kept, DownGuard
  <2>3. QED
    BY <1>1, <2>1, <2>2 DEF DownGuard
<1>2. ASSUME r = 8
      PROVE  hs = {}
  <2>1. \A h \in hs : \E b \in d.bookings : b.cancelled
    BY <1>2 DEF Kept
  <2>2. \A b \in d.bookings : ~b.cancelled
    BY <1>2 DEF DownGuard
  <2>3. QED
    BY <2>1, <2>2
<1>3. QED
  BY <1>1, <1>2

--------------------------------------------------------------------------------
(* The inductive invariant *)

\* Fewer records are borne out by the same rows.
LEMMA KeptLess ==
  ASSUME NEW r, NEW d, NEW hs, Kept(r, d, hs), NEW fewer \in SUBSET hs
  PROVE  Kept(r, d, fewer)
  BY DEF Kept

\* The rows a migration works on meet the constraints of where it stands.
LEMMA RowsFit ==
  ASSUME IInv, migration # NULL
  PROVE  /\ migration \in Command
         /\ Rows(migration) \in Database
         /\ Admits(migration.at, Rows(migration))
<1>1. migration \in Command
  BY DEF IInv, TypeOK
<1>2. CASE migration.locked
  BY <1>1, <1>2 DEF IInv, TypeOK, Command, Rows
<1>3. CASE ~migration.locked
  BY <1>1, <1>3 DEF IInv, TypeOK, Command, Rows, Course
<1>4. QED
  BY <1>1, <1>2, <1>3

\* What passed the guard, and was left alone since, can be applied.
LEMMA PassedFits ==
  ASSUME IInv, migration # NULL, migration.checked, ~migration.disturbed
  PROVE  Fits(migration)
<1> DEFINE m == migration
<1>1. m \in Command /\ Rows(m) \in Database /\ Admits(m.at, Rows(m))
  BY RowsFit
<1>2. Passes(m) /\ m.at # m.goal
  BY DEF IInv, Course
<1>3. m.at \in 0..9 /\ m.goal \in 0..9
  BY <1>1 DEF Command
<1>4. CASE Rising(m)
  <2>1. m.at + 1 \in 1..9 /\ (m.at + 1) - 1 = m.at
    BY <1>3, <1>4 DEF Rising
  <2>2. UpGuard(m.at + 1, Rows(m))
    BY <1>2, <1>4 DEF Passes
  <2>3. Admits(m.at + 1, Up(m.at + 1, Rows(m)))
    BY <1>1, <2>1, <2>2, UpFits
  <2>4. QED
    BY <1>4, <2>2, <2>3 DEF Fits, Target, Changed, UpGuard
<1>5. CASE ~Rising(m)
  <2>1. m.at \in 1..9
    BY <1>2, <1>3, <1>5 DEF Rising
  <2>2. DownGuard(m.at, Rows(m))
    BY <1>2, <1>5 DEF Passes
  <2>3. Admits(m.at - 1, Down(m.at, Rows(m)))
    BY <1>1, <2>1, <2>2, DownFits
  <2>4. QED
    BY <1>5, <2>3 DEF Fits, Target, Changed
<1>6. QED
  BY <1>4, <1>5

LEMMA InitSound ==
  ASSUME Init
  PROVE  IInv
<1>1. db \in Database
  BY DEF Init, Empty, Database
<1>2. Admits(rev, db)
  BY DEF Init, Empty, Admits, SeatsDistinct
<1>3. Kept(rev, db, recorded)
  BY DEF Init, Kept
<1>4. QED
  BY <1>1, <1>2, <1>3 DEF Init, IInv, TypeOK

LEMMA BeginSound ==
  ASSUME IInv, NEW goal \in 0..Head, Begin(goal)
  PROVE  IInv'
<1>1. /\ migration' = [goal |-> goal, at |-> rev, checked |-> FALSE, locked |-> FALSE,
                       work |-> Empty, disturbed |-> FALSE, gap |-> {}]
      /\ goal # rev /\ rev' = rev /\ db' = db /\ recorded' = recorded
  BY DEF Begin
<1>2. migration' \in Command
  BY <1>1 DEF IInv, TypeOK, Command, Empty, Database
<1>3. TypeOK'
  BY <1>1, <1>2 DEF IInv, TypeOK
<1>4. Kept(rev', db', recorded')
  BY <1>1 DEF IInv
<1>5. Rows(migration)' = db /\ recorded' \ migration'.gap = recorded
  BY <1>1 DEF Rows
<1>6. Course(migration, recorded \ migration.gap)'
  BY <1>1, <1>4, <1>5 DEF Course
<1>7. QED
  BY <1>3, <1>4, <1>6 DEF IInv

LEMMA GuardSound ==
  ASSUME IInv, Guard
  PROVE  IInv'
<1> DEFINE m == migration
           safe == recorded \ m.gap
<1>1. /\ m # NULL /\ m.at # m.goal
      /\ m' = IF Passes(m) THEN [m EXCEPT !.checked = TRUE, !.disturbed = FALSE] ELSE NULL
      /\ rev' = rev /\ db' = db /\ recorded' = recorded
  BY DEF Guard
<1>2. m \in Command /\ Rows(m) \in Database /\ Admits(m.at, Rows(m))
  BY <1>1, RowsFit
<1>3. CASE ~Passes(m)
  BY <1>1, <1>3 DEF IInv, TypeOK
<1>4. CASE Passes(m)
  <2>1. m' = [m EXCEPT !.checked = TRUE, !.disturbed = FALSE]
    BY <1>1, <1>4
  <2>2. /\ m' \in Command /\ m'.at = m.at /\ m'.goal = m.goal /\ m'.locked = m.locked
        /\ m'.work = m.work /\ m'.gap = m.gap
    BY <1>2, <2>1 DEF Command
  <2>3. TypeOK'
    BY <1>1, <2>2 DEF IInv, TypeOK
  <2>4. Kept(rev', db', recorded')
    BY <1>1 DEF IInv
  <2>5. Rows(m)' = Rows(m) /\ Rising(m)' = Rising(m) /\ Passes(m)' /\ safe' = safe
    BY <1>1, <1>4, <2>2 DEF Rows, Rising, Passes
  <2>6. Course(m, safe)
    BY <1>1 DEF IInv
  <2>7. ASSUME ~Rising(m)
        PROVE  /\ m.at = 9 => \A h \in safe : h.why = "customer"
               /\ m.at = 8 => safe = {}
    <3>1. m.at \in 1..9
      BY <1>1, <1>2, <2>7 DEF Command, Rising
    <3>2. DownGuard(m.at, Rows(m))
      BY <1>4, <2>7 DEF Passes
    <3>3. safe \in SUBSET Record
      BY DEF IInv, TypeOK
    <3>4. Kept(m.at, Rows(m), safe)
      BY <2>6 DEF Course
    <3>5. QED
      BY <1>2, <3>1, <3>2, <3>3, <3>4, GuardSays
  <2>8. Course(m, safe)'
    BY <1>1, <2>2, <2>5, <2>6, <2>7 DEF Course
  <2>9. QED
    BY <2>3, <2>4, <2>8 DEF IInv
<1>5. QED
  BY <1>3, <1>4

LEMMA AlterSound ==
  ASSUME IInv, Alter
  PROVE  IInv'
<1> DEFINE m == migration
           safe == recorded \ m.gap
<1>1. /\ m # NULL /\ m.checked
      /\ m' = IF Fits(m)
              THEN [m EXCEPT !.at = Target(m), !.work = Changed(m), !.locked = TRUE, !.checked = FALSE]
              ELSE NULL
      /\ rev' = rev /\ db' = db /\ recorded' = recorded
  BY DEF Alter
<1>2. m \in Command /\ Rows(m) \in Database /\ Admits(m.at, Rows(m))
  BY <1>1, RowsFit
<1>3. CASE ~Fits(m)
  BY <1>1, <1>3 DEF IInv, TypeOK
<1>4. CASE Fits(m)
  <2>1. m.at \in 0..9 /\ m.goal \in 0..9 /\ m.at # m.goal
    BY <1>1, <1>2 DEF Command, IInv, Course
  <2>2. Course(m, safe) /\ safe \in SUBSET Record
    BY <1>1 DEF IInv, TypeOK
  <2>3. Target(m) \in 0..9 /\ Changed(m) \in Database /\ Kept(Target(m), Changed(m), safe)
    <3>1. CASE Rising(m)
      <4>1. m.at + 1 \in 1..9 /\ (m.at + 1) - 1 = m.at
        BY <2>1, <3>1 DEF Rising
      <4>2. Up(m.at + 1, Rows(m)) \in Database
        BY <1>2, <4>1, ChangeTyped
      <4>3. Kept(m.at, Rows(m), safe)
        BY <2>2 DEF Course
      <4>4. Kept(m.at + 1, Up(m.at + 1, Rows(m)), safe)
        BY <1>2, <2>2, <4>1, <4>3, UpKeeps
      <4>5. QED
        BY <3>1, <4>1, <4>2, <4>4 DEF Target, Changed
    <3>2. CASE ~Rising(m)
      <4>1. m.at \in 1..9
        BY <2>1, <3>2 DEF Rising
      <4>2. Down(m.at, Rows(m)) \in Database
        BY <1>2, <4>1, ChangeTyped
      <4>3. /\ Kept(m.at, Rows(m), safe)
            /\ m.at = 9 => \A h \in safe : h.why = "customer"
            /\ m.at = 8 => safe = {}
        BY <1>1, <2>2, <3>2 DEF Course
      <4>4. Kept(m.at - 1, Down(m.at, Rows(m)), safe)
        BY <1>2, <2>2, <4>1, <4>3, DownKeeps
      <4>5. QED
        BY <3>2, <4>1, <4>2, <4>4 DEF Target, Changed
    <3>3. QED
      BY <3>1, <3>2
  <2>4. m' = [m EXCEPT !.at = Target(m), !.work = Changed(m), !.locked = TRUE, !.checked = FALSE]
    BY <1>1, <1>4
  <2>5. /\ m' \in Command /\ m'.at = Target(m) /\ m'.work = Changed(m)
        /\ m'.locked = TRUE /\ m'.checked = FALSE /\ m'.gap = m.gap
    BY <1>2, <2>3, <2>4 DEF Command
  <2>6. TypeOK'
    BY <1>1, <1>4, <2>5 DEF IInv, TypeOK, Fits
  <2>7. Kept(rev', db', recorded')
    BY <1>1 DEF IInv
  <2>8. Rows(m)' = Changed(m) /\ safe' = safe
    BY <1>1, <2>5 DEF Rows
  <2>9. Course(m, safe)'
    BY <2>3, <2>5, <2>8 DEF Course
  <2>10. QED
    BY <2>6, <2>7, <2>9 DEF IInv
<1>5. QED
  BY <1>3, <1>4

LEMMA EndSound ==
  ASSUME IInv, Commit \/ Abort
  PROVE  IInv'
<1>1. CASE Commit
  <2>1. /\ migration # NULL /\ migration.at = migration.goal /\ migration' = NULL
        /\ rev' = migration.goal /\ db' = migration.work /\ recorded' = recorded \ migration.gap
    BY <1>1 DEF Commit
  <2>2. migration \in Command /\ Rows(migration) \in Database /\ Admits(migration.at, Rows(migration))
    BY <2>1, RowsFit
  <2>3. Course(migration, recorded \ migration.gap)
    BY <2>1 DEF IInv
  <2>4. Rows(migration) = migration.work
    BY <2>1, <2>3 DEF Course, Rows
  <2>5. QED
    BY <2>1, <2>2, <2>3, <2>4 DEF IInv, TypeOK, Course, Command
<1>2. CASE Abort
  BY <1>2 DEF Abort, IInv, TypeOK
<1>3. QED
  BY <1>1, <1>2

--------------------------------------------------------------------------------
(* The service *)

\* A transaction of the service is harmless if its rows meet the constraints
\* and bear out the records, and if what a passed guard would have refused is
\* put down to the gap.
LEMMA ServeSound ==
  ASSUME IInv, NEW d \in Database, Admits(rev, d),
         NEW records \in SUBSET Record, Kept(rev, d, recorded \union records),
         NEW unseen \in SUBSET records,
         rev = 9 => \A h \in records \ unseen : h.why = "customer",
         rev = 8 => records \ unseen = {},
         Serve(d, records, unseen)
  PROVE  IInv'
<1> DEFINE m == migration
           safe == recorded \ m.gap
           lost == IF Rising(m) THEN {} ELSE unseen
<1>1. /\ m # NULL => ~m.locked
      /\ db' = d /\ rev' = rev /\ recorded' = recorded \union records
      /\ m' = IF m # NULL /\ m.checked
              THEN [m EXCEPT !.disturbed = TRUE, !.gap = @ \union lost] ELSE m
  BY DEF Serve
<1>2. Kept(rev', db', recorded') /\ rev' \in 0..9 /\ db' \in Database /\ Admits(rev', db')
  BY <1>1 DEF IInv, TypeOK
<1>3. recorded' \subseteq Record
  BY <1>1 DEF IInv, TypeOK
<1>4. CASE m = NULL
  BY <1>1, <1>2, <1>3, <1>4 DEF IInv, TypeOK
<1>5. CASE m # NULL
  <2>1. m \in Command /\ ~m.locked /\ m.gap \subseteq recorded /\ Course(m, safe)
    BY <1>1, <1>5 DEF IInv, TypeOK
  <2>2. m.at = rev
    BY <2>1 DEF Course
  <2>3. CASE ~m.checked
    <3>1. m' = m
      BY <1>1, <2>3
    <3>2. TypeOK'
      BY <1>1, <1>2, <1>3, <2>1, <3>1 DEF TypeOK
    <3>3. Rows(m)' = d
      BY <1>1, <2>1, <3>1 DEF Rows
    <3>4. Kept(m.at, d, safe')
      <4>1. safe' \in SUBSET (recorded \union records)
        BY <1>1
      <4>2. QED
        BY <2>2, <4>1, KeptLess
    <3>5. Course(m, safe)'
      BY <1>1, <2>1, <2>2, <2>3, <3>1, <3>3, <3>4 DEF Course
    <3>6. QED
      BY <1>2, <3>2, <3>5 DEF IInv
  <2>4. CASE m.checked
    <3>1. m' = [m EXCEPT !.disturbed = TRUE, !.gap = @ \union lost]
      BY <1>1, <1>5, <2>4
    <3>2. m'.gap = m.gap \union lost /\ m'.gap \subseteq recorded' /\ m'.gap \in SUBSET Record
      BY <1>1, <1>3, <2>1, <3>1 DEF Command
    <3>3. /\ m' \in Command /\ m'.at = m.at /\ m'.goal = m.goal /\ m'.checked = TRUE
          /\ m'.locked = FALSE /\ m'.disturbed = TRUE
      BY <2>1, <2>4, <3>1, <3>2 DEF Command
    <3>4. TypeOK'
      BY <1>2, <1>3, <3>2, <3>3 DEF TypeOK
    <3>5. Rows(m)' = d /\ Rising(m)' = Rising(m)
      BY <1>1, <3>3 DEF Rows, Rising
    <3>6. Kept(m.at, d, safe')
      <4>1. safe' \in SUBSET (recorded \union records)
        BY <1>1
      <4>2. QED
        BY <2>2, <4>1, KeptLess
    <3>7. ~Rising(m) => safe' \subseteq safe \union (records \ unseen)
      BY <1>1, <3>2
    <3>8. ASSUME ~Rising(m)
          PROVE  /\ m.at = 9 => \A h \in safe' : h.why = "customer"
                 /\ m.at = 8 => safe' = {}
      BY <2>1, <2>2, <2>4, <3>7, <3>8 DEF Course
    <3>9. m.at # m.goal
      BY <2>1, <2>4 DEF Course
    <3>10. Course(m, safe)'
      BY <1>1, <2>2, <3>3, <3>5, <3>6, <3>8, <3>9 DEF Course
    <3>11. QED
      BY <1>2, <3>4, <3>10 DEF IInv
  <2>5. QED
    BY <2>3, <2>4
<1>6. QED
  BY <1>4, <1>5

LEMMA CreateEventSound ==
  ASSUME IInv, NEW e \in Events, CreateEvent(e)
  PROVE  IInv'
<1> DEFINE d == [db EXCEPT !.events = @ \union {e}]
<1>1. rev >= 1 /\ Serve(d, {}, {})
  BY DEF CreateEvent
<1>2. /\ d \in Database /\ d.events = db.events \union {e}
      /\ d.off = db.off /\ d.bookings = db.bookings
  BY DEF IInv, TypeOK, Database
<1>3. Admits(rev, d)
  BY <1>1, <1>2 DEF IInv, TypeOK, Admits
<1>4. Kept(rev, d, recorded \union {})
  BY <1>2 DEF IInv, Kept
<1>5. QED
  BY <1>1, <1>2, <1>3, <1>4, ServeSound

LEMMA BookSound ==
  ASSUME IInv, NEW r \in Bookings, NEW e \in Events, NEW s \in Seats, Book(r, e, s)
  PROVE  IInv'
<1> DEFINE new == [id |-> r, event |-> e, seat |-> s, cancelled |-> FALSE, reason |-> NULL,
                   released |-> FALSE]
           d == [db EXCEPT !.bookings = @ \union {new}]
<1>1. /\ rev >= 7 /\ Serve(d, {}, {})
      /\ \A b \in db.bookings : <<b.event, b.seat>> = <<e, s>> => b.released
  BY DEF Book
<1>2. /\ new \in Booking /\ new.event = e /\ new.seat = s
      /\ new.cancelled = FALSE /\ new.released = FALSE /\ new.reason = NULL
  BY DEF Booking
<1> HIDE DEF new
<1>3. /\ d \in Database /\ d.events = db.events /\ d.off = db.off
      /\ d.bookings = db.bookings \union {new}
  BY <1>2 DEF IInv, TypeOK, Database
<1> HIDE DEF d
<1>4. Admits(rev, db) /\ rev \in 0..9
  BY DEF IInv, TypeOK
<1>5. ASSUME rev = 7
      PROVE  Admits(rev, d)
  <2>1. SeatsDistinct(db.bookings) /\ \A b \in db.bookings : ~b.released
    BY <1>4, <1>5 DEF Admits
  <2>2. SeatsDistinct(d.bookings)
    BY <1>1, <1>2, <1>3, <2>1 DEF SeatsDistinct
  <2>3. QED
    BY <1>2, <1>3, <1>4, <1>5, <2>2 DEF Admits
<1>6. ASSUME rev >= 8
      PROVE  Admits(rev, d)
  <2>1. SeatsDistinct({b \in db.bookings : ~b.released})
    BY <1>4, <1>6 DEF Admits
  <2>2. SeatsDistinct({b \in d.bookings : ~b.released})
    BY <1>1, <1>2, <1>3, <2>1 DEF SeatsDistinct
  <2>3. QED
    BY <1>2, <1>3, <1>4, <1>6, <2>2 DEF Admits
<1>7. Admits(rev, d)
  BY <1>1, <1>4, <1>5, <1>6
<1>8. Kept(rev, d, recorded \union {})
  BY <1>3 DEF IInv, Kept
<1>9. QED
  BY <1>1, <1>3, <1>7, <1>8, ServeSound

\* A withdrawn booking keeps all but what the cancellation says.
LEMMA WithdrawnFields ==
  ASSUME NEW b \in Booking, NEW why \in Reasons
  PROVE  LET w == Withdrawn(b, why)
         IN  /\ w \in Booking /\ w.id = b.id /\ w.event = b.event /\ w.seat = b.seat
             /\ w.cancelled = TRUE /\ w.released = TRUE
             /\ w.reason = IF rev >= 9 THEN why ELSE NULL
  BY DEF Withdrawn, Booking

\* What happens when the bookings of a set, none cancelled before, are withdrawn.
LEMMA WithdrawSound ==
  ASSUME IInv, rev >= 8, NEW d \in Database, NEW gone \in SUBSET db.bookings,
         NEW why \in Reasons, d.bookings = (db.bookings \ gone) \union {Withdrawn(b, why) : b \in gone},
         \A b \in gone : ~b.cancelled,
         d.events = db.events, db.off \subseteq d.off, rev < 9 => d.off = {} /\ why = "customer"
  PROVE  /\ Admits(rev, d)
         /\ Kept(rev, d, recorded)
         /\ Kept(rev, d, {[of |-> b.id, why |-> why] : b \in gone})
<1>1. Admits(rev, db) /\ rev \in 8..9 /\ \A b \in db.bookings : b \in Booking
  BY DEF IInv, TypeOK, Database
<1>2. \A b \in gone : LET w == Withdrawn(b, why)
                      IN  /\ w.id = b.id /\ w.cancelled = TRUE /\ w.released = TRUE
                          /\ w.reason = IF rev >= 9 THEN why ELSE NULL
  BY <1>1, WithdrawnFields
<1>3. {b \in d.bookings : ~b.released} \subseteq {b \in db.bookings : ~b.released}
  BY <1>2
<1>4. SeatsDistinct({b \in d.bookings : ~b.released})
  BY <1>1, <1>3 DEF Admits, SeatsDistinct
<1>5. rev < 9 => \A b \in d.bookings : b.reason = NULL
  BY <1>1, <1>2 DEF Admits
<1>6. rev >= 9 => \A b \in d.bookings : b.cancelled <=> b.reason # NULL
  BY <1>1, <1>2, NullAssumption DEF Admits
<1>7. Admits(rev, d)
  BY <1>1, <1>4, <1>5, <1>6 DEF Admits
<1>8. \A b \in db.bookings : b.cancelled => b \in d.bookings
  OBVIOUS
<1>9. Kept(rev, d, recorded)
  BY <1>1, <1>8 DEF IInv, Kept
<1>10. ASSUME NEW b \in gone
       PROVE  /\ rev < 9 => why = "customer"
              /\ \E x \in d.bookings : /\ x.id = b.id /\ x.cancelled /\ x.released
                                       /\ rev = 9 => x.reason = why
  BY <1>1, <1>2
<1>11. Kept(rev, d, {[of |-> b.id, why |-> why] : b \in gone})
  BY <1>10 DEF Kept
<1>12. QED
  BY <1>7, <1>9, <1>11

\* Rows that bear out two sets of records bear out both together.
LEMMA KeptTogether ==
  ASSUME NEW r, NEW d, NEW hs, NEW gs, Kept(r, d, hs), Kept(r, d, gs)
  PROVE  Kept(r, d, hs \union gs)
  BY DEF Kept

LEMMA CancelBookingSound ==
  ASSUME IInv, NEW b \in db.bookings, CancelBooking(b)
  PROVE  IInv'
<1> DEFINE records == {[of |-> b.id, why |-> "customer"]}
           d == [db EXCEPT !.bookings = (@ \ {b}) \union {Withdrawn(b, "customer")}]
           unseen == IF rev = 8 THEN records ELSE {}
<1>1. rev >= 8 /\ ~b.cancelled /\ Serve(d, records, unseen)
  BY DEF CancelBooking
<1>2. b \in Booking /\ Withdrawn(b, "customer") \in Booking
  BY WithdrawnFields DEF IInv, TypeOK, Database
<1>3. /\ d \in Database /\ d.events = db.events /\ d.off = db.off
      /\ d.bookings = (db.bookings \ {b}) \union {Withdrawn(b, "customer")}
  BY <1>2 DEF IInv, TypeOK, Database
<1>4. rev < 9 => db.off = {}
  BY DEF IInv, TypeOK, Admits
<1>5. /\ Admits(rev, d)
      /\ Kept(rev, d, recorded) /\ Kept(rev, d, {[of |-> x.id, why |-> "customer"] : x \in {b}})
  <2>1. d.bookings = (db.bookings \ {b}) \union {Withdrawn(x, "customer") : x \in {b}}
    BY <1>3
  <2>2. QED
    BY <1>1, <1>3, <1>4, <2>1, WithdrawSound
<1>6. {[of |-> x.id, why |-> "customer"] : x \in {b}} = records
  OBVIOUS
<1>7. Kept(rev, d, recorded \union records)
  BY <1>5, <1>6, KeptTogether
<1>8. records \in SUBSET Record
  BY <1>2 DEF Record, Booking
<1>9. QED
  BY <1>1, <1>3, <1>5, <1>7, <1>8, ServeSound

LEMMA CancelEventSound ==
  ASSUME IInv, NEW e \in Events, CancelEvent(e)
  PROVE  IInv'
<1> DEFINE mine == {b \in db.bookings : b.event = e /\ ~b.cancelled}
           why == "event_cancelled"
           records == {[of |-> x, why |-> why] : x \in {e} \union {b.id : b \in mine}}
           after == (db.bookings \ mine) \union {Withdrawn(b, why) : b \in mine}
           d == [db EXCEPT !.off = @ \union {e}, !.bookings = after]
<1>1. rev >= 9 /\ Serve(d, records, records)
  BY DEF CancelEvent
<1>2. \A b \in mine : b \in Booking /\ Withdrawn(b, why) \in Booking
  <2>1. \A b \in mine : b \in Booking
    BY DEF IInv, TypeOK, Database
  <2>2. why \in Reasons
    OBVIOUS
  <2>3. QED
    BY <2>1, <2>2, WithdrawnFields
<1>3. /\ d \in Database /\ d.events = db.events /\ d.off = db.off \union {e}
      /\ d.bookings = after
  <2>1. db \in Database /\ after \subseteq Booking
    BY <1>2 DEF IInv, TypeOK, Database
  <2> HIDE DEF after
  <2>2. QED
    BY <2>1 DEF Database
<1>4. /\ Admits(rev, d)
      /\ Kept(rev, d, recorded) /\ Kept(rev, d, {[of |-> b.id, why |-> why] : b \in mine})
  <2>1. mine \in SUBSET db.bookings /\ \A b \in mine : ~b.cancelled
    OBVIOUS
  <2>2. why \in Reasons /\ rev >= 8 /\ ~(rev < 9)
    BY <1>1 DEF IInv, TypeOK
  <2>3. db.off \subseteq d.off
    BY <1>3
  <2>4. d.bookings = (db.bookings \ mine) \union {Withdrawn(b, why) : b \in mine}
    BY <1>3
  <2> HIDE DEF mine, why, d
  <2>5. QED
    BY <1>3, <2>1, <2>2, <2>3, <2>4, WithdrawSound
<1>5. Kept(rev, d, {[of |-> e, why |-> why]})
  BY <1>1, <1>3 DEF IInv, TypeOK, Kept
<1>6. records = {[of |-> e, why |-> why]} \union {[of |-> b.id, why |-> why] : b \in mine}
  OBVIOUS
<1>7. Kept(rev, d, recorded \union records)
  BY <1>4, <1>5, <1>6, KeptTogether
<1>8. records \in SUBSET Record
  BY <1>2 DEF Record, Booking
<1>9. QED
  BY <1>1, <1>3, <1>4, <1>7, <1>8, ServeSound

--------------------------------------------------------------------------------
(* The theorems *)

LEMMA StutterSound ==
  ASSUME IInv, UNCHANGED vars
  PROVE  IInv'
  BY DEF IInv, TypeOK, Course, Rows, Passes, Rising, vars

\* No step of a migration or of the service leads out of the invariant.
THEOREM MigrationInvariance == Spec => []IInv
<1>1. Init => IInv
  BY InitSound
<1>2. ASSUME IInv, [Next]_vars
      PROVE  IInv'
  BY <1>2, BeginSound, GuardSound, AlterSound, EndSound, CreateEventSound, BookSound,
     CancelBookingSound, CancelEventSound, StutterSound DEF Next
<1>3. QED
  BY <1>1, <1>2, PTL DEF Spec

\* The rows meet the constraints of the revision, those of a migration under
\* way the constraints of the revision it has reached.
THEOREM MigrationTypes == Spec => []TypeOK
<1>1. IInv => TypeOK
  BY DEF IInv
<1>2. QED
  BY <1>1, MigrationInvariance, PTL

\* Whatever upgrades and downgrades are run, recorded cancellations survive,
\* those of the gap aside.
THEOREM CancellationsSurvive == Spec => []HistorySurvives
<1>1. ASSUME IInv
      PROVE  HistorySurvives
  BY <1>1 DEF IInv, TypeOK, Kept, HistorySurvives
<1>2. QED
  BY <1>1, MigrationInvariance, PTL

\* A guard that has passed is enough: unless the service wrote since, the
\* revision meets no row that its constraints refuse.
THEOREM GuardsSuffice == Spec => []GuardSuffices
<1>1. IInv => GuardSuffices
  BY PassedFits DEF GuardSuffices
<1>2. QED
  BY <1>1, MigrationInvariance, PTL
===============================================================================

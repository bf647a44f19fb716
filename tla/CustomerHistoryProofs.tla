------------------------- MODULE CustomerHistoryProofs -------------------------
(***************************************************************************)
(* Proofs about CustomerHistory, for any customers, events, reservations,  *)
(* page size and number of loads: whatever arrives late, the cards are the *)
(* customer's own and in order, nothing is missed on the way through the   *)
(* pages, what the page says of a cancellation is so, and Refresh          *)
(* refreshes.                                                              *)
(***************************************************************************)
EXTENDS CustomerHistory, FiniteSetTheorems, SequenceTheorems, TLAPS

Ids(B) == {b.id : b \in B}

\* Finitely many bookings, told apart by their ids.
Unique(B) == IsFiniteSet(B) /\ \A b, c \in B : b.id = c.id => b = c

\* Cancelled for good.
Gone(r) == r \in Ids(bookings) /\ r \notin inForce

\* Booked for good: the event has started.
Stuck(r) == r \in inForce /\ \E b \in bookings : b.id = r /\ b.event \in begun

\* Rows of one customer, newest first.
RowsOf(rows, u) == /\ \E n \in 0..PageSize : rows \in [1..n -> Row]
                   /\ \A i \in DOMAIN rows : rows[i].id \in Ids(Mine(u))
                   /\ \A i, j \in DOMAIN rows : i < j => rows[i].id > rows[j].id

\* What an answer to the latest load means for the walk: what it leaves unseen
\* lies on later pages.
Covers(rows) == \A r \in unseen : \/ \E i \in DOMAIN rows : rows[i].id = r
                                  \/ Len(rows) = PageSize /\ Newer(Mine(user), r) >= offset + PageSize

LoadOK(l) == /\ l = [version |-> l.version, user |-> l.user, offset |-> l.offset, rows |-> l.rows]
             /\ l.version \in 1..version /\ l.user \in Customers /\ l.offset \in Nat
             /\ l.rows # NULL => RowsOf(l.rows, l.user)

\* There is one load of the present version, until its answer arrives, and its
\* answer fits the present list.
LoadsSound == /\ \A l \in loads : LoadOK(l)
              /\ \A l \in loads : l.version = version =>
                    /\ l.user = user /\ l.offset = offset /\ view = "loading"
                    /\ \A k \in loads : k.version = version => k = l
                    /\ l.rows # NULL => /\ Covers(l.rows)
                                        /\ \A i \in DOMAIN l.rows :
                                              told[l.rows[i].id] = "cancelled" => l.rows[i].cancelled

CardsSound == /\ \A i \in DOMAIN shown : shown[i].id \in Ids(Mine(user))
              /\ \A i, j \in DOMAIN shown : i < j => shown[i].id > shown[j].id

\* A card that awaits its details stands for the one on show in its place.
WaitingSound == \A w \in waiting :
   /\ w = [version |-> w.version, user |-> w.user, at |-> w.at, card |-> w.card]
   /\ w.version \in 0..version
   /\ w.version = version => /\ view = "loaded" /\ w.at \in DOMAIN shown
                             /\ w.card.id = shown[w.at].id
                             /\ w.card.cancelled = shown[w.at].cancelled
                             /\ w.card.lookup > cleared

\* What has not been seen lies ahead.
WalkSound == /\ offset \in {i * PageSize : i \in 0..version}
             /\ user = NULL => unseen = {}
             /\ \A r \in unseen : r \in Ids(Mine(user)) /\ Newer(Mine(user), r) >= offset
             /\ view = "loaded" => \A r \in unseen : /\ Newer(Mine(user), r) >= offset + PageSize
                                                     /\ Len(shown) >= PageSize

FreshSound == /\ version = 0 \/ cleared < version
              /\ \A e \in Events : cache[e] # 0 => cache[e] > cleared

DialogSound == /\ target # NULL => target \in Target /\ target.id \in Ids(bookings)
               /\ awaiting # NULL => awaiting \in Cancel /\ awaiting.id \in Ids(bookings)
               /\ cancels \subseteq Cancel
               /\ answer \in Answers \union {NULL}
               /\ answer = "cancelled" => awaiting # NULL /\ Gone(awaiting.id)
               /\ answer = "started" => awaiting # NULL /\ Stuck(awaiting.id)

ToldSound == \A r \in Reservations : /\ told[r] = "cancelled" => Gone(r)
                                     /\ told[r] = "started" => Stuck(r)

\* The inductive invariant.
IInv == /\ TypeOK /\ Unique(bookings) /\ LoadsSound /\ CardsSound /\ WaitingSound /\ WalkSound
        /\ FreshSound /\ DialogSound /\ ToldSound /\ NoContradiction /\ FreshAfterRefresh

--------------------------------------------------------------------------------
(* Lists *)

\* Positions in a list: each is taken, by one booking, and newer ones come first.
LEMMA Ranks ==
  ASSUME NEW B, Unique(B), \A b \in B : b.id \in Nat
  PROVE  /\ Cardinality(B) \in Nat
         /\ \A b \in B : Newer(B, b.id) \in 0..Cardinality(B) - 1
         /\ \A b, c \in B : b.id > c.id => Newer(B, b.id) < Newer(B, c.id)
         /\ \A i \in 0..Cardinality(B) - 1 : \E b \in B : Newer(B, b.id) = i
<1> DEFINE n == Cardinality(B)
           above(b) == {x \in B : x.id > b.id}
<1>1. n \in Nat /\ IsFiniteSet(B)
  BY FS_CardinalityType DEF Unique
<1>2. ASSUME NEW b \in B
      PROVE  IsFiniteSet(above(b)) /\ Cardinality(above(b)) \in Nat /\ Cardinality(above(b)) < n
  <2>1. above(b) \in SUBSET B /\ above(b) # B
    OBVIOUS
  <2>2. IsFiniteSet(above(b)) /\ Cardinality(above(b)) <= n /\ Cardinality(above(b)) # n
    BY <1>1, <2>1, FS_Subset
  <2>3. Cardinality(above(b)) \in Nat
    BY <2>2, FS_CardinalityType
  <2>4. QED
    BY <1>1, <2>2, <2>3
<1>3. ASSUME NEW b \in B, NEW c \in B, b.id > c.id
      PROVE  Cardinality(above(b)) < Cardinality(above(c))
  <2>1. above(b) \in SUBSET above(c) /\ above(b) # above(c)
    BY <1>3
  <2>2. Cardinality(above(b)) <= Cardinality(above(c)) /\ Cardinality(above(b)) # Cardinality(above(c))
    BY <1>2, <2>1, FS_Subset
  <2>3. QED
    BY <1>2, <2>2
<1>4. \A b \in B : Newer(B, b.id) = Cardinality(above(b))
  BY DEF Newer
<1> HIDE DEF above, n
<1>5. \A b \in B : Newer(B, b.id) \in 0..n - 1
  BY <1>1, <1>2, <1>4
<1>6. \A b, c \in B : b.id > c.id => Newer(B, b.id) < Newer(B, c.id)
  BY <1>3, <1>4
<1> DEFINE rank == [b \in B |-> Newer(B, b.id)]
<1>7. rank \in Injection(B, 0..n - 1)
  <2>1. rank \in [B -> 0..n - 1]
    BY <1>5
  <2>2. ASSUME NEW b \in B, NEW c \in B, rank[b] = rank[c]
        PROVE  b = c
    <3>1. Newer(B, b.id) = Newer(B, c.id) /\ Newer(B, b.id) \in Int
      BY <1>5, <2>2
    <3>2. ~(b.id > c.id) /\ ~(c.id > b.id)
      BY <1>6, <3>1
    <3>3. QED
      BY <3>2 DEF Unique
  <2>3. QED
    BY <2>1, <2>2 DEF Injection, IsInjective
<1>8. IsFiniteSet(0..n - 1) /\ Cardinality(0..n - 1) = n
  BY <1>1, FS_Interval
<1>9. rank \in Surjection(B, 0..n - 1)
  BY <1>7, <1>8, FS_Injection DEF n
<1>10. \A i \in 0..n - 1 : \E b \in B : rank[b] = i
  BY <1>9 DEF Surjection
<1>11. QED
  BY <1>1, <1>5, <1>6, <1>10 DEF n

\* Sorting lists each booking once, newest first.
LEMMA SortedList ==
  ASSUME NEW B, Unique(B), \A b \in B : b.id \in Nat
  PROVE  /\ Sorted(B) \in [1..Cardinality(B) -> B] /\ Cardinality(B) \in Nat
         /\ \A i \in 1..Cardinality(B) : Newer(B, Sorted(B)[i].id) = i - 1
         /\ \A b \in B : Newer(B, b.id) + 1 \in 1..Cardinality(B) /\ Sorted(B)[Newer(B, b.id) + 1] = b
<1>1. Cardinality(B) \in Nat
  BY Ranks
<1>2. ASSUME NEW i \in 1..Cardinality(B)
      PROVE  Sorted(B)[i] \in B /\ Newer(B, Sorted(B)[i].id) = i - 1
  <2>1. \E b \in B : Newer(B, b.id) = i - 1
    BY <1>1, Ranks
  <2>2. Sorted(B)[i] = CHOOSE b \in B : Newer(B, b.id) = i - 1
    BY DEF Sorted
  <2>3. QED
    BY <2>1, <2>2
<1>3. Sorted(B) \in [1..Cardinality(B) -> B]
  BY <1>2 DEF Sorted
<1>4. ASSUME NEW b \in B
      PROVE  Newer(B, b.id) + 1 \in 1..Cardinality(B) /\ Sorted(B)[Newer(B, b.id) + 1] = b
  <2>1. Newer(B, b.id) \in 0..Cardinality(B) - 1
    BY Ranks
  <2> DEFINE i == Newer(B, b.id) + 1
             c == Sorted(B)[i]
  <2>2. i \in 1..Cardinality(B)
    BY <1>1, <2>1
  <2>3. c \in B /\ Newer(B, c.id) = i - 1
    BY <1>2, <2>2
  <2>4. Newer(B, c.id) = Newer(B, b.id)
    BY <2>1, <2>3
  <2> HIDE DEF c, i
  <2>5. ~(c.id > b.id) /\ ~(b.id > c.id)
    BY <2>1, <2>3, <2>4, Ranks
  <2>6. c = b
    BY <2>3, <2>5 DEF Unique
  <2>7. QED
    BY <2>2, <2>6 DEF c, i
<1>5. QED
  BY <1>1, <1>2, <1>3, <1>4

\* More bookings push a booking back, never forward.
LEMMA RanksGrow ==
  ASSUME NEW B, NEW C, IsFiniteSet(C), B \subseteq C, NEW r
  PROVE  Newer(B, r) \in Nat /\ Newer(C, r) \in Nat /\ Newer(B, r) <= Newer(C, r)
<1> DEFINE X == {b \in B : b.id > r}
           Y == {b \in C : b.id > r}
<1>1. X \in SUBSET Y /\ Y \in SUBSET C
  OBVIOUS
<1>2. IsFiniteSet(Y)
  BY <1>1, FS_Subset
<1>3. IsFiniteSet(X) /\ Cardinality(X) <= Cardinality(Y)
  BY <1>1, <1>2, FS_Subset
<1>4. QED
  BY <1>2, <1>3, FS_CardinalityType DEF Newer

LEMMA SmallerOfTwo ==
  ASSUME NEW a \in Int, NEW b \in Int
  PROVE  Min({a, b}) = IF a <= b THEN a ELSE b
<1> DEFINE m == IF a <= b THEN a ELSE b
<1>1. m \in {a, b} /\ \A y \in {a, b} : m <= y
  OBVIOUS
<1>2. \A x \in {a, b} : (\A y \in {a, b} : x <= y) => x = m
  OBVIOUS
<1>3. QED
  BY <1>1, <1>2 DEF Min

\* A customer's bookings are a list of their own.
LEMMA OwnBookings ==
  ASSUME LedgerTypeOK, Unique(bookings), NEW u
  PROVE  /\ Unique(Mine(u)) /\ \A b \in Mine(u) : b \in bookings /\ b.id \in Nat /\ b.id \in Reservations
         /\ \A b \in Mine(u) : b.event \in Events
<1>1. Mine(u) \in SUBSET bookings
  BY DEF Mine
<1>2. IsFiniteSet(Mine(u))
  BY <1>1, FS_Subset DEF Unique
<1>3. QED
  BY <1>1, <1>2, HistoryAssumption DEF Unique, LedgerTypeOK, Entry

\* A page of the history: rows of the customer, newest first, as they stand; who
\* lies behind its beginning is on it, or behind its end.
LEMMA PageOfHistory ==
  ASSUME LedgerTypeOK, Unique(bookings), NEW u, NEW from \in Nat
  PROVE  /\ RowsOf(Slice(u, from), u)
         /\ \A i \in DOMAIN Slice(u, from) :
               Slice(u, from)[i].cancelled = (Slice(u, from)[i].id \notin inForce)
         /\ \A b \in Mine(u) : Newer(Mine(u), b.id) >= from =>
               \/ \E i \in DOMAIN Slice(u, from) : Slice(u, from)[i].id = b.id
               \/ Len(Slice(u, from)) = PageSize /\ Newer(Mine(u), b.id) >= from + PageSize
<1> DEFINE B == Mine(u)
           n == Cardinality(B)
           h == History(u)
           last == IF from + PageSize <= n THEN from + PageSize ELSE n
           size == IF from + 1 <= last THEN last - from ELSE 0
           part == SubSeq(h, from + 1, last)
           rows == [i \in DOMAIN part |-> [id |-> part[i].id, event |-> part[i].event,
                                           cancelled |-> part[i].id \notin inForce]]
<1>1. Unique(B) /\ \A b \in B : b \in bookings /\ b.id \in Nat /\ b.id \in Reservations /\ b.event \in Events
  BY OwnBookings
<1>2. /\ n \in Nat /\ h \in [1..n -> B]
      /\ \A i \in 1..n : Newer(B, h[i].id) = i - 1
      /\ \A b \in B : Newer(B, b.id) + 1 \in 1..n /\ h[Newer(B, b.id) + 1] = b
  BY <1>1, SortedList DEF History
<1>3. PageSize \in Nat \ {0}
  BY HistoryAssumption
<1>4. Len(h) = n
  BY <1>2
<1>5. Slice(u, from) = rows
  <2>1. Min({from + PageSize, n}) = last
    BY <1>2, <1>3, SmallerOfTwo
  <2>2. QED
    BY <1>4, <2>1 DEF Slice
<1> HIDE DEF B, n, h
<1>6. /\ last \in Int /\ last <= n /\ last <= from + PageSize /\ size \in 0..PageSize
      /\ size = IF from + 1 <= last THEN last - from ELSE 0
      /\ \A i \in 1..size : from + i \in 1..last /\ from + i \in 1..n
      /\ \A r \in Nat : from <= r /\ r < last => r + 1 - from \in 1..size
      /\ last < n => last = from + PageSize /\ size = PageSize
  BY <1>2, <1>3
<1>7. part \in Seq(B) /\ Len(part) = size /\ \A i \in 1..size : part[i] = h[from + i]
  <2>1. \A i \in from + 1..last : h[i] \in B
    BY <1>2, <1>6
  <2>2. /\ part \in Seq(B)
        /\ Len(part) = IF from + 1 <= last THEN last - (from + 1) + 1 ELSE 0
        /\ \A i \in 1..last - (from + 1) + 1 : part[i] = h[from + 1 + i - 1]
    BY <1>6, <2>1, SubSeqProperties
  <2>3. QED
    BY <1>6, <2>2
<1> HIDE DEF part, last, size
<1>8. DOMAIN rows = 1..size /\ Len(rows) = size
  BY <1>6, <1>7
<1>9. ASSUME NEW i \in 1..size
      PROVE  /\ from + i \in 1..n /\ h[from + i] \in B
             /\ rows[i] \in Row /\ rows[i].id = h[from + i].id
             /\ rows[i].cancelled = (h[from + i].id \notin inForce)
  <2> DEFINE c == h[from + i].id \notin inForce
             b == h[from + i]
  <2>1. from + i \in 1..n /\ b \in B
    BY <1>2, <1>6
  <2>2. rows[i] = [id |-> b.id, event |-> b.event, cancelled |-> c]
    BY <1>6, <1>7
  <2>3. c \in BOOLEAN /\ b.id \in Reservations /\ b.event \in Events
    BY <1>1, <2>1
  <2> HIDE DEF b, c, rows
  <2>4. rows[i] \in Row /\ rows[i].id = b.id /\ rows[i].cancelled = c
    BY <2>2, <2>3 DEF Row
  <2>5. QED
    BY <2>1, <2>4 DEF b, c
<1>10. rows \in [1..size -> Row]
  <2>1. \A i \in 1..size : rows[i] \in Row
    BY <1>9
  <2> DEFINE S == 1..size
  <2>2. rows = [i \in S |-> rows[i]]
    BY <1>7
  <2> HIDE DEF rows, S
  <2>3. QED
    BY <2>1, <2>2 DEF S
<1> HIDE DEF rows
<1>11. \A i, j \in 1..size : i < j => rows[i].id > rows[j].id
  <2>1. ASSUME NEW i \in 1..size, NEW j \in 1..size, i < j
        PROVE  h[from + i].id > h[from + j].id
    <3>1. /\ from + i \in 1..n /\ from + j \in 1..n /\ h[from + i] \in B /\ h[from + j] \in B
      BY <1>9
    <3>2. Newer(B, h[from + i].id) = from + i - 1 /\ Newer(B, h[from + j].id) = from + j - 1
      BY <1>2, <3>1
    <3>3. \A b, c \in B : b.id > c.id => Newer(B, b.id) < Newer(B, c.id)
      BY <1>1, Ranks
    <3>4. /\ h[from + i].id \in Nat /\ h[from + j].id \in Nat
          /\ ~(h[from + j].id > h[from + i].id) /\ h[from + i].id # h[from + j].id
      BY <1>1, <1>6, <2>1, <3>1, <3>2, <3>3
    <3>5. QED
      BY <3>4
  <2>2. \A i \in 1..size : rows[i].id = h[from + i].id
    BY <1>9
  <2>3. QED
    BY <2>1, <2>2
<1>12. RowsOf(rows, u)
  <2>1. \E k \in 0..PageSize : rows \in [1..k -> Row]
    BY <1>6, <1>10
  <2>2. \A i \in 1..size : rows[i].id \in Ids(B)
    BY <1>9 DEF Ids
  <2>3. QED
    BY <1>8, <1>11, <2>1, <2>2 DEF RowsOf, B
<1>13. \A i \in DOMAIN rows : rows[i].cancelled = (rows[i].id \notin inForce)
  BY <1>8, <1>9
<1>14. ASSUME NEW b \in B, Newer(B, b.id) >= from
       PROVE  \/ \E i \in DOMAIN rows : rows[i].id = b.id
              \/ Len(rows) = PageSize /\ Newer(B, b.id) >= from + PageSize
  <2> DEFINE r == Newer(B, b.id)
  <2>1. r + 1 \in 1..n /\ h[r + 1] = b /\ r \in Nat
    BY <1>1, <1>2, Ranks
  <2> HIDE DEF r
  <2>2. CASE r < last
    <3>1. r + 1 - from \in 1..size
      BY <1>6, <1>14, <2>1, <2>2 DEF r
    <3>2. PICK i \in 1..size : i = r + 1 - from
      BY <3>1
    <3>3. from + i = r + 1
      BY <2>1, <3>2
    <3>4. rows[i].id = b.id
      BY <1>9, <2>1, <3>2, <3>3
    <3>5. QED
      BY <1>8, <3>4
  <2>3. CASE r >= last
    <3>1. last = from + PageSize /\ size = PageSize
      BY <1>2, <1>6, <2>1, <2>3
    <3>2. QED
      BY <1>8, <2>3, <3>1 DEF r
  <2>4. QED
    BY <1>6, <2>1, <2>2, <2>3
<1>15. QED
  BY <1>5, <1>12, <1>13, <1>14 DEF B

--------------------------------------------------------------------------------
(* Steps of the server *)

\* Bookings are added, never taken away; what is over stays over.
Grows == /\ LedgerTypeOK' /\ Unique(bookings)' /\ bookings \subseteq bookings' /\ begun' \subseteq Events
         /\ \A r \in Reservations : (Gone(r) => Gone(r)') /\ (Stuck(r) => Stuck(r)')

LEMMA BookGrows ==
  ASSUME LedgerTypeOK, Unique(bookings), begun \subseteq Events, NEW b \in Entry, Book(b), begun' = begun
  PROVE  Grows
<1>1. /\ bookings' = bookings \union {b} /\ inForce' = inForce \union {b.id} /\ closed' = closed
      /\ \A x \in bookings : x.id # b.id
  BY DEF Book
<1>2. LedgerTypeOK'
  BY <1>1 DEF LedgerTypeOK, Entry
<1>3. IsFiniteSet(bookings')
  BY <1>1, FS_AddElement DEF Unique
<1>4. Unique(bookings)'
  BY <1>1, <1>3 DEF Unique
<1>5. QED
  BY <1>1, <1>2, <1>4 DEF Grows, Gone, Stuck, Ids

\* Who is withdrawn before the start was never found too late to be.
LEMMA WithdrawGrows ==
  ASSUME LedgerTypeOK, Unique(bookings), begun \subseteq Events, NEW b \in bookings, b.event \notin begun,
         Withdraw(b.id), begun' = begun
  PROVE  Grows
<1>1. bookings' = bookings /\ inForce' = inForce \ {b.id} /\ closed' = closed
  BY DEF Withdraw
<1>2. LedgerTypeOK' /\ Unique(bookings)'
  BY <1>1 DEF LedgerTypeOK, Unique
<1>3. \A r \in Reservations : Stuck(r) => r # b.id
  BY DEF Stuck, Unique
<1>4. QED
  BY <1>1, <1>2, <1>3 DEF Grows, Gone, Stuck, Ids

LEMMA OthersGrow ==
  ASSUME IInv, Others
  PROVE  Grows
<1>1. LedgerTypeOK /\ Unique(bookings) /\ begun \subseteq Events
  BY DEF IInv, TypeOK
<1>2. ASSUME NEW b \in Entry, Book(b), begun' = begun
      PROVE  Grows
  BY <1>1, <1>2, BookGrows
<1>3. ASSUME NEW b \in bookings, b.event \notin begun, Withdraw(b.id), begun' = begun
      PROVE  Grows
  BY <1>1, <1>3, WithdrawGrows
<1>4. ASSUME NEW e \in Events \ begun, Close(e), begun' = begun
      PROVE  Grows
  <2> DEFINE of == {b.id : b \in {x \in bookings : x.event = e}}
  <2>1. bookings' = bookings /\ inForce' = inForce \ of /\ closed' \subseteq Events
    BY <1>1, <1>4 DEF Close, LedgerTypeOK
  <2>2. LedgerTypeOK' /\ Unique(bookings)'
    BY <1>1, <2>1 DEF LedgerTypeOK, Unique
  <2>3. \A r \in Reservations : Stuck(r) => r \notin of
    BY <1>1, <1>4 DEF Stuck, Unique
  <2> HIDE DEF of
  <2>4. QED
    BY <1>1, <1>4, <2>1, <2>2, <2>3 DEF Grows, Gone, Stuck, Ids
<1>5. ASSUME NEW e \in Events \ begun, begun' = begun \union {e}, UNCHANGED ledger
      PROVE  Grows
  BY <1>1, <1>5 DEF ledger, Grows, LedgerTypeOK, Unique, Gone, Stuck, Ids
<1>6. QED
  BY <1>2, <1>3, <1>4, <1>5 DEF Others

\* Of one customer's bookings, none disappears and none comes forward.
LEMMA OwnGrow ==
  ASSUME Grows, NEW u
  PROVE  /\ Ids(Mine(u)) \subseteq Ids(Mine(u))' /\ Ids(bookings) \subseteq Ids(bookings)'
         /\ \A r, n \in Nat : Newer(Mine(u), r) >= n => Newer(Mine(u), r)' >= n
<1>1. Mine(u) \subseteq Mine(u)' /\ IsFiniteSet(Mine(u)')
  <2>1. Mine(u)' \in SUBSET bookings' /\ IsFiniteSet(bookings')
    BY DEF Grows, Mine, Unique
  <2>2. QED
    BY <2>1, FS_Subset DEF Grows, Mine
<1>2. ASSUME NEW r \in Nat
      PROVE  /\ Newer(Mine(u), r) \in Nat /\ Newer(Mine(u)', r) \in Nat
             /\ Newer(Mine(u), r) <= Newer(Mine(u)', r)
  BY <1>1, RanksGrow
<1>3. QED
  BY <1>1, <1>2 DEF Grows, Ids

\* Whatever happens at the server alone, with an answer that is true.
LEMMA ServerSound ==
  ASSUME IInv, Grows, UNCHANGED <<user, session, pageOf, details, target, awaiting, told, unseen, cleared>>,
         cancels' \subseteq cancels, answer' \in Answers \union {NULL},
         answer' = "cancelled" => awaiting # NULL /\ Gone(awaiting.id)',
         answer' = "started" => awaiting # NULL /\ Stuck(awaiting.id)'
  PROVE  IInv'
<1>1. /\ user' = user /\ session' = session /\ version' = version /\ offset' = offset /\ view' = view
      /\ loads' = loads /\ shown' = shown /\ cache' = cache /\ lookups' = lookups /\ waiting' = waiting
      /\ target' = target /\ awaiting' = awaiting /\ told' = told /\ unseen' = unseen /\ cleared' = cleared
  BY DEF pageOf, details
<1>2. TypeOK'
  BY <1>1 DEF IInv, TypeOK, Grows
<1>3. \A r \in unseen : r \in Nat /\ r \in Reservations
  BY HistoryAssumption DEF IInv, TypeOK
<1>4. offset \in Nat /\ offset + PageSize \in Nat
  BY HistoryAssumption DEF IInv, WalkSound, TypeOK
<1>5. \A r \in unseen : /\ Newer(Mine(user), r) >= offset => Newer(Mine(user), r)' >= offset
                        /\ Newer(Mine(user), r) >= offset + PageSize => Newer(Mine(user), r)' >= offset + PageSize
  BY <1>3, <1>4, OwnGrow
<1>6. LoadsSound'
  <2>1. ASSUME NEW l \in loads
        PROVE  LoadOK(l)'
    BY <1>1, OwnGrow DEF IInv, LoadsSound, LoadOK, RowsOf
  <2>2. ASSUME NEW l \in loads, l.version = version, l.rows # NULL
        PROVE  Covers(l.rows)'
    <3>1. Covers(l.rows)
      BY <2>2 DEF IInv, LoadsSound
    <3>2. QED
      BY <1>1, <1>5, <3>1 DEF Covers
  <2>3. QED
    BY <1>1, <2>1, <2>2 DEF IInv, LoadsSound
<1>7. CardsSound'
  BY <1>1, OwnGrow DEF IInv, CardsSound
<1>8. WaitingSound' /\ FreshSound' /\ NoContradiction' /\ FreshAfterRefresh'
  BY <1>1 DEF IInv, WaitingSound, FreshSound, NoContradiction, FreshAfterRefresh
<1>9. WalkSound'
  <2>1. \A r \in unseen : r \in Ids(Mine(user))'
    BY OwnGrow DEF IInv, WalkSound
  <2>2. QED
    BY <1>1, <1>5, <2>1 DEF IInv, WalkSound
<1>10. DialogSound'
  BY <1>1, OwnGrow DEF IInv, DialogSound
<1>11. ToldSound'
  BY <1>1 DEF IInv, ToldSound, Grows
<1>12. QED
  BY <1>2, <1>6, <1>7, <1>8, <1>9, <1>10, <1>11 DEF IInv, Grows

\* Others book, cancel and close, and events start.
LEMMA OthersSound ==
  ASSUME IInv, Others
  PROVE  IInv'
<1>1. Grows
  BY OthersGrow
<1>2. /\ UNCHANGED <<user, session, pageOf, details, target, awaiting, told, unseen, cleared>>
      /\ cancels' = cancels /\ answer' = answer
  BY DEF Others, wire
<1>3. /\ answer \in Answers \union {NULL}
      /\ answer = "cancelled" => awaiting # NULL /\ Gone(awaiting.id)
      /\ answer = "started" => awaiting # NULL /\ Stuck(awaiting.id)
      /\ awaiting # NULL => awaiting.id \in Reservations
  BY DEF IInv, DialogSound, Cancel
<1>4. awaiting' = awaiting
  BY <1>2
<1>5. QED
  BY <1>1, <1>2, <1>3, <1>4, ServerSound DEF Grows, Gone, Stuck

\* A cancellation is served once for all, and answered with what is so.
LEMMA CancelServed ==
  ASSUME IInv, NEW m \in cancels, ServeCancel(m) \/ ServeFailed(m)
  PROVE  IInv'
<1>1. /\ LedgerTypeOK /\ Unique(bookings) /\ begun \subseteq Events
      /\ m # NULL /\ m.id \in Reservations
      /\ awaiting # NULL => awaiting.id \in Reservations
      /\ answer \in Answers \union {NULL}
      /\ answer = "cancelled" => awaiting # NULL /\ Gone(awaiting.id)
      /\ answer = "started" => awaiting # NULL /\ Stuck(awaiting.id)
  BY NullAssumption DEF IInv, TypeOK, DialogSound, Cancel
<1>2. ASSUME NEW a \in Answers \union {NULL}, Answer(m, a), Grows,
             a = "cancelled" => Gone(m.id)', a = "started" => Stuck(m.id)'
      PROVE  IInv'
  <2>1. /\ UNCHANGED <<user, session, pageOf, details, target, awaiting, told, unseen, cleared>>
        /\ awaiting' = awaiting /\ cancels' \subseteq cancels
        /\ answer' = IF awaiting = m THEN a ELSE answer
    BY <1>2 DEF Answer
  <2>2. CASE awaiting = m
    BY <1>1, <1>2, <2>1, <2>2, ServerSound
  <2>3. CASE awaiting # m
    <3>1. /\ answer = "cancelled" => awaiting # NULL /\ Gone(awaiting.id)'
          /\ answer = "started" => awaiting # NULL /\ Stuck(awaiting.id)'
      BY <1>1, <1>2, <2>1 DEF Grows, Gone, Stuck
    <3>2. answer' = answer
      BY <2>1, <2>3
    <3>3. QED
      BY <1>1, <1>2, <2>1, <3>1, <3>2, ServerSound
  <2>4. QED
    BY <2>2, <2>3
<1>3. ASSUME UNCHANGED <<ledger, begun>>
      PROVE  Grows /\ (Gone(m.id) => Gone(m.id)') /\ (Stuck(m.id) => Stuck(m.id)')
  BY <1>1, <1>3 DEF ledger, Grows, LedgerTypeOK, Unique, Gone, Stuck, Ids
<1>4. CASE ServeFailed(m)
  <2>1. PICK a \in {NULL, "unauthorized"} : Answer(m, a)
    BY <1>4 DEF ServeFailed
  <2>2. a \in Answers \union {NULL} /\ a # "cancelled" /\ a # "started" /\ UNCHANGED <<ledger, begun>>
    BY <1>4, <2>1, NullAssumption DEF Answers, ServeFailed, Answer
  <2>3. QED
    BY <1>2, <1>3, <2>1, <2>2
<1>5. CASE ServeCancel(m)
  <2>1. PICK b \in Mine(m.user) : /\ b.id = m.id
           /\ \/ Refused(b) /\ Answer(m, "started") /\ UNCHANGED ledger
              \/ ~Refused(b) /\ b.id \notin inForce /\ Answer(m, "cancelled") /\ UNCHANGED ledger
              \/ /\ ~Refused(b) /\ Withdraw(b.id)
                 /\ \E a \in {"cancelled", NULL} : Answer(m, a)
    BY <1>5 DEF ServeCancel
  <2>2. b \in bookings
    BY DEF Mine
  <2>3. CASE Refused(b) /\ Answer(m, "started") /\ UNCHANGED ledger
    <3>1. Stuck(m.id) /\ UNCHANGED <<ledger, begun>>
      BY <2>1, <2>2, <2>3 DEF Refused, Stuck, Answer
    <3>2. QED
      BY <1>2, <1>3, <2>3, <3>1 DEF Answers
  <2>4. CASE ~Refused(b) /\ b.id \notin inForce /\ Answer(m, "cancelled") /\ UNCHANGED ledger
    <3>1. Gone(m.id) /\ UNCHANGED <<ledger, begun>>
      BY <2>1, <2>2, <2>4 DEF Gone, Ids, Answer
    <3>2. QED
      BY <1>2, <1>3, <2>4, <3>1 DEF Answers
  <2>5. CASE ~Refused(b) /\ Withdraw(b.id) /\ \E a \in {"cancelled", NULL} : Answer(m, a)
    <3>1. PICK a \in {"cancelled", NULL} : Answer(m, a)
      BY <2>5
    <3>2. b.event \notin begun /\ begun' = begun
      BY <2>5, <3>1 DEF Refused, Withdraw, Answer
    <3>3. Grows
      BY <1>1, <2>2, <2>5, <3>2, WithdrawGrows
    <3>4. Gone(m.id)'
      BY <2>1, <2>2, <2>5 DEF Gone, Ids, Withdraw
    <3>5. a \in Answers \union {NULL} /\ a # "started"
      BY NullAssumption DEF Answers
    <3>6. QED
      BY <1>2, <3>1, <3>3, <3>4, <3>5
  <2>6. QED
    BY <2>1, <2>3, <2>4, <2>5
<1>6. QED
  BY <1>4, <1>5

\* A page is read: what the walk has not seen is on it, or behind it.
LEMMA ListServed ==
  ASSUME IInv, NEW l \in loads, ServeList(l)
  PROVE  IInv'
<1> DEFINE rows == Slice(l.user, l.offset)
           s == [version |-> l.version, user |-> l.user, offset |-> l.offset, rows |-> rows]
<1>1. /\ LedgerTypeOK /\ Unique(bookings) /\ LoadOK(l) /\ l.offset \in Nat
      /\ l.version = version => l.user = user /\ l.offset = offset /\ view = "loading"
      /\ l.rows = NULL
  BY DEF IInv, TypeOK, LoadsSound, LoadOK, ServeList
<1>2. /\ RowsOf(rows, l.user)
      /\ \A i \in DOMAIN rows : rows[i].cancelled = (rows[i].id \notin inForce)
      /\ \A b \in Mine(l.user) : Newer(Mine(l.user), b.id) >= l.offset =>
            \/ \E i \in DOMAIN rows : rows[i].id = b.id
            \/ Len(rows) = PageSize /\ Newer(Mine(l.user), b.id) >= l.offset + PageSize
  BY <1>1, PageOfHistory
<1> HIDE DEF rows
<1>3. /\ loads' = (loads \ {l}) \union {s}
      /\ UNCHANGED <<ledger, begun, user, session, version, offset, view, shown,
                     details, target, wire, told, unseen, cleared>>
  <2>1. [l EXCEPT !.rows = rows] = s
    BY <1>1 DEF LoadOK
  <2> HIDE DEF s
  <2>2. QED
    BY <2>1 DEF ServeList, rows
<1>4. s.version = l.version /\ s.user = l.user /\ s.offset = l.offset /\ s.rows = rows
  OBVIOUS
<1>5. s = [version |-> s.version, user |-> s.user, offset |-> s.offset, rows |-> s.rows]
  OBVIOUS
<1> HIDE DEF s
<1>6. LoadOK(s)
  BY <1>1, <1>2, <1>4, <1>5 DEF LoadOK
<1>7. l.version = version => Covers(rows)
  <2>1. ASSUME l.version = version, NEW r \in unseen
        PROVE  \/ \E i \in DOMAIN rows : rows[i].id = r
               \/ Len(rows) = PageSize /\ Newer(Mine(user), r) >= offset + PageSize
    <3>1. l.user = user /\ l.offset = offset
      BY <1>1, <2>1
    <3>2. r \in Ids(Mine(user)) /\ Newer(Mine(user), r) >= offset
      BY DEF IInv, WalkSound
    <3>3. PICK b \in Mine(user) : b.id = r
      BY <3>2 DEF Ids
    <3>4. QED
      BY <1>2, <3>1, <3>2, <3>3
  <2>2. QED
    BY <2>1 DEF Covers
<1>8. \A i \in DOMAIN rows : rows[i].id \in Reservations
  BY <1>2 DEF RowsOf, Row
<1>9. \A i \in DOMAIN rows : told[rows[i].id] = "cancelled" => rows[i].cancelled
  BY <1>2, <1>8 DEF IInv, ToldSound, Gone
<1>10. LoadsSound'
  <2>1. \A k \in loads' : LoadOK(k)
    BY <1>3, <1>6 DEF IInv, LoadsSound
  <2>2. \A k \in loads' : LoadOK(k)'
    BY <1>3, <2>1 DEF LoadOK, RowsOf, Mine, Ids, ledger
  <2>3. ASSUME NEW k \in loads', k.version = version
        PROVE  /\ k.user = user /\ k.offset = offset /\ view = "loading"
               /\ \A j \in loads' : j.version = version => j = k
               /\ k.rows # NULL => /\ Covers(k.rows)
                                   /\ \A i \in DOMAIN k.rows :
                                         told[k.rows[i].id] = "cancelled" => k.rows[i].cancelled
    <3>1. CASE k = s
      <4>1. \A j \in loads : j.version = version => j = l
        BY <1>4, <2>3, <3>1 DEF IInv, LoadsSound
      <4>2. \A j \in loads' : j.version = version => j = k
        BY <1>3, <3>1, <4>1
      <4>3. QED
        BY <1>1, <1>4, <1>7, <1>9, <2>3, <3>1, <4>2
    <3>2. CASE k # s
      <4>1. k \in loads /\ k # l
        BY <1>3, <3>2
      <4>2. /\ k.user = user /\ k.offset = offset /\ view = "loading"
            /\ \A j \in loads : j.version = version => j = k
            /\ k.rows # NULL => /\ Covers(k.rows)
                                /\ \A i \in DOMAIN k.rows :
                                      told[k.rows[i].id] = "cancelled" => k.rows[i].cancelled
        BY <2>3, <4>1 DEF IInv, LoadsSound
      <4>3. s.version # version
        BY <1>4, <4>1, <4>2
      <4>4. \A j \in loads' : j.version = version => j = k
        BY <1>3, <4>2, <4>3
      <4>5. QED
        BY <4>2, <4>4
    <3>3. QED
      BY <3>1, <3>2
  <2>4. \A k : Covers(k)' = Covers(k)
    BY <1>3 DEF Covers, Mine, ledger
  <2>5. QED
    BY <1>3, <2>2, <2>3, <2>4 DEF LoadsSound
<1>11. TypeOK'
  <2>1. \A k \in loads' : k.version \in 1..version' /\ k.user \in Customers
    BY <1>3, <1>10 DEF LoadsSound, LoadOK
  <2>2. QED
    BY <1>3, <2>1 DEF IInv, TypeOK, LedgerTypeOK, ledger, details
<1>12. Unique(bookings)' /\ CardsSound' /\ WaitingSound' /\ WalkSound' /\ FreshSound' /\ DialogSound'
       /\ ToldSound' /\ NoContradiction' /\ FreshAfterRefresh'
  BY <1>3 DEF IInv, Unique, CardsSound, WaitingSound, WalkSound, FreshSound, DialogSound, ToldSound, Gone,
              Stuck, NoContradiction, FreshAfterRefresh, Mine, Ids, ledger, details, wire
<1>13. QED
  BY <1>10, <1>11, <1>12 DEF IInv

--------------------------------------------------------------------------------
(* Loading *)

\* A load with all that may come with it: the version moves on, the list is
\* empty, and no answer but the new load's will count.
Reloads(u, from) ==
  /\ version < MaxVersion /\ version' = version + 1
  /\ user' = u /\ offset' = from /\ shown' = <<>>
  /\ view' = (IF u = NULL THEN "out" ELSE "loading")
  /\ loads' \subseteq IF u = NULL THEN loads
                      ELSE loads \union {[version |-> version', user |-> u, offset |-> from, rows |-> NULL]}
  /\ unseen' = IF u = NULL THEN {} ELSE IF from = 0 THEN {b.id : b \in Mine(u)} ELSE unseen
  /\ session' \in {session, version'}
  /\ UNCHANGED <<ledger, begun, lookups, waiting>>

\* What a load may start from: page 1, or where the walk has seen what comes
\* before.
StartsWell(u, from) == /\ from \in {i * PageSize : i \in 0..version + 1}
                       /\ from = 0 \/ (u = user /\ \A r \in unseen : Newer(Mine(user), r) >= from)

LEMMA ReloadSound ==
  ASSUME IInv, NEW u \in Customers \union {NULL}, NEW from, Reloads(u, from), StartsWell(u, from),
         cache' \in [Events -> 0..version], \A e \in Events : cache'[e] \in {0, cache[e]},
         cleared' \in {cleared, version}, cleared' # cleared => \A e \in Events : cache'[e] = 0,
         DialogSound', ToldSound', told' \in [Reservations -> {"nothing", "cancelled", "started"}],
         target' # NULL => target'.user = u
  PROVE  IInv'
<1>1. /\ version \in Nat /\ version' = version + 1 /\ version' \in 0..MaxVersion /\ 0 \in Nat
      /\ session \in 0..version /\ cleared \in 0..version
      /\ LedgerTypeOK /\ Unique(bookings) /\ begun \subseteq Events
      /\ PageSize \in Nat \ {0} /\ MaxVersion \in Nat
  BY HistoryAssumption DEF IInv, TypeOK, Reloads
<1>2. /\ user' = u /\ offset' = from /\ shown' = <<>> /\ lookups' = lookups /\ waiting' = waiting
      /\ view' = (IF u = NULL THEN "out" ELSE "loading")
      /\ session' \in {session, version'}
      /\ bookings' = bookings /\ inForce' = inForce /\ closed' = closed /\ begun' = begun
  BY DEF Reloads, ledger
<1>3. PICK i \in 0..version + 1 : from = i * PageSize
  BY DEF StartsWell
<1>4. from \in Nat
  BY <1>1, <1>3
<1>5. from \in {j * PageSize : j \in 0..version'} /\ from \in {j * PageSize : j \in 0..MaxVersion}
  BY <1>1, <1>3
<1>6. \A k \in loads : /\ LoadOK(k) /\ k.version < version' /\ k.version \in 1..version' /\ k.user \in Customers
  BY <1>1 DEF IInv, LoadsSound, LoadOK
<1> DEFINE new == [version |-> version', user |-> u, offset |-> from, rows |-> NULL]
<1>7. /\ new.version = version' /\ new.user = u /\ new.offset = from /\ new.rows = NULL
      /\ new = [version |-> new.version, user |-> new.user, offset |-> new.offset, rows |-> new.rows]
      /\ \A k \in loads' : k \in loads \/ (u # NULL /\ k = new)
  BY DEF Reloads
<1> HIDE DEF new
<1>8. LoadsSound'
  <2>1. \A k \in loads' : LoadOK(k)'
    BY <1>1, <1>2, <1>4, <1>6, <1>7 DEF LoadOK, RowsOf, Mine, Ids
  <2>2. \A k \in loads' : k.version = version' => k = new /\ u # NULL
    BY <1>1, <1>6, <1>7
  <2>3. QED
    BY <1>2, <1>7, <2>1, <2>2 DEF LoadsSound
<1>9. \A r \in unseen' : /\ r \in Ids(Mine(u)) /\ r \in Reservations
                         /\ Newer(Mine(u), r) >= from
  <2>1. CASE u = NULL
    BY <2>1 DEF Reloads
  <2>2. CASE u # NULL /\ from = 0
    <3>1. ASSUME NEW b \in Mine(u)
          PROVE  b.id \in Ids(Mine(u)) /\ b.id \in Reservations /\ Newer(Mine(u), b.id) >= 0
      <4>1. Newer(Mine(u), b.id) \in Nat
        BY <1>1, OwnBookings, Ranks
      <4>2. QED
        BY <1>1, <4>1, OwnBookings DEF Ids
    <3>2. unseen' = {b.id : b \in Mine(u)}
      BY <2>2 DEF Reloads
    <3>3. QED
      BY <2>2, <3>1, <3>2
  <2>3. CASE u # NULL /\ from # 0
    BY <2>3 DEF Reloads, StartsWell, IInv, WalkSound, TypeOK
  <2>4. QED
    BY <2>1, <2>2, <2>3
<1>10. WalkSound'
  <2>1. Mine(u)' = Mine(u) /\ \A B, r : Newer(B, r)' = Newer(B, r)
    BY <1>2 DEF Mine, Newer
  <2>2. \A r \in unseen' : r \in Ids(Mine(user))' /\ Newer(Mine(user), r)' >= from
    BY <1>2, <1>9 DEF Mine, Ids
  <2>3. user' = NULL => unseen' = {}
    BY <1>2 DEF Reloads
  <2>4. QED
    BY <1>2, <1>5, <2>2, <2>3 DEF WalkSound
<1>11. TypeOK'
  <2>1. cache' \in [Events -> 0..version'] /\ cleared' \in 0..version' /\ session' \in 0..version'
    BY <1>1, <1>2
  <2>2. \A k \in loads' : k.version \in 1..version' /\ k.user \in Customers
    BY <1>1, <1>6, <1>7
  <2>3. lookups' \subseteq [event : Events, version : 1..version']
    BY <1>1, <1>2 DEF IInv, TypeOK
  <2>4. u # NULL => u \in Customers
    OBVIOUS
  <2>5. unseen' \subseteq Reservations /\ shown' \in Seq(Card)
    BY <1>2, <1>9
  <2>6. \A w \in waiting' : w.card \in Card
    BY <1>2 DEF IInv, TypeOK
  <2>7. LedgerTypeOK' /\ begun' \subseteq Events
    BY <1>1, <1>2 DEF LedgerTypeOK
  <2>8. QED
    BY <1>1, <1>2, <1>5, <2>1, <2>2, <2>3, <2>4, <2>5, <2>6, <2>7 DEF TypeOK
<1>12. WaitingSound'
  BY <1>1, <1>2 DEF IInv, WaitingSound
<1>13. FreshSound'
  <2>1. \A e \in Events : cache'[e] # 0 => cache'[e] = cache[e] /\ cleared' = cleared
    OBVIOUS
  <2>2. cleared' < version'
    BY <1>1
  <2>3. QED
    BY <2>1, <2>2 DEF IInv, FreshSound
<1>14. Unique(bookings)' /\ CardsSound' /\ NoContradiction' /\ FreshAfterRefresh'
  BY <1>1, <1>2 DEF Unique, CardsSound, NoContradiction, FreshAfterRefresh
<1>15. QED
  BY <1>8, <1>10, <1>11, <1>12, <1>13, <1>14 DEF IInv

\* What a load leaves alone of the dialog and of what was told.
LEMMA DialogKept ==
  ASSUME IInv, UNCHANGED <<ledger, begun, told, cancels, awaiting, answer>>, target' \in {target, NULL}
  PROVE  DialogSound' /\ ToldSound' /\ told' \in [Reservations -> {"nothing", "cancelled", "started"}]
<1>1. /\ bookings' = bookings /\ inForce' = inForce /\ begun' = begun /\ told' = told /\ cancels' = cancels
      /\ awaiting' = awaiting /\ answer' = answer
  BY DEF ledger
<1>2. \A r : Gone(r)' = Gone(r) /\ Stuck(r)' = Stuck(r)
  BY <1>1 DEF Gone, Stuck, Ids
<1>3. DialogSound'
  BY <1>1 DEF IInv, DialogSound, Gone, Stuck, Ids
<1>4. ToldSound' /\ told' \in [Reservations -> {"nothing", "cancelled", "started"}]
  BY <1>1, <1>2 DEF IInv, TypeOK, ToldSound
<1>5. QED
  BY <1>3, <1>4

LEMMA LoadReloads ==
  ASSUME NEW u, NEW from, Load(u, from), user' = u, session' \in {session, version'},
         UNCHANGED <<ledger, begun, lookups, waiting>>
  PROVE  Reloads(u, from)
BY DEF Load, Reloads

\* Where the pages start.
LEMMA PagesStart ==
  ASSUME IInv
  PROVE  /\ StartsWell(user, 0) /\ StartsWell(user, offset) /\ \A u : StartsWell(u, 0)
         /\ view = "loaded" => StartsWell(user, offset + PageSize)
         /\ offset # 0 => StartsWell(user, offset - PageSize)
<1>1. version \in Nat /\ PageSize \in Nat \ {0}
  BY HistoryAssumption DEF IInv, TypeOK
<1>2. PICK i \in 0..version : offset = i * PageSize
  BY DEF IInv, WalkSound
<1>3. 0 = 0 * PageSize /\ 0 \in 0..version + 1 /\ i \in 0..version + 1 /\ i + 1 \in 0..version + 1 /\ offset \in Nat
  BY <1>1, <1>2
<1>4. offset + PageSize = (i + 1) * PageSize
  BY <1>1, <1>2
<1>5. offset # 0 => i - 1 \in 0..version + 1 /\ offset - PageSize = (i - 1) * PageSize
  BY <1>1, <1>2
<1>6. \A u : StartsWell(u, 0)
  BY <1>3 DEF StartsWell
<1>7. StartsWell(user, offset) /\ (view = "loaded" => StartsWell(user, offset + PageSize))
  BY <1>2, <1>3, <1>4 DEF StartsWell, IInv, WalkSound
<1>8. ASSUME offset # 0
      PROVE  StartsWell(user, offset - PageSize)
  <2>1. ASSUME NEW r \in unseen
        PROVE  Newer(Mine(user), r) >= offset - PageSize
    <3>1. Newer(Mine(user), r) >= offset /\ r \in Ids(Mine(user))
      BY DEF IInv, WalkSound
    <3>2. Newer(Mine(user), r) \in Nat
      <4>1. PICK b \in Mine(user) : b.id = r
        BY <3>1 DEF Ids
      <4>2. LedgerTypeOK /\ Unique(bookings)
        BY DEF IInv, TypeOK
      <4>3. QED
        BY <4>1, <4>2, OwnBookings, Ranks
    <3>3. QED
      BY <1>1, <1>3, <3>1, <3>2
  <2>2. QED
    BY <1>5, <1>8, <2>1 DEF StartsWell
<1>9. QED
  BY <1>6, <1>7, <1>8

\* Forgetting leaves no more in the cache.
LEMMA CacheShrinks ==
  ASSUME IInv, NEW e, Forget(e)
  PROVE  /\ cache' \in [Events -> 0..version] /\ \A x \in Events : cache'[x] \in {0, cache[x]}
         /\ UNCHANGED <<lookups, waiting>>
<1>1. cache \in [Events -> 0..version] /\ 0 \in 0..version
  BY HistoryAssumption DEF IInv, TypeOK
<1>2. cache' = [cache EXCEPT ![e] = 0] /\ lookups' = lookups /\ waiting' = waiting
  BY DEF Forget
<1>3. DOMAIN cache' = Events /\ \A x \in Events : cache'[x] = IF x = e THEN 0 ELSE cache[x]
  BY <1>1, <1>2
<1>4. \A x \in Events : cache'[x] \in {0, cache[x]} /\ cache'[x] \in 0..version
  BY <1>1, <1>3
<1>5. cache' = [x \in Events |-> cache'[x]]
  BY <1>1, <1>2
<1>6. QED
  BY <1>2, <1>4, <1>5

\* Login, logout, turning pages, Refresh and a booking's answer.
LEMMA TurnsSound ==
  ASSUME IInv, \/ \E u \in Customers : Login(u)
               \/ Logout \/ NextPage \/ PreviousPage \/ Refresh \/ BookingAnswered
  PROVE  IInv'
<1>1. /\ cache \in [Events -> 0..version] /\ user \in Customers \union {NULL}
      /\ session \in 0..version /\ version \in Nat
      /\ target # NULL => target.user = user
  BY HistoryAssumption DEF IInv, TypeOK
<1>2. ASSUME NEW u \in Customers \union {NULL}, AuthChange(u), UNCHANGED <<ledger, begun, details, wire, told, cleared>>
      PROVE  IInv'
  <2>1. Load(u, 0) /\ user' = u /\ session' = version' /\ target' = NULL
    BY <1>2 DEF AuthChange
  <2>2. /\ UNCHANGED <<ledger, begun, lookups, waiting, told, cancels, awaiting, answer>>
        /\ cache' = cache /\ cleared' = cleared
    BY <1>2 DEF details, wire
  <2>3. Reloads(u, 0) /\ StartsWell(u, 0)
    BY <2>1, <2>2, LoadReloads, PagesStart
  <2>4. DialogSound' /\ ToldSound' /\ told' \in [Reservations -> {"nothing", "cancelled", "started"}]
    BY <2>1, <2>2, DialogKept
  <2>5. QED
    BY <1>1, <2>1, <2>2, <2>3, <2>4, ReloadSound
<1>3. ASSUME NEW from, Load(user, from), StartsWell(user, from), Quiet, UNCHANGED <<lookups, waiting>>,
             cache' \in [Events -> 0..version], \A e \in Events : cache'[e] \in {0, cache[e]},
             cleared' \in {cleared, version}, cleared' # cleared => \A e \in Events : cache'[e] = 0
      PROVE  IInv'
  <2>1. /\ UNCHANGED <<ledger, begun, lookups, waiting, told, cancels, awaiting, answer>>
        /\ user' = user /\ session' = session /\ target' = target
    BY <1>3 DEF Quiet, wire
  <2>2. Reloads(user, from)
    BY <1>3, <2>1, LoadReloads
  <2>3. DialogSound' /\ ToldSound' /\ told' \in [Reservations -> {"nothing", "cancelled", "started"}]
    BY <2>1, DialogKept
  <2>4. QED
    BY <1>1, <1>3, <2>1, <2>2, <2>3, ReloadSound
<1>4. ASSUME NEW from, Turn(from), StartsWell(user, from)
      PROVE  IInv'
  <2>1. /\ Load(user, from) /\ Quiet /\ UNCHANGED <<lookups, waiting>>
        /\ cache' = cache /\ cleared' = cleared
    BY <1>4 DEF Turn, details
  <2>2. QED
    BY <1>1, <1>3, <1>4, <2>1
<1>5. CASE \E u \in Customers : Login(u)
  BY <1>2, <1>5 DEF Login
<1>6. CASE Logout
  BY <1>2, <1>6 DEF Logout
<1>7. CASE NextPage
  BY <1>4, <1>7, PagesStart DEF NextPage
<1>8. CASE PreviousPage
  BY <1>4, <1>8, PagesStart DEF PreviousPage
<1>9. CASE Refresh
  <2>1. /\ Load(user, offset) /\ Quiet /\ UNCHANGED <<lookups, waiting>>
        /\ cache' = [e \in Events |-> 0] /\ cleared' \in {cleared, version}
    BY <1>9 DEF Refresh, ClearCache
  <2>2. cache' \in [Events -> 0..version] /\ \A e \in Events : cache'[e] = 0
    BY <1>1, <2>1
  <2>3. QED
    BY <1>3, <2>1, <2>2, PagesStart
<1>10. CASE BookingAnswered
  <2>1. PICK b \in Mine(user) : Forget(b.event)
    BY <1>10 DEF BookingAnswered
  <2>2. Load(user, 0) /\ Quiet /\ cleared' = cleared
    BY <1>10 DEF BookingAnswered
  <2>3. QED
    BY <1>3, <2>1, <2>2, CacheShrinks, PagesStart
<1>11. QED
  BY <1>5, <1>6, <1>7, <1>8, <1>9, <1>10

\* A request for a page that is refused for its token ends the session.
LEMMA UnauthorizedSound ==
  ASSUME IInv, NEW l \in loads, ListUnauthorized(l)
  PROVE  IInv'
<1>1. /\ UNCHANGED <<ledger, begun, lookups, waiting, told, cancels, awaiting, answer>>
      /\ cache' = cache /\ cleared' = cleared /\ target' = NULL /\ cache \in [Events -> 0..version]
  BY DEF ListUnauthorized, details, wire, IInv, TypeOK
<1>2. Reloads(NULL, 0) /\ StartsWell(NULL, 0)
  BY <1>1, PagesStart DEF ListUnauthorized, Reloads
<1>3. DialogSound' /\ ToldSound' /\ told' \in [Reservations -> {"nothing", "cancelled", "started"}]
  BY <1>1, DialogKept
<1>4. QED
  BY <1>1, <1>2, <1>3, ReloadSound

--------------------------------------------------------------------------------
(* The dialog *)

\* What the dialog does without the page.
LEMMA PageKept ==
  ASSUME IInv, UNCHANGED <<ledger, begun, user, session, pageOf, details, told, unseen, cleared>>,
         DialogSound', target' # NULL => target'.user = user
  PROVE  IInv'
<1>1. /\ bookings' = bookings /\ inForce' = inForce /\ closed' = closed /\ begun' = begun /\ user' = user
      /\ session' = session /\ version' = version /\ offset' = offset /\ view' = view /\ loads' = loads
      /\ shown' = shown /\ cache' = cache /\ lookups' = lookups /\ waiting' = waiting /\ told' = told
      /\ unseen' = unseen /\ cleared' = cleared
  BY DEF ledger, pageOf, details
<1>2. TypeOK'
  BY <1>1 DEF IInv, TypeOK, LedgerTypeOK
<1>3. LoadsSound'
  <2>1. \A l : LoadOK(l)' = LoadOK(l) /\ Covers(l)' = Covers(l)
    BY <1>1 DEF LoadOK, RowsOf, Covers, Mine, Ids
  <2>2. QED
    BY <1>1, <2>1 DEF IInv, LoadsSound
<1>4. Unique(bookings)' /\ CardsSound' /\ WaitingSound' /\ WalkSound' /\ FreshSound'
  BY <1>1 DEF IInv, Unique, CardsSound, WaitingSound, WalkSound, FreshSound, Mine, Ids
<1>5. ToldSound' /\ NoContradiction' /\ FreshAfterRefresh'
  BY <1>1 DEF IInv, ToldSound, Gone, Stuck, NoContradiction, FreshAfterRefresh, Ids
<1>6. QED
  BY <1>2, <1>3, <1>4, <1>5 DEF IInv

LEMMA StutterSound ==
  ASSUME IInv, UNCHANGED vars
  PROVE  IInv'
<1>1. /\ UNCHANGED <<ledger, begun, user, session, pageOf, details, told, unseen, cleared>>
      /\ UNCHANGED <<cancels, awaiting, answer, target>>
  BY DEF vars, wire
<1>2. DialogSound'
  BY <1>1, DialogKept
<1>3. QED
  BY <1>1, <1>2, PageKept DEF IInv, TypeOK

LEMMA AskSound ==
  ASSUME IInv, NEW i \in DOMAIN shown, AskCancel(shown[i])
  PROVE  IInv'
<1>1. /\ UNCHANGED <<ledger, begun, user, session, pageOf, details, told, unseen, cleared>>
      /\ UNCHANGED <<cancels, awaiting, answer>>
      /\ target' = [id |-> shown[i].id, event |-> shown[i].event, user |-> user]
  BY DEF AskCancel, wire
<1>2. shown[i] \in Card /\ user \in Customers
  BY DEF IInv, TypeOK
<1>3. shown[i].id \in Ids(bookings)
  BY DEF IInv, CardsSound, Ids, Mine
<1>4. target' \in Target /\ target'.id \in Ids(bookings) /\ target'.user = user
  BY <1>1, <1>2, <1>3 DEF Target, Card
<1>5. DialogSound'
  <2>1. bookings' = bookings /\ inForce' = inForce /\ begun' = begun
    BY <1>1 DEF ledger
  <2>2. QED
    BY <1>1, <1>4, <2>1 DEF IInv, DialogSound, Gone, Stuck, Ids
<1>6. QED
  BY <1>1, <1>4, <1>5, PageKept

LEMMA KeepSound ==
  ASSUME IInv, KeepReservation
  PROVE  IInv'
<1>1. /\ UNCHANGED <<ledger, begun, user, session, pageOf, details, told, unseen, cleared>>
      /\ UNCHANGED <<cancels, awaiting, answer>> /\ target' = NULL
  BY DEF KeepReservation, wire
<1>2. DialogSound'
  BY <1>1, DialogKept
<1>3. QED
  BY <1>1, <1>2, PageKept

LEMMA ConfirmSound ==
  ASSUME IInv, ConfirmCancel
  PROVE  IInv'
<1> DEFINE m == [id |-> target.id, event |-> target.event, user |-> user, version |-> version]
<1>1. /\ UNCHANGED <<ledger, begun, user, session, pageOf, details, told, unseen, cleared>>
      /\ target' = target /\ awaiting' = m /\ cancels' = cancels \union {m} /\ answer' = NULL
      /\ user = target.user /\ target # NULL
  BY DEF ConfirmCancel
<1>2. /\ target \in Target /\ target.id \in Ids(bookings) /\ version \in 0..MaxVersion /\ cancels \subseteq Cancel
  BY <1>1 DEF IInv, DialogSound, TypeOK
<1>3. m \in Cancel /\ m.id = target.id
  BY <1>1, <1>2 DEF Target, Cancel
<1> HIDE DEF m
<1>4. DialogSound'
  <2>1. bookings' = bookings
    BY <1>1 DEF ledger
  <2>2. NULL # "cancelled" /\ NULL # "started"
    BY NullAssumption DEF Answers
  <2>3. QED
    BY <1>1, <1>2, <1>3, <2>1, <2>2 DEF DialogSound, Ids
<1>5. QED
  BY <1>1, <1>4, PageKept

\* The answer to a cancellation: the customer who asked is told, nobody else.
LEMMA CancelAnsweredSound ==
  ASSUME IInv, CancelAnswered
  PROVE  IInv'
<1> DEFINE r == awaiting.id
<1>1. /\ awaiting # NULL /\ awaiting' = NULL /\ answer' = NULL
      /\ UNCHANGED <<ledger, begun, cancels>> /\ cleared' = cleared
      /\ bookings' = bookings /\ inForce' = inForce /\ begun' = begun /\ cancels' = cancels
  BY DEF CancelAnswered, ledger
<1>2. /\ awaiting \in Cancel /\ r \in Reservations /\ cancels \subseteq Cancel
      /\ answer = "cancelled" => Gone(r)
      /\ answer = "started" => Stuck(r)
      /\ target # NULL => target \in Target /\ target.id \in Ids(bookings) /\ target.user = user
      /\ told \in [Reservations -> {"nothing", "cancelled", "started"}] /\ user \in Customers \union {NULL}
      /\ cache \in [Events -> 0..version]
  BY <1>1 DEF IInv, DialogSound, TypeOK, Cancel
<1>3. NULL # "cancelled" /\ NULL # "started"
  BY NullAssumption DEF Answers
<1>4. ASSUME target' \in {target, NULL}
      PROVE  DialogSound'
  BY <1>1, <1>2, <1>3, <1>4 DEF DialogSound, Ids
<1>5. ASSUME NotTold
      PROVE  IInv'
  <2>1. /\ UNCHANGED <<ledger, begun, user, session, pageOf, details, told, unseen, cleared>>
        /\ target' = target
    BY <1>1, <1>5 DEF NotTold
  <2>2. QED
    BY <1>2, <1>4, <2>1, PageKept
<1>6. ASSUME NEW what \in {"cancelled", "started"}, Tell(what),
             what = "cancelled" => Gone(r), what = "started" => Stuck(r)
      PROVE  ToldSound' /\ told' \in [Reservations -> {"nothing", "cancelled", "started"}]
  <2>1. told' = [told EXCEPT ![r] = what]
    BY <1>6 DEF Tell
  <2> HIDE DEF r
  <2>2. /\ DOMAIN told' = Reservations /\ \A q \in Reservations : told'[q] = IF q = r THEN what ELSE told[q]
        /\ told' \in [Reservations -> {"nothing", "cancelled", "started"}]
    BY <1>2, <2>1
  <2>3. \A q : Gone(q)' = Gone(q) /\ Stuck(q)' = Stuck(q)
    BY <1>1 DEF Gone, Stuck, Ids
  <2>4. QED
    BY <1>6, <2>2, <2>3 DEF IInv, ToldSound
<1>7. ASSUME told' = told
      PROVE  ToldSound' /\ told' \in [Reservations -> {"nothing", "cancelled", "started"}]
  BY <1>1, <1>2, <1>7 DEF IInv, ToldSound, Gone, Stuck, Ids
<1>8. ASSUME Load(user, offset), Forget(awaiting.event), UNCHANGED <<user, session>>, target' \in {target, NULL},
             ToldSound', told' \in [Reservations -> {"nothing", "cancelled", "started"}]
      PROVE  IInv'
  <2>1. /\ cache' \in [Events -> 0..version] /\ \A e \in Events : cache'[e] \in {0, cache[e]}
        /\ UNCHANGED <<lookups, waiting>>
    BY <1>8, CacheShrinks
  <2>2. Reloads(user, offset) /\ StartsWell(user, offset)
    BY <1>1, <1>8, <2>1, LoadReloads, PagesStart
  <2>3. DialogSound'
    BY <1>4, <1>8
  <2>4. QED
    BY <1>1, <1>2, <1>8, <2>1, <2>2, <2>3, ReloadSound
<1>9. ASSUME answer = "cancelled", Cancelled
      PROVE  IInv'
  BY <1>2, <1>6, <1>8, <1>9 DEF Cancelled, Reload
<1>10. ASSUME NotCancelled
      PROVE  IInv'
  <2>1. /\ Load(user, offset) /\ Forget(awaiting.event) /\ UNCHANGED <<user, session>> /\ target' = target
    BY <1>10 DEF NotCancelled, Reload
  <2>2. ToldSound' /\ told' \in [Reservations -> {"nothing", "cancelled", "started"}]
    BY <1>2, <1>6, <1>7, <1>10 DEF NotCancelled
  <2>3. QED
    BY <1>8, <2>1, <2>2
<1>11. ASSUME AuthChange(NULL), UNCHANGED <<details, told>>
      PROVE  IInv'
  <2>1. Load(NULL, 0) /\ user' = NULL /\ session' = version' /\ target' = NULL
    BY <1>11 DEF AuthChange
  <2>2. UNCHANGED <<ledger, begun, lookups, waiting>> /\ cache' = cache
    BY <1>1, <1>11 DEF details
  <2>3. Reloads(NULL, 0) /\ StartsWell(NULL, 0)
    BY <2>1, <2>2, LoadReloads, PagesStart
  <2>4. DialogSound' /\ ToldSound' /\ told' \in [Reservations -> {"nothing", "cancelled", "started"}]
    BY <1>4, <1>7, <1>11, <2>1
  <2>5. QED
    BY <1>1, <1>2, <2>1, <2>2, <2>3, <2>4, ReloadSound
<1>12. QED
  BY <1>5, <1>9, <1>10, <1>11 DEF CancelAnswered

--------------------------------------------------------------------------------
(* Answers *)

\* What answers to the page leave alone.
LEMMA QuietKept ==
  ASSUME IInv, Quiet
  PROVE  /\ bookings' = bookings /\ inForce' = inForce /\ closed' = closed /\ begun' = begun
         /\ user' = user /\ session' = session /\ target' = target /\ told' = told
         /\ Unique(bookings)' /\ DialogSound' /\ ToldSound' /\ LedgerTypeOK'
<1>1. UNCHANGED <<ledger, begun, told, cancels, awaiting, answer, user, session, target>>
  BY DEF Quiet, wire
<1>2. DialogSound' /\ ToldSound'
  BY <1>1, DialogKept
<1>3. QED
  BY <1>1, <1>2 DEF ledger, IInv, TypeOK, LedgerTypeOK, Unique

\* An answer to a load is taken once.
LEMMA LoadTaken ==
  ASSUME IInv, NEW l \in loads, loads' = loads \ {l}, Quiet, version' = version, offset' = offset,
         l.version = version \/ (view' = view /\ unseen' = unseen)
  PROVE  LoadsSound'
<1>1. /\ bookings' = bookings /\ user' = user /\ told' = told
  BY QuietKept
<1>2. \A k \in loads : LoadOK(k)' = LoadOK(k)
  BY <1>1 DEF LoadOK, RowsOf, Mine, Ids
<1>3. CASE l.version = version
  BY <1>2, <1>3 DEF IInv, LoadsSound
<1>4. CASE view' = view /\ unseen' = unseen
  <2>1. \A rows : Covers(rows)' = Covers(rows)
    BY <1>1, <1>4 DEF Covers, Mine
  <2>2. QED
    BY <1>1, <1>2, <1>4, <2>1 DEF IInv, LoadsSound
<1>5. QED
  BY <1>3, <1>4

\* Of an outdated load, nothing is kept.
LEMMA IgnoredSound ==
  ASSUME IInv, NEW l \in loads, Ignored(l), Received(l), Quiet
  PROVE  IInv'
<1>1. /\ loads' = loads \ {l} /\ version' = version /\ offset' = offset /\ cleared' = cleared
      /\ view' = view /\ shown' = shown /\ unseen' = unseen
      /\ cache' = cache /\ lookups' = lookups /\ waiting' = waiting
  BY DEF Ignored, Received, details
<1>2. LoadsSound'
  BY <1>1, LoadTaken
<1>3. TypeOK'
  <2>1. \A k \in loads' : k.version \in 1..version' /\ k.user \in Customers
    BY <1>1 DEF IInv, TypeOK
  <2>2. QED
    BY <1>1, <2>1, QuietKept DEF IInv, TypeOK
<1>4. CardsSound' /\ WaitingSound' /\ WalkSound' /\ FreshSound' /\ NoContradiction' /\ FreshAfterRefresh'
  BY <1>1, QuietKept DEF IInv, CardsSound, WaitingSound, WalkSound, FreshSound, NoContradiction,
                         FreshAfterRefresh, Mine, Ids
<1>5. QED
  BY <1>2, <1>3, <1>4, QuietKept DEF IInv

LEMMA ListFailsSound ==
  ASSUME IInv, NEW l \in loads, ListFails(l)
  PROVE  IInv'
<1>1. Received(l) /\ Quiet
  BY DEF ListFails
<1>2. CASE Ignored(l)
  BY <1>1, <1>2, IgnoredSound
<1>3. CASE Current(l) /\ view' = "failed" /\ UNCHANGED <<shown, details, unseen>>
  <2>1. /\ loads' = loads \ {l} /\ version' = version /\ offset' = offset /\ cleared' = cleared
        /\ view' = "failed" /\ shown' = shown /\ unseen' = unseen
        /\ cache' = cache /\ lookups' = lookups /\ waiting' = waiting /\ l.version = version
    BY <1>1, <1>3 DEF Current, Received, details
  <2>2. view = "loading" /\ shown = <<>> /\ user # NULL
    BY <2>1 DEF IInv, LoadsSound, TypeOK
  <2>3. LoadsSound'
    BY <1>1, <2>1, LoadTaken
  <2>4. TypeOK'
    <3>1. \A k \in loads' : k.version \in 1..version' /\ k.user \in Customers
      BY <2>1 DEF IInv, TypeOK
    <3>2. QED
      BY <1>1, <2>1, <2>2, <3>1, QuietKept DEF IInv, TypeOK
  <2>5. CardsSound' /\ WaitingSound' /\ WalkSound' /\ FreshSound' /\ NoContradiction' /\ FreshAfterRefresh'
    BY <1>1, <2>1, <2>2, QuietKept DEF IInv, CardsSound, WaitingSound, WalkSound, FreshSound,
                                   NoContradiction, FreshAfterRefresh, Mine, Ids
  <2>6. QED
    BY <1>1, <2>3, <2>4, <2>5, QuietKept DEF IInv
<1>4. QED
  BY <1>2, <1>3 DEF ListFails

\* The page asked for last is put on show.
LEMMA RenderSound ==
  ASSUME IInv, NEW l \in loads, l.rows # NULL, Current(l), Render(l.rows), Received(l), Quiet
  PROVE  IInv'
<1> DEFINE rows == l.rows
           lk(e) == IF cache[e] = 0 THEN version ELSE cache[e]
           asked == {e \in {rows[i].event : i \in DOMAIN rows} : cache[e] = 0}
           card(i, v) == [id |-> rows[i].id, event |-> rows[i].event,
                          cancelled |-> rows[i].cancelled, lookup |-> v]
           late(i) == [event |-> rows[i].event, version |-> lk(rows[i].event)] \in lookups'
           waiter(i) == [version |-> version, user |-> user, at |-> i, card |-> card(i, lk(rows[i].event))]
<1>1. /\ loads' = loads \ {l} /\ version' = version /\ offset' = offset /\ cleared' = cleared
      /\ l.version = version /\ l.user = user /\ view' = "loaded"
  BY DEF Current, Received, Render
<1>2. /\ cache' = [e \in Events |-> IF e \in asked THEN version ELSE cache[e]]
      /\ lookups' = lookups \union {[event |-> e, version |-> version] : e \in asked}
      /\ shown' = [i \in DOMAIN rows |-> card(i, IF late(i) THEN 0 ELSE lk(rows[i].event))]
      /\ waiting' = waiting \union {waiter(i) : i \in {j \in DOMAIN rows : late(j)}}
      /\ unseen' = unseen \ {rows[i].id : i \in DOMAIN rows}
  BY DEF Render, Made
<1>3. /\ RowsOf(rows, user) /\ Covers(rows) /\ view = "loading" /\ user \in Customers /\ user # NULL
      /\ \A i \in DOMAIN rows : told[rows[i].id] = "cancelled" => rows[i].cancelled
      /\ shown = <<>>
  BY <1>1 DEF IInv, LoadsSound, LoadOK, TypeOK
<1>4. /\ version \in 1..MaxVersion /\ version \in Nat /\ cleared \in Nat /\ cleared < version
      /\ cache \in [Events -> 0..version] /\ \A e \in Events : cache[e] # 0 => cache[e] > cleared
      /\ PageSize \in Nat \ {0} /\ MaxVersion \in Nat
  BY <1>1, HistoryAssumption DEF IInv, TypeOK, FreshSound
<1>5. PICK n \in 0..PageSize : rows \in [1..n -> Row]
  BY <1>3 DEF RowsOf
<1>6. DOMAIN rows = 1..n /\ Len(rows) = n /\ n \in Nat
  BY <1>4, <1>5
<1>7. \A i \in 1..n : /\ rows[i].id \in Reservations /\ rows[i].event \in Events /\ rows[i].cancelled \in BOOLEAN
                      /\ rows[i].id \in Ids(Mine(user))
  BY <1>3, <1>5, <1>6 DEF Row, RowsOf
<1>8. \A e \in Events : lk(e) \in 1..version /\ lk(e) \in 0..MaxVersion /\ lk(e) > cleared
  BY <1>4
<1> HIDE DEF lk, rows
<1>9. ASSUME NEW i \in 1..n, NEW v \in 0..MaxVersion
      PROVE  /\ card(i, v) \in Card /\ card(i, v).id = rows[i].id /\ card(i, v).cancelled = rows[i].cancelled
             /\ card(i, v).lookup = v
  BY <1>7 DEF Card
<1> HIDE DEF card
<1>10. ASSUME NEW i \in 1..n
       PROVE  /\ shown'[i] \in Card /\ shown'[i].id = rows[i].id /\ shown'[i].cancelled = rows[i].cancelled
              /\ shown'[i].lookup # 0 => shown'[i].lookup > cleared
  <2>1. lk(rows[i].event) \in 0..MaxVersion /\ 0 \in 0..MaxVersion /\ lk(rows[i].event) > cleared
    BY <1>4, <1>7, <1>8
  <2>2. shown'[i] = card(i, 0) \/ shown'[i] = card(i, lk(rows[i].event))
    BY <1>2, <1>6
  <2>3. QED
    BY <1>9, <2>1, <2>2
<1>11. shown' \in [1..n -> Card] /\ DOMAIN shown' = 1..n /\ Len(shown') = n /\ shown' \in Seq(Card)
  <2> DEFINE S == 1..n
  <2>1. shown' = [i \in S |-> shown'[i]]
    BY <1>2, <1>6
  <2>2. \A i \in S : shown'[i] \in Card
    BY <1>10
  <2> HIDE DEF S
  <2>3. shown' \in [S -> Card]
    BY <2>1, <2>2
  <2>4. QED
    BY <1>6, <2>3 DEF S
<1>12. ASSUME NEW w \in waiting', w \notin waiting
       PROVE  \E i \in 1..n : w = waiter(i)
  BY <1>2, <1>6, <1>12
<1>13. ASSUME NEW i \in 1..n
       PROVE  /\ waiter(i).version = version /\ waiter(i).at = i
              /\ waiter(i) = [version |-> waiter(i).version, user |-> waiter(i).user, at |-> waiter(i).at,
                              card |-> waiter(i).card]
              /\ waiter(i).card \in Card /\ waiter(i).card.id = rows[i].id
              /\ waiter(i).card.cancelled = rows[i].cancelled /\ waiter(i).card.lookup > cleared
  BY <1>7, <1>8, <1>9
<1> HIDE DEF waiter, late
<1>14. \A w \in waiting : /\ w = [version |-> w.version, user |-> w.user, at |-> w.at, card |-> w.card]
                          /\ w.version \in 0..version /\ w.version # version /\ w.card \in Card
  BY <1>3 DEF IInv, WaitingSound, TypeOK
<1>15. WaitingSound' /\ \A w \in waiting' : w.card \in Card
  <2>1. ASSUME NEW w \in waiting'
        PROVE  /\ w = [version |-> w.version, user |-> w.user, at |-> w.at, card |-> w.card]
               /\ w.version \in 0..version /\ w.card \in Card
               /\ w.version = version => /\ w.at \in 1..n
                                         /\ w.card.id = shown'[w.at].id
                                         /\ w.card.cancelled = shown'[w.at].cancelled
                                         /\ w.card.lookup > cleared
    <3>1. CASE w \in waiting
      BY <1>14, <3>1
    <3>2. CASE w \notin waiting
      <4>1. PICK i \in 1..n : w = waiter(i)
        BY <1>12, <3>2
      <4>2. version \in 0..version
        BY <1>4
      <4>3. QED
        BY <1>10, <1>13, <4>1, <4>2
    <3>3. QED
      BY <3>1, <3>2
  <2>2. QED
    BY <1>1, <1>11, <2>1 DEF WaitingSound
<1>16. /\ cache' \in [Events -> 0..version] /\ \A e \in Events : cache'[e] # 0 => cache'[e] > cleared
       /\ lookups' \subseteq [event : Events, version : 1..version]
  <2> HIDE DEF asked
  <2>1. asked \subseteq Events
    BY <1>6, <1>7 DEF asked
  <2>2. version \in 0..version /\ version \in 1..version
    BY <1>4
  <2>3. \A e \in Events : cache'[e] \in {version, cache[e]}
    BY <1>2
  <2>4. \A e \in Events : cache'[e] \in 0..version /\ (cache'[e] # 0 => cache'[e] > cleared)
    BY <1>4, <2>2, <2>3
  <2>5. cache' = [e \in Events |-> cache'[e]]
    BY <1>2
  <2>6. lookups \subseteq [event : Events, version : 1..version]
    BY DEF IInv, TypeOK
  <2>7. QED
    BY <1>2, <2>1, <2>2, <2>4, <2>5, <2>6
<1>17. TypeOK'
  <2>1. \A k \in loads' : k.version \in 1..version' /\ k.user \in Customers
    BY <1>1 DEF IInv, TypeOK
  <2>2. unseen' \subseteq Reservations
    BY <1>2 DEF IInv, TypeOK
  <2>3. QED
    BY <1>1, <1>3, <1>11, <1>15, <1>16, <2>1, <2>2, QuietKept DEF IInv, TypeOK
<1>18. CardsSound'
  <2>1. \A i, j \in DOMAIN rows : i < j => rows[i].id > rows[j].id
    BY <1>3 DEF RowsOf
  <2>2. \A i, j \in 1..n : i < j => shown'[i].id > shown'[j].id
    BY <1>6, <1>10, <2>1
  <2>3. \A i \in 1..n : shown'[i].id \in Ids(Mine(user))'
    BY <1>7, <1>10, QuietKept DEF Ids, Mine
  <2>4. QED
    BY <1>11, <2>2, <2>3, QuietKept DEF CardsSound
<1>19. WalkSound'
  <2>1. ASSUME NEW r \in unseen'
        PROVE  /\ r \in Ids(Mine(user)) /\ Newer(Mine(user), r) >= offset
               /\ Newer(Mine(user), r) >= offset + PageSize /\ Len(rows) = PageSize
    BY <1>2, <1>3 DEF IInv, WalkSound, Covers
  <2>2. Len(shown') >= PageSize \/ unseen' = {}
    BY <1>4, <1>6, <1>11, <2>1
  <2>3. offset \in {i * PageSize : i \in 0..version} /\ user # NULL
    BY <1>3 DEF IInv, WalkSound
  <2>4. QED
    BY <1>1, <2>1, <2>2, <2>3, QuietKept DEF WalkSound, Mine, Ids
<1>20. FreshSound' /\ NoContradiction' /\ FreshAfterRefresh'
  BY <1>1, <1>3, <1>4, <1>6, <1>10, <1>11, <1>16, QuietKept DEF FreshSound, NoContradiction, FreshAfterRefresh
<1>21. LoadsSound'
  BY <1>1, LoadTaken
<1>22. QED
  BY <1>15, <1>17, <1>18, <1>19, <1>20, <1>21, QuietKept DEF IInv

LEMMA ListArrivesSound ==
  ASSUME IInv, NEW l \in loads, ListArrives(l)
  PROVE  IInv'
BY RenderSound, IgnoredSound DEF ListArrives

\* The details of a card replace it where it stands.
LEMMA LookupArrivesSound ==
  ASSUME IInv, NEW p \in lookups, LookupArrives(p)
  PROVE  IInv'
<1> DEFINE fits(w, i) == w \in For(p) /\ w.at = i /\ StillShown(w)
<1>1. /\ lookups' = lookups \ {p} /\ waiting' = waiting \ For(p) /\ Quiet
      /\ cache' = cache /\ version' = version /\ offset' = offset /\ view' = view /\ loads' = loads
      /\ unseen' = unseen /\ cleared' = cleared
  BY DEF LookupArrives
<1>2. PICK k \in Nat : shown \in [1..k -> Card]
  BY DEF IInv, TypeOK
<1>3. DOMAIN shown = 1..k /\ Len(shown) = k
  BY <1>2
<1>4. ASSUME NEW i \in 1..k
      PROVE  /\ shown'[i] \in Card /\ shown'[i].id = shown[i].id /\ shown'[i].cancelled = shown[i].cancelled
             /\ shown'[i].lookup # 0 => shown'[i].lookup > cleared
  <2>1. CASE \E w : fits(w, i)
    <3>1. PICK w \in For(p) : w.at = i /\ StillShown(w) /\ shown'[i] = w.card
      <4>1. shown'[i] = (CHOOSE w \in For(p) : w.at = i /\ StillShown(w)).card
        BY <1>3, <2>1 DEF LookupArrives
      <4>2. QED
        BY <2>1, <4>1
    <3>2. w \in waiting /\ w.version = version
      BY <3>1 DEF For, StillShown
    <3>3. w.card \in Card /\ w.card.id = shown[i].id /\ w.card.cancelled = shown[i].cancelled /\ w.card.lookup > cleared
      BY <3>1, <3>2 DEF IInv, TypeOK, WaitingSound
    <3>4. QED
      BY <3>1, <3>3
  <2>2. CASE ~\E w : fits(w, i)
    <3>1. shown'[i] = shown[i]
      BY <1>3, <2>2 DEF LookupArrives
    <3>2. QED
      BY <1>2, <1>3, <3>1 DEF IInv, FreshAfterRefresh
  <2>3. QED
    BY <2>1, <2>2
<1> HIDE DEF fits
<1>5. DOMAIN shown' = 1..k /\ Len(shown') = k /\ shown' \in Seq(Card)
  <2> DEFINE S == 1..k
  <2>1. shown' = [i \in S |-> shown'[i]]
    BY <1>3 DEF LookupArrives
  <2>2. \A i \in S : shown'[i] \in Card
    BY <1>4
  <2> HIDE DEF S
  <2>3. shown' \in [S -> Card]
    BY <2>1, <2>2
  <2>4. QED
    BY <1>2, <2>3 DEF S
<1>6. view # "loaded" => shown' = <<>>
  <2>1. view # "loaded" => k = 0
    BY <1>3 DEF IInv, TypeOK
  <2>2. QED
    BY <1>2, <1>5, <2>1
<1>7. TypeOK'
  <2>1. \A w \in waiting' : w.card \in Card
    BY <1>1 DEF IInv, TypeOK
  <2>2. lookups' \subseteq [event : Events, version : 1..version']
    BY <1>1 DEF IInv, TypeOK
  <2>3. QED
    BY <1>1, <1>5, <1>6, <2>1, <2>2, QuietKept DEF IInv, TypeOK
<1>8. LoadsSound'
  <2>1. \A l : LoadOK(l)' = LoadOK(l) /\ Covers(l)' = Covers(l)
    BY <1>1, QuietKept DEF LoadOK, RowsOf, Covers, Mine, Ids
  <2>2. QED
    BY <1>1, <2>1, QuietKept DEF IInv, LoadsSound
<1>9. CardsSound'
  BY <1>1, <1>3, <1>4, <1>5, QuietKept DEF IInv, CardsSound, Mine, Ids
<1>10. WaitingSound'
  BY <1>1, <1>3, <1>4, <1>5 DEF IInv, WaitingSound
<1>11. WalkSound'
  BY <1>1, <1>3, <1>5, QuietKept DEF IInv, WalkSound, Mine, Ids
<1>12. FreshSound' /\ NoContradiction' /\ FreshAfterRefresh'
  BY <1>1, <1>3, <1>4, <1>5, QuietKept DEF IInv, FreshSound, NoContradiction, FreshAfterRefresh
<1>13. QED
  BY <1>1, <1>7, <1>8, <1>9, <1>10, <1>11, <1>12, QuietKept DEF IInv

LEMMA LookupFailsSound ==
  ASSUME IInv, NEW p \in lookups, LookupFails(p)
  PROVE  IInv'
<1>1. /\ lookups' = lookups \ {p} /\ waiting' = waiting \ For(p) /\ Quiet
      /\ cache' = [cache EXCEPT ![p.event] = 0] /\ version' = version /\ offset' = offset /\ view' = view
      /\ loads' = loads /\ shown' = shown /\ unseen' = unseen /\ cleared' = cleared
  BY DEF LookupFails, pageOf
<1>2. cache' \in [Events -> 0..version] /\ \A e \in Events : cache'[e] \in {0, cache[e]}
  <2>1. cache \in [Events -> 0..version] /\ 0 \in 0..version
    BY HistoryAssumption DEF IInv, TypeOK
  <2>2. \A e \in Events : cache'[e] = IF e = p.event THEN 0 ELSE cache[e]
    BY <1>1, <2>1
  <2>3. cache' = [e \in Events |-> cache'[e]]
    BY <1>1, <2>1
  <2>4. QED
    BY <2>1, <2>2, <2>3
<1>3. TypeOK'
  <2>1. (\A w \in waiting' : w.card \in Card) /\ lookups' \subseteq [event : Events, version : 1..version']
    BY <1>1 DEF IInv, TypeOK
  <2>2. QED
    BY <1>1, <1>2, <2>1, QuietKept DEF IInv, TypeOK
<1>4. LoadsSound'
  <2>1. \A l : LoadOK(l)' = LoadOK(l) /\ Covers(l)' = Covers(l)
    BY <1>1, QuietKept DEF LoadOK, RowsOf, Covers, Mine, Ids
  <2>2. QED
    BY <1>1, <2>1, QuietKept DEF IInv, LoadsSound
<1>5. CardsSound' /\ WaitingSound' /\ WalkSound' /\ NoContradiction' /\ FreshAfterRefresh'
  BY <1>1, QuietKept DEF IInv, CardsSound, WaitingSound, WalkSound, NoContradiction, FreshAfterRefresh, Mine, Ids
<1>6. FreshSound'
  BY <1>1, <1>2 DEF IInv, FreshSound
<1>7. QED
  BY <1>1, <1>3, <1>4, <1>5, <1>6, QuietKept DEF IInv

\* Details forgotten without a load.
LEMMA DeclinedSound ==
  ASSUME IInv, BookingDeclined
  PROVE  IInv'
<1>1. /\ Quiet /\ version' = version /\ offset' = offset /\ view' = view /\ loads' = loads
      /\ shown' = shown /\ unseen' = unseen /\ cleared' = cleared
  BY DEF BookingDeclined, pageOf
<1>2. /\ cache' \in [Events -> 0..version] /\ \A e \in Events : cache'[e] \in {0, cache[e]}
      /\ lookups' = lookups /\ waiting' = waiting
  BY CacheShrinks DEF BookingDeclined
<1>3. TypeOK'
  BY <1>1, <1>2, QuietKept DEF IInv, TypeOK
<1>4. LoadsSound'
  <2>1. \A l : LoadOK(l)' = LoadOK(l) /\ Covers(l)' = Covers(l)
    BY <1>1, QuietKept DEF LoadOK, RowsOf, Covers, Mine, Ids
  <2>2. QED
    BY <1>1, <2>1, QuietKept DEF IInv, LoadsSound
<1>5. CardsSound' /\ WaitingSound' /\ WalkSound' /\ NoContradiction' /\ FreshAfterRefresh'
  BY <1>1, <1>2, QuietKept DEF IInv, CardsSound, WaitingSound, WalkSound, NoContradiction, FreshAfterRefresh, Mine, Ids
<1>6. FreshSound'
  BY <1>1, <1>2 DEF IInv, FreshSound
<1>7. QED
  BY <1>1, <1>3, <1>4, <1>5, <1>6, QuietKept DEF IInv

--------------------------------------------------------------------------------
(* Theorems *)

LEMMA InitSound == Init => IInv
<1> SUFFICES ASSUME Init
             PROVE  IInv
  OBVIOUS
<1>1. /\ bookings = {} /\ inForce = {} /\ closed = {} /\ begun = {} /\ user = NULL /\ session = 0
      /\ version = 0 /\ offset = 0 /\ view = "out" /\ loads = {} /\ shown = <<>>
      /\ cache = [e \in Events |-> 0] /\ lookups = {} /\ waiting = {}
      /\ target = NULL /\ cancels = {} /\ awaiting = NULL /\ answer = NULL
      /\ told = [r \in Reservations |-> "nothing"] /\ unseen = {} /\ cleared = 0
  BY DEF Init, LedgerInit
<1>2. 0 = 0 * PageSize /\ 0 \in 0..MaxVersion /\ 0 \in 0..0
  BY HistoryAssumption
<1>3. TypeOK
  BY <1>1, <1>2 DEF TypeOK, LedgerTypeOK
<1>4. Unique(bookings) /\ LoadsSound /\ CardsSound /\ WaitingSound
  BY <1>1, FS_EmptySet DEF Unique, LoadsSound, CardsSound, WaitingSound
<1>5. WalkSound /\ FreshSound /\ ToldSound /\ NoContradiction /\ FreshAfterRefresh
  BY <1>1, <1>2 DEF WalkSound, FreshSound, ToldSound, NoContradiction, FreshAfterRefresh
<1>6. DialogSound
  BY <1>1, NullAssumption DEF DialogSound, Answers
<1>7. QED
  BY <1>3, <1>4, <1>5, <1>6 DEF IInv

LEMMA StepSound == IInv /\ [Next]_vars => IInv'
<1> SUFFICES ASSUME IInv, [Next]_vars
             PROVE  IInv'
  OBVIOUS
<1>1. CASE Others
  BY <1>1, OthersSound
<1>2. CASE (\E u \in Customers : Login(u)) \/ Logout \/ NextPage \/ PreviousPage \/ Refresh \/ BookingAnswered
  BY <1>2, TurnsSound
<1>3. CASE \E l \in loads : ServeList(l) \/ ListArrives(l) \/ ListFails(l) \/ ListUnauthorized(l)
  BY <1>3, ListServed, ListArrivesSound, ListFailsSound, UnauthorizedSound
<1>4. CASE \E p \in lookups : LookupArrives(p) \/ LookupFails(p)
  BY <1>4, LookupArrivesSound, LookupFailsSound
<1>5. CASE \E i \in DOMAIN shown : AskCancel(shown[i])
  BY <1>5, AskSound
<1>6. CASE KeepReservation \/ ConfirmCancel \/ CancelAnswered
  BY <1>6, KeepSound, ConfirmSound, CancelAnsweredSound
<1>7. CASE \E m \in cancels : ServeCancel(m) \/ ServeFailed(m)
  BY <1>7, CancelServed
<1>8. CASE BookingDeclined
  BY <1>8, DeclinedSound
<1>9. CASE UNCHANGED vars
  BY <1>9, StutterSound
<1>10. QED
  BY <1>1, <1>2, <1>3, <1>4, <1>5, <1>6, <1>7, <1>8, <1>9 DEF Next

\* The invariant holds however many customers, bookings, pages and loads there
\* are, and in whatever order the answers arrive.
THEOREM HistoryInvariance == Spec => []IInv
BY InitSound, StepSound, PTL DEF Spec

\* The list shows the logged in customer's own bookings, each once, newest
\* first: of the answers loadHistory gets, only the one it asked for last counts.
THEOREM OnlyOwnBookings == Spec => []OwnNewestFirst
<1>1. IInv => OwnNewestFirst
  BY DEF IInv, OwnNewestFirst, CardsSound, Ids
<1>2. QED
  BY <1>1, HistoryInvariance, PTL

\* Paging by offset from the newest: bookings made meanwhile push what has not
\* been seen towards later pages, never towards pages already turned.
THEOREM PagesMissNothing == Spec => []WalkMissesNothing
<1>1. IInv => WalkMissesNothing
  <2> SUFFICES ASSUME IInv, view = "loaded", Len(shown) < PageSize
               PROVE  unseen = {}
    BY DEF WalkMissesNothing
  <2>1. Len(shown) \in Nat /\ PageSize \in Nat
    BY HistoryAssumption, LenProperties DEF IInv, TypeOK
  <2>2. \A r \in unseen : Len(shown) >= PageSize
    BY DEF IInv, WalkSound
  <2>3. QED
    BY <2>1, <2>2
<1>2. QED
  BY <1>1, HistoryInvariance, PTL

\* cancel_reservation may be repeated, lost or answered late: what the page has
\* told its customer of a cancellation stays so.
THEOREM VerdictsLast == Spec => []ToldIsSo
<1>1. IInv => ToldIsSo
  BY DEF IInv, ToldIsSo, ToldSound, Gone, Stuck
<1>2. QED
  BY <1>1, HistoryInvariance, PTL

\* loadHistory after every cancellation: no card of a reservation said to be
\* cancelled still has its button.
THEOREM NoCardContradicts == Spec => []NoContradiction
<1>1. IInv => NoContradiction
  BY DEF IInv
<1>2. QED
  BY <1>1, HistoryInvariance, PTL

\* Refresh empties the cache of lookups, and a lookup made before it finds no
\* card waiting.
THEOREM NothingOlderThanRefresh == Spec => []FreshAfterRefresh
<1>1. IInv => FreshAfterRefresh
  BY DEF IInv
<1>2. QED
  BY <1>1, HistoryInvariance, PTL

\* A cancellation that the server serves is one step of the ledger, however often
\* it is repeated, and nothing else the page does is any.
THEOREM HistoryKeepsLedger == Spec => LedgerSpec
<1>1. Init => LedgerInit
  BY DEF Init
<1>2. ASSUME IInv, [Next]_vars
      PROVE  [LedgerNext]_ledger
  <2>1. \A b \in bookings : b.id \in Reservations
    BY <1>2 DEF IInv, TypeOK, LedgerTypeOK, Entry
  <2>2. CASE Others
    <3>1. CASE \E b \in bookings : b.event \notin begun /\ Withdraw(b.id) /\ UNCHANGED begun
      BY <2>1, <3>1 DEF LedgerNext
    <3>2. QED
      BY <2>2, <3>1 DEF Others, LedgerNext
  <2>3. ASSUME NEW m \in cancels, ServeCancel(m)
        PROVE  [LedgerNext]_ledger
    BY <2>1, <2>3 DEF ServeCancel, Mine, LedgerNext
  <2>4. ASSUME NEW m \in cancels, ServeFailed(m)
        PROVE  UNCHANGED ledger
    BY <2>4 DEF ServeFailed
  <2>5. CASE \E l \in loads : ServeList(l) \/ ListArrives(l) \/ ListFails(l) \/ ListUnauthorized(l)
    BY <2>5 DEF ServeList, ListArrives, ListFails, ListUnauthorized, Quiet
  <2>6. CASE \E p \in lookups : LookupArrives(p) \/ LookupFails(p)
    BY <2>6 DEF LookupArrives, LookupFails, Quiet
  <2>7. CASE (\E u \in Customers : Login(u)) \/ Logout \/ NextPage \/ PreviousPage \/ Refresh \/ BookingAnswered
    BY <2>7 DEF Login, Logout, NextPage, PreviousPage, Refresh, BookingAnswered, Turn, Quiet
  <2>8. CASE (\E i \in DOMAIN shown : AskCancel(shown[i])) \/ KeepReservation \/ ConfirmCancel \/ CancelAnswered
    BY <2>8 DEF AskCancel, KeepReservation, ConfirmCancel, CancelAnswered
  <2>9. CASE BookingDeclined
    BY <2>9 DEF BookingDeclined, Quiet
  <2>10. CASE UNCHANGED vars
    BY <2>10 DEF vars
  <2>11. QED
    BY <1>2, <2>2, <2>3, <2>4, <2>5, <2>6, <2>7, <2>8, <2>9, <2>10 DEF Next
<1>3. QED
  BY <1>1, <1>2, HistoryInvariance, PTL DEF Spec, LedgerSpec
================================================================================

-------------------------- MODULE EventBrowsingProofs --------------------------
(***************************************************************************)
(* Proofs about EventBrowsing, for any number of events, names, filters,   *)
(* any page size and any number of submissions: the cards are what was     *)
(* asked for last, "Loading" always ends, and who pages to the end misses  *)
(* no more events than have left the list meanwhile, or come too late.     *)
(***************************************************************************)
EXTENDS EventBrowsing, FiniteSetTheorems, SequenceTheorems, TLAPS

\* What the applied filters admit at a time of the present or the recent past.
Listing(now) == {e \in Events : Matches(applied, e, now)}

\* Events of a page, soonest first.
RowsOK(rows) == /\ \E n \in 0..MaxEvents : n <= PageSize /\ rows \in [1..n -> Events]
                /\ \A i, j \in DOMAIN rows : i < j => rows[i] < rows[j]

RequestOK(r) == /\ r = [version |-> r.version, rows |-> r.rows, query |-> r.query]
                /\ r.version \in 1..version
                /\ \/ r.rows = NULL /\ r.query \in Query /\ r.query.since <= clock
                   \/ r.query = NULL /\ RowsOK(r.rows)

\* There is one request of the present version, until its answer arrives, and
\* it asks for the present page.
RequestsSound == /\ \A r \in requests : RequestOK(r)
                 /\ \A r \in requests : r.version = version =>
                       /\ view = "loading"
                       /\ \A q \in requests : q.version = version => q = r
                       /\ r.rows = NULL => /\ r.query.filter = applied /\ r.query.offset = offset
                                           /\ \A now \in r.query.since..clock : Listing(now) \subseteq ever
                       /\ r.rows # NULL => Range(r.rows) \subseteq ever

CardsSound == /\ \A i \in DOMAIN shown : shown[i] \in ever
              /\ \A i, j \in DOMAIN shown : i < j => shown[i] < shown[j]

\* How far into the list a page goes: a short one to its end.
Reach(rows) == IF Len(rows) < PageSize THEN MaxEvents + 1 ELSE offset + PageSize

\* Of the events A, those that lie before place k of the list S are no more than
\* have left, what S still has of them aside.
MissedFew(S, k, A) ==
  Cardinality({e \in A : Earlier(S, e) < k}) + Cardinality(S \ Listed(applied)) <= left

\* What has been missed lies before the present page, or in it once it is shown;
\* a request may still be answered by the list of any time since it was made.
Counted == /\ MissedFew(Listed(applied), IF view = "loaded" THEN Reach(shown) ELSE offset, unseen)
           /\ \A r \in requests : r.version = version =>
                 /\ r.rows = NULL => \A now \in r.query.since..clock : MissedFew(Listing(now), offset, unseen)
                 /\ r.rows # NULL => MissedFew(Listed(applied), Reach(r.rows), unseen \ Range(r.rows))

WalkSound == /\ offset \in {i * PageSize : i \in 0..version - 1}
             /\ unseen \subseteq Listed(applied)
             /\ left \in Nat
             /\ Cardinality(unseen) <= left \/ Counted

\* The inductive invariant.
IInv == /\ TypeOK /\ RequestsSound /\ CardsSound /\ WalkSound /\ LoadingIsAwaited

--------------------------------------------------------------------------------
(* Lists *)

LEMMA FiniteEvents ==
  ASSUME NEW S \in SUBSET Events
  PROVE  /\ IsFiniteSet(S) /\ Cardinality(S) \in 0..MaxEvents
         /\ \A e : Earlier(S, e) \in Nat /\ Earlier(S, e) <= MaxEvents
<1>1. IsFiniteSet(Events) /\ Cardinality(Events) = MaxEvents /\ MaxEvents \in Nat
  BY BrowsingAssumption, FS_Interval DEF Events
<1>2. ASSUME NEW T \in SUBSET Events
      PROVE  IsFiniteSet(T) /\ Cardinality(T) \in 0..MaxEvents
  <2>1. IsFiniteSet(T) /\ Cardinality(T) <= MaxEvents
    BY <1>1, FS_Subset
  <2>2. Cardinality(T) \in Nat
    BY <2>1, FS_CardinalityType
  <2>3. QED
    BY <1>1, <2>1, <2>2
<1>3. \A e : {x \in S : x < e} \in SUBSET Events
  OBVIOUS
<1>4. QED
  BY <1>1, <1>2, <1>3 DEF Earlier

\* Places in a list: each is taken, by one event, and earlier ones come first.
LEMMA Ranks ==
  ASSUME NEW S \in SUBSET Events
  PROVE  /\ \A e \in S : Earlier(S, e) \in 0..Cardinality(S) - 1
         /\ \A d, e \in S : d < e => Earlier(S, d) < Earlier(S, e)
         /\ \A d, e \in S : Earlier(S, d) = Earlier(S, e) => d = e
         /\ \A i \in 0..Cardinality(S) - 1 : \E e \in S : Earlier(S, e) = i
<1> DEFINE n == Cardinality(S)
           below(e) == {x \in S : x < e}
<1>1. n \in Nat /\ IsFiniteSet(S) /\ \A e \in S : e \in Int
  BY FiniteEvents DEF Events
<1>2. ASSUME NEW e \in S
      PROVE  IsFiniteSet(below(e)) /\ Cardinality(below(e)) \in Nat /\ Cardinality(below(e)) < n
  <2>1. below(e) \in SUBSET S /\ below(e) # S
    BY <1>1
  <2>2. IsFiniteSet(below(e)) /\ Cardinality(below(e)) <= n /\ Cardinality(below(e)) # n
    BY <1>1, <2>1, FS_Subset
  <2>3. Cardinality(below(e)) \in Nat
    BY <2>2, FS_CardinalityType
  <2>4. QED
    BY <1>1, <2>2, <2>3
<1>3. ASSUME NEW d \in S, NEW e \in S, d < e
      PROVE  Cardinality(below(d)) < Cardinality(below(e))
  <2>1. below(d) \in SUBSET below(e) /\ below(d) # below(e)
    BY <1>1, <1>3
  <2>2. Cardinality(below(d)) <= Cardinality(below(e)) /\ Cardinality(below(d)) # Cardinality(below(e))
    BY <1>2, <2>1, FS_Subset
  <2>3. QED
    BY <1>2, <2>2
<1>4. \A e \in S : Earlier(S, e) = Cardinality(below(e))
  BY DEF Earlier
<1> HIDE DEF below, n
<1>5. \A e \in S : Earlier(S, e) \in 0..n - 1
  BY <1>1, <1>2, <1>4
<1>6. \A d, e \in S : d < e => Earlier(S, d) < Earlier(S, e)
  BY <1>3, <1>4
<1>7. \A d, e \in S : Earlier(S, d) = Earlier(S, e) => d = e
  <2>1. ASSUME NEW d \in S, NEW e \in S, Earlier(S, d) = Earlier(S, e)
        PROVE  d = e
    <3>1. Earlier(S, d) \in Int /\ ~(d < e) /\ ~(e < d)
      BY <1>5, <1>6, <2>1
    <3>2. QED
      BY <1>1, <3>1
  <2>2. QED
    BY <2>1
<1> DEFINE rank == [e \in S |-> Earlier(S, e)]
<1>8. rank \in Injection(S, 0..n - 1)
  <2>1. rank \in [S -> 0..n - 1]
    BY <1>5
  <2>2. QED
    BY <1>7, <2>1 DEF Injection, IsInjective
<1>9. IsFiniteSet(0..n - 1) /\ Cardinality(0..n - 1) = n
  BY <1>1, FS_Interval
<1>10. rank \in Surjection(S, 0..n - 1)
  BY <1>8, <1>9, FS_Injection DEF n
<1>11. \A i \in 0..n - 1 : \E e \in S : rank[e] = i
  BY <1>10 DEF Surjection
<1>12. QED
  BY <1>5, <1>6, <1>7, <1>11 DEF n

\* Sorting lists each event once, soonest first.
LEMMA SortedList ==
  ASSUME NEW S \in SUBSET Events
  PROVE  /\ Sorted(S) \in [1..Cardinality(S) -> S]
         /\ \A i \in 1..Cardinality(S) : Earlier(S, Sorted(S)[i]) = i - 1
         /\ \A e \in S : Earlier(S, e) + 1 \in 1..Cardinality(S) /\ Sorted(S)[Earlier(S, e) + 1] = e
<1>1. Cardinality(S) \in Nat
  BY FiniteEvents
<1>2. ASSUME NEW i \in 1..Cardinality(S)
      PROVE  Sorted(S)[i] \in S /\ Earlier(S, Sorted(S)[i]) = i - 1
  <2>1. \E e \in S : Earlier(S, e) = i - 1
    BY <1>1, Ranks
  <2>2. Sorted(S)[i] = CHOOSE e \in S : Earlier(S, e) = i - 1
    BY DEF Sorted
  <2>3. QED
    BY <2>1, <2>2
<1>3. Sorted(S) \in [1..Cardinality(S) -> S]
  BY <1>2 DEF Sorted
<1>4. ASSUME NEW e \in S
      PROVE  Earlier(S, e) + 1 \in 1..Cardinality(S) /\ Sorted(S)[Earlier(S, e) + 1] = e
  <2>1. Earlier(S, e) \in 0..Cardinality(S) - 1
    BY Ranks
  <2>2. Earlier(S, e) + 1 \in 1..Cardinality(S)
    BY <1>1, <2>1
  <2>3. PICK i \in 1..Cardinality(S) : i = Earlier(S, e) + 1
    BY <2>2
  <2>4. Sorted(S)[i] \in S /\ Earlier(S, Sorted(S)[i]) = Earlier(S, e)
    BY <1>2, <2>1, <2>3
  <2>5. Sorted(S)[i] = e
    BY <2>4, Ranks
  <2>6. QED
    BY <2>2, <2>3, <2>5
<1>5. QED
  BY <1>2, <1>3, <1>4

LEMMA SmallerOfTwo ==
  ASSUME NEW a \in Int, NEW b \in Int
  PROVE  Min({a, b}) = IF a <= b THEN a ELSE b
<1> DEFINE m == IF a <= b THEN a ELSE b
<1>1. m \in {a, b} /\ \A y \in {a, b} : m <= y
  OBVIOUS
<1>2. \A x \in {a, b} : (\A y \in {a, b} : x <= y) => x = m
  OBVIOUS
<1>3. QED
  BY <1>1, <1>2 DEF Min

\* A page of a list: its events, soonest first; who does not lie before the page
\* is on it, or behind its end.
LEMMA PageOfList ==
  ASSUME NEW f, NEW from \in Nat, NEW now
  PROVE  LET S == {e \in Events : Matches(f, e, now)}
             rows == Slice(f, from, now)
         IN  /\ RowsOK(rows) /\ Len(rows) \in 0..PageSize /\ Range(rows) \subseteq S
             /\ \A e \in S : Earlier(S, e) >= from =>
                   \/ e \in Range(rows)
                   \/ Len(rows) = PageSize /\ Earlier(S, e) >= from + PageSize
<1> DEFINE S == {e \in Events : Matches(f, e, now)}
           rows == Slice(f, from, now)
           n == Cardinality(S)
           h == Sorted(S)
           last == IF from + PageSize <= n THEN from + PageSize ELSE n
           size == IF from + 1 <= last THEN last - from ELSE 0
<1>1. rows = SubSeq(h, from + 1, Min({from + PageSize, Len(h)}))
  BY DEF Slice, PageOf
<1>2. S \in SUBSET Events /\ S \subseteq Int
  BY DEF Events
<1> HIDE DEF S, rows
<1>3. n \in Nat /\ n <= MaxEvents /\ PageSize \in Nat \ {0} /\ MaxEvents \in Nat
  BY <1>2, BrowsingAssumption, FiniteEvents
<1>4. /\ h \in [1..n -> S]
      /\ \A i \in 1..n : Earlier(S, h[i]) = i - 1
      /\ \A e \in S : Earlier(S, e) + 1 \in 1..n /\ h[Earlier(S, e) + 1] = e
  BY <1>2, SortedList
<1>5. Len(h) = n
  BY <1>3, <1>4
<1>6. rows = SubSeq(h, from + 1, last)
  BY <1>1, <1>3, <1>5, SmallerOfTwo
<1> HIDE DEF n, h
<1>7. /\ last \in Int /\ last <= n /\ last <= from + PageSize /\ size \in 0..PageSize /\ size <= n
      /\ size = IF from + 1 <= last THEN last - from ELSE 0
      /\ \A i \in 1..size : from + i \in 1..last /\ from + i \in 1..n
      /\ \A r \in Nat : from <= r /\ r < last => r + 1 - from \in 1..size
      /\ last < n => last = from + PageSize /\ size = PageSize
  BY <1>3
<1>8. rows \in Seq(S) /\ Len(rows) = size /\ \A i \in 1..size : rows[i] = h[from + i]
  <2>1. ASSUME NEW i \in from + 1..last
        PROVE  h[i] \in S
    <3>1. i \in 1..n
      BY <1>3, <1>7
    <3>2. QED
      BY <1>4, <3>1
  <2>2. /\ rows \in Seq(S)
        /\ Len(rows) = IF from + 1 <= last THEN last - (from + 1) + 1 ELSE 0
        /\ \A i \in 1..last - (from + 1) + 1 : rows[i] = h[from + 1 + i - 1]
    BY <1>6, <1>7, <2>1, SubSeqProperties
  <2>3. QED
    BY <1>7, <2>2
<1> HIDE DEF last, size
<1>9. DOMAIN rows = 1..size /\ rows \in [1..size -> S] /\ size \in 0..MaxEvents
  BY <1>3, <1>7, <1>8
<1>10. \A i, j \in 1..size : i < j => rows[i] < rows[j]
  <2>1. ASSUME NEW i \in 1..size, NEW j \in 1..size, i < j
        PROVE  rows[i] < rows[j]
    <3>1. /\ from + i \in 1..n /\ from + j \in 1..n /\ rows[i] = h[from + i] /\ rows[j] = h[from + j]
          /\ rows[i] \in S /\ rows[j] \in S
      BY <1>4, <1>7, <1>8
    <3>2. Earlier(S, rows[i]) = from + i - 1 /\ Earlier(S, rows[j]) = from + j - 1
      BY <1>4, <3>1
    <3>3. Earlier(S, rows[i]) < Earlier(S, rows[j])
      BY <2>1, <3>2
    <3>4. \A d, e \in S : d < e => Earlier(S, d) < Earlier(S, e)
      BY <1>2, Ranks
    <3>5. \A d, e \in S : Earlier(S, d) < Earlier(S, e) /\ Earlier(S, d) \in Int /\ Earlier(S, e) \in Int => d < e
      BY <1>2, <3>4
    <3>6. Earlier(S, rows[i]) \in Int /\ Earlier(S, rows[j]) \in Int
      BY <3>2
    <3>7. QED
      BY <3>1, <3>3, <3>5, <3>6
  <2>2. QED
    BY <2>1
<1>11. RowsOK(rows)
  <2>1. rows \in [1..size -> Events] /\ size <= PageSize
    <3> DEFINE I == 1..size
    <3>1. rows \in [I -> S] /\ S \subseteq Events
      BY <1>2, <1>9
    <3> HIDE DEF I
    <3>2. rows \in [I -> Events]
      BY <3>1
    <3>3. QED
      BY <1>3, <1>7, <3>2 DEF I
  <2>2. QED
    BY <1>9, <1>10, <2>1 DEF RowsOK
<1>12. Range(rows) \subseteq S
  BY <1>9 DEF Range
<1>13. ASSUME NEW e \in S, Earlier(S, e) >= from
       PROVE  \/ e \in Range(rows)
              \/ Len(rows) = PageSize /\ Earlier(S, e) >= from + PageSize
  <2> DEFINE r == Earlier(S, e)
  <2>1. r + 1 \in 1..n /\ h[r + 1] = e /\ r \in Nat
    BY <1>2, <1>4, FiniteEvents
  <2> HIDE DEF r
  <2>2. CASE r < last
    <3>1. PICK i \in 1..size : i = r + 1 - from
      BY <1>7, <1>13, <2>1, <2>2 DEF r
    <3>2. rows[i] = e
      BY <1>8, <2>1, <3>1
    <3>3. QED
      BY <1>9, <3>2 DEF Range
  <2>3. CASE r >= last
    <3>1. last = from + PageSize /\ size = PageSize
      BY <1>3, <1>7, <2>1, <2>3
    <3>2. QED
      BY <1>8, <2>3, <3>1 DEF r
  <2>4. QED
    BY <1>7, <2>1, <2>2, <2>3
<1>14. QED
  BY <1>7, <1>8, <1>11, <1>12, <1>13 DEF S, rows

\* At most d events take the d places from k on.
LEMMA Places ==
  ASSUME NEW S \in SUBSET Events, NEW k \in Nat, NEW d \in Nat
  PROVE  Cardinality({e \in S : k <= Earlier(S, e) /\ Earlier(S, e) < k + d}) <= d
<1> DEFINE Z == {e \in S : k <= Earlier(S, e) /\ Earlier(S, e) < k + d}
           place == [e \in Z |-> Earlier(S, e)]
<1>1. place \in [Z -> k..k + d - 1]
  BY FiniteEvents
<1>2. place \in Injection(Z, k..k + d - 1)
  BY <1>1, Ranks DEF Injection, IsInjective
<1>3. IsFiniteSet(k..k + d - 1) /\ Cardinality(k..k + d - 1) = d
  BY FS_Interval
<1> HIDE DEF place, Z
<1>4. Cardinality(Z) <= d
  BY <1>2, <1>3, FS_Injection
<1>5. QED
  BY <1>4 DEF Z

\* When the list S becomes T, no more events slip from behind place k to before
\* it than have left.
LEMMA Slipped ==
  ASSUME NEW S \in SUBSET Events, NEW T \in SUBSET Events, NEW A \in SUBSET S, NEW k \in Nat
  PROVE  Cardinality({e \in A : Earlier(T, e) < k})
            <= Cardinality({e \in A : Earlier(S, e) < k}) + Cardinality(S \ T)
<1> DEFINE d == Cardinality(S \ T)
           X == {e \in A : Earlier(T, e) < k}
           Y == {e \in A : Earlier(S, e) < k}
           Z == {e \in S : k <= Earlier(S, e) /\ Earlier(S, e) < k + d}
<1>1. S \ T \in SUBSET Events /\ X \in SUBSET Events /\ Y \in SUBSET Events /\ Z \in SUBSET Events
  OBVIOUS
<1>2. d \in Nat /\ Cardinality(X) \in Nat /\ Cardinality(Y) \in Nat /\ Cardinality(Z) \in Nat
      /\ IsFiniteSet(Y) /\ IsFiniteSet(Z) /\ IsFiniteSet(S \ T)
  BY <1>1, FiniteEvents
<1>3. ASSUME NEW e \in S
      PROVE  Earlier(S, e) <= Earlier(T, e) + d
  <2> DEFINE U == {x \in S : x < e}
             V == {x \in T : x < e}
  <2>1. U \in SUBSET (V \union (S \ T)) /\ V \in SUBSET Events
    OBVIOUS
  <2>2. IsFiniteSet(V) /\ Cardinality(V) \in Nat
    BY <2>1, FiniteEvents
  <2>3. /\ IsFiniteSet(V \union (S \ T))
        /\ Cardinality(V \union (S \ T)) = Cardinality(V) + d - Cardinality(V \intersect (S \ T))
    BY <1>2, <2>2, FS_Union
  <2>4. IsFiniteSet(V \intersect (S \ T))
    BY <2>2, FS_Intersection
  <2>5. Cardinality(V \intersect (S \ T)) \in Nat
    BY <2>4, FS_CardinalityType
  <2>6. Cardinality(U) <= Cardinality(V \union (S \ T)) /\ IsFiniteSet(U)
    BY <2>1, <2>3, FS_Subset
  <2>7. Cardinality(U) \in Nat
    BY <2>6, FS_CardinalityType
  <2> HIDE DEF U, V, d
  <2>8. Cardinality(U) <= Cardinality(V) + d
    BY <1>2, <2>2, <2>3, <2>5, <2>6, <2>7
  <2>9. QED
    BY <2>8 DEF Earlier, U, V
<1> HIDE DEF d
<1>4. X \in SUBSET (Y \union Z)
  <2>1. ASSUME NEW e \in X
        PROVE  e \in Y \/ e \in Z
    <3>1. e \in A /\ e \in S /\ Earlier(T, e) < k
      OBVIOUS
    <3>2. Earlier(S, e) <= Earlier(T, e) + d
      BY <1>3, <3>1
    <3>3. Earlier(S, e) \in Nat /\ Earlier(T, e) \in Nat
      BY FiniteEvents
    <3>4. Earlier(S, e) < k + d
      BY <1>2, <3>1, <3>2, <3>3
    <3>5. QED
      BY <3>1, <3>3, <3>4
  <2>2. QED
    BY <2>1
<1>5. Cardinality(Z) <= d
  BY <1>2, Places
<1> HIDE DEF X, Y, Z
<1>6. /\ IsFiniteSet(Y \union Z)
      /\ Cardinality(Y \union Z) = Cardinality(Y) + Cardinality(Z) - Cardinality(Y \intersect Z)
  BY <1>2, FS_Union
<1>7. Cardinality(Y \intersect Z) \in Nat
  BY <1>2, FS_Intersection, FS_CardinalityType
<1>8. Cardinality(X) <= Cardinality(Y \union Z)
  BY <1>4, <1>6, FS_Subset
<1>9. Cardinality(X) <= Cardinality(Y) + d
  BY <1>2, <1>5, <1>6, <1>7, <1>8
<1>10. QED
  BY <1>9 DEF X, Y, d

--------------------------------------------------------------------------------
(* Organizers and time *)

LEMMA Apart ==
  ASSUME NEW A \in SUBSET Events, NEW B \in SUBSET Events, A \intersect B = {}
  PROVE  Cardinality(A \union B) = Cardinality(A) + Cardinality(B)
<1>1. IsFiniteSet(A) /\ IsFiniteSet(B) /\ Cardinality(A) \in Nat /\ Cardinality(B) \in Nat
  BY FiniteEvents
<1>2. Cardinality(A \union B) = Cardinality(A) + Cardinality(B) - Cardinality(A \intersect B)
  BY <1>1, FS_Union
<1>3. Cardinality(A \intersect B) = 0
  BY FS_EmptySet
<1>4. QED
  BY <1>1, <1>2, <1>3

\* Two sets apart, within two others.
LEMMA NoMore ==
  ASSUME NEW A \in SUBSET Events, NEW B \in SUBSET Events, NEW C \in SUBSET Events, NEW D \in SUBSET Events,
         A \union B \in SUBSET (C \union D), A \intersect B = {}
  PROVE  Cardinality(A) + Cardinality(B) <= Cardinality(C) + Cardinality(D)
<1>1. \A F \in SUBSET Events : IsFiniteSet(F) /\ Cardinality(F) \in Nat
  BY FiniteEvents, BrowsingAssumption
<1>2. C \union D \in SUBSET Events /\ C \intersect D \in SUBSET Events
  OBVIOUS
<1>3. Cardinality(C \union D) = Cardinality(C) + Cardinality(D) - Cardinality(C \intersect D)
  BY <1>1, FS_Union
<1>4. Cardinality(A \union B) <= Cardinality(C \union D)
  BY <1>1, <1>2, FS_Subset
<1>5. Cardinality(A \union B) = Cardinality(A) + Cardinality(B)
  BY Apart
<1>6. /\ Cardinality(A) \in Nat /\ Cardinality(B) \in Nat /\ Cardinality(C) \in Nat /\ Cardinality(D) \in Nat
      /\ Cardinality(C \union D) \in Nat /\ Cardinality(C \intersect D) \in Nat
  BY <1>1, <1>2
<1>7. QED
  BY <1>3, <1>4, <1>5, <1>6

\* What an earlier time does not admit, a later one does not either.
LEMMA TimePasses ==
  ASSUME NEW f, NEW e \in Int, NEW s \in Int, NEW t \in Int, s <= t
  PROVE  /\ Matches(f, e, t) => Matches(f, e, s)
         /\ e > t => (Matches(f, e, s) <=> Matches(f, e, t))
<1>1. (e > t => e > s) /\ (e > t => (e > s <=> e > t))
  OBVIOUS
<1>2. QED
  BY <1>1 DEF Matches

LEMMA Limits ==
  ASSUME IInv
  PROVE  /\ PageSize \in Nat \ {0} /\ MaxEvents \in Nat /\ MaxVersion \in Nat \ {0}
         /\ clock \in Nat /\ clock <= MaxEvents /\ offset \in Nat /\ version \in 1..MaxVersion
         /\ unseen \in SUBSET Events /\ Cardinality(unseen) \in Nat /\ IsFiniteSet(unseen) /\ left \in Nat
         /\ Reach(shown) \in Nat /\ Listing(clock) = Listed(applied)
<1>1. /\ PageSize \in Nat \ {0} /\ MaxEvents \in Nat /\ MaxVersion \in Nat \ {0}
      /\ clock \in Nat /\ clock <= MaxEvents /\ version \in 1..MaxVersion
  BY BrowsingAssumption DEF IInv, TypeOK
<1>2. offset \in Nat
  BY <1>1 DEF IInv, WalkSound
<1>3. unseen \in SUBSET Events
  BY DEF IInv, WalkSound, Listed
<1>4. Cardinality(unseen) \in Nat /\ IsFiniteSet(unseen) /\ left \in Nat
  BY <1>1, <1>3, FiniteEvents DEF IInv, WalkSound
<1>5. Reach(shown) \in Nat /\ Listing(clock) = Listed(applied)
  BY <1>1, <1>2 DEF Reach, Listing, Listed
<1>6. QED
  BY <1>1, <1>2, <1>3, <1>4, <1>5

\* What a request is before it is served, and after.
LEMMA Answers ==
  ASSUME IInv, NEW r \in requests
  PROVE  /\ r = [version |-> r.version, rows |-> r.rows, query |-> r.query] /\ r.version \in 1..version
         /\ r.rows = NULL => /\ r.query \in Query /\ r.query.offset \in Nat
                             /\ r.query.since \in Nat /\ r.query.since <= clock
         /\ r.rows # NULL => r.query = NULL /\ RowsOK(r.rows)
<1>1. RequestOK(r)
  BY DEF IInv, RequestsSound
<1>2. ~RowsOK(NULL)
  BY NullAssumption DEF RowsOK
<1>3. PageSize \in Nat /\ MaxVersion \in Nat /\ MaxEvents \in Nat
  BY BrowsingAssumption
<1>4. \A q \in Query : q.offset \in Nat /\ q.since \in Nat
  BY <1>3 DEF Query
<1>5. QED
  BY <1>1, <1>2, <1>4 DEF RequestOK

LEMMA WorldTypes ==
  ASSUME IInv, World
  PROVE  /\ clock' \in 0..MaxEvents /\ clock <= clock' /\ late' \subseteq Events
         /\ name' \in [Events -> Names \union {NULL, CANCELLED}]
<1>1. /\ clock \in 0..MaxEvents /\ MaxEvents \in Nat /\ late \subseteq Events
      /\ name \in [Events -> Names \union {NULL, CANCELLED}]
  BY BrowsingAssumption DEF IInv, TypeOK
<1>2. ASSUME NEW e \in Events, NEW n \in Names \union {CANCELLED}, Commit(e, n)
      PROVE  /\ clock' = clock /\ late' \subseteq Events
             /\ name' \in [Events -> Names \union {NULL, CANCELLED}]
  BY <1>1, <1>2 DEF Commit
<1>3. CASE \E e \in Events, n \in Names : Create(e, n) \/ Rename(e, n)
  BY <1>1, <1>2, <1>3 DEF Create, Rename
<1>4. CASE \E e \in Events : Cancel(e)
  BY <1>1, <1>2, <1>4 DEF Cancel
<1>5. CASE Tick
  BY <1>1, <1>5 DEF Tick
<1>6. QED
  BY <1>3, <1>4, <1>5 DEF World

\* Between the lists S of a time and L of the present, and what they become,
\* T and M, no more events go than leave the present list, but for those that
\* come too late for it.
LEMMA ListsMove ==
  ASSUME IInv, World, NEW r \in requests, r.version = version, r.rows = NULL,
         NEW now \in Int, r.query.since <= now, now <= clock', NEW m, m = IF now <= clock THEN now ELSE clock
  PROVE  LET S == Listing(m)
             T == Listing(now)'
             L == Listed(applied)
             M == Listed(applied)'
             X == (L \union (Listable' \ Listable)) \ M
         IN  /\ T \subseteq Listable' /\ L \subseteq S
             /\ Cardinality(S \ T) + Cardinality(T \ M) <= Cardinality(S \ L) + Cardinality(X)
<1> DEFINE S == Listing(m)
           T == Listing(now)'
           L == Listed(applied)
           M == Listed(applied)'
           A == Listable
           B == Listable'
           X == (L \union (B \ A)) \ M
<1>1. /\ clock \in Int /\ Events \subseteq Int /\ m \in Int /\ m <= clock /\ m <= now /\ r.query.since \in Int
      /\ clock' \in Int /\ clock <= clock'
  BY Answers, WorldTypes, BrowsingAssumption DEF IInv, TypeOK, Events
<1>2. applied' = applied /\ requests' = requests /\ version' = version
  BY DEF World, page
<1>3. /\ S \in SUBSET Events /\ T \in SUBSET Events /\ L \in SUBSET Events /\ M \in SUBSET Events
      /\ A \in SUBSET Events /\ B \in SUBSET Events
  BY DEF Listing, Listed, Listable
<1>4. \A e \in Events : e \in L => e \in S
  <2>1. \A e \in Events : Matches(applied, e, clock) => Matches(applied, e, m)
    BY <1>1, TimePasses
  <2>2. QED
    BY <2>1 DEF Listing, Listed
<1>5. ASSUME NEW e \in Events
      PROVE  /\ Matches(applied, e, clock)' => Matches(applied, e, now)'
             /\ Matches(applied, e, now)' => Matches(applied, e, r.query.since)'
  <2>1. \A s, u \in Int : s <= u /\ e > u => e > s
    BY <1>1
  <2>2. QED
    BY <1>1, <2>1 DEF Matches
<1>6. \A e \in Events : e \in M => e \in T
  BY <1>5 DEF Listing, Listed
<1>7. \A e \in Events : e \in T => e \in B
  <2>1. r \in requests' /\ r.version = version' /\ r.rows = NULL
    BY <1>2
  <2>2. \A e \in Events : Matches(applied, e, r.query.since)' => e \in B
    BY <2>1 DEF Listable
  <2>3. QED
    BY <1>5, <2>2 DEF Listing
<1>8. ASSUME NEW e \in Events, e \in T, e \notin S, e \notin L
      PROVE  e \notin A
  <2>1. Matches(applied, e, now)'
    BY <1>8 DEF Listing
  <2>2. applied.upcoming => e > now
    BY <1>2, <2>1 DEF Matches
  <2>3. applied.upcoming => e > m
    BY <1>1, <2>2
  <2>4. ~(name[e] \in applied.names /\ e \in applied.among)
    BY <1>8, <2>3 DEF Listing, Matches
  <2>5. \A s : ~Matches(applied, e, s)
    BY <2>4 DEF Matches
  <2>6. QED
    BY <2>5 DEF Listable, Listed
<1> HIDE DEF S, T, L, M, A, B
<1>9. /\ (S \ T) \union (T \ M) \in SUBSET ((S \ L) \union X)
      /\ (S \ T) \intersect (T \ M) = {}
  BY <1>3, <1>4, <1>6, <1>7, <1>8
<1>10. S \ T \in SUBSET Events /\ T \ M \in SUBSET Events /\ S \ L \in SUBSET Events /\ X \in SUBSET Events
  BY <1>3
<1> HIDE DEF X
<1>11. Cardinality(S \ T) + Cardinality(T \ M) <= Cardinality(S \ L) + Cardinality(X)
  BY <1>9, <1>10, NoMore
<1>12. QED
  BY <1>3, <1>4, <1>7, <1>11 DEF S, T, L, M, A, B, X

\* What leaves the list is counted.
LEMMA LeavesCounted ==
  ASSUME NEW S \in SUBSET Events, NEW T \in SUBSET Events, NEW k \in Nat, NEW d \in Nat,
         NEW A \in SUBSET S, NEW B \in SUBSET A, left \in Nat, left' = left + d,
         Cardinality(S \ T) + Cardinality(T \ Listed(applied)') <= Cardinality(S \ Listed(applied)) + d,
         MissedFew(S, k, A)
  PROVE  Cardinality({e \in B : Earlier(T, e) < k}) + Cardinality(T \ Listed(applied)') <= left'
<1> DEFINE X == {e \in B : Earlier(T, e) < k}
           Y == {e \in B : Earlier(S, e) < k}
           W == {e \in A : Earlier(S, e) < k}
           L == Listed(applied)
           M == Listed(applied)'
<1>1. L \in SUBSET Events /\ M \in SUBSET Events
  BY DEF Listed
<1>2. B \in SUBSET S /\ Y \in SUBSET W /\ W \in SUBSET Events /\ Y \in SUBSET Events /\ X \in SUBSET Events
  OBVIOUS
<1> HIDE DEF L, M
<1>3. S \ T \in SUBSET Events /\ T \ M \in SUBSET Events /\ S \ L \in SUBSET Events
  BY <1>1
<1>4. Cardinality(S \ T) \in Nat /\ Cardinality(T \ M) \in Nat /\ Cardinality(S \ L) \in Nat
  BY <1>3, FiniteEvents, BrowsingAssumption
<1>5. Cardinality(X) <= Cardinality(Y) + Cardinality(S \ T)
  BY <1>2, Slipped
<1>6. IsFiniteSet(W) /\ Cardinality(W) \in Nat /\ Cardinality(X) \in Nat /\ Cardinality(Y) \in Nat
  BY <1>2, FiniteEvents, BrowsingAssumption
<1>7. Cardinality(Y) <= Cardinality(W)
  BY <1>2, <1>6, FS_Subset
<1>8. Cardinality(W) + Cardinality(S \ L) <= left
  BY DEF MissedFew, L
<1>9. Cardinality(S \ T) + Cardinality(T \ M) <= Cardinality(S \ L) + d
  BY DEF L, M
<1> HIDE DEF X, Y, W
<1>10. Cardinality(X) + Cardinality(T \ M) <= left'
  BY <1>4, <1>5, <1>6, <1>7, <1>8, <1>9
<1>11. QED
  BY <1>10 DEF X, M

\* Events come and go, and what leaves is counted.
LEMMA WorldSound ==
  ASSUME IInv, World
  PROVE  IInv'
<1> DEFINE L == Listed(applied)
           M == Listed(applied)'
           X == (L \union (Listable' \ Listable)) \ M
           D == Cardinality(X)
<1>1. /\ applied' = applied /\ offset' = offset /\ version' = version /\ requests' = requests
      /\ view' = view /\ shown' = shown
      /\ ever' = IF view = "loading" THEN ever \union Listable' ELSE ever
      /\ unseen' = unseen \intersect M
      /\ left' = IF left + D < Cardinality(unseen') THEN left + D ELSE Cardinality(unseen')
  BY DEF World, page
<1>2. M \subseteq Events /\ L \subseteq Events /\ unseen' \subseteq Events /\ unseen' \subseteq unseen
  BY <1>1, Limits DEF Listed
<1>3. X \subseteq Events /\ L \ M \subseteq X
  BY <1>2 DEF Listable, Listed
<1> HIDE DEF L, M, X
<1>4. /\ D \in Nat /\ Cardinality(L \ M) \in Nat /\ Cardinality(L \ M) <= D
      /\ Cardinality(unseen') \in Nat /\ Cardinality(unseen') <= Cardinality(unseen)
  <2>1. L \ M \in SUBSET Events /\ X \in SUBSET Events
    BY <1>2, <1>3
  <2>2. IsFiniteSet(X) /\ D \in Nat /\ Cardinality(L \ M) \in Nat
    BY <2>1, FiniteEvents, BrowsingAssumption
  <2>3. Cardinality(L \ M) <= D
    BY <1>3, <2>2, FS_Subset
  <2>4. Cardinality(unseen') \in Nat /\ Cardinality(unseen') <= Cardinality(unseen)
    BY <1>2, FiniteEvents, Limits, FS_Subset
  <2>5. QED
    BY <2>2, <2>3, <2>4
<1> HIDE DEF D
<1>5. left' \in Nat
  BY <1>1, <1>4, Limits
<1>7. clock' \in Nat /\ clock <= clock' /\ clock \in Nat
  BY WorldTypes, Limits
<1>8. ever \subseteq ever'
  BY <1>1
<1>9. ASSUME NEW r \in requests, r.version = version, r.rows = NULL, NEW now \in r.query.since..clock'
      PROVE  \E m \in r.query.since..clock :
                /\ Listing(now)' \subseteq ever'
                /\ Listed(applied) \subseteq Listing(m)
                /\ Cardinality(Listing(m) \ Listing(now)') + Cardinality(Listing(now)' \ M)
                      <= Cardinality(Listing(m) \ L) + D
  <2>1. r.query.since \in Nat /\ r.query.since <= clock /\ view = "loading"
    BY <1>9, Answers DEF IInv, RequestsSound
  <2>2. PICK m : m = IF now <= clock THEN now ELSE clock
    OBVIOUS
  <2>3. now \in Int /\ r.query.since <= now /\ now <= clock' /\ m \in r.query.since..clock
    BY <1>7, <2>1, <2>2
  <2>4. /\ Listing(now)' \subseteq Listable' /\ Listed(applied) \subseteq Listing(m)
        /\ Cardinality(Listing(m) \ Listing(now)') + Cardinality(Listing(now)' \ M)
              <= Cardinality(Listing(m) \ L) + D
    BY <1>9, <2>2, <2>3, ListsMove DEF L, M, X, D
  <2>5. Listing(now)' \subseteq ever'
    BY <1>1, <2>1, <2>4
  <2>6. QED
    BY <2>3, <2>4, <2>5
<1>10. RequestsSound'
  <2>1. \A r \in requests : RequestOK(r)'
    BY <1>1, <1>7 DEF IInv, RequestsSound, RequestOK, RowsOK, Query
  <2>2. ASSUME NEW r \in requests, r.version = version, r.rows = NULL, NEW now \in r.query.since..clock'
        PROVE  Listing(now)' \subseteq ever'
    BY <1>9, <2>2
  <2>3. QED
    BY <1>1, <1>8, <2>1, <2>2 DEF IInv, RequestsSound
<1>11. CardsSound' /\ LoadingIsAwaited'
  BY <1>1, <1>8 DEF IInv, CardsSound, LoadingIsAwaited
<1>12. TypeOK'
  BY <1>1, <1>2, WorldTypes DEF IInv, TypeOK
<1>13. unseen' \subseteq Listed(applied)' /\ offset' \in {i * PageSize : i \in 0..version' - 1}
  BY <1>1 DEF M, IInv, WalkSound
<1>14. ASSUME ~(Cardinality(unseen') <= left')
       PROVE  Counted'
  <2>1. left' = left + D /\ ~(Cardinality(unseen) <= left)
    BY <1>1, <1>4, <1>14, Limits
  <2>2. Counted
    BY <2>1 DEF IInv, WalkSound
  <2>3. ASSUME NEW S \in SUBSET Events, NEW T \in SUBSET Events, NEW k \in Nat,
               Listed(applied) \subseteq S,
               Cardinality(S \ T) + Cardinality(T \ M) <= Cardinality(S \ L) + D,
               NEW G, MissedFew(S, k, unseen \ G)
        PROVE  Cardinality({e \in unseen' \ G : Earlier(T, e) < k}) + Cardinality(T \ Listed(applied)') <= left'
    <3>1. unseen \ G \in SUBSET S /\ unseen' \ G \in SUBSET (unseen \ G)
      BY <1>2, <2>3 DEF IInv, WalkSound
    <3>2. PICK A \in SUBSET S : A = unseen \ G
      BY <3>1
    <3>3. PICK B \in SUBSET A : B = unseen' \ G
      BY <3>1, <3>2
    <3>4. Cardinality(S \ T) + Cardinality(T \ Listed(applied)') <= Cardinality(S \ Listed(applied)) + D
      BY <2>3 DEF L, M
    <3>5. MissedFew(S, k, A)
      BY <2>3, <3>2
    <3>6. Cardinality({e \in B : Earlier(T, e) < k}) + Cardinality(T \ Listed(applied)') <= left'
      BY <1>4, <2>1, <2>3, <3>4, <3>5, LeavesCounted, Limits
    <3>7. QED
      BY <3>3, <3>6
  <2>4. ASSUME NEW k \in Nat, NEW G, MissedFew(Listed(applied), k, unseen \ G)
        PROVE  Cardinality({e \in unseen' \ G : Earlier(Listed(applied)', e) < k})
                  + Cardinality(Listed(applied)' \ Listed(applied)') <= left'
    <3>1. Cardinality(M \ M) = 0 /\ Cardinality(L \ L) = 0
      <4>1. M \ M = {} /\ L \ L = {}
        OBVIOUS
      <4>2. QED
        BY <4>1, FS_EmptySet
    <3>2. Cardinality(L \ M) + Cardinality(M \ M) <= Cardinality(L \ L) + D
      BY <1>4, <3>1
    <3>3. L \in SUBSET Events /\ M \in SUBSET Events
      BY DEF L, M, Listed
    <3>4. MissedFew(L, k, unseen \ G)
      BY <2>4 DEF L
    <3>5. Listed(applied) \subseteq L
      BY DEF L
    <3>6. Cardinality({e \in unseen' \ G : Earlier(M, e) < k}) + Cardinality(M \ Listed(applied)') <= left'
      BY <2>3, <3>2, <3>3, <3>4, <3>5
    <3>7. QED
      BY <3>6 DEF M
  <2>5. MissedFew(Listed(applied), IF view = "loaded" THEN Reach(shown) ELSE offset, unseen)'
    <3>1. PICK k \in Nat : k = IF view = "loaded" THEN Reach(shown) ELSE offset
      BY Limits
    <3>2. unseen \ {} = unseen /\ unseen' \ {} = unseen'
      OBVIOUS
    <3>3. MissedFew(Listed(applied), k, unseen \ {})
      BY <2>2, <3>1, <3>2 DEF Counted
    <3>4. Cardinality({e \in unseen' : Earlier(Listed(applied)', e) < k})
             + Cardinality(Listed(applied)' \ Listed(applied)') <= left'
      BY <2>4, <3>2, <3>3
    <3>5. k = (IF view = "loaded" THEN Reach(shown) ELSE offset)'
      BY <1>1, <3>1 DEF Reach
    <3>6. QED
      BY <3>4, <3>5 DEF MissedFew, Earlier
  <2>6. ASSUME NEW r \in requests, r.version = version, r.rows = NULL, NEW now \in r.query.since..clock'
        PROVE  MissedFew(Listing(now), offset, unseen)'
    <3>1. PICK m \in r.query.since..clock :
                /\ Listed(applied) \subseteq Listing(m)
                /\ Cardinality(Listing(m) \ Listing(now)') + Cardinality(Listing(now)' \ M)
                      <= Cardinality(Listing(m) \ L) + D
      BY <1>9, <2>6
    <3>2. PICK k \in Nat : k = offset
      BY Limits
    <3>3. unseen \ {} = unseen /\ unseen' \ {} = unseen'
      OBVIOUS
    <3>4. PICK S \in SUBSET Events : S = Listing(m)
      BY DEF Listing
    <3>5. PICK T \in SUBSET Events : T = Listing(now)'
      BY DEF Listing
    <3>6. MissedFew(S, k, unseen \ {})
      BY <2>2, <2>6, <3>1, <3>2, <3>3, <3>4 DEF Counted
    <3>7. Cardinality({e \in unseen' : Earlier(T, e) < k}) + Cardinality(T \ Listed(applied)') <= left'
      BY <2>3, <3>1, <3>3, <3>4, <3>5, <3>6
    <3>8. k = offset'
      BY <1>1, <3>2
    <3>9. QED
      BY <3>5, <3>7, <3>8 DEF MissedFew, Earlier
  <2>7. ASSUME NEW r \in requests, r.version = version, r.rows # NULL
        PROVE  MissedFew(Listed(applied), Reach(r.rows), unseen \ Range(r.rows))'
    <3>1. Reach(r.rows) \in Nat
      BY Limits DEF Reach
    <3>2. PICK k \in Nat : k = Reach(r.rows)
      BY <3>1
    <3>3. PICK G : G = Range(r.rows)
      OBVIOUS
    <3>4. MissedFew(Listed(applied), k, unseen \ G)
      BY <2>2, <2>7, <3>2, <3>3 DEF Counted
    <3>5. Cardinality({e \in unseen' \ G : Earlier(Listed(applied)', e) < k})
             + Cardinality(Listed(applied)' \ Listed(applied)') <= left'
      BY <2>4, <3>4
    <3>6. k = Reach(r.rows)' /\ G = Range(r.rows)'
      BY <1>1, <3>2, <3>3 DEF Reach
    <3>7. QED
      BY <3>5, <3>6 DEF MissedFew, Earlier
  <2>8. QED
    BY <1>1, <2>5, <2>6, <2>7 DEF Counted
<1>15. WalkSound'
  BY <1>5, <1>13, <1>14 DEF WalkSound
<1>16. QED
  BY <1>10, <1>11, <1>12, <1>15 DEF IInv

--------------------------------------------------------------------------------
(* Asking for a page *)

\* Few are missed when a page is asked for, if few lie before it.
LEMMA BrowseSound ==
  ASSUME IInv, NEW f \in Filters, NEW from, from \in {i * PageSize : i \in 0..version}, Browse(f, from),
         unseen' \subseteq Listed(f), left' \in Nat,
         \/ Cardinality(unseen') <= left'
         \/ Cardinality({e \in unseen' : Earlier(Listed(f), e) < from}) <= left'
  PROVE  IInv'
<1>0. PICK new : new = [version |-> version', rows |-> NULL,
                      query |-> [filter |-> f, offset |-> from, since |-> clock]]
  OBVIOUS
<1>1. /\ version < MaxVersion /\ version' = version + 1 /\ applied' = f /\ offset' = from
      /\ requests' = requests \union {new} /\ view' = "loading" /\ shown' = <<>> /\ ever' = Listed(f)
      /\ name' = name /\ late' = late /\ clock' = clock
  BY <1>0 DEF Browse, Request, world
<1>2. /\ new.version = version' /\ new.rows = NULL /\ new.query.filter = f /\ new.query.offset = from
      /\ new.query.since = clock
      /\ new = [version |-> new.version, rows |-> new.rows, query |-> new.query]
      /\ new.query = [filter |-> f, offset |-> from, since |-> clock]
  BY <1>0
<1>3. version \in Nat /\ version >= 1 /\ version' \in 1..MaxVersion /\ clock \in 0..MaxEvents
  BY <1>1, Limits
<1>4. /\ from \in {i * PageSize : i \in 0..version' - 1} /\ from \in {i * PageSize : i \in 0..MaxVersion}
      /\ from \in Nat
  <2>1. PICK i \in 0..version : from = i * PageSize
    OBVIOUS
  <2>2. i \in 0..version' - 1 /\ i \in 0..MaxVersion
    BY <1>1, <1>3, Limits
  <2>3. i * PageSize \in Nat
    BY Limits
  <2>4. QED
    BY <2>1, <2>2, <2>3
<1>5. new.query \in Query
  BY <1>2, <1>3, <1>4 DEF Query
<1>6. \A r \in requests : r.version < version' /\ RequestOK(r)'
  <2>1. \A r \in requests : RequestOK(r) /\ r.version \in 1..version
    BY Answers DEF IInv, RequestsSound
  <2>2. QED
    BY <1>1, <1>3, <2>1 DEF RequestOK
<1>7. RequestOK(new)'
  BY <1>1, <1>2, <1>3, <1>5 DEF RequestOK
<1>8. \A r \in requests' : (r \in requests \/ r = new) /\ (r.version = version' => r = new)
  BY <1>1, <1>3, <1>6
<1>9. Listing(clock)' = Listed(f) /\ Listed(applied)' = Listed(f) /\ Listed(f) \subseteq Events
  BY <1>1 DEF Listing, Listed, Matches
<1>10. \A now \in clock..clock : now = clock
  BY <1>3
<1>11. RequestsSound'
  <2>1. ASSUME NEW r \in requests'
        PROVE  RequestOK(r)'
    <3>1. CASE r \in requests
      BY <1>6, <3>1
    <3>2. CASE r = new
      BY <1>7, <3>2
    <3>3. QED
      BY <1>8, <3>1, <3>2
  <2>2. \A now \in new.query.since..clock' : Listing(now)' \subseteq ever'
    BY <1>1, <1>2, <1>9, <1>10 DEF Listing, Matches
  <2>3. QED
    BY <1>1, <1>2, <1>8, <2>1, <2>2 DEF RequestsSound
<1>12. TypeOK'
  <2>1. \A r \in requests' : r.version \in 1..version' /\ (r.rows = NULL <=> r.query # NULL)
    <3>1. \A r \in requests : r.version \in 1..version' /\ (r.rows = NULL <=> r.query # NULL)
      BY <1>1, <1>3 DEF IInv, TypeOK
    <3>2. new.version \in 1..version' /\ new.rows = NULL /\ new.query # NULL
      BY <1>2, <1>3, <1>5, NullAssumption
    <3>3. QED
      BY <1>8, <3>1, <3>2
  <2>2. shown' \in Seq(Events) /\ unseen' \subseteq Events
    BY <1>1, <1>9
  <2>3. QED
    BY <1>1, <1>3, <1>4, <2>1, <2>2 DEF IInv, TypeOK
<1>13. CardsSound' /\ LoadingIsAwaited'
  BY <1>1, <1>2 DEF CardsSound, LoadingIsAwaited
<1>14. WalkSound'
  <2>1. ASSUME Cardinality({e \in unseen' : Earlier(Listed(f), e) < from}) <= left'
        PROVE  Counted'
    <3>1. Cardinality(Listed(f) \ Listed(f)) = 0
      <4>1. Listed(f) \ Listed(f) = {}
        OBVIOUS
      <4>2. QED
        BY <4>1, FS_EmptySet
    <3>2. Cardinality({e \in unseen' : Earlier(Listed(f), e) < from}) \in Nat
      <4>1. {e \in unseen' : Earlier(Listed(f), e) < from} \in SUBSET Events
        BY <1>9
      <4>2. QED
        BY <4>1, FiniteEvents, BrowsingAssumption
    <3>3. Cardinality({e \in unseen' : Earlier(Listed(f), e) < from})
            + Cardinality(Listed(f) \ Listed(f)) <= left'
      BY <2>1, <3>1, <3>2
    <3>4. MissedFew(Listed(applied), offset, unseen)'
      BY <1>1, <1>9, <3>3 DEF MissedFew, Earlier
    <3>5. MissedFew(Listing(clock), offset, unseen)'
      BY <1>1, <1>9, <3>3 DEF MissedFew, Earlier
    <3>6. \A now \in new.query.since..clock' : MissedFew(Listing(now), offset, unseen)'
      BY <1>1, <1>2, <1>10, <3>5 DEF MissedFew, Listing, Matches, Earlier
    <3>7. QED
      BY <1>1, <1>2, <1>8, <3>4, <3>6 DEF Counted
  <2>2. unseen' \subseteq Listed(applied)'
    BY <1>9
  <2>3. QED
    BY <1>1, <1>4, <2>1, <2>2 DEF WalkSound
<1>15. QED
  BY <1>11, <1>12, <1>13, <1>14 DEF IInv

\* Whoever lies before an earlier place lies before a later one.
LEMMA FewerBefore ==
  ASSUME IInv, Counted, NEW k \in Nat,
         \/ k <= IF view = "loaded" THEN Reach(shown) ELSE offset
         \/ view = "loaded" /\ Len(shown) < PageSize
  PROVE  Cardinality({e \in unseen : Earlier(Listed(applied), e) < k}) <= left
<1> DEFINE L == Listed(applied)
           j == IF view = "loaded" THEN Reach(shown) ELSE offset
           X == {e \in unseen : Earlier(L, e) < k}
           Y == {e \in unseen : Earlier(L, e) < j}
<1>1. L \in SUBSET Events /\ X \in SUBSET Events /\ Y \in SUBSET Events /\ j \in Nat
  BY Limits DEF Listed
<1>2. /\ IsFiniteSet(Y) /\ Cardinality(Y) \in Nat /\ Cardinality(X) \in Nat /\ Cardinality(L \ L) \in Nat
      /\ \A e : Earlier(L, e) \in Nat /\ Earlier(L, e) <= MaxEvents
  <2>1. L \ L \in SUBSET Events
    OBVIOUS
  <2>2. /\ IsFiniteSet(Y) /\ Cardinality(Y) \in 0..MaxEvents /\ Cardinality(X) \in 0..MaxEvents
        /\ Cardinality(L \ L) \in 0..MaxEvents
    BY <1>1, <2>1, FiniteEvents
  <2>3. \A e : Earlier(L, e) \in Nat /\ Earlier(L, e) <= MaxEvents
    BY <1>1, FiniteEvents
  <2> HIDE DEF X, Y, L
  <2>4. QED
    BY <2>2, <2>3
<1>3. Cardinality(Y) + Cardinality(L \ L) <= left
  BY DEF Counted, MissedFew
<1>4. k <= j \/ j = MaxEvents + 1
  BY DEF Reach
<1> HIDE DEF L, j
<1>5. X \in SUBSET Y
  <2>1. ASSUME NEW e, Earlier(L, e) < k
        PROVE  Earlier(L, e) < j
    BY <1>1, <1>2, <1>4, <2>1, BrowsingAssumption
  <2>2. QED
    BY <2>1
<1> HIDE DEF X, Y
<1>6. Cardinality(X) <= Cardinality(Y)
  BY <1>2, <1>5, FS_Subset
<1>7. Cardinality(X) <= left
  BY <1>2, <1>3, <1>6, Limits
<1>8. QED
  BY <1>7 DEF X, L

LEMMA SubmitSound ==
  ASSUME IInv, NEW f \in Filters, Submit(f)
  PROVE  IInv'
<1>1. Browse(f, 0) /\ unseen' = Listed(f) /\ left' = 0
  BY DEF Submit, NewWalk
<1>2. 0 = 0 * PageSize /\ 0 \in 0..version
  BY Limits
<1>3. Listed(f) \in SUBSET Events
  BY DEF Listed
<1>4. \A e : Earlier(Listed(f), e) \in Nat
  BY <1>3, FiniteEvents
<1>5. {e \in unseen' : Earlier(Listed(f), e) < 0} = {}
  BY <1>4
<1>6. Cardinality({e \in unseen' : Earlier(Listed(f), e) < 0}) <= left'
  BY <1>1, <1>5, FS_EmptySet
<1>7. unseen' \subseteq Listed(f) /\ left' \in Nat
  BY <1>1
<1>8. QED
  BY <1>1, <1>2, <1>6, <1>7, BrowseSound

LEMMA TurnSound ==
  ASSUME IInv, NextPage \/ PreviousPage
  PROVE  IInv'
<1>1. PICK i \in 0..version - 1 : offset = i * PageSize
  BY DEF IInv, WalkSound
<1>2. /\ version \in Nat /\ PageSize \in Nat \ {0} /\ offset \in Nat /\ applied \in Filters
      /\ unseen \subseteq Listed(applied) /\ left \in Nat
      /\ Cardinality(unseen) <= left \/ Counted
  BY Limits DEF IInv, TypeOK, WalkSound
<1>3. CASE NextPage
  <2>1. /\ view = "loaded" /\ Len(shown) = PageSize /\ Browse(applied, offset + PageSize)
        /\ unseen' = unseen /\ left' = left
    BY <1>3 DEF NextPage
  <2>2. offset + PageSize = (i + 1) * PageSize /\ i + 1 \in 0..version /\ offset + PageSize \in Nat
    BY <1>1, <1>2
  <2>3. offset + PageSize <= IF view = "loaded" THEN Reach(shown) ELSE offset
    BY <1>2, <2>1 DEF Reach
  <2>4. Counted => Cardinality({e \in unseen : Earlier(Listed(applied), e) < offset + PageSize}) <= left
    BY <2>1, <2>2, <2>3, FewerBefore
  <2>5. QED
    BY <1>2, <2>1, <2>2, <2>4, BrowseSound
<1>4. CASE PreviousPage
  <2>1. /\ view \in {"loaded", "failed"} /\ offset # 0 /\ Browse(applied, offset - PageSize)
        /\ unseen' = unseen /\ left' = left
    BY <1>4 DEF PreviousPage
  <2>2. i - 1 \in 0..version /\ offset - PageSize = (i - 1) * PageSize
    BY <1>1, <1>2, <2>1
  <2>3. offset - PageSize \in Nat
    <3>1. (i - 1) * PageSize \in Nat
      BY <1>2, <2>2
    <3>2. QED
      BY <2>2, <3>1
  <2>4. \/ offset - PageSize <= IF view = "loaded" THEN Reach(shown) ELSE offset
        \/ view = "loaded" /\ Len(shown) < PageSize
    BY <1>2 DEF Reach
  <2>5. Counted => Cardinality({e \in unseen : Earlier(Listed(applied), e) < offset - PageSize}) <= left
    BY <2>3, <2>4, FewerBefore
  <2>6. QED
    BY <1>2, <2>1, <2>2, <2>5, BrowseSound
<1>5. QED
  BY <1>3, <1>4

--------------------------------------------------------------------------------
(* Answers *)

\* What a page cut from the list of an earlier time leaves out lies before it
\* there, and no more slips before it than has left the list since.
LEMMA FewLeftOut ==
  ASSUME IInv, NEW now \in Int, now <= clock, MissedFew(Listing(now), offset, unseen),
         NEW rows, rows = Slice(applied, offset, now)
  PROVE  MissedFew(Listed(applied), Reach(rows), unseen \ Range(rows))
<1> DEFINE S == Listing(now)
           T == Listed(applied)
           A == unseen \ Range(rows)
           X == {e \in A : Earlier(T, e) < Reach(rows)}
           Y == {e \in A : Earlier(S, e) < Reach(rows)}
           Z == {e \in unseen : Earlier(S, e) < offset}
<1>1. /\ Len(rows) \in 0..PageSize
      /\ \A e \in S : Earlier(S, e) >= offset =>
            \/ e \in Range(rows)
            \/ Len(rows) = PageSize /\ Earlier(S, e) >= offset + PageSize
  BY Limits, PageOfList DEF Listing
<1>2. S \in SUBSET Events /\ T \in SUBSET Events /\ T \subseteq S
  <2>1. ASSUME NEW e \in T
        PROVE  Matches(applied, e, now)
    <3>1. e \in Int /\ clock \in Int /\ Matches(applied, e, clock)
      BY Limits DEF Listed, Events
    <3>2. QED
      BY <3>1, TimePasses
  <2>2. QED
    BY <2>1 DEF Listing, Listed
<1>3. A \in SUBSET S /\ X \in SUBSET Events /\ Y \in SUBSET Events /\ Z \in SUBSET Events /\ unseen \subseteq S
  BY <1>2 DEF IInv, WalkSound
<1>4. Reach(rows) \in Nat /\ PageSize \in Nat /\ offset \in Nat
  BY Limits DEF Reach
<1>5. Len(rows) = PageSize => Reach(rows) = offset + PageSize
  BY <1>4 DEF Reach
<1>6. Cardinality(Z) + Cardinality(S \ T) <= left
  BY DEF MissedFew
<1>7. \A e : Earlier(S, e) \in Nat
  BY <1>2, FiniteEvents
<1> HIDE DEF S, T
<1>8. Y \in SUBSET Z
  <2>1. ASSUME NEW e \in S, e \notin Range(rows), Earlier(S, e) < Reach(rows)
        PROVE  Earlier(S, e) < offset
    BY <1>1, <1>4, <1>5, <1>7, <2>1
  <2>2. QED
    BY <1>3, <2>1
<1>9. Cardinality(X) <= Cardinality(Y) + Cardinality(S \ T)
  BY <1>2, <1>3, <1>4, Slipped
<1>10. S \ T \in SUBSET Events
  BY <1>2
<1> HIDE DEF X, Y, Z
<1>11. /\ Cardinality(X) \in Nat /\ Cardinality(Y) \in Nat /\ Cardinality(Z) \in Nat
       /\ Cardinality(S \ T) \in Nat /\ IsFiniteSet(Z)
  BY <1>3, <1>10, FiniteEvents
<1>12. Cardinality(Y) <= Cardinality(Z)
  BY <1>8, <1>11, FS_Subset
<1>13. Cardinality(X) <= left
  BY <1>6, <1>9, <1>11, <1>12, Limits
<1>14. Cardinality(T \ T) = 0
  <2>1. T \ T = {}
    OBVIOUS
  <2>2. QED
    BY <2>1, FS_EmptySet
<1>15. Cardinality(X) + Cardinality(T \ T) <= left
  BY <1>11, <1>13, <1>14
<1>16. QED
  BY <1>15 DEF MissedFew, X, T

LEMMA ServeSound ==
  ASSUME IInv, NEW r \in requests, Serve(r)
  PROVE  IInv'
<1>1. PICK now \in r.query.since..clock :
         requests' = (requests \ {r}) \union
                        {[r EXCEPT !.rows = Slice(r.query.filter, r.query.offset, now), !.query = NULL]}
  BY DEF Serve
<1>2. PICK rows : rows = Slice(r.query.filter, r.query.offset, now)
  OBVIOUS
<1>3. PICK new : new = [r EXCEPT !.rows = rows, !.query = NULL]
  OBVIOUS
<1>4. /\ requests' = (requests \ {r}) \union {new} /\ r.rows = NULL
      /\ applied' = applied /\ offset' = offset /\ version' = version /\ view' = view /\ shown' = shown
      /\ name' = name /\ late' = late /\ clock' = clock
      /\ ever' = ever /\ unseen' = unseen /\ left' = left
  BY <1>1, <1>2, <1>3 DEF Serve, world, walk
<1>5. /\ r = [version |-> r.version, rows |-> r.rows, query |-> r.query] /\ r.version \in 1..version
      /\ r.query.offset \in Nat /\ r.query.since \in Nat /\ clock \in Nat
  BY <1>4, Answers, Limits
<1>6. now \in Int /\ now <= clock
  BY <1>5
<1>7. /\ RowsOK(rows)
      /\ Range(rows) \subseteq {e \in Events : Matches(r.query.filter, e, now)}
  BY <1>2, <1>5, PageOfList
<1>8. rows # NULL
  <2>1. ~RowsOK(NULL)
    BY NullAssumption DEF RowsOK
  <2>2. QED
    BY <1>7, <2>1
<1>9. new = [version |-> r.version, rows |-> rows, query |-> NULL]
  BY <1>3, <1>5
<1>10. new.version = r.version /\ new.rows = rows /\ new.query = NULL
  BY <1>9
<1>11. \A q \in requests' : q = new \/ (q \in requests /\ q # r)
  BY <1>4
<1>12. r.version = version =>
          /\ Range(rows) \subseteq ever
          /\ rows = Slice(applied, offset, now)
          /\ Counted => MissedFew(Listing(now), offset, unseen)
          /\ view = "loading"
          /\ \A q \in requests : q.version = version => q = r
  <2>1. ASSUME r.version = version
        PROVE  /\ r.query.filter = applied /\ r.query.offset = offset
               /\ Listing(now) \subseteq ever /\ view = "loading"
               /\ \A q \in requests : q.version = version => q = r
    BY <1>4, <2>1 DEF IInv, RequestsSound
  <2>2. Counted /\ r.version = version => MissedFew(Listing(now), offset, unseen)
    BY <1>4 DEF Counted
  <2>3. QED
    BY <1>2, <1>7, <2>1, <2>2 DEF Listing
<1>13. RequestsSound'
  <2>1. ASSUME NEW q \in requests'
        PROVE  RequestOK(q)'
    <3>1. CASE q \in requests
      <4>1. RequestOK(q)
        BY <3>1 DEF IInv, RequestsSound
      <4>2. QED
        BY <1>4, <4>1 DEF RequestOK
    <3>2. CASE q = new
      <4>1. RequestOK(new)'
        BY <1>4, <1>5, <1>7, <1>9, <1>10 DEF RequestOK
      <4>2. QED
        BY <3>2, <4>1
    <3>3. QED
      BY <1>11, <3>1, <3>2
  <2>2. ASSUME NEW q \in requests', q.version = version
        PROVE  /\ view = "loading"
               /\ \A p \in requests' : p.version = version => p = q
               /\ q.rows = NULL => /\ q.query.filter = applied /\ q.query.offset = offset
                                   /\ \A t \in q.query.since..clock : Listing(t) \subseteq ever
               /\ q.rows # NULL => Range(q.rows) \subseteq ever
    <3>1. CASE q = new
      BY <1>8, <1>10, <1>11, <1>12, <2>2, <3>1
    <3>2. CASE q \in requests /\ q # r
      <4>1. \A p \in requests : p.version = version => p = q
        BY <2>2, <3>2 DEF IInv, RequestsSound
      <4>2. r.version # version
        BY <3>2, <4>1
      <4>3. \A p \in requests' : p.version = version => p = q
        BY <1>10, <1>11, <4>1, <4>2
      <4>4. QED
        BY <2>2, <3>2, <4>3 DEF IInv, RequestsSound
    <3>3. QED
      BY <1>11, <3>1, <3>2
  <2>3. \A t : Listing(t)' = Listing(t)
    BY <1>4 DEF Listing, Matches
  <2>4. QED
    BY <1>4, <2>1, <2>2, <2>3 DEF RequestsSound
<1>14. CardsSound'
  BY <1>4 DEF IInv, CardsSound
<1>15. LoadingIsAwaited'
  BY <1>4, <1>10 DEF IInv, LoadingIsAwaited
<1>16. TypeOK'
  <2>1. \A q \in requests' : q.version \in 1..version /\ (q.rows = NULL <=> q.query # NULL)
    BY <1>5, <1>8, <1>10, <1>11 DEF IInv, TypeOK
  <2>2. QED
    BY <1>4, <2>1 DEF IInv, TypeOK
<1>17. WalkSound'
  <2>1. Listed(applied)' = Listed(applied) /\ \A t : Listing(t)' = Listing(t)
    BY <1>4 DEF Listed, Listing, Matches
  <2>2. ASSUME Counted
        PROVE  Counted'
    <3>1. MissedFew(Listed(applied), IF view = "loaded" THEN Reach(shown) ELSE offset, unseen)'
      BY <1>4, <2>1, <2>2 DEF Counted, MissedFew, Reach, Earlier
    <3>2. ASSUME NEW q \in requests', q.version = version
          PROVE  /\ q.rows = NULL => \A t \in q.query.since..clock : MissedFew(Listing(t), offset, unseen)
                 /\ q.rows # NULL => MissedFew(Listed(applied), Reach(q.rows), unseen \ Range(q.rows))
      <4>1. CASE q = new
        <5>1. MissedFew(Listed(applied), Reach(rows), unseen \ Range(rows))
          BY <1>6, <1>10, <1>12, <2>2, <3>2, <4>1, FewLeftOut
        <5>2. QED
          BY <1>8, <1>10, <4>1, <5>1
      <4>2. CASE q \in requests
        BY <2>2, <3>2, <4>2 DEF Counted
      <4>3. QED
        BY <1>11, <4>1, <4>2
    <3>3. ASSUME NEW q \in requests', q.version = version
          PROVE  /\ q.rows = NULL => \A t \in q.query.since..clock : MissedFew(Listing(t), offset, unseen)'
                 /\ q.rows # NULL => MissedFew(Listed(applied), Reach(q.rows), unseen \ Range(q.rows))'
      BY <1>4, <2>1, <3>2, <3>3 DEF MissedFew, Reach, Earlier
    <3>4. QED
      BY <1>4, <3>1, <3>3 DEF Counted
  <2>3. QED
    BY <1>4, <2>1, <2>2 DEF IInv, WalkSound
<1>18. QED
  BY <1>13, <1>14, <1>15, <1>16, <1>17 DEF IInv

\* What no longer is under way is not waited for.
LEMMA DroppedSound ==
  ASSUME IInv, NEW r \in requests, Dropped(r), view' \in {"loading", "loaded", "failed"},
         r.version = version => view' # "loading", r.version # version => view' = view
  PROVE  RequestsSound' /\ LoadingIsAwaited'
<1>1. /\ requests' = requests \ {r} /\ applied' = applied /\ offset' = offset /\ version' = version
      /\ name' = name /\ late' = late /\ clock' = clock /\ ever' = ever
  BY DEF Dropped, world
<1>2. \A q \in requests' : q.version = version => r.version # version
  BY <1>1 DEF IInv, RequestsSound
<1>3. \A q \in requests : RequestOK(q)'
  BY <1>1 DEF IInv, RequestsSound, RequestOK
<1>4. \A t : Listing(t)' = Listing(t)
  BY <1>1 DEF Listing, Matches
<1>5. RequestsSound'
  BY <1>1, <1>2, <1>3, <1>4 DEF IInv, RequestsSound
<1>6. LoadingIsAwaited'
  BY <1>1 DEF IInv, LoadingIsAwaited
<1>7. QED
  BY <1>5, <1>6

LEMMA ArriveSound ==
  ASSUME IInv, NEW r \in requests, Arrive(r)
  PROVE  IInv'
<1>1. /\ requests' = requests \ {r} /\ applied' = applied /\ offset' = offset /\ version' = version
      /\ name' = name /\ late' = late /\ clock' = clock
      /\ ever' = ever /\ left' = left /\ r.rows # NULL
  BY DEF Arrive, Dropped, world
<1>2. /\ r.version = version => view' = "loaded" /\ shown' = r.rows /\ unseen' = unseen \ Range(r.rows)
      /\ r.version # version => view' = view /\ shown' = shown /\ unseen' = unseen
  BY DEF Arrive, Latest
<1>3. view' \in {"loading", "loaded", "failed"}
  BY <1>2 DEF IInv, TypeOK
<1>4. RequestsSound' /\ LoadingIsAwaited'
  BY <1>2, <1>3, DroppedSound DEF Arrive
<1>5. \E n \in 0..MaxEvents : r.rows \in [1..n -> Events]
  BY <1>1, Answers DEF RowsOK
<1>6. r.rows \in Seq(Events) /\ Range(r.rows) \subseteq Events
  <2>1. PICK n \in 0..MaxEvents : r.rows \in [1..n -> Events]
    BY <1>5
  <2>2. n \in Nat
    BY <2>1, BrowsingAssumption
  <2>3. r.rows \in Seq(Events)
    BY <2>1, <2>2
  <2>4. QED
    BY <2>1, <2>3 DEF Range
<1>7. TypeOK'
  <2>1. shown' \in Seq(Events) /\ (view' # "loaded" => shown' = <<>>) /\ unseen' \subseteq Events
    BY <1>2, <1>6 DEF IInv, TypeOK
  <2>2. QED
    BY <1>1, <1>3, <2>1 DEF IInv, TypeOK
<1>8. CardsSound'
  <2>1. CASE r.version = version
    <3>1. Range(r.rows) \subseteq ever
      BY <1>1, <2>1 DEF IInv, RequestsSound
    <3>2. \A i, j \in DOMAIN r.rows : i < j => r.rows[i] < r.rows[j]
      BY <1>1, Answers DEF RowsOK
    <3>3. QED
      BY <1>1, <1>2, <2>1, <3>1, <3>2 DEF CardsSound, Range
  <2>2. CASE r.version # version
    BY <1>1, <1>2, <2>2 DEF IInv, CardsSound
  <2>3. QED
    BY <2>1, <2>2
<1>9. WalkSound'
  <2>1. Listed(applied)' = Listed(applied) /\ \A t : Listing(t)' = Listing(t)
    BY <1>1 DEF Listed, Listing, Matches
  <2>2. ASSUME Counted
        PROVE  Counted'
    <3>1. CASE r.version = version
      <4>1. MissedFew(Listed(applied), Reach(r.rows), unseen \ Range(r.rows))
        BY <1>1, <2>2, <3>1 DEF Counted
      <4>2. MissedFew(Listed(applied), IF view = "loaded" THEN Reach(shown) ELSE offset, unseen)'
        BY <1>1, <1>2, <2>1, <3>1, <4>1 DEF MissedFew, Reach, Earlier
      <4>3. \A q \in requests' : q.version # version'
        BY <1>1, <3>1 DEF IInv, RequestsSound
      <4>4. QED
        BY <4>2, <4>3 DEF Counted
    <3>2. CASE r.version # version
      <4>1. view' = view /\ shown' = shown /\ unseen' = unseen
        BY <1>2, <3>2
      <4>2. MissedFew(Listed(applied), IF view = "loaded" THEN Reach(shown) ELSE offset, unseen)'
        BY <1>1, <2>1, <2>2, <4>1 DEF Counted, MissedFew, Reach, Earlier
      <4>3. ASSUME NEW q \in requests', q.version = version'
            PROVE  /\ q.rows = NULL => \A t \in q.query.since..clock : MissedFew(Listing(t), offset, unseen)'
                   /\ q.rows # NULL => MissedFew(Listed(applied), Reach(q.rows), unseen \ Range(q.rows))'
        BY <1>1, <2>1, <2>2, <4>1, <4>3 DEF Counted, MissedFew, Reach, Earlier
      <4>4. QED
        BY <1>1, <4>2, <4>3 DEF Counted
    <3>3. QED
      BY <3>1, <3>2
  <2>3. unseen' \subseteq unseen /\ Cardinality(unseen') <= Cardinality(unseen) /\ Cardinality(unseen') \in Nat
    <3>1. unseen' \in SUBSET unseen
      BY <1>2
    <3>2. QED
      BY <3>1, Limits, FS_Subset, FS_CardinalityType
  <2>4. Cardinality(unseen) <= left => Cardinality(unseen') <= left'
    BY <1>1, <2>3, Limits
  <2>5. QED
    BY <1>1, <2>1, <2>2, <2>3, <2>4 DEF IInv, WalkSound
<1>10. QED
  BY <1>4, <1>7, <1>8, <1>9 DEF IInv

\* Nothing was shown of a page that fails, and what has been missed lay before it.
LEMMA FailSound ==
  ASSUME IInv, NEW r \in requests, Fail(r)
  PROVE  IInv'
<1>1. /\ requests' = requests \ {r} /\ applied' = applied /\ offset' = offset /\ version' = version
      /\ name' = name /\ late' = late /\ clock' = clock /\ shown' = shown
      /\ ever' = ever /\ unseen' = unseen /\ left' = left
  BY DEF Fail, Dropped, world
<1>2. /\ r.version = version => view' = "failed"
      /\ r.version # version => view' = view
  BY DEF Fail, Latest
<1>3. view' \in {"loading", "loaded", "failed"}
  BY <1>2 DEF IInv, TypeOK
<1>4. RequestsSound' /\ LoadingIsAwaited'
  BY <1>2, <1>3, DroppedSound DEF Fail
<1>5. r.version = version => view = "loading"
  BY DEF IInv, RequestsSound
<1>6. view' # "loaded" => view # "loaded" /\ shown = <<>>
  BY <1>2, <1>5 DEF IInv, TypeOK
<1>7. TypeOK'
  BY <1>1, <1>3, <1>6 DEF IInv, TypeOK
<1>8. CardsSound'
  BY <1>1 DEF IInv, CardsSound
<1>9. WalkSound'
  <2>1. Listed(applied)' = Listed(applied) /\ \A t : Listing(t)' = Listing(t)
    BY <1>1 DEF Listed, Listing, Matches
  <2>2. view' = "loaded" <=> view = "loaded"
    BY <1>2, <1>5
  <2>3. ASSUME Counted
        PROVE  Counted'
    <3>1. MissedFew(Listed(applied), IF view = "loaded" THEN Reach(shown) ELSE offset, unseen)'
      BY <1>1, <2>1, <2>2, <2>3 DEF Counted, MissedFew, Reach, Earlier
    <3>2. ASSUME NEW q \in requests', q.version = version'
          PROVE  /\ q.rows = NULL => \A t \in q.query.since..clock : MissedFew(Listing(t), offset, unseen)'
                 /\ q.rows # NULL => MissedFew(Listed(applied), Reach(q.rows), unseen \ Range(q.rows))'
      BY <1>1, <2>1, <2>3, <3>2 DEF Counted, MissedFew, Reach, Earlier
    <3>3. QED
      BY <1>1, <3>1, <3>2 DEF Counted
  <2>4. QED
    BY <1>1, <2>1, <2>3 DEF IInv, WalkSound
<1>10. QED
  BY <1>4, <1>7, <1>8, <1>9 DEF IInv

LEMMA StutterSound ==
  ASSUME IInv, UNCHANGED vars
  PROVE  IInv'
<1>1. /\ requests' = requests /\ applied' = applied /\ offset' = offset /\ version' = version
      /\ name' = name /\ late' = late /\ clock' = clock /\ shown' = shown /\ view' = view
      /\ ever' = ever /\ unseen' = unseen /\ left' = left
  BY DEF vars, world, page, walk
<1>2. Listed(applied)' = Listed(applied) /\ \A t : Listing(t)' = Listing(t)
  BY <1>1 DEF Listed, Listing, Matches
<1>3. RequestsSound' /\ LoadingIsAwaited' /\ CardsSound'
  <2>1. \A q \in requests : RequestOK(q)'
    BY <1>1 DEF IInv, RequestsSound, RequestOK
  <2>2. RequestsSound'
    BY <1>1, <1>2, <2>1 DEF IInv, RequestsSound
  <2>3. QED
    BY <1>1, <2>2 DEF IInv, LoadingIsAwaited, CardsSound
<1>4. TypeOK'
  BY <1>1 DEF IInv, TypeOK
<1>5. WalkSound'
  BY <1>1, <1>2 DEF IInv, WalkSound, Counted, MissedFew, Reach, Earlier
<1>6. QED
  BY <1>3, <1>4, <1>5 DEF IInv

--------------------------------------------------------------------------------
(* The invariant *)

LEMMA InitSound ==
  ASSUME Init
  PROVE  IInv
<1>1. /\ name \in [Events -> Names \union {NULL}] /\ late = {} /\ clock = 0
      /\ applied = DefaultFilter /\ offset = 0 /\ version = 1
      /\ requests = {Request(1, applied, 0)} /\ view = "loading" /\ shown = <<>>
      /\ ever = Listed(applied) /\ unseen = Listed(applied) /\ left = 0
  BY DEF Init
<1>2. /\ MaxEvents \in Nat /\ PageSize \in Nat \ {0} /\ MaxVersion \in Nat \ {0} /\ applied \in Filters
  BY <1>1, BrowsingAssumption
<1>3. PICK new : new = Request(1, applied, 0)
  OBVIOUS
<1>4. /\ new = [version |-> 1, rows |-> NULL, query |-> [filter |-> applied, offset |-> 0, since |-> 0]]
      /\ requests = {new}
  BY <1>1, <1>3 DEF Request
<1>5. /\ new.version = 1 /\ new.rows = NULL
      /\ new.query = [filter |-> applied, offset |-> 0, since |-> 0]
      /\ new.query.filter = applied /\ new.query.offset = 0 /\ new.query.since = 0
      /\ new = [version |-> new.version, rows |-> new.rows, query |-> new.query]
  BY <1>4
<1>6. 0 = 0 * PageSize /\ 0 \in 0..version - 1 /\ 0 \in 0..MaxVersion /\ 0 \in 0..MaxEvents
  BY <1>1, <1>2
<1>7. new.query \in Query
  BY <1>2, <1>5, <1>6 DEF Query
<1>8. new.query # NULL
  BY <1>7, NullAssumption
<1>9. \A t \in new.query.since..clock : t = clock
  BY <1>1, <1>5
<1>10. Listing(clock) = Listed(applied) /\ Listed(applied) \in SUBSET Events
  BY DEF Listing, Listed
<1>11. RequestsSound
  <2>1. RequestOK(new)
    BY <1>1, <1>5, <1>7 DEF RequestOK
  <2>2. \A t \in new.query.since..clock : Listing(t) \subseteq ever
    BY <1>1, <1>9, <1>10
  <2>3. QED
    BY <1>1, <1>4, <1>5, <2>1, <2>2 DEF RequestsSound
<1>12. TypeOK /\ CardsSound /\ LoadingIsAwaited
  <2>1. \A r \in requests : r.version \in 1..version /\ (r.rows = NULL <=> r.query # NULL)
    BY <1>1, <1>4, <1>5, <1>8
  <2>2. offset \in {i * PageSize : i \in 0..MaxVersion}
    BY <1>1, <1>6
  <2>3. TypeOK
    <3>1. shown \in Seq(Events) /\ unseen \subseteq Events
      BY <1>1, <1>10
    <3>2. name \in [Events -> Names \union {NULL, CANCELLED}]
      BY <1>1
    <3>3. QED
      BY <1>1, <1>2, <1>6, <2>1, <2>2, <3>1, <3>2 DEF TypeOK
  <2>4. QED
    BY <1>1, <1>4, <1>5, <2>3 DEF CardsSound, LoadingIsAwaited
<1>13. MissedFew(Listed(applied), 0, unseen)
  <2>1. \A e : Earlier(Listed(applied), e) \in Nat
    BY <1>10, FiniteEvents
  <2>2. {e \in unseen : Earlier(Listed(applied), e) < 0} = {}
    BY <2>1
  <2>3. Listed(applied) \ Listed(applied) = {}
    OBVIOUS
  <2>4. /\ Cardinality({e \in unseen : Earlier(Listed(applied), e) < 0}) = 0
        /\ Cardinality(Listed(applied) \ Listed(applied)) = 0
    BY <2>2, <2>3, FS_EmptySet
  <2>5. QED
    BY <1>1, <2>4 DEF MissedFew
<1>14. WalkSound
  <2>1. Counted
    <3>1. \A t \in new.query.since..clock : MissedFew(Listing(t), 0, unseen)
      BY <1>9, <1>10, <1>13
    <3>2. QED
      BY <1>1, <1>4, <1>5, <1>13, <3>1 DEF Counted
  <2>2. left \in Nat /\ unseen \subseteq Listed(applied)
    BY <1>1
  <2>3. offset \in {i * PageSize : i \in 0..version - 1}
    BY <1>1, <1>6
  <2>4. QED
    BY <1>1, <2>1, <2>2, <2>3 DEF WalkSound
<1>15. QED
  BY <1>11, <1>12, <1>14 DEF IInv

LEMMA StepSound ==
  ASSUME IInv, [Next]_vars
  PROVE  IInv'
<1>1. CASE World
  BY <1>1, WorldSound
<1>2. CASE \E f \in Filters : Submit(f)
  BY <1>2, SubmitSound
<1>3. CASE NextPage \/ PreviousPage
  BY <1>3, TurnSound
<1>4. CASE \E r \in requests : Serve(r) \/ Arrive(r) \/ Fail(r)
  BY <1>4, ServeSound, ArriveSound, FailSound
<1>5. CASE UNCHANGED vars
  BY <1>5, StutterSound
<1>6. QED
  BY <1>1, <1>2, <1>3, <1>4, <1>5 DEF Next

--------------------------------------------------------------------------------
(* Theorems *)

\* Whatever organizers do and however late answers come, what is under way, what
\* is shown and what has been missed fit together (demo/app.js browse, render,
\* services/events.py list_events).
THEOREM BrowsingInvariance == Spec => []IInv
<1>1. Init => IInv
  BY InitSound
<1>2. IInv /\ [Next]_vars => IInv'
  BY StepSound
<1>3. QED
  BY <1>1, <1>2, PTL DEF Spec

\* The cards are events the filters last submitted admitted since they were
\* asked for, soonest first: an overtaken answer is dropped by its browseVersion.
THEOREM CardsAreWhatWasAsked == Spec => []CardsMatchFilters
<1>1. IInv => CardsMatchFilters
  BY DEF IInv, CardsSound, CardsMatchFilters
<1>2. QED
  BY <1>1, BrowsingInvariance, PTL

\* "Loading" is never left standing: while it is said, the newest request is
\* under way, and whatever comes of it takes it off.
THEOREM LoadingEnds == Spec => []LoadingIsAwaited
<1>1. IInv => LoadingIsAwaited
  BY DEF IInv
<1>2. QED
  BY <1>1, BrowsingInvariance, PTL

\* Who pages on by LIMIT and OFFSET to a short page, going back a page
\* on the way or not, misses no more of the events that were listed throughout than
\* have left the list meanwhile or have come when it was too late.
THEOREM FewAreMissed == Spec => []WalkMissesFew
<1>1. ASSUME IInv, view = "loaded", Len(shown) < PageSize
      PROVE  Cardinality(unseen) <= left
  <2>1. CASE Cardinality(unseen) <= left
    BY <2>1
  <2>2. CASE Counted
    <3>1. MaxEvents + 1 \in Nat
      BY BrowsingAssumption
    <3>2. Cardinality({e \in unseen : Earlier(Listed(applied), e) < MaxEvents + 1}) <= left
      BY <1>1, <2>2, <3>1, FewerBefore
    <3>3. \A e : Earlier(Listed(applied), e) < MaxEvents + 1
      <4>1. Listed(applied) \in SUBSET Events
        BY DEF Listed
      <4>2. \A e : Earlier(Listed(applied), e) \in Nat /\ Earlier(Listed(applied), e) <= MaxEvents
        BY <4>1, FiniteEvents
      <4>3. QED
        BY <4>2, BrowsingAssumption
    <3>4. {e \in unseen : Earlier(Listed(applied), e) < MaxEvents + 1} = unseen
      BY <3>3
    <3>5. QED
      BY <3>2, <3>4
  <2>3. QED
    BY <1>1, <2>1, <2>2 DEF IInv, WalkSound
<1>2. IInv => WalkMissesFew
  BY <1>1 DEF WalkMissesFew
<1>3. QED
  BY <1>2, BrowsingInvariance, PTL

================================================================================

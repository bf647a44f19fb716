--------------------------- MODULE RateLimiterProofs ---------------------------
(***************************************************************************)
(* Proofs about RateLimiter, for every limit, window, number of addresses  *)
(* and of requests under way, resolution of time and delay of the answers: *)
(* counters keep to their limits, windows end when their first request     *)
(* said, Retry-After is long enough and not much longer, what is passed on *)
(* was counted before, and no stretch of a window's length sees twice the  *)
(* limit counted, or three times the limit passed on.                      *)
(***************************************************************************)
EXTENDS RateLimiter, TLAPS, FiniteSetTheorems

\* When the last window under a key began.
Start(k) == expires[k] - Span(k)

\* Totals only grow, none is about the future, and a key never used has none.
History(k) == /\ \A t, u \in Time : t <= u => counted[k][t] <= counted[k][u]
              /\ \A t \in Time : clock <= t => counted[k][t] = counted[k][clock]
              /\ expires[k] = 0 => \A t \in Time : counted[k][t] = 0

\* The counter is what its window counted, its first request included.
Covered(k) == /\ CountedIn(k, Start(k), clock + 1) = count[k]
              /\ CountedIn(k, Start(k) + 1, clock + 1) <= count[k] - 1
              /\ CountedIn(k, expires[k] + 1, clock + 1) = 0

\* What was counted less than a window's length before the last window began
\* fell into the window before it, after its first request; in twice that
\* length one more window has room.
Preceded(k) == \A t \in Int :
   /\ Start(k) - Span(k) < t => CountedIn(k, t, Start(k)) < Limit[k[1]]
   /\ Start(k) - 2 * Span(k) < t => CountedIn(k, t, Start(k)) < 2 * Limit[k[1]]

\* The window began with a request that was counted.
Quota(k) == expires[k] > 0 => /\ Start(k) \in 0..clock /\ 0 < count[k]
                              /\ Covered(k)
                              /\ Preceded(k)

\* What the script counts, wherever one looks.
Bounded(k) == \A t \in Int : /\ CountedIn(k, t, t + Span(k)) < 2 * Limit[k[1]]
                             /\ CountedIn(k, t, t + 2 * Span(k)) < 3 * Limit[k[1]]

\* What the invariant says of a window and what it counted.
Windowed(k) == History(k) /\ Quota(k) /\ Bounded(k)

\* What has been passed on between two instants and what may yet be was counted
\* then, or less than the answers' way before.
Linked(k) == \A t, u \in Int : t <= u =>
   AdmittedIn(k, t, u) + Cardinality(Awaiting(k, t - Latency, u)) <= CountedIn(k, t - Latency, u)

\* An answer is of the past, and its wait is right as of then.
Told(p) == answer[p] # NULL =>
   /\ answer[p].at <= clock
   /\ answer[p].retry > 0 => /\ answer[p].window <= answer[p].at + answer[p].retry * Second
                             /\ answer[p].at + answer[p].retry * Second <= answer[p].window + Second

\* The inductive invariant.
IInv == /\ TypeOK /\ RetryAfterSuffices
        /\ \A p \in Requests : Told(p)
        /\ \A k \in Key : Windowed(k) /\ Linked(k)

--------------------------------------------------------------------------------
(* Rounding *)

LEMMA LargerOfTwo ==
  ASSUME NEW a \in Int, NEW b \in Int
  PROVE  Max({a, b}) = IF a >= b THEN a ELSE b
<1> DEFINE m == IF a >= b THEN a ELSE b
<1>1. m \in {a, b} /\ \A y \in {a, b} : m >= y
  OBVIOUS
<1>2. \A x \in {a, b} : (\A y \in {a, b} : x >= y) => x = m
  OBVIOUS
<1>3. QED
  BY <1>1, <1>2 DEF Max

\* Rounding up to whole seconds adds less than one.
LEMMA RoundedUp ==
  ASSUME NEW x \in Nat, NEW s \in Nat \ {0}
  PROVE  LET c == (x + s - 1) \div s
         IN  c \in Nat /\ x <= c * s /\ c * s < x + s
<1> DEFINE c == (x + s - 1) \div s
           r == (x + s - 1) % s
<1>1. c \in Int /\ r \in 0..(s - 1) /\ x + s - 1 = s * c + r
  OBVIOUS
<1> HIDE DEF c, r
<1>2. c * s = x + s - 1 - r
  BY <1>1
<1>3. x <= c * s /\ c * s < x + s
  BY <1>1, <1>2
<1>4. c >= 0
  BY <1>1, <1>3
<1>5. QED
  BY <1>1, <1>3, <1>4 DEF c

\* A wait is at least what is left of the window and at most a second more.
LEMMA WaitSuffices ==
  ASSUME NEW k \in Key, expires[k] \in Nat, clock \in Nat, clock <= expires[k]
  PROVE  LET wait == clock + RetryAfter(k) * Second
         IN  RetryAfter(k) \in Nat \ {0} /\ expires[k] <= wait /\ wait <= expires[k] + Second
<1> DEFINE x == expires[k] - clock
           c == (x + Second - 1) \div Second
<1>1. x \in Nat /\ Second \in Nat \ {0}
  BY LimitAssumption
<1>2. c \in Nat /\ x <= c * Second /\ c * Second < x + Second
  BY <1>1, RoundedUp
<1> HIDE DEF c, x
<1>3. RetryAfter(k) = IF 1 >= c THEN 1 ELSE c
  BY <1>2, LargerOfTwo DEF RetryAfter, c, x
<1>4. CASE c = 0
  BY <1>1, <1>2, <1>3, <1>4 DEF x
<1>5. CASE c # 0
  <2>1. RetryAfter(k) = c
    BY <1>2, <1>3, <1>5
  <2> DEFINE w == c * Second
  <2>2. w \in Nat
    BY <1>1, <1>2
  <2>3. RetryAfter(k) * Second = w /\ x <= w /\ w < x + Second
    BY <1>2, <2>1
  <2> HIDE DEF w
  <2>4. QED
    BY <1>1, <1>2, <1>5, <2>1, <2>2, <2>3 DEF x
<1>6. QED
  BY <1>4, <1>5

--------------------------------------------------------------------------------
(* The windows *)

\* Limits and windows are positive.
LEMMA KeyParts ==
  ASSUME NEW k \in Key
  PROVE  Limit[k[1]] \in Nat \ {0} /\ Span(k) \in Nat \ {0}
<1>1. k[1] \in Endpoints
  BY DEF Key
<1>2. Limit[k[1]] \in Nat \ {0} /\ Window[k[1]] \in Nat \ {0} /\ Second \in Nat \ {0}
  BY <1>1, LimitAssumption
<1>3. QED
  BY <1>2 DEF Span

\* Counting keeps to the limit, and moves no end of a window still running.
LEMMA ConsumeSound ==
  ASSUME TypeOK, NEW k \in Key, Consume(k)
  PROVE  /\ count' \in [Key -> Nat] /\ \A j \in Key : count'[j] <= Limit[j[1]]
         /\ expires' \in [Key -> Nat]
         /\ \A j \in Key : Live(j) => expires'[j] = expires[j]
         /\ \A j \in Key \ {k} : count'[j] = count[j] /\ expires'[j] = expires[j]
         /\ count'[k] = Counted(k) + 1
         /\ expires'[k] = IF Live(k) THEN expires[k] ELSE clock + Span(k)
<1>1. Counted(k) \in Nat /\ Counted(k) < Limit[k[1]] /\ WindowEnd(k) \in Nat
  BY KeyParts DEF TypeOK, Counted, Consume, WindowEnd, Time
<1>2. /\ count' = [count EXCEPT ![k] = Counted(k) + 1]
      /\ expires' = [expires EXCEPT ![k] = IF Live(k) THEN @ ELSE WindowEnd(k)]
  BY DEF Consume
<1>3. count' \in [Key -> Nat] /\ count'[k] = Counted(k) + 1 /\ \A j \in Key \ {k} : count'[j] = count[j]
  BY <1>1, <1>2 DEF TypeOK
<1>4. /\ expires' \in [Key -> Nat]
      /\ \A j \in Key \ {k} : expires'[j] = expires[j]
      /\ expires'[k] = IF Live(k) THEN expires[k] ELSE clock + Span(k)
  BY <1>1, <1>2 DEF TypeOK, WindowEnd
<1>5. \A j \in Key : Live(j) => expires'[j] = expires[j]
  BY <1>4
<1>6. \A j \in Key : count'[j] <= Limit[j[1]]
  <2>1. \A j \in Key : count[j] <= Limit[j[1]]
    BY DEF TypeOK
  <2>2. Counted(k) + 1 <= Limit[k[1]]
    BY <1>1, KeyParts
  <2>3. QED
    BY <1>3, <2>1, <2>2
<1>7. QED
  BY <1>3, <1>4, <1>5, <1>6

\* One more under a key adds to its totals from now on, and to no other's.
LEMMA Added ==
  ASSUME NEW history \in [Key -> [Time -> Nat]], NEW k \in Key, clock \in Time
  PROVE  LET more == OneMore(history, k)
         IN  /\ more \in [Key -> [Time -> Nat]]
             /\ \A j \in Key \ {k} : more[j] = history[j]
             /\ \A t \in Int : Before(more, k, t) = Before(history, k, t) + IF clock < t THEN 1 ELSE 0
<1> DEFINE total == [t \in Time |-> IF t < clock THEN history[k][t] ELSE history[k][t] + 1]
           more == [history EXCEPT ![k] = total]
<1>1. total \in [Time -> Nat]
  OBVIOUS
<1>2. OneMore(history, k) = more
  BY DEF OneMore
<1>3. \A t \in Time : total[t] = IF t < clock THEN history[k][t] ELSE history[k][t] + 1
  OBVIOUS
<1> HIDE DEF total
<1>4. more \in [Key -> [Time -> Nat]] /\ more[k] = total /\ \A j \in Key \ {k} : more[j] = history[j]
  BY <1>1
<1> HIDE DEF more
<1>5. MaxTime \in Nat /\ Time = 0..MaxTime /\ clock \in 0..MaxTime
  BY LimitAssumption DEF Time
<1>6. \A t \in Time : history[k][t] \in Nat
  OBVIOUS
<1>7. ASSUME NEW t \in Int
      PROVE  Before(more, k, t) = Before(history, k, t) + IF clock < t THEN 1 ELSE 0
  BY <1>3, <1>4, <1>5, <1>6 DEF Before
<1>8. QED
  BY <1>2, <1>4, <1>7

\* Totals are numbers.
LEMMA TotalsCount ==
  ASSUME NEW history \in [Key -> [Time -> Nat]], NEW k \in Key
  PROVE  \A t \in Int : Before(history, k, t) \in Nat
<1>1. MaxTime \in Nat /\ Time = 0..MaxTime /\ \A t \in Time : history[k][t] \in Nat
  BY LimitAssumption DEF Time
<1>2. QED
  BY <1>1 DEF Before

\* Running totals grow with time and stand still in the future.
LEMMA Totals ==
  ASSUME TypeOK, NEW k \in Key, History(k)
  PROVE  /\ \A t \in Int : Before(counted, k, t) \in Nat
         /\ \A t, u \in Int : t <= u => Before(counted, k, t) <= Before(counted, k, u)
         /\ \A t \in Int : clock < t => Before(counted, k, t) = Before(counted, k, clock + 1)
         /\ expires[k] = 0 => \A t \in Int : Before(counted, k, t) = 0
<1>1. /\ MaxTime \in Nat /\ clock \in Time /\ Time = 0..MaxTime
      /\ \A t \in Time : counted[k][t] \in Nat
  BY LimitAssumption DEF TypeOK, Time
<1>2. \A t \in Int : Before(counted, k, t) \in Nat
  BY <1>1 DEF Before
<1>3. \A t, u \in Int : t <= u => Before(counted, k, t) <= Before(counted, k, u)
  BY <1>1 DEF Before, History
<1>4. \A t \in Int : clock < t => Before(counted, k, t) = Before(counted, k, clock + 1)
  <2>1. Before(counted, k, clock + 1) = counted[k][clock]
    BY <1>1 DEF Before
  <2>2. QED
    BY <1>1, <2>1 DEF Before, History
<1>5. expires[k] = 0 => \A t \in Int : Before(counted, k, t) = 0
  BY <1>1 DEF Before, History
<1>6. QED
  BY <1>2, <1>3, <1>4, <1>5

--------------------------------------------------------------------------------
(* Quotas *)

\* A key that the step does not concern.
LEMMA Unconcerned ==
  ASSUME NEW k \in Key, Windowed(k), clock' = clock, count'[k] = count[k],
         expires'[k] = expires[k], counted'[k] = counted[k]
  PROVE  Windowed(k)'
BY DEF Windowed, History, Quota, Covered, Preceded, Bounded, Start, Span, CountedIn, Within, Before

\* The running totals after an attempt that was counted.
LEMMA TotalsGrow ==
  ASSUME TypeOK, NEW k \in Key, Windowed(k), clock' = clock, expires'[k] > 0,
         counted' = OneMore(counted, k)
  PROVE  /\ History(k)'
         /\ \A t \in Int : Before(counted, k, t)' = Before(counted, k, t) + IF clock < t THEN 1 ELSE 0
<1>1. /\ MaxTime \in Nat /\ clock \in Time /\ Time = 0..MaxTime /\ clock \in Int
      /\ counted \in [Key -> [Time -> Nat]] /\ \A t \in Time : counted[k][t] \in Nat
  BY LimitAssumption DEF TypeOK, Time
<1>2. \A t \in Int : Before(counted, k, t)' = Before(counted, k, t) + IF clock < t THEN 1 ELSE 0
  <2>1. \A t \in Int : Before(counted', k, t) = Before(counted, k, t) + IF clock < t THEN 1 ELSE 0
    BY <1>1, Added
  <2>2. QED
    BY <2>1 DEF Before
<1>3. \A t \in Time : Before(counted, k, t + 1) = counted[k][t] /\ Before(counted, k, t + 1)' = counted'[k][t]
  BY <1>1 DEF Before
<1>4. \A t \in Time : counted'[k][t] = counted[k][t] + IF clock <= t THEN 1 ELSE 0
  BY <1>1, <1>2, <1>3
<1>5. History(k)'
  <2>1. History(k)
    BY DEF Windowed
  <2>2. ASSUME NEW t \in Time, NEW u \in Time, t <= u
        PROVE  counted'[k][t] <= counted'[k][u]
    <3>1. counted[k][t] <= counted[k][u] /\ counted[k][t] \in Nat /\ counted[k][u] \in Nat
      BY <1>1, <2>1, <2>2 DEF History
    <3>2. /\ counted'[k][t] = counted[k][t] + IF clock <= t THEN 1 ELSE 0
          /\ counted'[k][u] = counted[k][u] + IF clock <= u THEN 1 ELSE 0
      BY <1>4
    <3>3. clock \in Int /\ t \in Int /\ u \in Int
      BY <1>1
    <3>4. QED
      BY <2>2, <3>1, <3>2, <3>3
  <2>3. \A t \in Time : clock <= t => counted'[k][t] = counted'[k][clock]
    BY <1>1, <1>4, <2>1 DEF History
  <2>4. QED
    BY <2>2, <2>3 DEF History
<1>6. QED
  BY <1>2, <1>5

\* The window goes on.
LEMMA CountedInWindow ==
  ASSUME TypeOK, NEW k \in Key, Windowed(k), Live(k), Consume(k), clock' = clock,
         counted' = OneMore(counted, k)
  PROVE  Windowed(k)'
<1>1. /\ expires'[k] = expires[k] /\ count'[k] = count[k] + 1 /\ count'[k] <= Limit[k[1]]
      /\ expires[k] > 0 /\ clock <= expires[k] /\ clock \in Nat /\ expires[k] \in Nat /\ count[k] \in Nat
  BY ConsumeSound DEF TypeOK, Live, Counted, Time
<1>2. /\ History(k)'
      /\ \A t \in Int : Before(counted, k, t)' = Before(counted, k, t) + IF clock < t THEN 1 ELSE 0
  BY <1>1, TotalsGrow
<1>3. /\ \A t \in Int : Before(counted, k, t) \in Nat
      /\ \A t, u \in Int : t <= u => Before(counted, k, t) <= Before(counted, k, u)
      /\ \A t \in Int : clock < t => Before(counted, k, t) = Before(counted, k, clock + 1)
  BY Totals DEF Windowed
<1>4. Span(k) \in Nat \ {0} /\ Limit[k[1]] \in Nat \ {0} /\ Span(k)' = Span(k)
  BY KeyParts DEF Span
<1>5. Start(k) \in 0..clock /\ Start(k)' = Start(k) /\ 0 < count[k] /\ Covered(k) /\ Preceded(k)
  BY <1>1, <1>4 DEF Windowed, Quota, Start
<1>6. expires[k] = Start(k) + Span(k) /\ Start(k) \in Nat
  BY <1>1, <1>4, <1>5 DEF Start
<1>11. \A m \in {1, 2} : /\ m * Limit[k[1]] \in Nat /\ Limit[k[1]] <= m * Limit[k[1]]
                       /\ (m + 1) * Limit[k[1]] = m * Limit[k[1]] + Limit[k[1]]
                       /\ m * Span(k) \in Nat /\ Span(k) <= m * Span(k)
  BY <1>4
<1>7. Quota(k)'
  <2>1. Start(k)' \in 0..clock' /\ 0 < count'[k]
    BY <1>1, <1>5
  <2>2. Covered(k)'
    BY <1>1, <1>2, <1>3, <1>5 DEF Covered, CountedIn, Within
  <2>3. Preceded(k)'
    BY <1>1, <1>2, <1>3, <1>4, <1>5 DEF Preceded, CountedIn, Within
  <2>4. QED
    BY <2>1, <2>2, <2>3 DEF Quota
<1>8. ASSUME NEW t \in Int, NEW n \in {1, 2}, CountedIn(k, t, t + n * Span(k)) < (n + 1) * Limit[k[1]]
      PROVE  CountedIn(k, t, t + n * Span(k))' < (n + 1) * Limit[k[1]]
  <2> DEFINE u == t + n * Span(k)
  <2>1. u \in Int /\ t <= u
    BY <1>4
  <2>2. CASE ~(t <= clock /\ clock < u)
    <3>1. CountedIn(k, t, u)' = CountedIn(k, t, u)
      BY <1>1, <1>2, <1>3, <2>1, <2>2 DEF CountedIn, Within
    <3>2. QED
      BY <1>8, <3>1
  <2>3. CASE t <= clock /\ clock < u /\ Start(k) <= t
    <3>1. CountedIn(k, t, u)' <= count[k] + 1
      BY <1>1, <1>2, <1>3, <1>5, <2>1, <2>3 DEF CountedIn, Within, Covered
    <3>2. CountedIn(k, t, u)' < (n + 1) * Limit[k[1]]
      <4>1. CountedIn(k, t, u)' \in Int
        BY <1>2, <1>3, <2>1 DEF CountedIn, Within
      <4>2. QED
        BY <1>1, <1>4, <1>11, <3>1, <4>1
    <3>3. QED
      BY <3>2
  <2>4. CASE t <= clock /\ clock < u /\ t < Start(k)
    <3>1. CountedIn(k, t, u)' = CountedIn(k, t, Start(k)) + count[k] + 1
      BY <1>1, <1>2, <1>3, <1>5, <2>1, <2>4 DEF CountedIn, Within, Covered
    <3>2. Start(k) - n * Span(k) < t
      BY <1>1, <1>5, <1>6, <1>11, <2>4
    <3>3. CountedIn(k, t, Start(k)) < n * Limit[k[1]]
      BY <1>4, <1>5, <3>2 DEF Preceded
    <3>4. CountedIn(k, t, Start(k)) \in Int
      BY <1>3, <1>5 DEF CountedIn, Within
    <3>5. CountedIn(k, t, u)' < (n + 1) * Limit[k[1]]
      BY <1>1, <1>4, <1>11, <3>1, <3>3, <3>4
    <3>6. QED
      BY <3>5
  <2>5. QED
    BY <1>1, <1>5, <2>1, <2>2, <2>3, <2>4
<1>9. Bounded(k)'
  <2>1. \A t \in Int : /\ CountedIn(k, t, t + 1 * Span(k)) < (1 + 1) * Limit[k[1]]
                       /\ CountedIn(k, t, t + 2 * Span(k)) < (2 + 1) * Limit[k[1]]
    BY <1>4 DEF Windowed, Bounded
  <2>2. \A t \in Int : /\ CountedIn(k, t, t + 1 * Span(k))' < (1 + 1) * Limit[k[1]]
                       /\ CountedIn(k, t, t + 2 * Span(k))' < (2 + 1) * Limit[k[1]]
    BY <1>8, <2>1
  <2>3. QED
    BY <1>4, <2>2 DEF Bounded
<1>10. QED
  BY <1>2, <1>7, <1>9 DEF Windowed

\* A new window begins, now: everything before it is older than its length, or
\* fell into the window before.
LEMMA CountedAnew ==
  ASSUME TypeOK, NEW k \in Key, Windowed(k), ~Live(k), Consume(k), clock' = clock,
         counted' = OneMore(counted, k)
  PROVE  Windowed(k)'
<1>1. /\ expires'[k] = clock + Span(k) /\ count'[k] = 1
      /\ expires[k] = 0 \/ expires[k] < clock
      /\ clock \in Nat /\ expires[k] \in Nat /\ count[k] \in Nat /\ count[k] <= Limit[k[1]]
  BY ConsumeSound DEF TypeOK, Live, Counted, Time
<1>2. Span(k) \in Nat \ {0} /\ Limit[k[1]] \in Nat \ {0} /\ Span(k)' = Span(k)
  BY KeyParts DEF Span
<1>3. /\ History(k)'
      /\ \A t \in Int : Before(counted, k, t)' = Before(counted, k, t) + IF clock < t THEN 1 ELSE 0
  BY <1>1, <1>2, TotalsGrow
<1>4. /\ \A t \in Int : Before(counted, k, t) \in Nat
      /\ \A t, u \in Int : t <= u => Before(counted, k, t) <= Before(counted, k, u)
      /\ \A t \in Int : clock < t => Before(counted, k, t) = Before(counted, k, clock + 1)
      /\ expires[k] = 0 => \A t \in Int : Before(counted, k, t) = 0
  BY Totals DEF Windowed
<1>5. Start(k)' = clock
  BY <1>1, <1>2 DEF Start
<1>6. Before(counted, k, clock) = Before(counted, k, clock + 1)
  <2>1. CASE expires[k] = 0
    BY <1>1, <1>4, <2>1
  <2>2. CASE expires[k] > 0
    BY <1>1, <1>4, <2>2 DEF Windowed, Quota, Covered, CountedIn, Within
  <2>3. QED
    BY <1>1, <2>1, <2>2
<1>12. \A m \in {1, 2} : /\ m * Limit[k[1]] \in Nat /\ Limit[k[1]] <= m * Limit[k[1]]
                       /\ (m + 1) * Limit[k[1]] = m * Limit[k[1]] + Limit[k[1]]
                       /\ m * Span(k) \in Nat /\ Span(k) <= m * Span(k)
  BY <1>2
<1>7. ASSUME NEW t \in Int, NEW n \in {1, 2}, clock - n * Span(k) < t
      PROVE  CountedIn(k, t, clock) < n * Limit[k[1]]
  <2>1. CASE expires[k] = 0
    BY <1>1, <1>2, <1>4, <2>1 DEF CountedIn, Within
  <2>2. CASE expires[k] > 0
    <3>1. /\ Start(k) \in Int /\ expires[k] = Start(k) + Span(k) /\ Start(k) < clock - Span(k)
          /\ Covered(k) /\ Preceded(k)
      BY <1>1, <1>2, <2>2 DEF Windowed, Quota, Start
    <3>2. CASE Start(k) < t
      <4>1. CountedIn(k, t, clock) <= count[k] - 1
        BY <1>1, <1>4, <1>6, <3>1, <3>2 DEF Covered, CountedIn, Within
      <4>2. CountedIn(k, t, clock) \in Int
        BY <1>1, <1>4 DEF CountedIn, Within
      <4>3. QED
        BY <1>1, <1>2, <4>1, <4>2
    <3>3. CASE t <= Start(k)
      <4>1. CountedIn(k, t, clock) = CountedIn(k, t, Start(k)) + count[k]
        BY <1>1, <1>4, <1>6, <3>1 DEF Covered, CountedIn, Within
      <4>2. n = 2 /\ Start(k) - Span(k) < t
        BY <1>1, <1>2, <1>7, <3>1, <3>3
      <4>3. CountedIn(k, t, Start(k)) < Limit[k[1]] /\ CountedIn(k, t, Start(k)) \in Int
        BY <1>4, <3>1, <4>2 DEF Preceded, CountedIn, Within
      <4>4. QED
        BY <1>1, <1>2, <4>1, <4>2, <4>3
    <3>4. QED
      BY <3>1, <3>2, <3>3
  <2>3. QED
    BY <1>1, <2>1, <2>2
<1>8. Quota(k)'
  <2>1. Start(k)' \in 0..clock' /\ 0 < count'[k]
    BY <1>1, <1>5
  <2>2. Covered(k)'
    BY <1>1, <1>2, <1>3, <1>4, <1>5, <1>6 DEF Covered, CountedIn, Within
  <2>3. ASSUME NEW t \in Int
        PROVE  CountedIn(k, t, clock)' <= CountedIn(k, t, clock)
    BY <1>1, <1>3, <1>4 DEF CountedIn, Within
  <2>4. ASSUME NEW t \in Int
        PROVE  CountedIn(k, t, clock)' \in Int /\ CountedIn(k, t, clock) \in Int
    BY <1>1, <1>3, <1>4 DEF CountedIn, Within
  <2>5. \A t \in Int : CountedIn(k, t, Start(k))' = CountedIn(k, t, clock)'
    BY <1>5 DEF CountedIn, Within, Before
  <2>6. Preceded(k)'
    BY <1>1, <1>2, <1>5, <1>7, <2>3, <2>4, <2>5 DEF Preceded
  <2>7. QED
    BY <2>1, <2>2, <2>6 DEF Quota
<1>9. ASSUME NEW t \in Int, NEW n \in {1, 2}, CountedIn(k, t, t + n * Span(k)) < (n + 1) * Limit[k[1]]
      PROVE  CountedIn(k, t, t + n * Span(k))' < (n + 1) * Limit[k[1]]
  <2> DEFINE u == t + n * Span(k)
  <2>1. u \in Int /\ t <= u
    BY <1>2
  <2>2. CASE ~(t <= clock /\ clock < u)
    <3>1. CountedIn(k, t, u)' = CountedIn(k, t, u)
      BY <1>1, <1>3, <1>4, <2>1, <2>2 DEF CountedIn, Within
    <3>2. QED
      BY <1>9, <3>1
  <2>3. CASE t <= clock /\ clock < u
    <3>1. CountedIn(k, t, u)' = CountedIn(k, t, clock) + 1
      BY <1>1, <1>3, <1>4, <1>6, <2>1, <2>3 DEF CountedIn, Within
    <3>2. CountedIn(k, t, clock) < n * Limit[k[1]]
      BY <1>1, <1>2, <1>12, <1>7, <2>3
    <3>3. CountedIn(k, t, clock) \in Int
      BY <1>1, <1>4 DEF CountedIn, Within
    <3>4. CountedIn(k, t, u)' < (n + 1) * Limit[k[1]]
      BY <1>2, <1>12, <3>1, <3>2, <3>3
    <3>5. QED
      BY <3>4
  <2>4. QED
    BY <2>2, <2>3
<1>10. Bounded(k)'
  <2>1. \A t \in Int : /\ CountedIn(k, t, t + 1 * Span(k)) < (1 + 1) * Limit[k[1]]
                       /\ CountedIn(k, t, t + 2 * Span(k)) < (2 + 1) * Limit[k[1]]
    BY <1>2 DEF Windowed, Bounded
  <2>2. \A t \in Int : /\ CountedIn(k, t, t + 1 * Span(k))' < (1 + 1) * Limit[k[1]]
                       /\ CountedIn(k, t, t + 2 * Span(k))' < (2 + 1) * Limit[k[1]]
    BY <1>9, <2>1
  <2>3. QED
    BY <1>2, <2>2 DEF Bounded
<1>11. QED
  BY <1>3, <1>8, <1>10 DEF Windowed

--------------------------------------------------------------------------------
(* Counted before passed on *)

\* What one more under a key adds between two instants.
LEMMA AddedWithin ==
  ASSUME NEW history \in [Key -> [Time -> Nat]], NEW k \in Key, NEW j \in Key, clock \in Time,
         NEW a \in Int, NEW b \in Int, a <= b
  PROVE  /\ Within(history, j, a, b) \in Int
         /\ Within(OneMore(history, k), j, a, b) =
              Within(history, j, a, b) + IF j = k /\ a <= clock /\ clock < b THEN 1 ELSE 0
<1>1. Before(history, j, a) \in Nat /\ Before(history, j, b) \in Nat /\ clock \in Int
  <2>1. Before(history, j, a) \in Nat /\ Before(history, j, b) \in Nat
    BY TotalsCount
  <2>2. QED
    BY <2>1, LimitAssumption DEF Time
<1>2. CASE j = k
  <2>1. /\ Before(OneMore(history, k), j, a) = Before(history, j, a) + IF clock < a THEN 1 ELSE 0
        /\ Before(OneMore(history, k), j, b) = Before(history, j, b) + IF clock < b THEN 1 ELSE 0
    BY <1>2, Added
  <2>2. QED
    BY <1>1, <1>2, <2>1 DEF Within
<1>3. CASE j # k
  <2>1. OneMore(history, k)[j] = history[j]
    BY <1>3, Added
  <2>2. Within(OneMore(history, k), j, a, b) = Within(history, j, a, b)
    BY <2>1 DEF Within, Before
  <2>3. QED
    BY <1>1, <1>3, <2>2 DEF Within
<1>4. QED
  BY <1>2, <1>3

\* The requests awaited are finitely many.
LEMMA AwaitingFinite ==
  ASSUME NEW k, NEW a, NEW b
  PROVE  IsFiniteSet(Awaiting(k, a, b)) /\ Cardinality(Awaiting(k, a, b)) \in Nat
<1>1. Awaiting(k, a, b) \in SUBSET Requests
  BY DEF Awaiting
<1>2. QED
  BY <1>1, LatencyAssumption, FS_Subset, FS_CardinalityType

\* An attempt that is counted is awaited.
LEMMA LinkedOnCount ==
  ASSUME TypeOK, NEW p \in Requests, NEW k \in Key, answer[p] = NULL, Said(p, k, 0, 0),
         counted' = OneMore(counted, k), admitted' = admitted,
         NEW j \in Key, Linked(j)
  PROVE  Linked(j)'
<1>1. SUFFICES ASSUME NEW t \in Int, NEW u \in Int, t <= u
               PROVE  (AdmittedIn(j, t, u) + Cardinality(Awaiting(j, t - Latency, u))
                         <= CountedIn(j, t - Latency, u))'
  BY DEF Linked
<1> DEFINE a == t - Latency
           new == j = k /\ a <= clock /\ clock < u
           old == Awaiting(j, a, u)
<1>2. a \in Int /\ a <= u
  BY <1>1, LatencyAssumption
<1>3. answer \in [Requests -> Answer \cup {NULL}] /\ clock \in Time
      /\ counted \in [Key -> [Time -> Nat]] /\ admitted \in [Key -> [Time -> Nat]]
  BY DEF TypeOK
<1>4. AdmittedIn(j, t, u) + Cardinality(old) <= CountedIn(j, a, u)
  BY <1>1 DEF Linked
<1>5. AdmittedIn(j, t, u) \in Int /\ AdmittedIn(j, t, u)' = AdmittedIn(j, t, u)
  BY <1>1, <1>3, AddedWithin DEF AdmittedIn, Within, Before
<1>6. CountedIn(j, a, u) \in Int /\ CountedIn(j, a, u)' = CountedIn(j, a, u) + IF new THEN 1 ELSE 0
  <2>1. Within(counted', j, a, u) = Within(counted, j, a, u) + IF new THEN 1 ELSE 0
    BY <1>2, <1>3, AddedWithin
  <2>2. Within(counted, j, a, u) \in Int
    BY <1>2, <1>3, AddedWithin
  <2>3. QED
    BY <2>1, <2>2 DEF CountedIn, Within, Before
<1> DEFINE said == [key |-> k, at |-> clock, retry |-> 0, window |-> 0]
<1>7. answer' = [answer EXCEPT ![p] = said]
  BY DEF Said
<1>8. said # NULL
  <2>1. said \in Answer
    BY <1>3 DEF Answer
  <2>2. QED
    BY <2>1, AnswerAssumption
<1>9. answer'[p] = said /\ \A q \in Requests \ {p} : answer'[q] = answer[q]
  BY <1>3, <1>7
<1>10. Awaiting(j, a, u)' = IF new THEN old \cup {p} ELSE old
  <2>1. said.key = k /\ said.at = clock /\ said.retry = 0
    OBVIOUS
  <2> HIDE DEF said
  <2>2. Awaiting(j, a, u)' = {q \in Requests : /\ answer'[q] # NULL
                                               /\ answer'[q].key = j /\ answer'[q].retry = 0
                                               /\ a <= answer'[q].at /\ answer'[q].at < u}
    BY DEF Awaiting
  <2>3. \A q \in Requests \ {p} : q \in Awaiting(j, a, u)' <=> q \in old
    BY <1>9, <2>2 DEF Awaiting
  <2>4. p \notin old
    BY DEF Awaiting
  <2>5. p \in Awaiting(j, a, u)' <=> new
    BY <1>8, <1>9, <2>1, <2>2
  <2>6. Awaiting(j, a, u)' \subseteq Requests /\ old \subseteq Requests
    BY <2>2 DEF Awaiting
  <2> HIDE DEF old, new
  <2>7. CASE new
    BY <2>3, <2>5, <2>6, <2>7
  <2>8. CASE ~new
    <3>1. Awaiting(j, a, u)' = old
      BY <2>3, <2>4, <2>5, <2>6, <2>8
    <3>2. QED
      BY <2>8, <3>1
  <2>9. QED
    BY <2>7, <2>8
<1>11. p \notin old /\ IsFiniteSet(old) /\ Cardinality(old) \in Nat
  <2>1. p \notin old
    BY DEF Awaiting
  <2>2. QED
    BY <2>1, AwaitingFinite
<1> HIDE DEF old, new, a
<1>12. Cardinality(old \cup {p}) = Cardinality(old) + 1
  BY <1>11, FS_AddElement
<1>13. Cardinality(Awaiting(j, a, u)') = Cardinality(old) + IF new THEN 1 ELSE 0
  BY <1>10, <1>11, <1>12
<1>14. AdmittedIn(j, t, u)' + Cardinality(Awaiting(j, a, u)') <= CountedIn(j, a, u)'
  BY <1>4, <1>5, <1>6, <1>11, <1>13
<1>15. QED
  BY <1>14 DEF a

\* The answer to a request is acted on, in time if it is passed on, or lost.
LEMMA LinkedOnDone ==
  ASSUME TypeOK, NEW p \in Requests, Told(p), Done(p),
         \/ InTime(p) /\ answer[p].retry = 0 /\ admitted' = OneMore(admitted, answer[p].key)
         \/ admitted' = admitted,
         NEW j \in Key, Linked(j)
  PROVE  Linked(j)'
<1>1. SUFFICES ASSUME NEW t \in Int, NEW u \in Int, t <= u
               PROVE  (AdmittedIn(j, t, u) + Cardinality(Awaiting(j, t - Latency, u))
                         <= CountedIn(j, t - Latency, u))'
  BY DEF Linked
<1> DEFINE a == t - Latency
           old == Awaiting(j, a, u)
<1>2. a \in Int /\ a <= u /\ Latency \in Nat
  BY <1>1, LatencyAssumption
<1>3. answer \in [Requests -> Answer \cup {NULL}] /\ clock \in Time
      /\ counted \in [Key -> [Time -> Nat]] /\ admitted \in [Key -> [Time -> Nat]]
  BY DEF TypeOK
<1>4. AdmittedIn(j, t, u) + Cardinality(old) <= CountedIn(j, a, u)
  BY <1>1 DEF Linked
<1>5. /\ answer[p] # NULL /\ answer' = [answer EXCEPT ![p] = NULL]
      /\ clock' = clock /\ counted' = counted
  BY DEF Done
<1>6. CountedIn(j, a, u) \in Int /\ CountedIn(j, a, u)' = CountedIn(j, a, u)
  BY <1>2, <1>3, <1>5, AddedWithin DEF CountedIn, Within, Before
<1>7. answer[p].key \in Key /\ answer[p].at \in Int /\ clock \in Int /\ answer[p].at <= clock
  BY <1>3, <1>5, LimitAssumption DEF Answer, Told, Time
<1>8. Awaiting(j, a, u)' = old \ {p}
  <2>1. answer'[p] = NULL /\ \A q \in Requests \ {p} : answer'[q] = answer[q]
    BY <1>3, <1>5
  <2>2. Awaiting(j, a, u)' = {q \in Requests : /\ answer'[q] # NULL
                                               /\ answer'[q].key = j /\ answer'[q].retry = 0
                                               /\ a <= answer'[q].at /\ answer'[q].at < u}
    BY DEF Awaiting
  <2>3. QED
    BY <2>1, <2>2 DEF Awaiting
<1>9. IsFiniteSet(old) /\ Cardinality(old) \in Nat
  BY AwaitingFinite
<1>10. /\ p \in old => Cardinality(old \ {p}) = Cardinality(old) - 1
       /\ p \notin old => Cardinality(old \ {p}) = Cardinality(old)
  <2> HIDE DEF old
  <2>1. p \in old => Cardinality(old \ {p}) = Cardinality(old) - 1
    BY <1>9, FS_RemoveElement
  <2>2. p \notin old => old \ {p} = old
    OBVIOUS
  <2>3. QED
    BY <2>1, <2>2
<1>11. AdmittedIn(j, t, u) \in Int
  BY <1>1, <1>3, AddedWithin DEF AdmittedIn
<1>12. CASE admitted' = admitted
  <2>1. AdmittedIn(j, t, u)' = AdmittedIn(j, t, u)
    BY <1>12 DEF AdmittedIn, Within, Before
  <2>2. Cardinality(Awaiting(j, a, u)') <= Cardinality(old)
    BY <1>8, <1>9, <1>10
  <2>3. Cardinality(Awaiting(j, a, u)') \in Nat
    BY <1>8, <1>9, <1>10, FS_EmptySet, FS_CardinalityType, FS_RemoveElement
  <2> HIDE DEF old
  <2>4. QED
    BY <1>4, <1>6, <1>9, <1>11, <2>1, <2>2, <2>3
<1>13. CASE InTime(p) /\ answer[p].retry = 0 /\ admitted' = OneMore(admitted, answer[p].key)
  <2> DEFINE now == j = answer[p].key /\ t <= clock /\ clock < u
  <2>1. AdmittedIn(j, t, u)' = AdmittedIn(j, t, u) + IF now THEN 1 ELSE 0
    <3>1. Within(admitted', j, t, u) = Within(admitted, j, t, u) + IF now THEN 1 ELSE 0
      BY <1>1, <1>3, <1>7, <1>13, AddedWithin
    <3>2. QED
      BY <3>1 DEF AdmittedIn, Within, Before
  <2>2. now => p \in old
    BY <1>2, <1>5, <1>7, <1>13 DEF InTime, Awaiting
  <2>3. Cardinality(old \ {p}) + (IF now THEN 1 ELSE 0) <= Cardinality(old)
    BY <1>9, <1>10, <2>2
  <2>4. Cardinality(old \ {p}) \in Int
    BY <1>9, <1>10
  <2> HIDE DEF old, now, a
  <2>7. Cardinality(Awaiting(j, a, u)') = Cardinality(old \ {p})
    BY <1>8
  <2>5. AdmittedIn(j, t, u)' + Cardinality(Awaiting(j, a, u)') <= CountedIn(j, a, u)'
    BY <1>4, <1>6, <1>9, <1>11, <2>1, <2>3, <2>4, <2>7
  <2>6. QED
    BY <2>5 DEF a
<1>14. QED
  BY <1>12, <1>13

\* Nothing that is counted, awaited or passed on changes.
LEMMA LinkedAsBefore ==
  ASSUME NEW k \in Key, Linked(k), counted' = counted, admitted' = admitted,
         \A q \in Requests : answer'[q] = answer[q] \/ (answer[q] = NULL /\ answer'[q].retry # 0)
  PROVE  Linked(k)'
<1>1. ASSUME NEW a \in Int, NEW b \in Int
      PROVE  Awaiting(k, a, b)' = Awaiting(k, a, b)
  BY DEF Awaiting
<1>2. SUFFICES ASSUME NEW t \in Int, NEW u \in Int, t <= u
               PROVE  (AdmittedIn(k, t, u) + Cardinality(Awaiting(k, t - Latency, u))
                         <= CountedIn(k, t - Latency, u))'
  BY DEF Linked
<1>3. t - Latency \in Int
  BY LatencyAssumption
<1>4. Awaiting(k, t - Latency, u)' = Awaiting(k, t - Latency, u)
  BY <1>1, <1>3
<1>5. AdmittedIn(k, t, u) + Cardinality(Awaiting(k, t - Latency, u)) <= CountedIn(k, t - Latency, u)
  BY <1>2 DEF Linked
<1>6. QED
  BY <1>4, <1>5 DEF AdmittedIn, CountedIn, Within, Before

--------------------------------------------------------------------------------
(* The steps *)

\* The script's answer is stored whole.
LEMMA SaidIsTyped ==
  ASSUME TypeOK, NEW p \in Requests, NEW k \in Key, NEW retry \in Nat, NEW window \in Nat,
         Said(p, k, retry, window)
  PROVE  /\ answer' \in [Requests -> Answer \cup {NULL}]
         /\ answer'[p] = [key |-> k, at |-> clock, retry |-> retry, window |-> window]
         /\ answer'[p] # NULL
         /\ \A q \in Requests \ {p} : answer'[q] = answer[q]
<1> DEFINE said == [key |-> k, at |-> clock, retry |-> retry, window |-> window]
<1>1. said \in Answer /\ answer' = [answer EXCEPT ![p] = said]
  BY DEF TypeOK, Said, Answer
<1>2. said # NULL
  BY <1>1, AnswerAssumption
<1> HIDE DEF said
<1>3. answer' \in [Requests -> Answer \cup {NULL}]
  BY <1>1 DEF TypeOK
<1>4. answer'[p] = said /\ \A q \in Requests \ {p} : answer'[q] = answer[q]
  BY <1>1 DEF TypeOK
<1>5. QED
  BY <1>2, <1>3, <1>4 DEF said

LEMMA CountSound ==
  ASSUME IInv, NEW p \in Requests, NEW e \in Endpoints, NEW h \in Hosts, Count(p, e, h)
  PROVE  IInv' /\ \A j \in Key : Live(j) => expires'[j] = expires[j]
<1> DEFINE k == KeyOf(e, h)
<1>1. k \in Key
  BY LimitAssumption DEF KeyOf, Key
<1>2. /\ answer[p] = NULL /\ Consume(k) /\ counted' = OneMore(counted, k) /\ Said(p, k, 0, 0)
      /\ clock' = clock /\ admitted' = admitted /\ promise' = promise
  BY DEF Count
<1> HIDE DEF k
<1>3. TypeOK /\ RetryAfterSuffices /\ clock \in Time /\ clock \in Int
      /\ counted \in [Key -> [Time -> Nat]]
  <2>1. TypeOK /\ RetryAfterSuffices
    BY DEF IInv
  <2>2. clock \in Time /\ counted \in [Key -> [Time -> Nat]]
    BY <2>1 DEF TypeOK
  <2>3. QED
    BY <2>1, <2>2, LimitAssumption DEF Time
<1>4. /\ count' \in [Key -> Nat] /\ \A j \in Key : count'[j] <= Limit[j[1]]
      /\ expires' \in [Key -> Nat]
      /\ \A j \in Key : Live(j) => expires'[j] = expires[j]
      /\ \A j \in Key \ {k} : count'[j] = count[j] /\ expires'[j] = expires[j]
  BY <1>1, <1>2, <1>3, ConsumeSound
<1>5. /\ answer' \in [Requests -> Answer \cup {NULL}]
      /\ answer'[p] = [key |-> k, at |-> clock, retry |-> 0, window |-> 0]
      /\ \A q \in Requests \ {p} : answer'[q] = answer[q]
  BY <1>1, <1>2, <1>3, SaidIsTyped
<1>6. counted' \in [Key -> [Time -> Nat]] /\ \A j \in Key \ {k} : counted'[j] = counted[j]
  BY <1>1, <1>2, <1>3, Added
<1>7. TypeOK'
  BY <1>2, <1>3, <1>4, <1>5, <1>6 DEF TypeOK
<1>8. RetryAfterSuffices'
  BY <1>2, <1>3 DEF RetryAfterSuffices
<1>9. ASSUME NEW q \in Requests
      PROVE  Told(q)'
  <2>1. CASE q = p
    BY <1>2, <1>3, <1>5, <2>1 DEF Told
  <2>2. CASE q # p
    BY <1>2, <1>5, <2>2 DEF IInv, Told
  <2>3. QED
    BY <2>1, <2>2
<1>10. ASSUME NEW j \in Key
       PROVE  Windowed(j)' /\ Linked(j)'
  <2>1. Windowed(j) /\ Linked(j)
    BY DEF IInv
  <2>2. Linked(j)'
    BY <1>1, <1>2, <1>3, <2>1, LinkedOnCount
  <2>3. CASE j = k
    BY <1>1, <1>2, <1>3, <2>1, <2>2, <2>3, CountedInWindow, CountedAnew
  <2>4. CASE j # k
    BY <1>2, <1>4, <1>6, <2>1, <2>2, <2>4, Unconcerned
  <2>5. QED
    BY <2>3, <2>4
<1>11. QED
  BY <1>4, <1>7, <1>8, <1>9, <1>10 DEF IInv, Key

LEMMA RefuseSound ==
  ASSUME IInv, NEW p \in Requests, NEW e \in Endpoints, NEW h \in Hosts, Refuse(p, e, h)
  PROVE  IInv' /\ expires' = expires
<1> DEFINE k == KeyOf(e, h)
           retry == RetryAfter(k)
<1>1. k \in Key
  BY LimitAssumption DEF KeyOf, Key
<1>2. /\ answer[p] = NULL /\ Refusing(k) /\ Said(p, k, retry, expires[k])
      /\ clock' = clock /\ count' = count /\ expires' = expires /\ counted' = counted
      /\ admitted' = admitted /\ promise' = promise
  BY DEF Refuse
<1> HIDE DEF k
<1>3. TypeOK /\ RetryAfterSuffices /\ clock \in Nat /\ expires[k] \in Nat
  <2>1. TypeOK /\ RetryAfterSuffices
    BY DEF IInv
  <2>2. clock \in Time /\ expires[k] \in Nat
    BY <1>1, <2>1 DEF TypeOK
  <2>3. QED
    BY <2>1, <2>2, LimitAssumption DEF Time
<1>4. clock <= expires[k]
  BY <1>1, <1>2, <1>3, KeyParts DEF Refusing, Counted, Live
<1>5. retry \in Nat \ {0} /\ expires[k] <= clock + retry * Second /\ clock + retry * Second <= expires[k] + Second
  BY <1>1, <1>3, <1>4, WaitSuffices
<1> HIDE DEF retry
<1>6. /\ answer' \in [Requests -> Answer \cup {NULL}]
      /\ answer'[p] = [key |-> k, at |-> clock, retry |-> retry, window |-> expires[k]]
      /\ answer'[p] # NULL
      /\ \A q \in Requests \ {p} : answer'[q] = answer[q]
  BY <1>1, <1>2, <1>3, <1>5, SaidIsTyped
<1>7. answer'[p].key = k /\ answer'[p].at = clock /\ answer'[p].retry = retry /\ answer'[p].window = expires[k]
  BY <1>6
<1>8. TypeOK' /\ RetryAfterSuffices'
  BY <1>2, <1>3, <1>6 DEF TypeOK, RetryAfterSuffices
<1>9. ASSUME NEW q \in Requests
      PROVE  Told(q)'
  <2>1. CASE q = p
    BY <1>2, <1>3, <1>5, <1>7, <2>1 DEF Told
  <2>2. CASE q # p
    BY <1>2, <1>6, <2>2 DEF IInv, Told
  <2>3. QED
    BY <2>1, <2>2
<1>10. ASSUME NEW j \in Key
       PROVE  Windowed(j)' /\ Linked(j)'
  <2>1. Windowed(j)'
    BY <1>2, Unconcerned DEF IInv
  <2>2. \A q \in Requests : answer'[q] = answer[q] \/ (answer[q] = NULL /\ answer'[q].retry # 0)
    BY <1>2, <1>5, <1>6, <1>7
  <2>3. Linked(j)'
    BY <1>2, <2>2, LinkedAsBefore DEF IInv
  <2>4. QED
    BY <2>1, <2>3
<1>11. QED
  BY <1>2, <1>8, <1>9, <1>10 DEF IInv, Key

\* What the middleware does with an answer, or without.
LEMMA DoneSound ==
  ASSUME IInv, NEW p \in Requests, PassOn(p) \/ TooMany(p) \/ Unavailable(p)
  PROVE  IInv' /\ expires' = expires
<1> DEFINE k == answer[p].key
           wait == clock + answer[p].retry * Second
<1>1. /\ TypeOK /\ RetryAfterSuffices /\ Told(p) /\ clock \in Time /\ clock \in Nat /\ Latency \in Nat
      /\ Second \in Nat \ {0} /\ admitted \in [Key -> [Time -> Nat]]
  BY LimitAssumption, LatencyAssumption DEF IInv, TypeOK, Time
<1>2. /\ answer[p] # NULL /\ answer' = [answer EXCEPT ![p] = NULL]
      /\ clock' = clock /\ count' = count /\ expires' = expires /\ counted' = counted /\ Done(p)
  BY DEF PassOn, TooMany, Unavailable, Done
<1>3. k \in Key /\ answer[p].at \in Nat /\ answer[p].retry \in Nat /\ answer[p].window \in Nat
  BY <1>1, <1>2, LimitAssumption DEF TypeOK, Answer, Time
<1>4. /\ answer' \in [Requests -> Answer \cup {NULL}] /\ answer'[p] = NULL
      /\ \A q \in Requests \ {p} : answer'[q] = answer[q]
  BY <1>1, <1>2 DEF TypeOK
<1>5. \A q \in Requests : Told(q)'
  BY <1>2, <1>4 DEF IInv, Told
<1>6. /\ \/ InTime(p) /\ answer[p].retry = 0 /\ admitted' = OneMore(admitted, k)
         \/ admitted' = admitted
      /\ \/ promise' = promise
         \/ /\ InTime(p) /\ answer[p].retry > 0
            /\ promise' = [promise EXCEPT ![k] = <<answer[p].window, wait>>]
  BY DEF PassOn, TooMany, Unavailable
<1>7. admitted' \in [Key -> [Time -> Nat]]
  BY <1>1, <1>3, <1>6, Added
<1>8. promise' \in [Key -> Nat \X Nat] /\ RetryAfterSuffices'
  <2>1. CASE promise' = promise
    BY <1>1, <2>1 DEF TypeOK, RetryAfterSuffices
  <2>2. CASE /\ InTime(p) /\ answer[p].retry > 0
             /\ promise' = [promise EXCEPT ![k] = <<answer[p].window, wait>>]
    <3>1. answer[p].retry * Second \in Nat
      BY <1>1, <1>3
    <3>2. wait \in Nat /\ answer[p].window <= wait /\ wait <= answer[p].window + Second + Latency
      BY <1>1, <1>2, <1>3, <2>2, <3>1 DEF Told, InTime
    <3> HIDE DEF k, wait
    <3>3. promise' \in [Key -> Nat \X Nat]
      BY <1>1, <1>3, <2>2, <3>2 DEF TypeOK
    <3>4. promise'[k] = <<answer[p].window, wait>> /\ \A j \in Key \ {k} : promise'[j] = promise[j]
      BY <1>1, <1>3, <2>2 DEF TypeOK
    <3>5. RetryAfterSuffices'
      BY <1>1, <3>2, <3>4 DEF RetryAfterSuffices
    <3>6. QED
      BY <3>3, <3>5
  <2>3. QED
    BY <1>6, <2>1, <2>2
<1>9. TypeOK'
  BY <1>1, <1>2, <1>4, <1>7, <1>8 DEF TypeOK
<1>10. ASSUME NEW j \in Key
       PROVE  Windowed(j)' /\ Linked(j)'
  <2>1. Windowed(j) /\ Linked(j)
    BY DEF IInv
  <2>2. Windowed(j)'
    BY <1>2, <2>1, Unconcerned
  <2>3. Linked(j)'
    BY <1>1, <1>2, <1>6, <2>1, LinkedOnDone
  <2>4. QED
    BY <2>2, <2>3
<1>11. QED
  BY <1>2, <1>5, <1>8, <1>9, <1>10 DEF IInv, Key

\* With time, nothing is counted or passed on.
LEMMA TickSound ==
  ASSUME IInv, Tick
  PROVE  IInv'
<1>1. /\ clock \in Time /\ clock' \in Time /\ clock' = clock + 1 /\ clock \in Nat
      /\ count' = count /\ expires' = expires /\ answer' = answer /\ counted' = counted
      /\ admitted' = admitted /\ promise' = promise
  BY LimitAssumption DEF IInv, TypeOK, Tick, Time
<1>2. TypeOK' /\ RetryAfterSuffices'
  BY <1>1 DEF IInv, TypeOK, RetryAfterSuffices
<1>3. ASSUME NEW p \in Requests
      PROVE  Told(p)'
  <2>1. answer[p] # NULL => answer[p].at \in Nat
    BY LimitAssumption DEF IInv, TypeOK, Answer, Time
  <2>2. QED
    BY <1>1, <2>1 DEF IInv, Told
<1>4. ASSUME NEW k \in Key
      PROVE  Windowed(k)' /\ Linked(k)'
  <2>1. /\ \A t \in Int : Before(counted, k, t) \in Nat
        /\ \A t \in Int : clock < t => Before(counted, k, t) = Before(counted, k, clock + 1)
    BY Totals DEF IInv, Windowed
  <2>2. History(k)'
    BY <1>1 DEF IInv, Windowed, History, Time
  <2>3. Start(k)' = Start(k) /\ \A t, u \in Int : CountedIn(k, t, u)' = CountedIn(k, t, u)
    BY <1>1 DEF Start, Span, CountedIn, Within, Before
  <2>4. \A t \in Int : CountedIn(k, t, clock + 2) = CountedIn(k, t, clock + 1)
    BY <1>1, <2>1 DEF CountedIn, Within
  <2>5. Start(k) \in Int /\ expires[k] \in Nat
    BY KeyParts DEF Start, IInv, TypeOK
  <2>6. Quota(k)'
    <3>1. CASE expires[k] > 0
      <4>1. Start(k) \in 0..clock /\ 0 < count[k] /\ Covered(k) /\ Preceded(k)
        BY <3>1 DEF IInv, Windowed, Quota
      <4>2. Covered(k)'
        BY <1>1, <2>3, <2>4, <2>5, <4>1 DEF Covered
      <4>3. Preceded(k)'
        BY <1>1, <2>3, <2>5, <4>1 DEF Preceded, Span
      <4>4. QED
        BY <1>1, <2>3, <4>1, <4>2, <4>3 DEF Quota
    <3>2. CASE expires[k] = 0
      BY <1>1, <3>2 DEF Quota
    <3>3. QED
      BY <2>5, <3>1, <3>2
  <2>7. Bounded(k)'
    BY <1>1 DEF IInv, Windowed, Bounded, CountedIn, Within, Before, Span
  <2>8. Linked(k)'
    BY <1>1, LinkedAsBefore DEF IInv
  <2>9. QED
    BY <2>2, <2>6, <2>7, <2>8 DEF Windowed
<1>5. QED
  BY <1>2, <1>3, <1>4 DEF IInv, Key

\* Nothing is stored, under way or passed on: at first, and after a restart of
\* Redis.
LEMMA Afresh ==
  ASSUME clock \in Time, count = [k \in Key |-> 0], expires = [k \in Key |-> 0],
         answer = [p \in Requests |-> NULL], counted = Nothing, admitted = Nothing,
         promise = [k \in Key |-> <<0, 0>>]
  PROVE  IInv
<1>1. /\ \A k \in Key : Limit[k[1]] \in Nat \ {0} /\ Span(k) \in Nat \ {0}
      /\ MaxTime \in Nat /\ Time = 0..MaxTime /\ Latency \in Nat
      /\ Nothing = [k \in Key |-> [t \in Time |-> 0]]
  BY KeyParts, LimitAssumption, LatencyAssumption DEF Time, Nothing
<1>2. TypeOK /\ RetryAfterSuffices
  BY <1>1 DEF TypeOK, RetryAfterSuffices
<1>3. \A p \in Requests : Told(p)
  BY DEF Told
<1>4. ASSUME NEW k \in Key
      PROVE  Windowed(k) /\ Linked(k)
  <2>1. \A t, u \in Int : CountedIn(k, t, u) = 0 /\ AdmittedIn(k, t, u) = 0
    BY <1>1 DEF CountedIn, AdmittedIn, Within, Before
  <2>2. History(k) /\ Quota(k)
    BY <1>1 DEF History, Quota
  <2>3. Bounded(k)
    BY <1>1, <2>1 DEF Bounded
  <2>4. \A t, u : Awaiting(k, t, u) = {}
    BY DEF Awaiting
  <2>5. Linked(k)
    <3>1. Cardinality({}) = 0
      BY FS_EmptySet
    <3>2. \A t, u \in Int : t - Latency \in Int
      BY <1>1
    <3>3. \A t, u \in Int : /\ AdmittedIn(k, t, u) = 0 /\ CountedIn(k, t - Latency, u) = 0
                            /\ Cardinality(Awaiting(k, t - Latency, u)) = 0
      BY <2>1, <2>4, <3>1, <3>2
    <3>4. QED
      BY <3>3 DEF Linked
  <2>6. QED
    BY <2>2, <2>3, <2>5 DEF Windowed
<1>5. QED
  BY <1>2, <1>3, <1>4 DEF IInv

LEMMA RestartSound ==
  ASSUME IInv, Restart
  PROVE  IInv'
<1>1. /\ (clock \in Time)' /\ (count = [k \in Key |-> 0])' /\ (expires = [k \in Key |-> 0])'
      /\ (answer = [p \in Requests |-> NULL])' /\ (counted = Nothing)' /\ (admitted = Nothing)'
      /\ (promise = [k \in Key |-> <<0, 0>>])'
  BY DEF IInv, TypeOK, Restart, Key, Time, Nothing
<1>2. QED
  BY <1>1, Afresh, PTL

LEMMA StutterSound ==
  ASSUME IInv, UNCHANGED vars
  PROVE  IInv'
<1>1. TypeOK' /\ RetryAfterSuffices' /\ \A p \in Requests : Told(p)'
  BY DEF vars, IInv, TypeOK, RetryAfterSuffices, Told
<1>2. \A k \in Key : Windowed(k)' /\ Linked(k)'
  BY Unconcerned, LinkedAsBefore DEF vars, IInv
<1>3. QED
  BY <1>1, <1>2 DEF IInv, Key

--------------------------------------------------------------------------------
(* What follows *)

\* What is passed on within a window's length was counted in twice that length.
LEMMA BurstsAreBounded == IInv => SlidingBound
<1>1. SUFFICES ASSUME IInv, NEW k \in Key, NEW t \in Time
               PROVE  /\ CountedIn(k, t, t + Span(k)) < 2 * Limit[k[1]]
                      /\ AdmittedIn(k, t, t + Span(k)) < 3 * Limit[k[1]]
  BY DEF SlidingBound
<1> DEFINE u == t + Span(k)
           from == t - Latency
<1>2. t \in Int /\ Span(k) \in Nat \ {0} /\ Limit[k[1]] \in Nat \ {0}
  BY KeyParts, LimitAssumption DEF Time
<1>3. Latency \in Nat /\ Latency <= Span(k)
  BY LatencyAssumption DEF Span, Key
<1>4. Bounded(k) /\ Windowed(k) /\ Linked(k) /\ TypeOK
  BY <1>1 DEF IInv, Windowed
<1>5. CountedIn(k, t, u) < 2 * Limit[k[1]]
  BY <1>2, <1>4 DEF Bounded
<1>6. AdmittedIn(k, t, u) + Cardinality(Awaiting(k, from, u)) <= CountedIn(k, from, u)
  BY <1>2, <1>4 DEF Linked
<1>7. CountedIn(k, t - Span(k), t - Span(k) + 2 * Span(k)) < 3 * Limit[k[1]]
  BY <1>2, <1>4 DEF Bounded
<1>8. t - Span(k) + 2 * Span(k) = u
  BY <1>2
<1>9. CountedIn(k, from, u) <= CountedIn(k, t - Span(k), u)
  <2>1. \A a, b \in Int : a <= b => Before(counted, k, a) <= Before(counted, k, b)
    BY <1>4, Totals DEF Windowed
  <2>2. \A a \in Int : Before(counted, k, a) \in Nat
    BY <1>4, TotalsCount DEF TypeOK
  <2>3. t - Span(k) \in Int /\ from \in Int /\ t - Span(k) <= from /\ u \in Int
    BY <1>2, <1>3
  <2> HIDE DEF u, from
  <2>4. QED
    BY <2>1, <2>2, <2>3 DEF CountedIn, Within
<1>10. AdmittedIn(k, t, u) \in Int /\ CountedIn(k, from, u) \in Int /\ CountedIn(k, t - Span(k), u) \in Int
  <2>1. \A a \in Int : Before(counted, k, a) \in Nat /\ Before(admitted, k, a) \in Nat
    BY <1>4, TotalsCount DEF TypeOK
  <2>2. QED
    BY <1>2, <1>3, <2>1 DEF AdmittedIn, CountedIn, Within
<1>11. Cardinality(Awaiting(k, from, u)) \in Nat
  BY AwaitingFinite
<1> HIDE DEF u, from
<1>12. AdmittedIn(k, t, u) < 3 * Limit[k[1]]
  BY <1>2, <1>6, <1>7, <1>8, <1>9, <1>10, <1>11
<1>13. QED
  BY <1>5, <1>12 DEF u

\* What has been passed on, and what may yet be, was counted before.
LEMMA CountedFirst == IInv => FailClosed
<1>1. SUFFICES ASSUME IInv PROVE FailClosed
  OBVIOUS
<1>2. MaxTime \in Nat /\ Latency \in Nat /\ Time = 0..MaxTime /\ TypeOK
  BY <1>1, LimitAssumption, LatencyAssumption DEF IInv, Time
<1>3. ASSUME NEW k \in Key, NEW t \in Time
      PROVE  admitted[k][t] + Cardinality(Awaiting(k, 0, t + 1)) <= counted[k][t]
  <2>1. AdmittedIn(k, 0, t + 1) + Cardinality(Awaiting(k, 0 - Latency, t + 1)) <= CountedIn(k, 0 - Latency, t + 1)
    BY <1>1, <1>2 DEF IInv, Linked
  <2>2. \A p \in Requests : answer[p] # NULL => answer[p].at \in 0..MaxTime
    BY <1>2 DEF TypeOK, Answer
  <2>3. Awaiting(k, 0 - Latency, t + 1) = Awaiting(k, 0, t + 1)
    BY <1>2, <2>2 DEF Awaiting
  <2>4. admitted[k][t] \in Nat /\ counted[k][t] \in Nat
    BY <1>2 DEF TypeOK
  <2>5. AdmittedIn(k, 0, t + 1) = admitted[k][t] /\ CountedIn(k, 0 - Latency, t + 1) = counted[k][t]
    BY <1>2, <2>4 DEF AdmittedIn, CountedIn, Within, Before
  <2>6. QED
    BY <2>1, <2>3, <2>5
<1>4. ASSUME NEW k \in Key, Live(k)
      PROVE  CountedIn(k, expires[k] - Span(k), clock + 1) = count[k]
  BY <1>1, <1>4 DEF IInv, Windowed, Quota, Covered, Start, Live
<1>5. QED
  BY <1>2, <1>3, <1>4 DEF FailClosed

--------------------------------------------------------------------------------
(* Theorems *)

\* No step leads out of the invariant.
THEOREM LimiterInvariance == Spec => []IInv
<1>1. Init => IInv
  BY Afresh, LimitAssumption DEF Init, Time
<1>2. IInv /\ [Next]_vars => IInv'
  BY CountSound, RefuseSound, DoneSound, TickSound, RestartSound, StutterSound DEF Next
<1>3. QED
  BY <1>1, <1>2, PTL DEF Spec

\* Attempts that were refused are not counted: no counter exceeds its limit.
THEOREM CountersKeepToLimits == Spec => []TypeOK
<1>1. IInv => TypeOK
  BY DEF IInv
<1>2. QED
  BY <1>1, LimiterInvariance, PTL

\* Wherever one looks, the script counts less than twice the limit within a
\* window's time, and less than three times the limit is passed on, however
\* late the answers are acted on and whichever of them are lost.
THEOREM BurstsStayBelow == Spec => []SlidingBound
<1>1. QED
  BY BurstsAreBounded, LimiterInvariance, PTL

\* Whatever fails, nothing reaches the application that was not counted first,
\* no attempt twice, and no counter forgets what its window counted.
THEOREM NothingUncounted == Spec => []FailClosed
<1>1. QED
  BY CountedFirst, LimiterInvariance, PTL

\* Who waits as long as Retry-After says finds the window at its end, and has
\* waited no more than a second and the answer's way too long.
THEOREM RetryAfterIsRight == Spec => []RetryAfterSuffices
<1>1. IInv => RetryAfterSuffices
  BY DEF IInv
<1>2. QED
  BY <1>1, LimiterInvariance, PTL

\* Only the first request of a window sets its end.
THEOREM WindowsStayAnchored == Spec => WindowsAreAnchored
<1> DEFINE Anchored == \A k \in Key : Live(k) => expires'[k] \in {expires[k], 0}
<1>1. ASSUME IInv, Next
      PROVE  Anchored
  BY <1>1, CountSound, RefuseSound, DoneSound DEF Next, Tick, Restart
<1>2. IInv /\ [Next]_vars => [Anchored]_vars
  BY <1>1
<1>3. QED
  BY <1>2, LimiterInvariance, PTL DEF WindowsAreAnchored, Spec
================================================================================

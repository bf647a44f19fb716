------------------------------ MODULE RateLimiter ------------------------------
(***************************************************************************)
(* The fixed windows that limit authentication requests                    *)
(* (app/rate_limiting.py).  Redis runs the window script as one step, for  *)
(* all instances of the application.  The middleware acts on its answer    *)
(* later, for the application awaits it (lines 75-89): a request counted   *)
(* in one window may be passed on in the next, and one whose answer is     *)
(* lost or late is refused though it was counted.  A call that fails       *)
(* before it reaches Redis changes nothing kept here.                      *)
(*                                                                         *)
(* Time is in milliseconds, of which a second has Second.  An answer is    *)
(* acted on within Latency or not at all (socket_timeout and no retry,     *)
(* main.py:39-40).  Redis may restart with nothing stored, which forgets   *)
(* the quotas (README): the histories start anew, and the answers of       *)
(* before, wherever they are, are no concern of theirs.                    *)
(***************************************************************************)
EXTENDS Integers, FiniteSetsExt

CONSTANTS Endpoints,   \* login and register
          Hosts,       \* what transports call their peers
          Addresses,
          AddressOf,   \* the address of a host: mapped IPv6 counts as IPv4
          Limit,       \* requests allowed in a window of an endpoint
          Window,      \* its length in seconds
          Second, MaxTime,
          Requests,    \* slots for the requests whose answer is on its way
          Latency,     \* how old an answer may be when it is acted on
          NULL

ASSUME LimitAssumption == /\ AddressOf \in [Hosts -> Addresses]
                          /\ Limit \in [Endpoints -> Nat \ {0}]
                          /\ Window \in [Endpoints -> Nat \ {0}]
                          /\ Second \in Nat \ {0} /\ MaxTime \in Nat

\* A socket times out after a second, and no window is shorter than that.
ASSUME LatencyAssumption == /\ IsFiniteSet(Requests)
                            /\ Latency \in Nat
                            /\ \A e \in Endpoints : Latency <= Window[e] * Second

VARIABLES clock,
          count,      \* the counter under each key, meaningful until it expires
          expires,    \* when the key expires; 0 if it never existed
          answer,     \* what the script said to a request, until that is acted on
          counted,    \* counted[k][t]: attempts the script counted up to t
          admitted,   \* admitted[k][t]: requests passed on to the application up to t
          promise     \* the last refusal under a key: the end of its window, and of the wait

vars == <<clock, count, expires, answer, counted, admitted, promise>>

Key == Endpoints \X Addresses
Time == 0..MaxTime

\* When the script ran, the wait in seconds if it refused, else 0, and (for the
\* properties) the end of the window that refused.
Answer == [key: Key, at: Time, retry: Nat, window: Nat]

ASSUME AnswerAssumption == NULL \notin Answer

\* Types, and no counter beyond its limit: denied attempts are not counted.
TypeOK == /\ clock \in Time
          /\ count \in [Key -> Nat] /\ \A k \in Key : count[k] <= Limit[k[1]]
          /\ expires \in [Key -> Nat]
          /\ answer \in [Requests -> Answer \cup {NULL}]
          /\ counted \in [Key -> [Time -> Nat]]
          /\ admitted \in [Key -> [Time -> Nat]]
          /\ promise \in [Key -> Nat \X Nat]

Nothing == [k \in Key |-> [t \in Time |-> 0]]

Init == /\ clock = 0
        /\ count = [k \in Key |-> 0]
        /\ expires = [k \in Key |-> 0]
        /\ answer = [p \in Requests |-> NULL]
        /\ counted = Nothing
        /\ admitted = Nothing
        /\ promise = [k \in Key |-> <<0, 0>>]

Tick == /\ clock < MaxTime
        /\ clock' = clock + 1
        /\ UNCHANGED <<count, expires, answer, counted, admitted, promise>>

\* A history with one more under a key, from now on.
OneMore(history, k) == [history EXCEPT ![k] = [t \in Time |-> IF t < clock THEN @[t] ELSE @[t] + 1]]

--------------------------------------------------------------------------------
(* The script *)

\* A key is gone only after the millisecond at which it expires.
Live(k) == expires[k] > 0 /\ clock <= expires[k]

\* Mutant: comparison off by one.
CountedBeyond(k) == IF Live(k) THEN count[k] - 1 ELSE 0

\* GET, nothing if the key has expired.
Counted(k) == IF Live(k) THEN count[k] ELSE 0

Span(k) == Window[k[1]] * Second

WindowEnd(k) == clock + Span(k)

\* Mutant: every attempt starts the window anew.
ConsumeAndExtend(k) == /\ Counted(k) < Limit[k[1]]
                       /\ count' = [count EXCEPT ![k] = Counted(k) + 1]
                       /\ expires' = [expires EXCEPT ![k] = WindowEnd(k)]

\* INCR, and PEXPIRE for the first of a window only.
Consume(k) == /\ Counted(k) < Limit[k[1]]
              /\ count' = [count EXCEPT ![k] = Counted(k) + 1]
              /\ expires' = [expires EXCEPT ![k] = IF Live(k) THEN @ ELSE WindowEnd(k)]

\* The script's answer to a refused attempt changes nothing.
Refusing(k) == Counted(k) >= Limit[k[1]]

\* Mutant: rounded down.
FlooredRetry(k) == Max({1, (expires[k] - clock) \div Second})

\* PTTL in whole seconds, rounded up.
RetryAfter(k) == Max({1, (expires[k] - clock + Second - 1) \div Second})

--------------------------------------------------------------------------------
(* The middleware *)

KeyOf(e, h) == <<e, AddressOf[h]>>

Said(p, k, retry, window) ==
   answer' = [answer EXCEPT ![p] = [key |-> k, at |-> clock, retry |-> retry, window |-> window]]

\* The script allows an attempt: its answer is on its way.
Count(p, e, h) == LET k == KeyOf(e, h)
                  IN  /\ answer[p] = NULL
                      /\ Consume(k)
                      /\ counted' = OneMore(counted, k)
                      /\ Said(p, k, 0, 0)
                      /\ UNCHANGED <<clock, admitted, promise>>

\* The script refuses one: it changes nothing.
Refuse(p, e, h) == LET k == KeyOf(e, h)
                   IN  /\ answer[p] = NULL
                       /\ Refusing(k)
                       /\ Said(p, k, RetryAfter(k), expires[k])
                       /\ UNCHANGED <<clock, count, expires, counted, admitted, promise>>

Done(p) == /\ answer[p] # NULL
           /\ answer' = [answer EXCEPT ![p] = NULL]
           /\ UNCHANGED <<clock, count, expires, counted>>

InTime(p) == clock <= answer[p].at + Latency

\* The application's turn.
PassOn(p) == /\ Done(p)
             /\ InTime(p) /\ answer[p].retry = 0
             /\ admitted' = OneMore(admitted, answer[p].key)
             /\ UNCHANGED promise

\* 429: the client shall wait from now on.
TooMany(p) == /\ Done(p)
              /\ InTime(p) /\ answer[p].retry > 0
              /\ promise' = [promise EXCEPT ![answer[p].key] =
                               <<answer[p].window, clock + answer[p].retry * Second>>]
              /\ UNCHANGED admitted

\* Mutant: a limiter that does not answer lets requests through.
FailOpen(p) == /\ Done(p)
               /\ admitted' = OneMore(admitted, answer[p].key)
               /\ UNCHANGED promise

\* 503: the answer is lost or does not come in time.
Unavailable(p) == Done(p) /\ UNCHANGED <<admitted, promise>>

Restart == /\ \E k \in Key : expires[k] > 0
           /\ count' = [k \in Key |-> 0]
           /\ expires' = [k \in Key |-> 0]
           /\ answer' = [p \in Requests |-> NULL]
           /\ counted' = Nothing
           /\ admitted' = Nothing
           /\ promise' = [k \in Key |-> <<0, 0>>]
           /\ UNCHANGED clock

Next == \/ Tick \/ Restart
        \/ \E p \in Requests, e \in Endpoints, h \in Hosts : Count(p, e, h) \/ Refuse(p, e, h)
        \/ \E p \in Requests : PassOn(p) \/ TooMany(p) \/ Unavailable(p)

Spec == Init /\ [][Next]_vars

--------------------------------------------------------------------------------
(* Properties *)

\* What a history has under a key before t, and from one instant to before another.
Before(history, k, t) == IF t <= 0 THEN 0 ELSE IF t > MaxTime THEN history[k][MaxTime] ELSE history[k][t - 1]

Within(history, k, from, to) == Before(history, k, to) - Before(history, k, from)

CountedIn(k, from, to) == Within(counted, k, from, to)

AdmittedIn(k, from, to) == Within(admitted, k, from, to)

\* Wherever one looks, less than twice the limit is counted within a window's
\* time, for the first of the earlier window is then too old.  Less than three
\* times the limit is passed on: answers under way from the end of one window
\* may be acted on with those of the two that follow.
SlidingBound == \A k \in Key, t \in Time :
   /\ CountedIn(k, t, t + Span(k)) < 2 * Limit[k[1]]
   /\ AdmittedIn(k, t, t + Span(k)) < 3 * Limit[k[1]]

\* The requests that may still be passed on under a key, by when they were counted.
Awaiting(k, from, to) == {p \in Requests : /\ answer[p] # NULL
                                           /\ answer[p].key = k /\ answer[p].retry = 0
                                           /\ from <= answer[p].at /\ answer[p].at < to}

\* Whatever fails, nothing is passed on that was not counted first, each attempt
\* once at most: at any time, what has been passed on and what may yet be is
\* covered by what was counted.  And the counter forgets nothing of its window.
FailClosed == /\ TypeOK
              /\ \A k \in Key, t \in Time :
                    admitted[k][t] + Cardinality(Awaiting(k, 0, t + 1)) <= counted[k][t]
              /\ \A k \in Key : Live(k) => CountedIn(k, expires[k] - Span(k), clock + 1) = count[k]

\* Retry-After never ends before the window does, nor more than a second and
\* the answer's way after it.
RetryAfterSuffices == \A k \in Key : LET window == promise[k][1]
                                         wait == promise[k][2]
                                     IN  wait > 0 => window <= wait /\ wait <= window + Second + Latency

\* A window ends when its first request said, however many follow.
WindowsAreAnchored == [][\A k \in Key : Live(k) => expires'[k] \in {expires[k], 0}]_vars
================================================================================

-------------------------- MODULE BookingClientProofs --------------------------
(***************************************************************************)
(* Proofs about the two parts of the customer page that work on the ledger *)
(* of bookings.  About BookingClient, for any customers, events, seats,    *)
(* keys and numbers of attempts and sessions: a click makes at most one    *)
(* booking, what the page says of an intent is true, and sessions end for  *)
(* a reason.  About SeatListing, for any events, seats, readers and page   *)
(* size: a seat map is complete, and what it shows of a seat was so.       *)
(***************************************************************************)
EXTENDS BookingClient, SeatListing, FiniteSetTheorems, SequenceTheorems, TLAPS

\* The keys that were drawn, one for each click.
UsedKeys == {k \in PageKeys : intents[k] # NULL}

ClicksCounted == IsFiniteSet(UsedKeys) /\ clicks = Cardinality(UsedKeys)

\* The page sends nothing, and the ledger keeps nothing of the page, but what
\* was asked for under the key.
AskedBy(x) == [user |-> x.user, event |-> x.event, seats |-> x.seats] = intents[x.key]

\* One entry for each id, and for each user, event and key.
EntriesUnique == \A b, c \in bookings :
   b.id = c.id \/ <<b.user, b.event, b.key>> = <<c.user, c.event, c.key>> => b = c

BookingsAsked == \A b \in bookings : b.user \in Customers /\ b.key \in PageKeys => AskedBy(b)

\* An attempt still under way was either given up on, or is the only one of its
\* intent and awaited.
AttemptsSound == \A m \in net : AskedBy(m) /\ (m.key \in uncertain \/ m = awaiting)

SessionSound == user # NULL => session \in 1..MaxSessions

PendingSound == /\ pending # NULL => verdict[pending] = "open"
                /\ pending # NULL => pending \in uncertain \/ awaiting # NULL
                /\ awaiting # NULL => AskedBy(awaiting) /\ awaiting.key = pending

\* The bookings of an intent.
Mine(k) == {b \in bookings : b.key = k /\ [user |-> b.user, event |-> b.event,
                                           seats |-> b.seats] = intents[k]}

\* What an answer says is so, and stays so until the page reads it.
ReplySound == reply # NULL =>
   /\ awaiting # NULL /\ awaiting \notin net
   /\ reply = "created" => Mine(awaiting.key) # {}
   /\ reply = "cancelled" => \E b \in Mine(awaiting.key) : b.id \notin inForce
   /\ reply = "conflict" /\ awaiting.key \notin uncertain => BookedFor(awaiting.key) = {}
   /\ reply = "unauthorized" => awaiting.session \in expired

\* The inductive invariant.
IInv == /\ TypeOK /\ ClicksCounted /\ EntriesUnique /\ BookingsAsked /\ AttemptsSound
        /\ SessionSound /\ PendingSound /\ ReplySound
        /\ VerdictIsTrue /\ DeclinedAtOnceIsFinal

--------------------------------------------------------------------------------
(* Types *)

\* An intent is a record of its customer, event and seats, and is not NULL.
LEMMA IntentFields ==
  ASSUME NEW i \in Intent
  PROVE  /\ i # NULL /\ i.user \in Customers /\ i.event \in Events /\ i.seats \subseteq Seats
         /\ i = [user |-> i.user, event |-> i.event, seats |-> i.seats]
BY NullAssumption DEF Intent

\* What Send puts on the wire.
LEMMA SendTyped ==
  ASSUME TypeOK, SessionSound, NEW k \in PageKeys, NEW i \in Intent, user \in Customers, Send(k, i)
  PROVE  /\ sent' \in 0..MaxAttempts
         /\ awaiting' \in Attempt /\ awaiting' # NULL /\ net' = net \union {awaiting'}
         /\ awaiting'.key = k /\ awaiting'.user = user /\ awaiting'.event = i.event
         /\ awaiting'.seats = i.seats
         /\ reply' = reply
<1>1. sent + 1 \in 1..MaxAttempts /\ session \in 1..MaxSessions
  BY PageAssumption, NullAssumption DEF TypeOK, SessionSound, Send
<1>2. i.event \in Events /\ i.seats \subseteq Seats
  BY IntentFields
<1>3. awaiting' = [n |-> sent + 1, key |-> k, user |-> user, event |-> i.event,
                   seats |-> i.seats, session |-> session]
  BY DEF Send
<1>4. awaiting' \in Attempt
  BY <1>1, <1>2, <1>3 DEF Attempt
<1>5. QED
  BY <1>1, <1>3, <1>4, NullAssumption DEF Send

\* Moving about the page and signing in and out keep every type.
LEMMA PageTyped ==
  ASSUME TypeOK, SessionSound,
         \/ \E u \in Customers : Login(u)
         \/ Logout
         \/ \E n \in 1..MaxSessions : Expire(n)
         \/ \E e \in Events : OpenEvent(e) \/ Start(e)
         \/ EventLoaded \/ ClosePanel
         \/ \E s \in Seats : Toggle(s)
  PROVE  TypeOK' /\ SessionSound'
<1> USE DEF TypeOK, LedgerTypeOK, SessionSound, ledger, account, hours, intent, panel, wire
<1>1. ASSUME NEW u \in Customers, Login(u)
      PROVE  TypeOK' /\ SessionSound'
  BY <1>1, PageAssumption DEF Login
<1>2. CASE Logout
  BY <1>2, PageAssumption DEF Logout, SignOut
<1>3. ASSUME NEW n \in 1..MaxSessions, Expire(n)
      PROVE  TypeOK' /\ SessionSound'
  BY <1>3 DEF Expire
<1>4. ASSUME NEW e \in Events, OpenEvent(e)
      PROVE  TypeOK' /\ SessionSound'
  BY <1>4 DEF OpenEvent, Unload
<1>4a. ASSUME NEW e \in Events, Start(e)
      PROVE  TypeOK' /\ SessionSound'
  BY <1>4a DEF Start
<1>5. CASE EventLoaded
  BY <1>5 DEF EventLoaded
<1>6. CASE ClosePanel
  BY <1>6 DEF ClosePanel, Unload
<1>7. ASSUME NEW s \in Seats, Toggle(s)
      PROVE  TypeOK' /\ SessionSound'
  BY <1>7 DEF Toggle
<1>8. QED
  BY <1>1, <1>2, <1>3, <1>4, <1>4a, <1>5, <1>6, <1>7

--------------------------------------------------------------------------------
(* The ledger *)

\* A booking is added, and nobody's becomes another's.
LEMMA BookAdds ==
  ASSUME LedgerTypeOK, EntriesUnique, NEW b \in Entry, Book(b)
  PROVE  /\ LedgerTypeOK' /\ EntriesUnique'
         /\ bookings' = bookings \union {b} /\ b.id \in inForce'
         /\ \A x \in bookings : x.id \notin inForce => x.id \notin inForce'
<1>1. /\ bookings' = bookings \union {b} /\ inForce' = inForce \union {b.id} /\ closed' = closed
      /\ \A x \in bookings : x.id # b.id /\ <<x.user, x.event, x.key>> # <<b.user, b.event, b.key>>
  BY DEF Book
<1>2. LedgerTypeOK'
  BY <1>1 DEF LedgerTypeOK, Entry
<1>3. EntriesUnique'
  BY <1>1 DEF EntriesUnique
<1>4. QED
  BY <1>1, <1>2, <1>3

\* Withdrawing and closing leave the entries and revive none.
LEMMA ReleaseKeeps ==
  ASSUME LedgerTypeOK, EntriesUnique,
         (\E r \in Reservations : Withdraw(r)) \/ (\E e \in Events : Close(e))
  PROVE  LedgerTypeOK' /\ EntriesUnique' /\ bookings' = bookings /\ inForce' \subseteq inForce
<1>1. bookings' = bookings /\ inForce' \subseteq inForce /\ closed' \subseteq Events
  BY DEF Withdraw, Close, LedgerTypeOK
<1>2. QED
  BY <1>1 DEF LedgerTypeOK, EntriesUnique

\* What was said of an intent stays true while the ledger grows.
LEMMA MineKept ==
  ASSUME NEW k, intents'[k] = intents[k], bookings \subseteq bookings',
         \A x \in bookings : x.id \notin inForce => x.id \notin inForce'
  PROVE  /\ Mine(k) \subseteq Mine(k)'
         /\ (\E b \in Mine(k) : b.id \notin inForce) => (\E b \in Mine(k) : b.id \notin inForce)'
BY DEF Mine

--------------------------------------------------------------------------------
(* Steps of the page *)

LEMMA PageSound ==
  ASSUME IInv,
         \/ \E u \in Customers : Login(u)
         \/ Logout
         \/ \E n \in 1..MaxSessions : Expire(n)
         \/ \E e \in Events : OpenEvent(e) \/ Start(e)
         \/ EventLoaded \/ ClosePanel
         \/ \E s \in Seats : Toggle(s)
  PROVE  IInv'
<1>1. TypeOK' /\ SessionSound'
  BY PageTyped DEF IInv
<1>2. UNCHANGED <<ledger, intent, wire, verdict, clicks>> /\ expired \subseteq expired'
  BY DEF Login, Logout, SignOut, Expire, OpenEvent, Start, hours, EventLoaded, ClosePanel, Toggle
<1>3. ClicksCounted' /\ EntriesUnique' /\ BookingsAsked' /\ AttemptsSound' /\ PendingSound'
  BY <1>2 DEF IInv, ledger, intent, wire, ClicksCounted, UsedKeys, EntriesUnique, BookingsAsked,
              AttemptsSound, PendingSound, AskedBy
<1>4. ReplySound'
  BY <1>2 DEF IInv, ledger, intent, wire, ReplySound, Mine, BookedFor
<1>5. VerdictIsTrue' /\ DeclinedAtOnceIsFinal'
  BY <1>2 DEF IInv, ledger, intent, wire, VerdictIsTrue, DeclinedAtOnceIsFinal, BookedFor
<1>6. QED
  BY <1>1, <1>3, <1>4, <1>5 DEF IInv

\* A click draws a key that nothing has used.
LEMMA ReserveSound ==
  ASSUME IInv, NEW k \in PageKeys, Reserve(k)
  PROVE  IInv'
<1> DEFINE i == [user |-> user, event |-> activeEvent, seats |-> selected]
<1>1. /\ pending = NULL /\ user # NULL /\ activeEvent # NULL /\ intents[k] = NULL
      /\ intents' = [intents EXCEPT ![k] = i] /\ Send(k, i) /\ pending' = k
      /\ verdict' = [verdict EXCEPT ![k] = "open"] /\ clicks' = clicks + 1
      /\ UNCHANGED <<ledger, account, hours, panel, uncertain>>
  BY DEF Reserve, Unused
<1>2. user \in Customers /\ i \in Intent /\ i # NULL
  BY <1>1, PageAssumption, NullAssumption DEF IInv, TypeOK, Intent
<1>3. /\ sent' \in 0..MaxAttempts
      /\ awaiting' \in Attempt /\ awaiting' # NULL /\ net' = net \union {awaiting'}
      /\ awaiting'.key = k /\ awaiting'.user = i.user /\ awaiting'.event = i.event
      /\ awaiting'.seats = i.seats
      /\ reply' = reply
  BY <1>1, <1>2, SendTyped DEF IInv
<1>4. i = [user |-> i.user, event |-> i.event, seats |-> i.seats]
  BY <1>2, IntentFields
<1> HIDE DEF i
<1>5. /\ intents' \in [PageKeys -> Intent \union {NULL}] /\ intents'[k] = i
      /\ \A j \in PageKeys \ {k} : intents'[j] = intents[j]
      /\ verdict'[k] = "open" /\ \A j \in PageKeys \ {k} : verdict'[j] = verdict[j]
  BY <1>1, <1>2 DEF IInv, TypeOK
<1>6. awaiting = NULL /\ reply = NULL
  BY <1>1, NullAssumption DEF IInv, TypeOK, PendingSound, ReplySound, Attempt
<1>7. TypeOK'
  BY <1>1, <1>2, <1>3, <1>5 DEF IInv, TypeOK, LedgerTypeOK, ledger, account, hours, panel
<1>8. ClicksCounted'
  <2>1. UsedKeys' = UsedKeys \union {k} /\ k \notin UsedKeys
    BY <1>1, <1>2, <1>5 DEF UsedKeys
  <2>2. QED
    BY <1>1, <2>1, FS_AddElement DEF IInv, ClicksCounted
<1>9. EntriesUnique' /\ SessionSound'
  BY <1>1 DEF IInv, EntriesUnique, SessionSound, ledger, account, hours
<1>10. ASSUME NEW x, x.key \in PageKeys, x.user \in Customers, x.event \in Events,
              x.seats \subseteq Seats, AskedBy(x)
       PROVE  x.key # k /\ [user |-> x.user, event |-> x.event, seats |-> x.seats] = intents'[x.key]
  <2> DEFINE r == [user |-> x.user, event |-> x.event, seats |-> x.seats]
  <2>1. r \in Intent
    BY <1>10 DEF Intent
  <2>2. r = intents[x.key]
    BY <1>10 DEF AskedBy
  <2> HIDE DEF r
  <2>3. x.key # k
    BY <1>1, <2>1, <2>2, NullAssumption
  <2>4. QED
    BY <1>5, <1>10, <2>2, <2>3 DEF r
<1>11. \A b \in bookings : b.event \in Events /\ b.seats \subseteq Seats
  BY DEF IInv, TypeOK, LedgerTypeOK, Entry
<1>12. BookingsAsked'
  BY <1>1, <1>10, <1>11 DEF IInv, BookingsAsked, AskedBy, ledger
<1>13. AttemptsSound'
  <2>1. ASSUME NEW m \in net
        PROVE  [user |-> m.user, event |-> m.event, seats |-> m.seats] = intents'[m.key]
               /\ m.key \in uncertain'
    <3>1. m.key \in PageKeys /\ m.user \in Customers /\ m.event \in Events /\ m.seats \subseteq Seats
      BY DEF IInv, TypeOK, Attempt
    <3>2. AskedBy(m) /\ (m.key \in uncertain \/ m = NULL)
      BY <1>6 DEF IInv, AttemptsSound
    <3>3. m # NULL
      BY NullAssumption DEF IInv, TypeOK
    <3>4. QED
      BY <1>1, <1>10, <3>1, <3>2, <3>3
  <2>2. QED
    BY <1>3, <1>4, <1>5, <2>1 DEF AttemptsSound, AskedBy
<1>14. PendingSound'
  BY <1>1, <1>3, <1>4, <1>5 DEF PendingSound, AskedBy
<1>15. ReplySound'
  BY <1>3, <1>6 DEF ReplySound
<1>16. VerdictIsTrue'
  BY <1>1, <1>5 DEF IInv, VerdictIsTrue, ledger
<1>17. DeclinedAtOnceIsFinal'
  BY <1>1, <1>5 DEF IInv, DeclinedAtOnceIsFinal, BookedFor, ledger
<1>18. QED
  BY <1>7, <1>8, <1>9, <1>12, <1>13, <1>14, <1>15, <1>16, <1>17 DEF IInv

\* A retry is one more attempt of an intent that is uncertain.
LEMMA RetrySound ==
  ASSUME IInv, Retry
  PROVE  IInv'
<1>1. /\ pending # NULL /\ awaiting = NULL /\ user = intents[pending].user
      /\ Send(pending, intents[pending])
      /\ UNCHANGED <<ledger, account, hours, panel, intent, verdict, clicks>>
  BY DEF Retry
<1>2. /\ pending \in PageKeys /\ intents[pending] \in Intent /\ user \in Customers
      /\ pending \in uncertain
  BY <1>1, IntentFields DEF IInv, TypeOK, PendingSound
<1> DEFINE i == intents[pending]
<1>3. /\ sent' \in 0..MaxAttempts
      /\ awaiting' \in Attempt /\ awaiting' # NULL /\ net' = net \union {awaiting'}
      /\ awaiting'.key = pending /\ awaiting'.user = i.user /\ awaiting'.event = i.event
      /\ awaiting'.seats = i.seats
      /\ reply' = reply
  BY <1>1, <1>2, SendTyped DEF IInv
<1>4. i = [user |-> i.user, event |-> i.event, seats |-> i.seats]
  BY <1>2, IntentFields
<1> HIDE DEF i
<1>5. reply = NULL
  BY <1>1 DEF IInv, ReplySound
<1>6. TypeOK' /\ SessionSound'
  BY <1>1, <1>3 DEF IInv, TypeOK, LedgerTypeOK, SessionSound, ledger, account, hours, panel, intent
<1>7. ClicksCounted' /\ EntriesUnique' /\ BookingsAsked'
  BY <1>1 DEF IInv, ClicksCounted, UsedKeys, EntriesUnique, BookingsAsked, AskedBy, ledger, intent
<1>8. AttemptsSound'
  <2>1. \A m \in net : m # NULL
    BY NullAssumption DEF IInv, TypeOK
  <2>2. \A m \in net : AskedBy(m) /\ m.key \in uncertain
    BY <1>1, <2>1 DEF IInv, AttemptsSound
  <2>3. QED
    BY <1>1, <1>2, <1>3, <1>4, <2>2 DEF AttemptsSound, AskedBy, intent, i
<1>9. PendingSound' /\ ReplySound'
  BY <1>1, <1>3, <1>4, <1>5 DEF IInv, PendingSound, ReplySound, AskedBy, intent, i
<1>10. VerdictIsTrue' /\ DeclinedAtOnceIsFinal'
  BY <1>1 DEF IInv, VerdictIsTrue, DeclinedAtOnceIsFinal, BookedFor, ledger, intent
<1>11. QED
  BY <1>6, <1>7, <1>8, <1>9, <1>10 DEF IInv

--------------------------------------------------------------------------------
(* Steps of the server *)

\* An answer to an attempt is true of the ledger it comes with.
Truthful(m, answer) ==
   /\ answer = "created" => Mine(m.key) # {}
   /\ answer = "cancelled" => \E b \in Mine(m.key) : b.id \notin inForce
   /\ answer = "conflict" => BookedFor(m.key) = {}
   /\ answer = "unauthorized" => m.session \in expired

\* Whatever the server does for an attempt, if it books nothing but what was
\* asked for and answers truthfully, the invariant holds.
LEMMA ServedSound ==
  ASSUME IInv, NEW m \in net, NEW answer \in Answers, Served(m, answer), Truthful(m, answer)',
         LedgerTypeOK', EntriesUnique', bookings \subseteq bookings',
         \A x \in bookings : x.id \notin inForce => x.id \notin inForce',
         \A x \in bookings' \ bookings : x.key = m.key /\ AskedBy(x)
  PROVE  IInv'
<1>1. /\ net' = net \ {m} /\ reply' = IF awaiting = m THEN answer ELSE reply
      /\ UNCHANGED <<account, hours, panel, intent, sent, awaiting, verdict, clicks>>
  BY DEF Served
<1>2. m \in Attempt /\ m # NULL /\ AskedBy(m) /\ (m.key \in uncertain \/ m = awaiting)
  BY NullAssumption DEF IInv, TypeOK, AttemptsSound
<1>3. TypeOK' /\ SessionSound'
  BY <1>1 DEF IInv, TypeOK, SessionSound, account, hours, panel, intent
<1>4. ClicksCounted' /\ BookingsAsked' /\ AttemptsSound' /\ PendingSound'
  BY <1>1 DEF IInv, ClicksCounted, UsedKeys, BookingsAsked, AttemptsSound, PendingSound, AskedBy, intent
<1>5. \A k \in PageKeys : /\ Mine(k) \subseteq Mine(k)'
                          /\ (\E b \in Mine(k) : b.id \notin inForce) => (\E b \in Mine(k) : b.id \notin inForce)'
  BY <1>1, MineKept DEF intent
<1>6. \A k \in PageKeys : k # m.key => BookedFor(k)' = BookedFor(k)
  BY DEF BookedFor
<1>7. ReplySound'
  <2>1. CASE awaiting = m
    BY <1>1, <1>2, <2>1 DEF ReplySound, Truthful
  <2>2. CASE awaiting # m
    <3>1. reply' = reply /\ awaiting' = awaiting /\ net' \subseteq net /\ uncertain' = uncertain /\ expired' = expired
      BY <1>1, <2>2 DEF intent, hours
    <3>2. CASE reply # NULL
      <4>1. awaiting # NULL /\ awaiting \notin net /\ awaiting \in Attempt
        BY <3>2 DEF IInv, TypeOK, ReplySound
      <4>2. awaiting.key \in PageKeys
        BY <4>1 DEF Attempt
      <4>3. awaiting.key \notin uncertain => awaiting.key # m.key
        BY <1>2, <2>2
      <4> DEFINE key == awaiting.key
      <4>4. key' = key /\ key \in PageKeys
        BY <3>1, <4>2
      <4>5. /\ reply = "created" => Mine(key) # {}
            /\ reply = "cancelled" => \E b \in Mine(key) : b.id \notin inForce
            /\ reply = "conflict" /\ key \notin uncertain => BookedFor(key) = {}
            /\ reply = "unauthorized" => awaiting.session \in expired
        BY <3>2 DEF IInv, ReplySound
      <4>6. PICK q \in PageKeys : q = key
        BY <4>4
      <4>7. /\ reply = "created" => Mine(q)' # {}
            /\ reply = "cancelled" => (\E b \in Mine(q) : b.id \notin inForce)'
            /\ reply = "conflict" /\ q \notin uncertain => BookedFor(q)' = {}
        BY <1>5, <1>6, <4>3, <4>5, <4>6
      <4>8. QED
        BY <3>1, <4>1, <4>4, <4>5, <4>6, <4>7 DEF ReplySound
    <3>3. CASE reply = NULL
      BY <3>1, <3>3 DEF ReplySound
    <3>4. QED
      BY <3>2, <3>3
  <2>3. QED
    BY <2>1, <2>2
<1>8. VerdictIsTrue'
  <2>1. verdict' = verdict
    BY <1>1
  <2>2. \A k \in PageKeys : /\ verdict[k] = "booked" => Mine(k)' # {}
                            /\ verdict[k] = "withdrawn" => (\E b \in Mine(k) : b.id \notin inForce)'
    BY <1>5 DEF IInv, VerdictIsTrue, Mine
  <2>3. QED
    BY <2>1, <2>2 DEF VerdictIsTrue, Mine
<1>9. DeclinedAtOnceIsFinal'
  <2>1. ASSUME NEW k \in PageKeys, verdict[k] = "declined", k \notin uncertain
        PROVE  BookedFor(k)' = {}
    <3>1. k # m.key
      BY <1>2, <2>1, NullAssumption DEF IInv, PendingSound
    <3>2. BookedFor(k) = {}
      BY <2>1 DEF IInv, DeclinedAtOnceIsFinal
    <3>3. QED
      BY <1>6, <3>1, <3>2
  <2>2. verdict' = verdict /\ uncertain' = uncertain
    BY <1>1 DEF intent
  <2>3. QED
    BY <2>1, <2>2 DEF DeclinedAtOnceIsFinal
<1>10. QED
  BY <1>3, <1>4, <1>7, <1>8, <1>9 DEF IInv

\* Bookings of one key are of one intent.
LEMMA SameIntent ==
  ASSUME IInv, NEW m \in net, NEW b \in bookings, b.key = m.key, b.user \in Customers
  PROVE  b \in Mine(m.key) /\ b \in Stored(m) /\ b.seats = m.seats
<1>1. m.key \in PageKeys /\ AskedBy(m)
  BY DEF IInv, TypeOK, Attempt, AttemptsSound
<1>2. AskedBy(b)
  BY <1>1 DEF IInv, BookingsAsked
<1>3. [user |-> b.user, event |-> b.event, seats |-> b.seats]
      = [user |-> m.user, event |-> m.event, seats |-> m.seats]
  BY <1>1, <1>2 DEF AskedBy
<1>4. b.user = m.user /\ b.event = m.event /\ b.seats = m.seats
  BY <1>3
<1>5. QED
  BY <1>2, <1>4 DEF Mine, Stored, AskedBy

\* The server serves an attempt.
LEMMA ServeSound ==
  ASSUME IInv, NEW m \in net, Serve(m)
  PROVE  IInv'
<1>1. /\ LedgerTypeOK /\ EntriesUnique /\ AskedBy(m)
      /\ m.key \in PageKeys /\ m.user \in Customers /\ m.event \in Events /\ m.seats \subseteq Seats
  BY DEF IInv, TypeOK, Attempt, AttemptsSound
<1>2. ASSUME NEW answer \in Answers, Served(m, answer), UNCHANGED ledger, Truthful(m, answer)
      PROVE  IInv'
  <2>1. bookings' = bookings /\ inForce' = inForce /\ closed' = closed /\ expired' = expired /\ intents' = intents
    BY <1>2 DEF ledger, Served, intent, hours
  <2>2. LedgerTypeOK' /\ EntriesUnique'
    BY <1>1, <2>1 DEF LedgerTypeOK, EntriesUnique
  <2>3. Truthful(m, answer)'
    BY <1>2, <2>1 DEF Truthful, Mine, BookedFor
  <2>4. QED
    BY <1>2, <2>1, <2>2, <2>3, ServedSound
<1>3. CASE ServeUnauthorized(m)
  BY <1>2, <1>3 DEF ServeUnauthorized, Truthful, Answers
<1>4. CASE ServeFailed(m)
  BY <1>2, <1>4 DEF ServeFailed, Truthful, Answers
<1>5. CASE ServeReplay(m)
  <2>1. PICK b \in Stored(m) : Served(m, IF b.seats # m.seats THEN "conflict"
                                         ELSE IF b.id \in inForce THEN "created" ELSE "cancelled")
    BY <1>5 DEF ServeReplay
  <2>2. b \in Mine(m.key) /\ b.seats = m.seats
    BY <1>1, SameIntent DEF Stored
  <2>3. QED
    BY <1>2, <1>5, <2>1, <2>2 DEF ServeReplay, Truthful, Answers
<1>6. CASE ServeBook(m)
  <2>1. PICK r \in Reservations : Book([id |-> r, user |-> m.user, event |-> m.event,
                                        key |-> m.key, seats |-> m.seats])
    BY <1>6 DEF ServeBook
  <2>2. PICK answer \in {"created", "error"} : Served(m, answer)
    BY <1>6 DEF ServeBook
  <2> DEFINE b == [id |-> r, user |-> m.user, event |-> m.event, key |-> m.key, seats |-> m.seats]
  <2>3. /\ b \in Entry /\ b.key = m.key
        /\ [user |-> b.user, event |-> b.event, seats |-> b.seats] = intents[b.key]
    BY <1>1, PageAssumption DEF Entry, AskedBy
  <2>4. Book(b)
    BY <2>1
  <2> HIDE DEF b
  <2>5. /\ LedgerTypeOK' /\ EntriesUnique'
        /\ bookings' = bookings \union {b}
        /\ \A x \in bookings : x.id \notin inForce => x.id \notin inForce'
    BY <1>1, <2>3, <2>4, BookAdds
  <2>6. intents' = intents
    BY <2>2 DEF Served, intent
  <2>7. Truthful(m, answer)'
    BY <2>3, <2>5, <2>6 DEF Truthful, Mine
  <2>8. \A x \in bookings' \ bookings : x.key = m.key /\ AskedBy(x)
    BY <2>3, <2>5 DEF AskedBy
  <2>9. answer \in Answers
    BY DEF Answers
  <2>10. QED
    BY <2>2, <2>5, <2>7, <2>8, <2>9, ServedSound
<1>7. CASE ServeConflict(m)
  <2>1. BookedFor(m.key) = {}
    BY <1>7, SameIntent DEF ServeConflict, BookedFor
  <2>2. QED
    BY <1>2, <1>7, <2>1 DEF ServeConflict, Truthful, Answers
<1>8. QED
  BY <1>3, <1>4, <1>5, <1>6, <1>7 DEF Serve

\* Others book under keys of their own, and what anybody withdraws stays so.
LEMMA RivalsSound ==
  ASSUME IInv, Rivals
  PROVE  IInv'
<1>1. /\ LedgerTypeOK' /\ EntriesUnique' /\ bookings \subseteq bookings'
      /\ \A x \in bookings : x.id \notin inForce => x.id \notin inForce'
      /\ \A x \in bookings' \ bookings : x.user \notin Customers
  <2>1. ASSUME NEW b \in Entry, b.user \notin Customers, Book(b)
        PROVE  <1>1!:
    BY <2>1, BookAdds DEF IInv, TypeOK
  <2>2. CASE (\E r \in Reservations : Withdraw(r)) \/ (\E e \in Events : Close(e))
    BY <2>2, ReleaseKeeps DEF IInv, TypeOK
  <2>3. \A b \in bookings : b.id \in Reservations
    BY DEF IInv, TypeOK, LedgerTypeOK, Entry
  <2>4. QED
    BY <2>1, <2>2, <2>3 DEF Rivals
<1>2. UNCHANGED <<account, hours, panel, intent, wire, verdict, clicks>>
  BY DEF Rivals
<1>3. TypeOK' /\ SessionSound' /\ ClicksCounted' /\ BookingsAsked' /\ AttemptsSound' /\ PendingSound'
  BY <1>1, <1>2 DEF IInv, TypeOK, SessionSound, ClicksCounted, UsedKeys, BookingsAsked, AttemptsSound,
                    PendingSound, AskedBy, account, hours, panel, intent, wire
<1>4. \A k \in PageKeys : /\ Mine(k) \subseteq Mine(k)'
                          /\ (\E b \in Mine(k) : b.id \notin inForce) => (\E b \in Mine(k) : b.id \notin inForce)'
                          /\ BookedFor(k)' = BookedFor(k)
  <2>1. \A k \in PageKeys : BookedFor(k)' = BookedFor(k)
    BY <1>1 DEF BookedFor
  <2>2. QED
    BY <1>1, <1>2, <2>1, MineKept DEF intent
<1>5. ReplySound'
  <2>1. CASE reply # NULL
    <3>1. awaiting \in Attempt
      BY <2>1 DEF IInv, TypeOK, ReplySound
    <3>2. PICK k \in PageKeys : k = awaiting.key
      BY <3>1 DEF Attempt
    <3>3. awaiting' = awaiting /\ reply' = reply /\ net' = net /\ uncertain' = uncertain /\ expired' = expired
      BY <1>2 DEF wire, intent, hours
    <3>4. /\ reply = "created" => Mine(k)' # {}
          /\ reply = "cancelled" => (\E b \in Mine(k) : b.id \notin inForce)'
          /\ reply = "conflict" /\ k \notin uncertain => BookedFor(k)' = {}
      BY <1>4, <2>1, <3>2 DEF IInv, ReplySound
    <3>5. QED
      BY <2>1, <3>2, <3>3, <3>4 DEF IInv, ReplySound
  <2>2. CASE reply = NULL
    BY <1>2, <2>2 DEF ReplySound, wire
  <2>3. QED
    BY <2>1, <2>2
<1>6. VerdictIsTrue' /\ DeclinedAtOnceIsFinal'
  <2>1. verdict' = verdict /\ uncertain' = uncertain
    BY <1>2 DEF intent
  <2>2. \A k \in PageKeys : /\ verdict[k] = "booked" => Mine(k)' # {}
                            /\ verdict[k] = "withdrawn" => (\E b \in Mine(k) : b.id \notin inForce)'
    BY <1>4 DEF IInv, VerdictIsTrue, Mine
  <2>3. VerdictIsTrue'
    BY <2>1, <2>2 DEF VerdictIsTrue, Mine
  <2>4. DeclinedAtOnceIsFinal'
    BY <1>4, <2>1 DEF IInv, DeclinedAtOnceIsFinal
  <2>5. QED
    BY <2>3, <2>4
<1>7. QED
  BY <1>1, <1>3, <1>5, <1>6 DEF IInv

--------------------------------------------------------------------------------
(* The answer *)

\* The page believes an answer that settles its intent.
LEMMA SettleSound ==
  ASSUME IInv, Receive, reply \in {"created", "cancelled", "conflict"}
  PROVE  IInv'
<1> DEFINE outcome == IF reply = "conflict" THEN "declined" ELSE Told
<1>1. /\ awaiting # NULL /\ Settle(outcome) /\ awaiting' = NULL /\ reply' = NULL
      /\ UNCHANGED <<ledger, hours, viewing, intents, sent, net, clicks>>
  BY DEF Receive, Finally
<1>2. /\ awaiting \in Attempt /\ awaiting \notin net /\ awaiting.key = pending
      /\ pending \in PageKeys /\ pending # NULL
      /\ outcome \in {"booked", "withdrawn", "declined"}
  BY <1>1, NullAssumption DEF IInv, TypeOK, PendingSound, ReplySound, Attempt, Answers, Told
<1>3. /\ outcome = "booked" => Mine(pending) # {}
      /\ outcome = "withdrawn" => \E b \in Mine(pending) : b.id \notin inForce
      /\ outcome = "declined" /\ pending \notin uncertain => BookedFor(pending) = {}
  BY <1>1, <1>2, NullAssumption DEF IInv, TypeOK, ReplySound, Told, Answers
<1> HIDE DEF outcome
<1>4. /\ verdict' = [verdict EXCEPT ![pending] = outcome] /\ pending' = NULL /\ selected' = {}
      /\ activeEvent' \in {NULL, activeEvent} /\ UNCHANGED <<user, session, uncertain>>
  BY <1>1 DEF Settle
<1>5. TypeOK' /\ SessionSound'
  BY <1>1, <1>2, <1>4 DEF IInv, TypeOK, LedgerTypeOK, SessionSound, ledger, hours
<1>6. ClicksCounted' /\ EntriesUnique' /\ BookingsAsked'
  BY <1>1, <1>4 DEF IInv, ClicksCounted, UsedKeys, EntriesUnique, BookingsAsked, AskedBy, ledger
<1>7. AttemptsSound'
  BY <1>1, <1>2, <1>4 DEF IInv, AttemptsSound, AskedBy
<1>8. PendingSound' /\ ReplySound'
  BY <1>1, <1>4 DEF PendingSound, ReplySound
<1>9. verdict'[pending] = outcome /\ \A k \in PageKeys \ {pending} : verdict'[k] = verdict[k]
  BY <1>2, <1>4 DEF IInv, TypeOK
<1>10. VerdictIsTrue' /\ DeclinedAtOnceIsFinal'
  <2>1. bookings' = bookings /\ inForce' = inForce /\ intents' = intents /\ uncertain' = uncertain
    BY <1>1, <1>4 DEF ledger
  <2>2. VerdictIsTrue'
    BY <1>3, <1>9, <2>1 DEF IInv, VerdictIsTrue, Mine
  <2>3. DeclinedAtOnceIsFinal'
    BY <1>3, <1>9, <2>1 DEF IInv, DeclinedAtOnceIsFinal, BookedFor
  <2>4. QED
    BY <2>2, <2>3
<1>11. QED
  BY <1>5, <1>6, <1>7, <1>8, <1>10 DEF IInv

\* An answer that proves nothing, or none: the intent is uncertain from now on.
LEMMA UncertainSound ==
  ASSUME IInv, TimeOut \/ (Receive /\ reply \notin {"created", "cancelled", "conflict"})
  PROVE  IInv'
<1>1. /\ awaiting # NULL /\ awaiting' = NULL /\ reply' = NULL
      /\ uncertain' = uncertain \union {pending}
      /\ UNCHANGED <<ledger, hours, viewing, activeEvent, intents, pending, verdict, sent, net, clicks>>
      /\ selected' \in {selected, {}}
  BY DEF TimeOut, Receive, Finally, KeepPending, Unauthorized, SignOut
<1>2. awaiting \in Attempt /\ awaiting.key = pending /\ pending \in PageKeys /\ pending # NULL
  BY <1>1, NullAssumption DEF IInv, TypeOK, PendingSound, Attempt
<1>3. \/ user' = user /\ session' = session
      \/ user' = NULL /\ session' = session + 1 /\ session = awaiting.session
  BY DEF TimeOut, Receive, KeepPending, Unauthorized, SignOut, SameSession
<1>4. awaiting.session \in 1..MaxSessions
  BY <1>2 DEF Attempt
<1>5. TypeOK' /\ SessionSound'
  <2>1. session' \in 0..MaxSessions + 1 /\ user' \in Customers \union {NULL} /\ SessionSound'
    BY <1>3, <1>4, PageAssumption DEF IInv, TypeOK, SessionSound
  <2>2. QED
    BY <1>1, <1>2, <2>1 DEF IInv, TypeOK, LedgerTypeOK, ledger, hours
<1>6. ClicksCounted' /\ EntriesUnique' /\ BookingsAsked'
  BY <1>1 DEF IInv, ClicksCounted, UsedKeys, EntriesUnique, BookingsAsked, AskedBy, ledger
<1>7. AttemptsSound'
  BY <1>1, <1>2 DEF IInv, AttemptsSound, AskedBy
<1>8. PendingSound' /\ ReplySound'
  BY <1>1 DEF IInv, PendingSound, ReplySound
<1>9. VerdictIsTrue' /\ DeclinedAtOnceIsFinal'
  BY <1>1 DEF IInv, VerdictIsTrue, DeclinedAtOnceIsFinal, BookedFor, ledger
<1>10. QED
  BY <1>5, <1>6, <1>7, <1>8, <1>9 DEF IInv

LEMMA StutterSound ==
  ASSUME IInv, UNCHANGED vars
  PROVE  IInv'
BY DEF vars, ledger, account, hours, panel, intent, wire, IInv, TypeOK, LedgerTypeOK, ClicksCounted, UsedKeys,
       EntriesUnique, BookingsAsked, AttemptsSound, AskedBy, SessionSound, PendingSound, ReplySound, Mine,
       BookedFor, VerdictIsTrue, DeclinedAtOnceIsFinal

LEMMA InitSound == Init => IInv
<1> SUFFICES ASSUME Init PROVE IInv
  OBVIOUS
<1>1. UsedKeys = {}
  BY DEF Init, UsedKeys
<1>2. ClicksCounted
  BY <1>1, FS_EmptySet DEF Init, ClicksCounted
<1>3. TypeOK /\ SessionSound
  BY PageAssumption DEF Init, LedgerInit, TypeOK, LedgerTypeOK, SessionSound
<1>4. QED
  BY <1>2, <1>3 DEF Init, LedgerInit, IInv, EntriesUnique, BookingsAsked, AttemptsSound, PendingSound,
                    ReplySound, VerdictIsTrue, DeclinedAtOnceIsFinal

--------------------------------------------------------------------------------
(* Theorems about the booking protocol *)

\* No step of the page, of the server or of anybody else leads out of the
\* invariant.
THEOREM ClientInvariance == Spec => []IInv
<1>1. IInv /\ [Next]_vars => IInv'
  BY PageSound, ReserveSound, RetrySound, ServeSound, RivalsSound, SettleSound, UncertainSound,
     StutterSound DEF Next
<1>2. QED
  BY <1>1, InitSound, PTL DEF Spec

\* However often an intent is retried, and however its attempts overtake each
\* other, every booking the page makes was asked for by a click of its own.
THEOREM AtMostOneBookingPerClick == Spec => []OneBookingPerClick
<1>1. ASSUME IInv
      PROVE  OneBookingPerClick
  <2> DEFINE made == UNION {BookedFor(k) : k \in PageKeys}
             key == [b \in made |-> b.key]
  <2>1. ASSUME NEW b \in made
        PROVE  b \in bookings /\ b.user \in Customers /\ b.key \in UsedKeys /\ AskedBy(b)
    <3>1. b \in bookings /\ b.user \in Customers /\ b.key \in PageKeys
      BY DEF BookedFor
    <3>2. AskedBy(b)
      BY <1>1, <3>1 DEF IInv, BookingsAsked
    <3>3. [user |-> b.user, event |-> b.event, seats |-> b.seats] \in Intent
      BY <1>1, <3>1 DEF IInv, TypeOK, LedgerTypeOK, Entry, Intent
    <3>4. QED
      BY <3>1, <3>2, <3>3, NullAssumption DEF AskedBy, UsedKeys
  <2>2. ASSUME NEW b \in made, NEW c \in made, b.key = c.key
        PROVE  b = c
    <3>1. [user |-> b.user, event |-> b.event, seats |-> b.seats]
          = [user |-> c.user, event |-> c.event, seats |-> c.seats]
      BY <2>1, <2>2 DEF AskedBy
    <3>2. b.user = c.user /\ b.event = c.event
      BY <3>1
    <3>3. b \in bookings /\ c \in bookings
      BY <2>1
    <3>4. QED
      BY <1>1, <2>2, <3>2, <3>3 DEF IInv, EntriesUnique
  <2> HIDE DEF made
  <2>3. key \in Injection(made, UsedKeys)
    BY <2>1, <2>2 DEF Injection, IsInjective
  <2>4. Cardinality(made) <= Cardinality(UsedKeys)
    BY <1>1, <2>3, FS_Injection DEF IInv, ClicksCounted
  <2>5. QED
    BY <1>1, <2>4 DEF IInv, ClicksCounted, OneBookingPerClick, made
<1>2. QED
  BY <1>1, ClientInvariance, PTL

\* What the page tells a customer of an intent is so.
THEOREM VerdictsAreTrue == Spec => []VerdictIsTrue
<1>1. IInv => VerdictIsTrue
  BY DEF IInv
<1>2. QED
  BY <1>1, ClientInvariance, PTL

\* A conflict at the first attempt of an intent is the end of it.
THEOREM FirstConflictIsFinal == Spec => []DeclinedAtOnceIsFinal
<1>1. IInv => DeclinedAtOnceIsFinal
  BY DEF IInv
<1>2. QED
  BY <1>1, ClientInvariance, PTL

\* No answer signs anybody out but for the token in use.
THEOREM SessionsEndByTheirOwnToken == Spec => ExpiryEndsItsSession
<1> DEFINE Ended == user # NULL /\ user' = NULL /\ awaiting # awaiting' => session \in expired
<1>1. ASSUME IInv, Next, user # NULL, user' = NULL, awaiting # awaiting'
      PROVE  session \in expired
  <2>1. Receive
    BY <1>1 DEF Next, Login, Logout, SignOut, Expire, OpenEvent, Start, EventLoaded, ClosePanel, Toggle, Reserve,
                Retry, Serve, ServeUnauthorized, ServeFailed, ServeReplay, ServeBook, ServeConflict, Served,
                Rivals, TimeOut, KeepPending, account, hours, panel, intent, wire
  <2>2. reply = "unauthorized" /\ awaiting.session = session
    BY <1>1, <2>1 DEF Receive, Settle, KeepPending, Unauthorized, SameSession
  <2>3. QED
    BY <1>1, <2>2, NullAssumption DEF IInv, TypeOK, ReplySound, Answers
<1>2. IInv /\ [Next]_vars => [Ended]_vars
  BY <1>1
<1>3. QED
  BY <1>2, ClientInvariance, PTL DEF ExpiryEndsItsSession, Spec

\* The page and the server change bookings only as the ledger allows: what the
\* booking transactions implement is all that the protocol needs of them.
THEOREM ClientKeepsLedger == Spec => LedgerSpec
<1>1. Init => LedgerInit
  BY DEF Init
<1>2. ASSUME IInv, [Next]_vars
      PROVE  [LedgerNext]_ledger
  <2>1. ASSUME NEW m \in net, Serve(m)
        PROVE  LedgerNext \/ UNCHANGED ledger
    <3>1. CASE ServeBook(m)
      <4>1. PICK r \in Reservations : Book([id |-> r, user |-> m.user, event |-> m.event,
                                            key |-> m.key, seats |-> m.seats])
        BY <3>1 DEF ServeBook
      <4>2. m \in Attempt
        BY <1>2, <2>1 DEF IInv, TypeOK
      <4>3. [id |-> r, user |-> m.user, event |-> m.event, key |-> m.key, seats |-> m.seats] \in Entry
        BY <4>2, PageAssumption DEF Attempt, Entry
      <4>4. QED
        BY <4>1, <4>3 DEF LedgerNext
    <3>2. CASE ServeUnauthorized(m) \/ ServeFailed(m) \/ ServeReplay(m) \/ ServeConflict(m)
      BY <3>2 DEF ServeUnauthorized, ServeFailed, ServeReplay, ServeConflict
    <3>3. QED
      BY <2>1, <3>1, <3>2 DEF Serve
  <2>2. CASE Rivals
    <3>1. \A b \in bookings : b.id \in Reservations
      BY <1>2 DEF IInv, TypeOK, LedgerTypeOK, Entry
    <3>2. QED
      BY <2>2, <3>1 DEF Rivals, LedgerNext
  <2>3. CASE \/ \E u \in Customers : Login(u)
             \/ Logout
             \/ \E n \in 1..MaxSessions : Expire(n)
             \/ \E e \in Events : OpenEvent(e) \/ Start(e)
             \/ EventLoaded \/ ClosePanel
             \/ \E s \in Seats : Toggle(s)
    BY <2>3 DEF Login, Logout, Expire, OpenEvent, Start, EventLoaded, ClosePanel, Toggle
  <2>4. CASE (\E k \in PageKeys : Reserve(k)) \/ Retry \/ Receive \/ TimeOut
    BY <2>4 DEF Reserve, Retry, Receive, TimeOut
  <2>5. CASE UNCHANGED vars
    BY <2>5 DEF vars
  <2>6. QED
    BY <1>2, <2>1, <2>2, <2>3, <2>4, <2>5 DEF Next
<1>3. QED
  BY <1>1, <1>2, ClientInvariance, PTL DEF Spec, LedgerSpec

--------------------------------------------------------------------------------
(* The seat map of module SeatListing, which reads the same ledger *)

\* The rows collected and those on their way are the seats of the event in their
\* order: a page is cut where the one before it ended, and a short one ends the
\* list.
PlacesSound(p) == viewed[p] # NoEvent =>
   LET order == Sorted(Members[viewed[p]])
       total == Cardinality(Members[viewed[p]])
   IN  /\ Len(seatMap[p]) <= total
       /\ \A i \in DOMAIN seatMap[p] : seatMap[p][i].seat = order[i]
       /\ at[p] = "done" => Len(seatMap[p]) = total
       /\ at[p] = "answer" =>
             /\ Len(seatMap[p]) + Len(fetched[p]) <= total
             /\ Len(fetched[p]) < PageSize => Len(seatMap[p]) + Len(fetched[p]) = total
             /\ \A i \in DOMAIN fetched[p] : fetched[p][i].seat = order[Len(seatMap[p]) + i]

\* The present is part of the past.
PastSound(p) == viewed[p] # NoEvent => \A s \in Seats :
   /\ Available(viewed[p], s) => TRUE \in past[p][s]
   /\ ~Available(viewed[p], s) => FALSE \in past[p][s]

\* What has been read was so when it was read, and what is shown follows from it.
ReadSound(p) ==
   /\ viewed[p] = NoEvent => seatMap[p] = <<>>
   /\ cancelled[p] => viewed[p] \in closed
   /\ \A i \in DOMAIN fetched[p] :
         /\ fetched[p][i].booked => FALSE \in past[p][fetched[p][i].seat]
         /\ ~fetched[p][i].booked => \/ TRUE \in past[p][fetched[p][i].seat]
                                     \/ viewed[p] \in closed \union begun
   /\ \A i \in DOMAIN seatMap[p] :
         /\ seatMap[p][i].available => \/ TRUE \in past[p][seatMap[p][i].seat]
                                       \/ viewed[p] \in closed
         /\ ~seatMap[p][i].available => FALSE \in past[p][seatMap[p][i].seat]

ReaderSound(p) == PlacesSound(p) /\ PastSound(p) /\ ReadSound(p)

\* The inductive invariant of the seat map.
MapInv == ListingTypeOK /\ \A p \in Readers : ReaderSound(p)

--------------------------------------------------------------------------------
(* Lists of seats and their pages *)

\* Places in a list of seats: each is taken, by one seat, and lower ones first.
LEMMA SeatRanks ==
  ASSUME NEW S \in SUBSET Nat, IsFiniteSet(S)
  PROVE  /\ Cardinality(S) \in Nat
         /\ \A s \in S : Earlier(S, s) \in 0..Cardinality(S) - 1
         /\ \A i \in 0..Cardinality(S) - 1 : \E s \in S : Earlier(S, s) = i
<1> DEFINE n == Cardinality(S)
           below(s) == {x \in S : x < s}
<1>1. n \in Nat /\ \A s \in S : s \in Int
  BY FS_CardinalityType
<1>2. ASSUME NEW s \in S
      PROVE  IsFiniteSet(below(s)) /\ Cardinality(below(s)) \in Nat /\ Cardinality(below(s)) < n
  <2>1. below(s) \in SUBSET S /\ below(s) # S
    BY <1>1
  <2>2. IsFiniteSet(below(s)) /\ Cardinality(below(s)) <= n /\ Cardinality(below(s)) # n
    BY <2>1, FS_Subset
  <2>3. Cardinality(below(s)) \in Nat
    BY <2>2, FS_CardinalityType
  <2>4. QED
    BY <1>1, <2>2, <2>3
<1>3. ASSUME NEW r \in S, NEW s \in S, r < s
      PROVE  Cardinality(below(r)) < Cardinality(below(s))
  <2>1. below(r) \in SUBSET below(s) /\ below(r) # below(s)
    <3>1. \A x \in S : x < r => x < s
      BY <1>1, <1>3
    <3>2. r \in below(s) /\ r \notin below(r)
      BY <1>1, <1>3
    <3>3. QED
      BY <3>1, <3>2
  <2>2. Cardinality(below(r)) <= Cardinality(below(s)) /\ Cardinality(below(r)) # Cardinality(below(s))
    BY <1>2, <2>1, FS_Subset
  <2>3. QED
    BY <1>2, <2>2
<1>4. \A s \in S : Earlier(S, s) = Cardinality(below(s))
  BY DEF Earlier
<1> HIDE DEF below, n
<1>5. \A s \in S : Earlier(S, s) \in 0..n - 1
  BY <1>1, <1>2, <1>4
<1>6. \A r, s \in S : r < s => Earlier(S, r) < Earlier(S, s)
  BY <1>3, <1>4
<1>7. ASSUME NEW r \in S, NEW s \in S, Earlier(S, r) = Earlier(S, s)
      PROVE  r = s
  <2>1. Earlier(S, r) \in Int /\ ~(r < s) /\ ~(s < r)
    BY <1>5, <1>6, <1>7
  <2>2. QED
    BY <1>1, <2>1
<1> DEFINE rank == [s \in S |-> Earlier(S, s)]
<1>8. rank \in Injection(S, 0..n - 1)
  <2>1. rank \in [S -> 0..n - 1]
    BY <1>5
  <2>2. QED
    BY <1>7, <2>1 DEF Injection, IsInjective
<1>9. IsFiniteSet(0..n - 1) /\ Cardinality(0..n - 1) = n
  BY <1>1, FS_Interval
<1>10. rank \in Surjection(S, 0..n - 1)
  BY <1>8, <1>9, FS_Injection DEF n
<1>11. \A i \in 0..n - 1 : \E s \in S : rank[s] = i
  BY <1>10 DEF Surjection
<1>12. QED
  BY <1>1, <1>5, <1>11 DEF n

\* The smaller one of two numbers.
LEMMA SmallerOfTwo ==
  ASSUME NEW a \in Int, NEW b \in Int
  PROVE  Min({a, b}) = IF a <= b THEN a ELSE b
<1> DEFINE m == IF a <= b THEN a ELSE b
<1>1. m \in {a, b} /\ \A y \in {a, b} : m <= y
  OBVIOUS
<1>2. \A x \in {a, b} : (\A y \in {a, b} : x <= y) => x = m
  OBVIOUS
<1>3. QED
  BY <1>1, <1>2 DEF Min

\* A page is cut from the list where it was asked for, and only the last one is
\* short.
LEMMA PageOfSeats ==
  ASSUME NEW e \in Events, NEW from \in 0..Cardinality(Members[e])
  PROVE  /\ Cardinality(Members[e]) \in Nat
         /\ Page(e, from) \in Seq(Members[e])
         /\ from + Len(Page(e, from)) <= Cardinality(Members[e])
         /\ Len(Page(e, from)) < PageSize => from + Len(Page(e, from)) = Cardinality(Members[e])
         /\ \A i \in DOMAIN Page(e, from) : Page(e, from)[i] = Sorted(Members[e])[from + i]
<1> DEFINE S == Members[e]
           rows == Page(e, from)
           n == Cardinality(S)
           h == Sorted(S)
           last == IF from + PageSize <= n THEN from + PageSize ELSE n
<1>1. rows = SubSeq(h, from + 1, Min({from + PageSize, Len(h)}))
  BY DEF Page, PageOf
<1>2. S \in SUBSET Nat /\ IsFiniteSet(S) /\ PageSize \in Nat \ {0}
  BY ListingAssumption
<1>3. /\ n \in Nat
      /\ \A i \in 0..n - 1 : \E s \in S : Earlier(S, s) = i
  BY <1>2, SeatRanks
<1>4. h \in [1..n -> S] /\ Len(h) = n
  <2>1. ASSUME NEW i \in 1..n
        PROVE  h[i] \in S
    <3>1. \E s \in S : Earlier(S, s) = i - 1
      BY <1>3
    <3>2. h[i] = CHOOSE s \in S : Earlier(S, s) = i - 1
      BY DEF Sorted
    <3>3. QED
      BY <3>1, <3>2
  <2>2. h = [i \in 1..n |-> h[i]]
    BY DEF Sorted
  <2>3. h \in [1..n -> S]
    BY <2>1, <2>2
  <2>4. QED
    BY <1>3, <2>3
<1> HIDE DEF S, n, h, rows
<1>5. from \in Nat /\ from <= n
  BY <1>3 DEF n, S
<1>6. rows = SubSeq(h, from + 1, last)
  <2>1. from + PageSize \in Int /\ Len(h) = n /\ n \in Int
    BY <1>2, <1>3, <1>4, <1>5
  <2>2. Min({from + PageSize, Len(h)}) = last
    BY <2>1, SmallerOfTwo
  <2>3. QED
    BY <1>1, <2>2
<1>7. last \in Int /\ from <= last /\ last <= n /\ (last - from < PageSize => last = n)
  BY <1>2, <1>3, <1>5
<1> HIDE DEF last
<1>8. /\ rows \in Seq(S)
      /\ Len(rows) = last - from
      /\ \A i \in 1..Len(rows) : rows[i] = h[from + i]
  <2>1. ASSUME NEW i \in from + 1..last
        PROVE  h[i] \in S
    <3>1. i \in 1..n
      BY <1>3, <1>5, <1>7
    <3>2. QED
      BY <1>4, <3>1
  <2>2. /\ rows \in Seq(S)
        /\ Len(rows) = IF from + 1 <= last THEN last - (from + 1) + 1 ELSE 0
        /\ \A i \in 1..last - (from + 1) + 1 : rows[i] = h[from + 1 + i - 1]
    BY <1>5, <1>6, <1>7, <2>1, SubSeqProperties
  <2>3. Len(rows) = last - from
    BY <1>5, <1>7, <2>2
  <2>4. QED
    BY <1>5, <1>7, <2>2, <2>3
<1>9. DOMAIN rows = 1..Len(rows)
  BY <1>8
<1>10. n \in Nat /\ from + Len(rows) <= n /\ (Len(rows) < PageSize => from + Len(rows) = n)
  BY <1>2, <1>3, <1>5, <1>7, <1>8
<1>11. QED
  BY <1>8, <1>9, <1>10 DEF n, S, h, rows

--------------------------------------------------------------------------------
(* Others book and cancel, and events begin *)

\* Events are closed for good.
LEMMA LedgerSteps ==
  ASSUME LedgerTypeOK, LedgerNext
  PROVE  LedgerTypeOK' /\ closed \subseteq closed'
<1>1. ASSUME NEW b \in Entry, Book(b)
      PROVE  LedgerTypeOK' /\ closed \subseteq closed'
  BY <1>1 DEF Book, LedgerTypeOK, Entry
<1>2. ASSUME NEW r \in Reservations, Withdraw(r)
      PROVE  LedgerTypeOK' /\ closed \subseteq closed'
  BY <1>2 DEF Withdraw, LedgerTypeOK
<1>3. ASSUME NEW e \in Events, Close(e)
      PROVE  LedgerTypeOK' /\ closed \subseteq closed'
  BY <1>3 DEF Close, LedgerTypeOK
<1>4. QED
  BY <1>1, <1>2, <1>3 DEF LedgerNext

\* Rows are of seats.
LEMMA RowsTyped ==
  ASSUME ListingTypeOK, NEW p \in Readers
  PROVE  /\ \A i \in DOMAIN fetched[p] : fetched[p][i].seat \in Seats /\ fetched[p][i].booked \in BOOLEAN
         /\ \A i \in DOMAIN seatMap[p] : seatMap[p][i].seat \in Seats /\ seatMap[p][i].available \in BOOLEAN
<1>1. fetched[p] \in Seq(Row) /\ seatMap[p] \in Seq(Shown)
  BY DEF ListingTypeOK
<1>2. /\ \A i \in DOMAIN fetched[p] : fetched[p][i] \in Row
      /\ \A i \in DOMAIN seatMap[p] : seatMap[p][i] \in Shown
  BY <1>1, ElementOfSeq
<1>3. QED
  BY <1>2 DEF Row, Shown

\* Whose browsing stands still keeps what it knows, while others go on.
LEMMA StandingSound ==
  ASSUME ListingTypeOK, NEW p \in Readers, PlacesSound(p), ReadSound(p),
         at'[p] = at[p], viewed'[p] = viewed[p], cancelled'[p] = cancelled[p],
         fetched'[p] = fetched[p], seatMap'[p] = seatMap[p],
         closed \subseteq closed', begun \subseteq begun',
         viewed[p] # NoEvent => \A s \in Seats : past[p][s] \subseteq past'[p][s]
  PROVE  PlacesSound(p)' /\ ReadSound(p)'
<1>1. PlacesSound(p)'
  BY DEF PlacesSound
<1>2. ReadSound(p)'
  <2>1. CASE viewed[p] = NoEvent
    <3>1. seatMap[p] = <<>> /\ fetched[p] = <<>> /\ viewed[p] \notin closed
      <4>1. seatMap[p] = <<>>
        BY <2>1 DEF ReadSound
      <4>2. at[p] = "idle" /\ (fetched[p] # <<>> => at[p] = "answer")
        <5>1. Standing(p)
          BY DEF ListingTypeOK
        <5>2. QED
          BY <2>1, <5>1 DEF Standing
      <4>3. viewed[p] \notin closed
        BY <2>1, ListingAssumption DEF ListingTypeOK, LedgerTypeOK
      <4>4. QED
        BY <4>1, <4>2, <4>3
    <3>2. QED
      BY <2>1, <3>1 DEF ReadSound
  <2>2. CASE viewed[p] # NoEvent
    <3>1. \A i \in DOMAIN fetched[p] : fetched[p][i].seat \in Seats
      BY RowsTyped
    <3>2. \A i \in DOMAIN seatMap[p] : seatMap[p][i].seat \in Seats
      BY RowsTyped
    <3>3. QED
      BY <2>2, <3>1, <3>2 DEF ReadSound
  <2>3. QED
    BY <2>1, <2>2
<1>3. QED
  BY <1>1, <1>2

LEMMA OthersSound ==
  ASSUME MapInv, Others
  PROVE  MapInv'
<1>1. /\ UNCHANGED <<at, viewed, cancelled, fetched, seatMap>>
      /\ closed \subseteq closed' /\ begun \subseteq begun' /\ begun' \subseteq Events /\ LedgerTypeOK'
  BY LedgerSteps DEF Others, browsing, MapInv, ListingTypeOK, LedgerTypeOK, ledger
<1>2. ASSUME NEW p \in Readers, NEW s \in Seats, viewed[p] # NoEvent
      PROVE  past'[p][s] = past[p][s] \union {Available(viewed[p], s)'}
  BY <1>2 DEF Others, Witness
<1>3. past' \in [Readers -> [Seats -> SUBSET BOOLEAN]]
  <2>1. ASSUME NEW p \in Readers, NEW s \in Seats
        PROVE  (IF viewed[p] = NoEvent THEN {} ELSE past[p][s] \union {Available(viewed[p], s)'}) \in SUBSET BOOLEAN
    <3>1. past[p][s] \in SUBSET BOOLEAN
      BY DEF MapInv, ListingTypeOK
    <3>2. Available(viewed[p], s)' \in BOOLEAN
      BY DEF Available
    <3>3. QED
      BY <3>1, <3>2, Zenon
  <2>2. QED
    BY <2>1 DEF Others, Witness
<1>4. ListingTypeOK'
  <2>1. \A p \in Readers : Standing(p)'
    BY <1>1 DEF MapInv, ListingTypeOK, Standing
  <2>2. QED
    BY <1>1, <1>3, <2>1 DEF MapInv, ListingTypeOK
<1>5. ASSUME NEW p \in Readers
      PROVE  ReaderSound(p)'
  <2>1. PlacesSound(p)' /\ ReadSound(p)'
    BY <1>1, <1>2, StandingSound DEF MapInv, ReaderSound
  <2>2. PastSound(p)'
    <3>1. ASSUME NEW s \in Seats, viewed[p] # NoEvent
          PROVE  /\ Available(viewed[p], s)' => TRUE \in past'[p][s]
                 /\ ~Available(viewed[p], s)' => FALSE \in past'[p][s]
      <4>1. past'[p][s] = past[p][s] \union {Available(viewed[p], s)'}
        BY <1>2, <3>1
      <4>2. Available(viewed[p], s)' \in BOOLEAN
        BY DEF Available
      <4>3. QED
        BY <4>1, <4>2, Zenon
    <3>2. QED
      BY <1>1, <3>1 DEF PastSound
  <2>3. QED
    BY <2>1, <2>2 DEF ReaderSound
<1>6. QED
  BY <1>4, <1>5 DEF MapInv

--------------------------------------------------------------------------------
(* A reader's own steps *)

\* They leave the other readers as they are.
LEMMA OneReader ==
  ASSUME MapInv, NEW p \in Readers, Outside, ListingTypeOK', ReaderSound(p)',
         \A q \in Readers : q # p =>
            /\ at'[q] = at[q] /\ viewed'[q] = viewed[q] /\ cancelled'[q] = cancelled[q]
            /\ fetched'[q] = fetched[q] /\ seatMap'[q] = seatMap[q] /\ past'[q] = past[q]
  PROVE  MapInv'
<1>1. bookings' = bookings /\ inForce' = inForce /\ closed' = closed /\ begun' = begun
  BY DEF Outside, ledger
<1>2. ASSUME NEW q \in Readers, q # p
      PROVE  ReaderSound(q)'
  <2>1. PlacesSound(q)' /\ ReadSound(q)'
    BY <1>1, <1>2, StandingSound DEF MapInv, ReaderSound
  <2>2. PastSound(q)'
    <3>1. \A s \in Seats : Available(viewed[q], s)' <=> Available(viewed[q], s)
      BY <1>1, <1>2 DEF Available, FreeSeats, Taken
    <3>2. PastSound(q)
      BY DEF MapInv, ReaderSound
    <3>3. QED
      BY <1>2, <3>1, <3>2 DEF PastSound
  <2>3. QED
    BY <2>1, <2>2 DEF ReaderSound
<1>3. QED
  BY <1>2 DEF MapInv

LEMMA BrowseSound ==
  ASSUME MapInv, NEW p \in Readers, NEW e \in Events, Browse(p, e)
  PROVE  MapInv'
<1>1. /\ at' = [at EXCEPT ![p] = "event"] /\ viewed' = [viewed EXCEPT ![p] = e]
      /\ seatMap' = [seatMap EXCEPT ![p] = <<>>] /\ fetched' = [fetched EXCEPT ![p] = <<>>]
      /\ cancelled' = [cancelled EXCEPT ![p] = FALSE]
      /\ past' = [past EXCEPT ![p] = [s \in Seats |-> {Available(e, s)}]]
      /\ bookings' = bookings /\ inForce' = inForce /\ closed' = closed /\ begun' = begun
  BY DEF Browse, Outside, ledger
<1>2. /\ LedgerTypeOK /\ begun \subseteq Events
      /\ at \in [Readers -> {"idle", "event", "rows", "answer", "done"}]
      /\ viewed \in [Readers -> Events \union {NoEvent}]
      /\ cancelled \in [Readers -> BOOLEAN]
      /\ fetched \in [Readers -> Seq(Row)] /\ seatMap \in [Readers -> Seq(Shown)]
      /\ past \in [Readers -> [Seats -> SUBSET BOOLEAN]]
  BY DEF MapInv, ListingTypeOK
<1>3. /\ at'[p] = "event" /\ viewed'[p] = e /\ seatMap'[p] = <<>> /\ fetched'[p] = <<>>
      /\ cancelled'[p] = FALSE /\ e # NoEvent
  BY <1>1, <1>2, ListingAssumption
<1>4. \A s \in Seats : past'[p][s] = {Available(e, s)} /\ Available(e, s) \in BOOLEAN
  <2>1. past'[p] = [s \in Seats |-> {Available(e, s)}]
    BY <1>1, <1>2
  <2>2. QED
    BY <2>1 DEF Available
<1>5. \A q \in Readers : q # p =>
            /\ at'[q] = at[q] /\ viewed'[q] = viewed[q] /\ cancelled'[q] = cancelled[q]
            /\ fetched'[q] = fetched[q] /\ seatMap'[q] = seatMap[q] /\ past'[q] = past[q]
  BY <1>1, <1>2
<1>6. ListingTypeOK'
  <2>1. /\ LedgerTypeOK' /\ begun' \subseteq Events
        /\ at' \in [Readers -> {"idle", "event", "rows", "answer", "done"}]
        /\ viewed' \in [Readers -> Events \union {NoEvent}]
        /\ cancelled' \in [Readers -> BOOLEAN]
    BY <1>1, <1>2 DEF LedgerTypeOK
  <2>2. fetched' \in [Readers -> Seq(Row)] /\ seatMap' \in [Readers -> Seq(Shown)]
    BY <1>1, <1>2
  <2>3. past' \in [Readers -> [Seats -> SUBSET BOOLEAN]]
    <3>1. [s \in Seats |-> {Available(e, s)}] \in [Seats -> SUBSET BOOLEAN]
      BY <1>4
    <3>2. QED
      BY <1>1, <1>2, <3>1
  <2>4. \A q \in Readers : Standing(q)'
    BY <1>3, <1>5 DEF MapInv, ListingTypeOK, Standing
  <2>5. QED
    BY <2>1, <2>2, <2>3, <2>4 DEF ListingTypeOK
<1>7. ReaderSound(p)'
  <2>1. Cardinality(Members[e]) \in Nat
    BY ListingAssumption, FS_CardinalityType
  <2>2. PlacesSound(p)'
    BY <1>3, <2>1 DEF PlacesSound
  <2>3. ASSUME NEW s \in Seats
        PROVE  /\ Available(e, s)' => TRUE \in past'[p][s]
               /\ ~Available(e, s)' => FALSE \in past'[p][s]
    <3>1. Available(e, s)' = Available(e, s)
      BY <1>1 DEF Available, FreeSeats, Taken
    <3>2. QED
      BY <1>4, <3>1, Zenon
  <2>4. PastSound(p)'
    BY <1>3, <2>3 DEF PastSound
  <2>5. ReadSound(p)'
    BY <1>3 DEF ReadSound
  <2>6. QED
    BY <2>2, <2>4, <2>5 DEF ReaderSound
<1>8. QED
  BY <1>5, <1>6, <1>7, OneReader DEF Browse

LEMMA AbandonSound ==
  ASSUME MapInv, NEW p \in Readers, Abandon(p)
  PROVE  MapInv'
<1>1. /\ at' = [at EXCEPT ![p] = "idle"] /\ viewed' = [viewed EXCEPT ![p] = NoEvent]
      /\ seatMap' = [seatMap EXCEPT ![p] = <<>>] /\ fetched' = [fetched EXCEPT ![p] = <<>>]
      /\ cancelled' = [cancelled EXCEPT ![p] = FALSE]
      /\ past' = [past EXCEPT ![p] = [s \in Seats |-> {}]]
      /\ bookings' = bookings /\ inForce' = inForce /\ closed' = closed /\ begun' = begun
  BY DEF Abandon, Outside, ledger
<1>2. /\ LedgerTypeOK /\ begun \subseteq Events
      /\ at \in [Readers -> {"idle", "event", "rows", "answer", "done"}]
      /\ viewed \in [Readers -> Events \union {NoEvent}]
      /\ cancelled \in [Readers -> BOOLEAN]
      /\ fetched \in [Readers -> Seq(Row)] /\ seatMap \in [Readers -> Seq(Shown)]
      /\ past \in [Readers -> [Seats -> SUBSET BOOLEAN]]
  BY DEF MapInv, ListingTypeOK
<1>3. /\ at'[p] = "idle" /\ viewed'[p] = NoEvent /\ seatMap'[p] = <<>> /\ fetched'[p] = <<>>
      /\ cancelled'[p] = FALSE
  BY <1>1, <1>2
<1>4. \A q \in Readers : q # p =>
            /\ at'[q] = at[q] /\ viewed'[q] = viewed[q] /\ cancelled'[q] = cancelled[q]
            /\ fetched'[q] = fetched[q] /\ seatMap'[q] = seatMap[q] /\ past'[q] = past[q]
  BY <1>1, <1>2
<1>5. ListingTypeOK'
  <2>1. /\ LedgerTypeOK' /\ begun' \subseteq Events
        /\ at' \in [Readers -> {"idle", "event", "rows", "answer", "done"}]
        /\ viewed' \in [Readers -> Events \union {NoEvent}]
        /\ cancelled' \in [Readers -> BOOLEAN]
    BY <1>1, <1>2 DEF LedgerTypeOK
  <2>2. /\ fetched' \in [Readers -> Seq(Row)] /\ seatMap' \in [Readers -> Seq(Shown)]
        /\ past' \in [Readers -> [Seats -> SUBSET BOOLEAN]]
    BY <1>1, <1>2
  <2>3. \A q \in Readers : Standing(q)'
    BY <1>3, <1>4 DEF MapInv, ListingTypeOK, Standing
  <2>4. QED
    BY <2>1, <2>2, <2>3 DEF ListingTypeOK
<1>6. ReaderSound(p)'
  BY <1>3 DEF ReaderSound, PlacesSound, PastSound, ReadSound
<1>7. QED
  BY <1>4, <1>5, <1>6, OneReader DEF Abandon

\* That the event is cancelled stays so.
LEMMA ReadEventSound ==
  ASSUME MapInv, NEW p \in Readers, ReadEvent(p)
  PROVE  MapInv'
<1>1. /\ at[p] = "event" /\ at' = [at EXCEPT ![p] = "rows"]
      /\ cancelled' = [cancelled EXCEPT ![p] = viewed[p] \in closed]
      /\ viewed' = viewed /\ fetched' = fetched /\ seatMap' = seatMap /\ past' = past
      /\ bookings' = bookings /\ inForce' = inForce /\ closed' = closed /\ begun' = begun
  BY DEF ReadEvent, Outside, ledger
<1>2. /\ at \in [Readers -> {"idle", "event", "rows", "answer", "done"}]
      /\ cancelled \in [Readers -> BOOLEAN]
  BY DEF MapInv, ListingTypeOK
<1>3. at'[p] = "rows" /\ cancelled'[p] = (viewed[p] \in closed)
  BY <1>1, <1>2
<1>4. \A q \in Readers : q # p =>
            /\ at'[q] = at[q] /\ viewed'[q] = viewed[q] /\ cancelled'[q] = cancelled[q]
            /\ fetched'[q] = fetched[q] /\ seatMap'[q] = seatMap[q] /\ past'[q] = past[q]
  BY <1>1, <1>2
<1>5. ListingTypeOK'
  <2>1. /\ at' \in [Readers -> {"idle", "event", "rows", "answer", "done"}]
        /\ cancelled' \in [Readers -> BOOLEAN]
    BY <1>1, <1>2
  <2>2. Standing(p)'
    <3>1. Standing(p)
      BY DEF MapInv, ListingTypeOK
    <3>2. QED
      BY <1>1, <1>3, <3>1 DEF Standing
  <2>3. \A q \in Readers : Standing(q)'
    BY <1>4, <2>2 DEF MapInv, ListingTypeOK, Standing
  <2>4. QED
    BY <1>1, <2>1, <2>3 DEF MapInv, ListingTypeOK, LedgerTypeOK
<1>6. ReaderSound(p)'
  <2>1. PlacesSound(p)'
    BY <1>1, <1>3 DEF MapInv, ReaderSound, PlacesSound
  <2>2. PastSound(p)'
    BY <1>1 DEF MapInv, ReaderSound, PastSound, Available, FreeSeats, Taken
  <2>3. ReadSound(p)'
    BY <1>1, <1>3 DEF MapInv, ReaderSound, ReadSound
  <2>4. QED
    BY <2>1, <2>2, <2>3 DEF ReaderSound
<1>7. QED
  BY <1>4, <1>5, <1>6, OneReader DEF ReadEvent

\* The rows read are the next ones of the event, and what they say of a booking
\* is so at this moment.
LEMMA ReadRowsSound ==
  ASSUME MapInv, NEW p \in Readers, ReadRows(p)
  PROVE  MapInv'
<1> DEFINE page == Page(viewed[p], Len(seatMap[p]))
           rows == [i \in DOMAIN page |-> [seat |-> page[i], booked |-> page[i] \in Claimed(viewed[p])]]
<1>1. /\ at[p] = "rows" /\ at' = [at EXCEPT ![p] = "answer"]
      /\ fetched' = [fetched EXCEPT ![p] = rows]
      /\ viewed' = viewed /\ cancelled' = cancelled /\ seatMap' = seatMap /\ past' = past
      /\ bookings' = bookings /\ inForce' = inForce /\ closed' = closed /\ begun' = begun
  BY DEF ReadRows, Outside, ledger
<1>2. /\ at \in [Readers -> {"idle", "event", "rows", "answer", "done"}]
      /\ fetched \in [Readers -> Seq(Row)] /\ seatMap[p] \in Seq(Shown)
      /\ viewed[p] \in Events \union {NoEvent} /\ Standing(p)
      /\ PlacesSound(p) /\ PastSound(p) /\ ReadSound(p)
  BY DEF MapInv, ListingTypeOK, ReaderSound
<1>3. viewed[p] \in Events /\ Members[viewed[p]] \subseteq Seats
  BY <1>1, <1>2, ListingAssumption DEF Standing
<1>4. PICK e \in Events : e = viewed[p]
  BY <1>3
<1>5. PICK from : from = Len(seatMap[p])
  OBVIOUS
<1>6. from \in 0..Cardinality(Members[e])
  <2>1. Cardinality(Members[e]) \in Nat
    BY ListingAssumption, FS_CardinalityType
  <2>2. from \in Nat
    BY <1>2, <1>5
  <2>3. from <= Cardinality(Members[e])
    BY <1>2, <1>4, <1>5, ListingAssumption DEF PlacesSound
  <2>4. QED
    BY <2>1, <2>2, <2>3
<1>7. page = Page(e, from)
  BY <1>4, <1>5
<1>8. /\ page \in Seq(Members[e])
      /\ from + Len(page) <= Cardinality(Members[e])
      /\ Len(page) < PageSize => from + Len(page) = Cardinality(Members[e])
      /\ \A i \in DOMAIN page : page[i] = Sorted(Members[e])[from + i]
  BY <1>6, <1>7, PageOfSeats
<1> HIDE DEF page
<1>9. /\ DOMAIN page = 1..Len(page) /\ Len(page) \in Nat
      /\ \A i \in DOMAIN page : page[i] \in Seats
  <2>1. DOMAIN page = 1..Len(page) /\ Len(page) \in Nat
    BY <1>8
  <2>2. \A i \in 1..Len(page) : page[i] \in Members[e]
    BY <1>8, ElementOfSeq
  <2>3. QED
    BY <1>3, <1>4, <2>1, <2>2
<1>10. \A i \in DOMAIN page : rows[i].seat = page[i] /\ (rows[i].booked <=> page[i] \in Claimed(e))
  BY <1>4
<1>11. rows \in Seq(Row) /\ DOMAIN rows = DOMAIN page /\ Len(rows) = Len(page)
  <2>1. rows \in [1..Len(page) -> Row]
    BY <1>9 DEF Row
  <2>2. rows \in Seq(Row) /\ DOMAIN rows = 1..Len(page)
    BY <1>9, <2>1
  <2>3. QED
    BY <1>9, <2>2
<1> HIDE DEF rows
<1>12. at'[p] = "answer" /\ fetched'[p] = rows
  BY <1>1, <1>2
<1>13. \A q \in Readers : q # p =>
            /\ at'[q] = at[q] /\ viewed'[q] = viewed[q] /\ cancelled'[q] = cancelled[q]
            /\ fetched'[q] = fetched[q] /\ seatMap'[q] = seatMap[q] /\ past'[q] = past[q]
  BY <1>1, <1>2
<1>14. ListingTypeOK'
  <2>1. /\ at' \in [Readers -> {"idle", "event", "rows", "answer", "done"}]
        /\ fetched' \in [Readers -> Seq(Row)]
    BY <1>1, <1>2, <1>11
  <2>2. Standing(p)'
    BY <1>1, <1>2, <1>12 DEF Standing
  <2>3. \A q \in Readers : Standing(q)'
    BY <1>13, <2>2 DEF MapInv, ListingTypeOK, Standing
  <2>4. QED
    BY <1>1, <2>1, <2>3 DEF MapInv, ListingTypeOK, LedgerTypeOK
<1>15. ReaderSound(p)'
  <2>1. PlacesSound(p)'
    <3>1. /\ \A i \in DOMAIN rows : rows[i].seat = Sorted(Members[e])[from + i]
          /\ from + Len(rows) <= Cardinality(Members[e])
          /\ Len(rows) < PageSize => from + Len(rows) = Cardinality(Members[e])
      BY <1>8, <1>10, <1>11
    <3>2. /\ Len(seatMap[p]) <= Cardinality(Members[e])
          /\ \A i \in DOMAIN seatMap[p] : seatMap[p][i].seat = Sorted(Members[e])[i]
      BY <1>2, <1>4, ListingAssumption DEF PlacesSound
    <3>3. viewed'[p] = e /\ seatMap'[p] = seatMap[p] /\ at'[p] = "answer" /\ fetched'[p] = rows
      BY <1>1, <1>4, <1>12
    <3>4. QED
      BY <1>5, <3>1, <3>2, <3>3 DEF PlacesSound
  <2>2. PastSound(p)'
    BY <1>1, <1>2 DEF PastSound, Available, FreeSeats, Taken
  <2>3. ReadSound(p)'
    <3>1. ASSUME NEW i \in DOMAIN rows
          PROVE  /\ rows[i].booked => FALSE \in past[p][rows[i].seat]
                 /\ ~rows[i].booked => \/ TRUE \in past[p][rows[i].seat]
                                       \/ e \in closed \union begun
      <4>1. PICK s \in Seats : s = page[i]
        BY <1>9, <1>11
      <4>2. rows[i].seat = s /\ (rows[i].booked <=> s \in Taken(e)) /\ s \in Members[e]
        <5>1. page[i] \in Members[e]
          BY <1>8, <1>9, <1>11, ElementOfSeq
        <5>2. QED
          BY <1>10, <1>11, <4>1, <5>1 DEF Claimed
      <4>3. /\ Available(e, s) => TRUE \in past[p][s]
            /\ ~Available(e, s) => FALSE \in past[p][s]
        BY <1>2, <1>4, ListingAssumption DEF PastSound
      <4>4. rows[i].booked => ~Available(e, s)
        BY <4>2 DEF Available, FreeSeats
      <4>5. ~rows[i].booked /\ e \notin closed \union begun => Available(e, s)
        BY <4>2 DEF Available, FreeSeats
      <4>6. QED
        BY <4>2, <4>3, <4>4, <4>5
    <3>2. QED
      BY <1>1, <1>2, <1>4, <1>12, <3>1 DEF ReadSound
  <2>4. QED
    BY <2>1, <2>2, <2>3 DEF ReaderSound
<1>16. QED
  BY <1>13, <1>14, <1>15, OneReader DEF ReadRows

\* The rows are appended to the map, and say no more of a seat than was so when
\* they were read, or is so now.
LEMMA AnswerSound ==
  ASSUME MapInv, NEW p \in Readers, AnswerPage(p)
  PROVE  MapInv'
<1> DEFINE rows == fetched[p]
           up == Upcoming(p)
           shown == [i \in DOMAIN rows |-> [seat |-> rows[i].seat, available |-> up /\ ~rows[i].booked]]
           n == Len(seatMap[p])
<1>1. /\ at[p] = "answer"
      /\ at' = [at EXCEPT ![p] = IF LastPage(rows) THEN "done" ELSE "event"]
      /\ seatMap' = [seatMap EXCEPT ![p] = seatMap[p] \o shown]
      /\ fetched' = [fetched EXCEPT ![p] = <<>>]
      /\ viewed' = viewed /\ cancelled' = cancelled /\ past' = past
      /\ bookings' = bookings /\ inForce' = inForce /\ closed' = closed /\ begun' = begun
  BY DEF AnswerPage, Outside, ledger
<1>2. /\ at \in [Readers -> {"idle", "event", "rows", "answer", "done"}]
      /\ fetched \in [Readers -> Seq(Row)] /\ seatMap \in [Readers -> Seq(Shown)]
      /\ viewed[p] \in Events \union {NoEvent} /\ Standing(p) /\ cancelled[p] \in BOOLEAN
      /\ PlacesSound(p) /\ PastSound(p) /\ ReadSound(p)
  BY DEF MapInv, ListingTypeOK, ReaderSound
<1>3. PICK e \in Events : e = viewed[p]
  BY <1>1, <1>2 DEF Standing
<1>4. rows \in Seq(Row) /\ seatMap[p] \in Seq(Shown)
  BY <1>2
<1>5. /\ \A i \in DOMAIN rows : rows[i].seat \in Seats /\ rows[i].booked \in BOOLEAN
      /\ DOMAIN rows = 1..Len(rows) /\ Len(rows) \in Nat
      /\ DOMAIN seatMap[p] = 1..n /\ n \in Nat
  BY <1>4, RowsTyped DEF MapInv
<1>6. up \in BOOLEAN
  BY DEF Upcoming
<1>7. \A i \in DOMAIN rows : shown[i].seat = rows[i].seat /\ (shown[i].available <=> up /\ ~rows[i].booked)
  OBVIOUS
<1> HIDE DEF rows, up, n
<1>8. shown \in Seq(Shown) /\ Len(shown) = Len(rows)
  <2>1. shown \in [1..Len(rows) -> Shown]
    BY <1>5, <1>6 DEF Shown
  <2>2. QED
    BY <1>5, <2>1
<1> HIDE DEF shown
<1>9. PICK map : map = seatMap[p] \o shown
  OBVIOUS
<1>10. /\ map \in Seq(Shown) /\ Len(map) = n + Len(rows) /\ DOMAIN map = 1..n + Len(rows)
       /\ \A i \in 1..n : map[i] = seatMap[p][i]
       /\ \A i \in 1..Len(rows) : map[n + i] = shown[i]
       /\ \A j \in DOMAIN map : j \in 1..n \/ \E i \in 1..Len(rows) : j = n + i
  <2>1. /\ map \in Seq(Shown) /\ Len(map) = Len(seatMap[p]) + Len(shown)
        /\ \A i \in 1..Len(seatMap[p]) + Len(shown) :
              map[i] = IF i <= Len(seatMap[p]) THEN seatMap[p][i] ELSE shown[i - Len(seatMap[p])]
    <3>1. /\ seatMap[p] \o shown \in Seq(Shown) /\ Len(seatMap[p] \o shown) = Len(seatMap[p]) + Len(shown)
          /\ \A i \in 1..Len(seatMap[p]) + Len(shown) : (seatMap[p] \o shown)[i] =
                IF i <= Len(seatMap[p]) THEN seatMap[p][i] ELSE shown[i - Len(seatMap[p])]
      BY <1>4, <1>8, ConcatProperties
    <3>2. QED
      BY <1>9, <3>1
  <2>2. DOMAIN map = 1..n + Len(rows) /\ Len(map) = n + Len(rows)
    BY <1>8, <2>1 DEF n
  <2>3. \A i \in 1..n + Len(rows) : map[i] = IF i <= n THEN seatMap[p][i] ELSE shown[i - n]
    BY <1>8, <2>1 DEF n
  <2>4. /\ \A i \in 1..n : map[i] = seatMap[p][i]
        /\ \A i \in 1..Len(rows) : map[n + i] = shown[i]
    BY <1>5, <2>3
  <2>5. ASSUME NEW j \in 1..n + Len(rows)
        PROVE  j \in 1..n \/ \E i \in 1..Len(rows) : j = n + i
    <3>1. j \in 1..n \/ (j - n \in 1..Len(rows) /\ j = n + (j - n))
      BY <1>5
    <3>2. QED
      BY <3>1
  <2>6. map \in Seq(Shown)
    BY <2>1
  <2>7. QED
    BY <2>2, <2>4, <2>5, <2>6
<1>11. /\ at'[p] = (IF LastPage(rows) THEN "done" ELSE "event")
       /\ fetched'[p] = <<>> /\ seatMap'[p] = map
  BY <1>1, <1>2, <1>9
<1>12. \A q \in Readers : q # p =>
            /\ at'[q] = at[q] /\ viewed'[q] = viewed[q] /\ cancelled'[q] = cancelled[q]
            /\ fetched'[q] = fetched[q] /\ seatMap'[q] = seatMap[q] /\ past'[q] = past[q]
  BY <1>1, <1>2
<1>13. ListingTypeOK'
  <2>1. at' \in [Readers -> {"idle", "event", "rows", "answer", "done"}]
    BY <1>1, <1>2
  <2>2. fetched' \in [Readers -> Seq(Row)] /\ seatMap' \in [Readers -> Seq(Shown)]
    BY <1>1, <1>2, <1>9, <1>10
  <2>3. Standing(p)'
    BY <1>1, <1>2, <1>11 DEF Standing
  <2>4. \A q \in Readers : Standing(q)'
    BY <1>12, <2>3 DEF MapInv, ListingTypeOK, Standing
  <2>5. QED
    BY <1>1, <2>1, <2>2, <2>4 DEF MapInv, ListingTypeOK, LedgerTypeOK
<1>14. PlacesSound(p)'
  <2>1. /\ n + Len(rows) <= Cardinality(Members[e])
        /\ Len(rows) < PageSize => n + Len(rows) = Cardinality(Members[e])
        /\ \A i \in 1..n : seatMap[p][i].seat = Sorted(Members[e])[i]
        /\ \A i \in 1..Len(rows) : rows[i].seat = Sorted(Members[e])[n + i]
    BY <1>1, <1>2, <1>3, <1>5, ListingAssumption DEF PlacesSound, n, rows
  <2>2. \A j \in DOMAIN map : map[j].seat = Sorted(Members[e])[j]
    <3>1. ASSUME NEW i \in 1..n
          PROVE  map[i].seat = Sorted(Members[e])[i]
      BY <1>10, <2>1
    <3>2. ASSUME NEW i \in 1..Len(rows)
          PROVE  map[n + i].seat = Sorted(Members[e])[n + i]
      BY <1>5, <1>7, <1>10, <2>1
    <3>3. QED
      BY <1>10, <3>1, <3>2
  <2>3. Len(map) <= Cardinality(Members[e]) /\ (LastPage(rows) => Len(map) = Cardinality(Members[e]))
    BY <1>10, <2>1 DEF LastPage
  <2>4. viewed'[p] = e /\ seatMap'[p] = map /\ at'[p] # "answer" /\ (at'[p] = "done" => LastPage(rows))
    BY <1>1, <1>3, <1>11
  <2>5. QED
    BY <2>2, <2>3, <2>4 DEF PlacesSound
<1>15. PastSound(p)'
  BY <1>1, <1>2 DEF PastSound, Available, FreeSeats, Taken
<1>16. ReadSound(p)'
  <2>1. ASSUME NEW i \in 1..Len(rows)
        PROVE  /\ map[n + i].available => TRUE \in past[p][map[n + i].seat] \/ e \in closed
               /\ ~map[n + i].available => FALSE \in past[p][map[n + i].seat]
    <3>1. /\ map[n + i].seat = rows[i].seat /\ rows[i].seat \in Seats
          /\ map[n + i].available <=> up /\ ~rows[i].booked
      BY <1>5, <1>7, <1>10
    <3>2. PICK s \in Seats : s = rows[i].seat
      BY <3>1
    <3>3. /\ rows[i].booked => FALSE \in past[p][s]
          /\ ~rows[i].booked => TRUE \in past[p][s] \/ e \in closed \union begun
      BY <1>2, <1>3, <1>5, <3>2 DEF ReadSound, rows
    <3>4. ~Available(e, s) => FALSE \in past[p][s]
      BY <1>2, <1>3, ListingAssumption DEF PastSound
    <3>5. up => e \notin begun
      BY <1>3 DEF up, Upcoming
    <3>6. ~up => ~Available(e, s)
      BY <1>2, <1>3 DEF up, Upcoming, ReadSound, Available, FreeSeats
    <3>7. QED
      BY <3>1, <3>2, <3>3, <3>4, <3>5, <3>6
  <2>2. ASSUME NEW i \in 1..n
        PROVE  /\ map[i].available => TRUE \in past[p][map[i].seat] \/ e \in closed
               /\ ~map[i].available => FALSE \in past[p][map[i].seat]
    BY <1>2, <1>3, <1>5, <1>10 DEF ReadSound
  <2>3. \A j \in DOMAIN map :
           /\ map[j].available => TRUE \in past[p][map[j].seat] \/ e \in closed
           /\ ~map[j].available => FALSE \in past[p][map[j].seat]
    BY <1>10, <2>1, <2>2
  <2>4. /\ viewed'[p] = e /\ e # NoEvent /\ seatMap'[p] = map /\ fetched'[p] = <<>>
        /\ past' = past /\ closed' = closed /\ cancelled' = cancelled
        /\ cancelled[p] => e \in closed
    BY <1>1, <1>2, <1>3, <1>11, ListingAssumption DEF ReadSound
  <2>5. \A j \in DOMAIN seatMap'[p] :
           /\ seatMap'[p][j].available => TRUE \in past'[p][seatMap'[p][j].seat] \/ viewed'[p] \in closed'
           /\ ~seatMap'[p][j].available => FALSE \in past'[p][seatMap'[p][j].seat]
    BY <2>3, <2>4
  <2>6. DOMAIN fetched'[p] = {}
    BY <2>4
  <2>7. QED
    BY <2>4, <2>5, <2>6 DEF ReadSound
<1>17. QED
  BY <1>12, <1>13, <1>14, <1>15, <1>16, OneReader DEF ReaderSound, AnswerPage

LEMMA ListingInitSound == ListingInit => MapInv
<1> SUFFICES ASSUME ListingInit PROVE MapInv
  OBVIOUS
<1>1. ASSUME NEW p \in Readers
      PROVE  /\ at[p] = "idle" /\ viewed[p] = NoEvent /\ cancelled[p] = FALSE
             /\ fetched[p] = <<>> /\ seatMap[p] = <<>>
  BY DEF ListingInit
<1>2. ListingTypeOK
  <2>1. \A p \in Readers : Standing(p)
    BY <1>1 DEF Standing
  <2>2. /\ fetched \in [Readers -> Seq(Row)] /\ seatMap \in [Readers -> Seq(Shown)]
        /\ past \in [Readers -> [Seats -> SUBSET BOOLEAN]]
    BY DEF ListingInit
  <2>3. QED
    BY <2>1, <2>2 DEF ListingInit, LedgerInit, ListingTypeOK, LedgerTypeOK
<1>3. ASSUME NEW p \in Readers
      PROVE  ReaderSound(p)
  <2>1. DOMAIN fetched[p] = {} /\ DOMAIN seatMap[p] = {}
    <3>1. fetched[p] = <<>> /\ seatMap[p] = <<>>
      BY <1>1
    <3>2. DOMAIN fetched[p] = {}
      BY <3>1
    <3>3. QED
      BY <3>1, <3>2
  <2>2. PlacesSound(p) /\ PastSound(p)
    BY <1>1 DEF PlacesSound, PastSound
  <2>3. ReadSound(p)
    BY <1>1, <2>1 DEF ReadSound
  <2>4. QED
    BY <2>2, <2>3 DEF ReaderSound
<1>4. QED
  BY <1>2, <1>3 DEF MapInv

LEMMA ListingStutterSound ==
  ASSUME MapInv, UNCHANGED listing
  PROVE  MapInv'
<1>1. /\ bookings' = bookings /\ inForce' = inForce /\ closed' = closed /\ begun' = begun /\ at' = at
      /\ viewed' = viewed /\ cancelled' = cancelled /\ fetched' = fetched /\ seatMap' = seatMap /\ past' = past
  BY DEF listing, ledger, browsing
<1>2. ListingTypeOK'
  BY <1>1 DEF MapInv, ListingTypeOK, LedgerTypeOK, Standing
<1>3. ASSUME NEW p \in Readers
      PROVE  ReaderSound(p)'
  <2>1. PlacesSound(p)' /\ ReadSound(p)'
    BY <1>1, StandingSound DEF MapInv, ReaderSound
  <2>2. PastSound(p)'
    BY <1>1 DEF MapInv, ReaderSound, PastSound, Available, FreeSeats, Taken
  <2>3. QED
    BY <2>1, <2>2 DEF ReaderSound
<1>4. QED
  BY <1>2, <1>3 DEF MapInv

--------------------------------------------------------------------------------
(* Theorems about the seat map *)

\* No page, no booking and no event that closes or begins leads out of the
\* invariant of the seat map, whatever happens between the two statements of a
\* page and between two pages.
THEOREM MapInvariance == ListingSpec => []MapInv
<1>1. MapInv /\ [ListingNext]_listing => MapInv'
  <2> SUFFICES ASSUME MapInv, [ListingNext]_listing PROVE MapInv'
    OBVIOUS
  <2>1. CASE Others
    BY <2>1, OthersSound
  <2>2. ASSUME NEW p \in Readers,
               \/ \E e \in Events : Browse(p, e)
               \/ ReadEvent(p) \/ ReadRows(p) \/ AnswerPage(p) \/ Abandon(p)
        PROVE  MapInv'
    BY <2>2, BrowseSound, ReadEventSound, ReadRowsSound, AnswerSound, AbandonSound
  <2>3. CASE UNCHANGED listing
    BY <2>3, ListingStutterSound
  <2>4. QED
    BY <2>1, <2>2, <2>3 DEF ListingNext
<1>2. QED
  BY <1>1, ListingInitSound, PTL DEF ListingSpec

\* A finished map lists every seat of its event once, and in order.
THEOREM SeatMapsAreComplete == ListingSpec => []MapComplete
<1>1. ASSUME MapInv
      PROVE  MapComplete
  <2>1. ASSUME NEW p \in Readers, at[p] = "done"
        PROVE  [i \in DOMAIN seatMap[p] |-> seatMap[p][i].seat] = Sorted(Members[viewed[p]])
    <3>1. viewed[p] # NoEvent
      BY <1>1, <2>1 DEF MapInv, ListingTypeOK, Standing
    <3>2. /\ Len(seatMap[p]) = Cardinality(Members[viewed[p]])
          /\ \A i \in DOMAIN seatMap[p] : seatMap[p][i].seat = Sorted(Members[viewed[p]])[i]
      BY <1>1, <2>1, <3>1 DEF MapInv, ReaderSound, PlacesSound
    <3>3. DOMAIN seatMap[p] = 1..Len(seatMap[p])
      BY <1>1 DEF MapInv, ListingTypeOK
    <3>4. DOMAIN Sorted(Members[viewed[p]]) = 1..Cardinality(Members[viewed[p]])
          /\ Sorted(Members[viewed[p]]) =
                [i \in 1..Cardinality(Members[viewed[p]]) |-> Sorted(Members[viewed[p]])[i]]
      BY DEF Sorted
    <3>5. QED
      BY <3>2, <3>3, <3>4
  <2>2. QED
    BY <1>1, <2>1 DEF MapComplete, MapInv
<1>2. QED
  BY <1>1, MapInvariance, PTL

\* What is shown of a seat was so at some moment since the browsing began, but
\* for seats released by the cancellation of the event.
THEOREM ShownRowsWereTrue == ListingSpec => []RowsWereTrue
<1>1. ASSUME MapInv
      PROVE  RowsWereTrue
  <2>1. ASSUME NEW p \in Readers, NEW i \in DOMAIN seatMap[p]
        PROVE  \/ seatMap[p][i].available \in past[p][seatMap[p][i].seat]
               \/ seatMap[p][i].available /\ viewed[p] \in closed
    <3>1. seatMap[p][i].available \in BOOLEAN
      BY <1>1, RowsTyped DEF MapInv
    <3>2. /\ seatMap[p][i].available => \/ TRUE \in past[p][seatMap[p][i].seat]
                                        \/ viewed[p] \in closed
          /\ ~seatMap[p][i].available => FALSE \in past[p][seatMap[p][i].seat]
      BY <1>1 DEF MapInv, ReaderSound, ReadSound
    <3>3. QED
      BY <3>1, <3>2, Zenon
  <2>2. QED
    BY <2>1 DEF RowsWereTrue
<1>2. QED
  BY <1>1, MapInvariance, PTL

\* Readers leave the ledger alone.
THEOREM ReadersKeepLedger == ListingSpec => LedgerSpec
<1>1. ListingInit => LedgerInit
  BY DEF ListingInit
<1>2. [ListingNext]_listing => [LedgerNext]_ledger
  BY DEF ListingNext, Others, Browse, ReadEvent, ReadRows, AnswerPage, Abandon, Outside, listing, ledger
<1>3. QED
  BY <1>1, <1>2, PTL DEF ListingSpec, LedgerSpec
================================================================================

----------------------------- MODULE BookingClient -----------------------------
(***************************************************************************)
(* The customer page (demo/booking.js, demo/auth.js) and what its booking  *)
(* requests do at the server: the protocol that makes one intended booking *)
(* out of several attempts.                                                *)
(*                                                                         *)
(* The page keeps one pending intent, with its key, until an answer tells  *)
(* it what became of it.  An attempt that fails, times out (15 s) or is    *)
(* answered 401 leaves the intent pending, to be submitted again under the *)
(* same key.  Giving up on an answer does not call the attempt back: the   *)
(* server may still serve it, and nothing orders two attempts under way.   *)
(* The server serves an attempt in one step of SeatLedger, as the booking  *)
(* transactions implement it.                                              *)
(*                                                                         *)
(* Limits.  One page; it is not reloaded (README, section on the demo:     *)
(* the page warns before it is left with a booking pending).  Seats are    *)
(* toggled whether or not their last listing is out of date.  Bounds:      *)
(* MaxAttempts, MaxSessions and the pools of keys and reservation ids.     *)
(***************************************************************************)
EXTENDS SeatLedger, Integers, FiniteSets

CONSTANTS Customers,     \* the users who log in on this page
          PageKeys,      \* what crypto.randomUUID() draws for this page
          MaxAttempts, MaxSessions, NULL

ASSUME PageAssumption == /\ Customers \subseteq Users
                         /\ PageKeys \subseteq Keys
                         /\ Members \in [Events -> SUBSET Seats]
                         /\ MaxAttempts \in Nat /\ MaxSessions \in Nat

VARIABLES
  user,         \* currentUser(); the token is there exactly when it is
  session,      \* sessionVersion
  expired,      \* the sessions whose token has expired
  started,      \* the events that have started, as the server sees it
  viewing,      \* currentEventId: the event whose panel is open
  activeEvent,  \* the event whose seats can be selected
  selected,     \* the seats selected
  intents,      \* intents[k]: what was asked for under key k
  pending,      \* the key of the unresolved intent
  uncertain,    \* the keys whose intent was marked uncertain
  sent,         \* number of attempts
  awaiting,     \* the attempt whose answer is awaited, if any (bookingBusy)
  net,          \* the attempts the server has yet to serve
  reply,        \* the answer on its way to the page
  verdict,      \* what the page last told the customer of each intent
  clicks        \* how often the customer pressed Reserve

account == <<user, session>>
hours == <<expired, started>>
panel == <<viewing, activeEvent, selected>>
intent == <<intents, pending, uncertain>>
wire == <<sent, awaiting, net, reply>>
vars == <<ledger, account, hours, panel, intent, wire, verdict, clicks>>

Intent == [user : Customers, event : Events, seats : SUBSET Seats]
Attempt == [n : 1..MaxAttempts, key : PageKeys, user : Customers, event : Events,
            seats : SUBSET Seats, session : 1..MaxSessions]
Answers == {"created", "cancelled", "conflict", "unauthorized", "error"}

ASSUME NullAssumption == /\ NULL \notin Customers /\ NULL \notin Events /\ NULL \notin PageKeys
                         /\ NULL \notin Intent /\ NULL \notin Attempt /\ NULL \notin Answers

Init == /\ LedgerInit
        /\ user = NULL /\ session = 0 /\ expired = {} /\ started = {}
        /\ viewing = NULL /\ activeEvent = NULL /\ selected = {}
        /\ intents = [k \in PageKeys |-> NULL] /\ pending = NULL /\ uncertain = {}
        /\ sent = 0 /\ awaiting = NULL /\ net = {} /\ reply = NULL
        /\ verdict = [k \in PageKeys |-> "none"]
        /\ clicks = 0

--------------------------------------------------------------------------------
(* The account: authchange clears the selection, never the pending intent *)

Login(u) == /\ user = NULL /\ session < MaxSessions
            /\ user' = u
            /\ session' = session + 1
            /\ selected' = {}
            /\ UNCHANGED <<ledger, hours, viewing, activeEvent, intent, wire, verdict, clicks>>

SignOut == /\ user' = NULL
           /\ session' = session + 1
           /\ selected' = {}

Logout == /\ user # NULL
          /\ SignOut
          /\ UNCHANGED <<ledger, hours, viewing, activeEvent, intent, wire, verdict, clicks>>

\* A token lives for access_token_minutes; only those in use matter.
Expire(n) == /\ n \in {m.session : m \in net} \union {session}
             /\ expired' = expired \union {n}
             /\ UNCHANGED <<ledger, account, started, panel, intent, wire, verdict, clicks>>

--------------------------------------------------------------------------------
(* The event panel *)

Unload == activeEvent' = NULL /\ selected' = {}

OpenEvent(e) == /\ viewing' = e
                /\ Unload
                /\ UNCHANGED <<ledger, account, hours, intent, wire, verdict, clicks>>

\* Of several loads only the latest counts (detailVersion).
EventLoaded == /\ viewing # NULL
               /\ activeEvent' = viewing
               /\ selected' = {}
               /\ UNCHANGED <<ledger, account, hours, viewing, intent, wire, verdict, clicks>>

ClosePanel == /\ viewing' = NULL
              /\ Unload
              /\ UNCHANGED <<ledger, account, hours, intent, wire, verdict, clicks>>

Toggle(s) == /\ pending = NULL /\ activeEvent # NULL /\ user # NULL
             /\ s \in Members[activeEvent]
             /\ selected' = IF s \in selected THEN selected \ {s} ELSE selected \union {s}
             /\ UNCHANGED <<ledger, account, hours, viewing, activeEvent, intent, wire, verdict, clicks>>

--------------------------------------------------------------------------------
(* Submitting *)

\* fetch: one more attempt under way, for whoever is logged in.
Send(k, i) == /\ sent < MaxAttempts
              /\ sent' = sent + 1
              /\ awaiting' = [n |-> sent + 1, key |-> k, user |-> user, event |-> i.event,
                              seats |-> i.seats, session |-> session]
              /\ net' = net \union {awaiting'}
              /\ UNCHANGED reply

Unused(k) == intents[k] = NULL

\* The customer presses Reserve: a new intent under a new key.
Reserve(k) == /\ pending = NULL /\ user # NULL /\ activeEvent # NULL /\ selected # {}
              /\ Unused(k)
              /\ LET i == [user |-> user, event |-> activeEvent, seats |-> selected]
                 IN  intents' = [intents EXCEPT ![k] = i] /\ Send(k, i)
              /\ pending' = k
              /\ verdict' = [verdict EXCEPT ![k] = "open"]
              /\ clicks' = clicks + 1
              /\ UNCHANGED <<ledger, account, hours, panel, uncertain>>

\* Mutant: whoever is logged in may resolve the intent.
RetryByAnyone ==
  /\ pending # NULL /\ awaiting = NULL /\ user # NULL
  /\ Send(pending, intents[pending])
  /\ UNCHANGED <<ledger, account, hours, panel, intent, verdict, clicks>>

\* Mutant: a retry draws a new key.
RetryUnderNewKey ==
  /\ pending # NULL /\ awaiting = NULL /\ user = intents[pending].user
  /\ \E k \in PageKeys : /\ Unused(k)
                         /\ intents' = [intents EXCEPT ![k] = intents[pending]]
                         /\ pending' = k
                         /\ Send(k, intents[pending])
  /\ UNCHANGED <<ledger, account, hours, panel, uncertain, verdict, clicks>>

\* submitPending again: by its own customer only, under the same key.
Retry == /\ pending # NULL /\ awaiting = NULL
         /\ user = intents[pending].user
         /\ Send(pending, intents[pending])
         /\ UNCHANGED <<ledger, account, hours, panel, intent, verdict, clicks>>

--------------------------------------------------------------------------------
(* The server *)

Stored(m) == {b \in bookings : <<b.user, b.event, b.key>> = <<m.user, m.event, m.key>>}

\* The attempt leaves the network; its answer reaches a page that still waits.
Served(m, answer) == /\ net' = net \ {m}
                     /\ reply' = IF awaiting = m THEN answer ELSE reply
                     /\ UNCHANGED <<account, hours, panel, intent, sent, awaiting, verdict, clicks>>

ServeUnauthorized(m) == /\ m.session \in expired
                        /\ Served(m, "unauthorized")
                        /\ UNCHANGED ledger

\* Rolled back, or never processed.
ServeFailed(m) == Served(m, "error") /\ UNCHANGED ledger

ServeReplay(m) == /\ m.session \notin expired
                  /\ \E b \in Stored(m) :
                        Served(m, IF b.seats # m.seats THEN "conflict"
                                  ELSE IF b.id \in inForce THEN "created" ELSE "cancelled")
                  /\ UNCHANGED ledger

\* An event starts, for whoever locks its row from now on; a booking that has
\* looked at the clock before, and commits after, was served before this step.
Start(e) == /\ started' = started \union {e}
            /\ UNCHANGED <<ledger, account, expired, panel, intent, wire, verdict, clicks>>

\* The answer to a commit may say it failed.
ServeBook(m) == /\ m.session \notin expired
                /\ Stored(m) = {} /\ m.event \notin started
                /\ \E r \in Reservations : Book([id |-> r, user |-> m.user, event |-> m.event,
                                                 key |-> m.key, seats |-> m.seats])
                /\ \E answer \in {"created", "error"} : Served(m, answer)

ServeConflict(m) == /\ m.session \notin expired
                    /\ Stored(m) = {}
                    /\ m.event \in started \/ ~(m.seats \subseteq FreeSeats(m.event))
                    /\ Served(m, "conflict")
                    /\ UNCHANGED ledger

Serve(m) == \/ ServeUnauthorized(m) \/ ServeFailed(m)
            \/ ServeReplay(m) \/ ServeBook(m) \/ ServeConflict(m)

\* Until the start other customers book, they and this page's customers cancel,
\* and organizers too.
Rivals == /\ \/ \E b \in Entry : /\ b.user \notin Customers /\ b.key \notin PageKeys
                                  /\ b.event \notin started /\ Book(b)
             \/ \E b \in bookings : b.event \notin started /\ Withdraw(b.id)
             \/ \E e \in Events \ started : Close(e)
          /\ UNCHANGED <<account, hours, panel, intent, wire, verdict, clicks>>

--------------------------------------------------------------------------------
(* The answer *)

Settle(outcome) == /\ verdict' = [verdict EXCEPT ![pending] = outcome]
                   /\ pending' = NULL
                   /\ selected' = {}
                   /\ activeEvent' = IF viewing = intents[pending].event THEN NULL ELSE activeEvent
                   /\ UNCHANGED <<user, session, uncertain>>

Told == IF reply = "created" THEN "booked" ELSE "withdrawn"

\* Mutant: a failure is shown and done with.
GiveUp == Settle("declined")

\* A failure proves nothing: the intent stays, with its key.
KeepPending == /\ uncertain' = uncertain \union {pending}
               /\ UNCHANGED <<user, session, selected, activeEvent, pending, verdict>>

\* Mutant: any 401 ends whatever session there is.
AnySession == TRUE

\* authRequest signs out only the session that the attempt was sent in.
SameSession == awaiting.session = session

Unauthorized == /\ IF SameSession THEN SignOut ELSE UNCHANGED <<user, session, selected>>
                /\ uncertain' = uncertain \union {pending}
                /\ UNCHANGED <<activeEvent, pending, verdict>>

Finally == awaiting' = NULL

\* The await ends with an answer, or with a lost one or an abort after 15 s.
Receive == /\ awaiting # NULL
           /\ \/ reply \in {"created", "cancelled"} /\ Settle(Told)
              \/ reply = "conflict" /\ Settle("declined")
              \/ reply = "unauthorized" /\ Unauthorized
              \/ reply = "error" /\ KeepPending
           /\ Finally
           /\ reply' = NULL
           /\ UNCHANGED <<ledger, hours, viewing, intents, sent, net, clicks>>

TimeOut == /\ awaiting # NULL
           /\ KeepPending
           /\ Finally
           /\ reply' = NULL
           /\ UNCHANGED <<ledger, hours, viewing, intents, sent, net, clicks>>

--------------------------------------------------------------------------------
(* Specification *)

Next == \/ \E u \in Customers : Login(u)
        \/ Logout
        \/ \E n \in 1..MaxSessions : Expire(n)
        \/ \E e \in Events : OpenEvent(e) \/ Start(e)
        \/ EventLoaded \/ ClosePanel
        \/ \E s \in Seats : Toggle(s)
        \/ \E k \in PageKeys : Reserve(k)
        \/ Retry
        \/ \E m \in net : Serve(m)
        \/ Rivals
        \/ Receive \/ TimeOut

Spec == Init /\ [][Next]_vars

--------------------------------------------------------------------------------
(* Properties *)

\* Types; only seats of the event on show are selected, and a pending key has
\* its intent.
TypeOK == /\ LedgerTypeOK
          /\ user \in Customers \union {NULL}
          /\ session \in 0..MaxSessions + 1
          /\ expired \subseteq 1..MaxSessions
          /\ started \subseteq Events
          /\ {viewing, activeEvent} \subseteq Events \union {NULL}
          /\ selected \subseteq IF activeEvent = NULL THEN {} ELSE Members[activeEvent]
          /\ intents \in [PageKeys -> Intent \union {NULL}]
          /\ pending # NULL => pending \in PageKeys /\ intents[pending] # NULL
          /\ uncertain \subseteq PageKeys
          /\ sent \in 0..MaxAttempts
          /\ net \subseteq Attempt
          /\ awaiting \in Attempt \union {NULL}
          /\ reply \in Answers \union {NULL}
          /\ verdict \in [PageKeys -> {"none", "open", "booked", "withdrawn", "declined"}]
          /\ clicks \in Nat

BookedFor(k) == {b \in bookings : b.key = k /\ b.user \in Customers}

\* However often an intent is retried, every booking the page makes was asked
\* for by a click of its own.
OneBookingPerClick == TypeOK /\ Cardinality(UNION {BookedFor(k) : k \in PageKeys}) <= clicks

\* When the page calls an intent booked, its customer has that booking, with the
\* seats asked for; when it calls it cancelled, the booking stays so.
VerdictIsTrue == \A k \in PageKeys :
   LET mine == {b \in bookings : b.key = k /\ [user |-> b.user, event |-> b.event,
                                               seats |-> b.seats] = intents[k]}
   IN  /\ verdict[k] = "booked" => mine # {}
       /\ verdict[k] = "withdrawn" => \E b \in mine : b.id \notin inForce

\* An intent declined at its first attempt is never booked.
DeclinedAtOnceIsFinal == \A k \in PageKeys :
   verdict[k] = "declined" /\ k \notin uncertain => BookedFor(k) = {}

\* A customer is signed out by an answer only when the token in use has expired:
\* an answer to an older session does not end the present one.
ExpiryEndsItsSession == [][user # NULL /\ user' = NULL /\ awaiting # awaiting'
                              => session \in expired]_vars

\* What README says: new bookings are blocked until the original outcome is
\* resolved.  Once the page takes new bookings, no earlier intent that it called
\* declined becomes one.
ResolvedBeforeNext == \A k \in PageKeys :
   pending = NULL /\ verdict[k] = "declined" => BookedFor(k) = {}
================================================================================

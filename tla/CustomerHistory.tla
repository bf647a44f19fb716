---------------------------- MODULE CustomerHistory ----------------------------
(***************************************************************************)
(* "My reservations" of the customer page (demo/booking.js): the history   *)
(* fetched page by page, the public metadata that enriches its cards, and  *)
(* the dialog that cancels a reservation.  Every answer may come late,     *)
(* after a newer load, a logout or another login, or not at all; the page  *)
(* tells answers apart by historyVersion and by who is logged in.          *)
(*                                                                         *)
(* The server keeps the bookings as SeatLedger says.  created_at is the    *)
(* start of the booking's transaction: a booking may appear behind younger *)
(* ones, so identifiers, numbered in the order of created_at, are drawn in *)
(* any order.  The start of an event is the moment from which whoever      *)
(* locks its row finds it started.                                         *)
(*                                                                         *)
(* Limits.  One page of one browser.  A token may expire at any time, so   *)
(* any request may be answered 401.  The two lookups of an event (event    *)
(* and seats), made, cached and forgotten together, count as one; what     *)
(* they say of an event is told apart by when they were made.  Of the two  *)
(* increments of historyVersion at authchange one is left.                 *)
(* Bound: MaxVersion.                                                      *)
(***************************************************************************)
EXTENDS SeatLedger, Integers, Sequences, FiniteSetsExt

CONSTANTS Customers,   \* the users who log in on this page
          PageSize,    \* historyPageSize
          MaxVersion, NULL

ASSUME HistoryAssumption == /\ Reservations \subseteq Nat
                            /\ Customers \subseteq Users
                            /\ PageSize \in Nat \ {0} /\ MaxVersion \in Nat

VARIABLES
  begun,       \* the events that have started
  user,        \* currentUser()
  version,     \* historyVersion
  session,     \* the version at which the present session began
  offset,      \* historyOffset
  view,        \* what history-status says
  loads,       \* the requests for a page of the history, with the answer if any
  shown,       \* the cards on the page
  cache,       \* the version whose load made the lookup cached for an event
  lookups,     \* the lookups under way
  waiting,     \* the cards that await one
  target,      \* cancellationTarget, while the dialog is open
  cancels,     \* cancellations the server has yet to serve
  awaiting,    \* the one whose answer is awaited (cancellationBusy)
  answer,      \* its answer
  told,        \* what the page last told its customer for certain of each
  unseen,      \* bookings there when page 1 was asked for, not shown since
  cleared      \* the version at the last Refresh before which there was a lookup

pageOf == <<version, offset, view, loads, shown>>
details == <<cache, lookups, waiting>>
wire == <<cancels, awaiting, answer>>
vars == <<ledger, begun, user, session, pageOf, details, target, wire, told, unseen, cleared>>

Row == [id : Reservations, event : Events, cancelled : BOOLEAN]
Card == [id : Reservations, event : Events, cancelled : BOOLEAN, lookup : 0..MaxVersion]
Target == [id : Reservations, event : Events, user : Customers]
Cancel == [id : Reservations, event : Events, user : Customers, version : 0..MaxVersion]
Answers == {"cancelled", "started", "unauthorized"}

ASSUME NullAssumption == /\ NULL \notin Customers /\ NULL \notin Target /\ NULL \notin Cancel
                         /\ NULL \notin Answers /\ \A n \in 0..PageSize : NULL \notin [1..n -> Row]

Init == /\ LedgerInit /\ begun = {}
        /\ user = NULL /\ session = 0
        /\ version = 0 /\ offset = 0 /\ view = "out" /\ loads = {} /\ shown = <<>>
        /\ cache = [e \in Events |-> 0] /\ lookups = {} /\ waiting = {}
        /\ target = NULL /\ cancels = {} /\ awaiting = NULL /\ answer = NULL
        /\ told = [r \in Reservations |-> "nothing"]
        /\ unseen = {} /\ cleared = 0

--------------------------------------------------------------------------------
(* The server *)

Mine(u) == {b \in bookings : b.user = u}

\* Of several bookings, how many are newer than r.
Newer(B, r) == Cardinality({b \in B : b.id > r})

\* Bookings, newest first.
Sorted(B) == [i \in 1..Cardinality(B) |-> CHOOSE b \in B : Newer(B, b.id) = i - 1]

\* Mutant: cancelled bookings are left out of the list.
HistoryInForce(u) == Sorted({b \in Mine(u) : b.id \in inForce})

\* list_reservations: newest first, whatever has become of them.
History(u) == Sorted(Mine(u))

Slice(u, from) == LET h == History(u)
                      rows == SubSeq(h, from + 1, Min({from + PageSize, Len(h)}))
                  IN  [i \in DOMAIN rows |-> [id |-> rows[i].id, event |-> rows[i].event,
                                              cancelled |-> rows[i].id \notin inForce]]

ServeList(l) == /\ l.rows = NULL
                /\ loads' = (loads \ {l}) \union {[l EXCEPT !.rows = Slice(l.user, l.offset)]}
                /\ UNCHANGED <<ledger, begun, user, session, version, offset, view, shown,
                               details, target, wire, told, unseen, cleared>>

\* The request leaves the network; its answer reaches a page that still waits,
\* or it is lost, or says no more than that something failed (NULL).
Answer(m, a) == /\ cancels' = cancels \ {m}
                /\ answer' = IF awaiting = m THEN a ELSE answer
                /\ UNCHANGED <<begun, user, session, pageOf, details, target, awaiting,
                               told, unseen, cleared>>

\* Mutant: the start is checked before the earlier cancellation is found.
StartFirst(b) == b.event \in begun

Refused(b) == b.id \in inForce /\ b.event \in begun

\* cancel_reservation: repeatable at any time; the first time, before the start.
ServeCancel(m) == \E b \in Mine(m.user) :
   /\ b.id = m.id
   /\ \/ Refused(b) /\ Answer(m, "started") /\ UNCHANGED ledger
      \/ ~Refused(b) /\ b.id \notin inForce /\ Answer(m, "cancelled") /\ UNCHANGED ledger
      \/ /\ ~Refused(b) /\ Withdraw(b.id)
         /\ \E a \in {"cancelled", NULL} : Answer(m, a)

ServeFailed(m) == /\ \E a \in {NULL, "unauthorized"} : Answer(m, a)
                  /\ UNCHANGED ledger

\* Bookings and cancellations made elsewhere, by these customers too.
Others == /\ \/ \E b \in Entry : b.event \notin begun /\ Book(b) /\ UNCHANGED begun
             \/ \E b \in bookings : b.event \notin begun /\ Withdraw(b.id) /\ UNCHANGED begun
             \/ \E e \in Events \ begun : Close(e) /\ UNCHANGED begun
             \/ \E e \in Events \ begun : begun' = begun \union {e} /\ UNCHANGED ledger
          /\ UNCHANGED <<user, session, pageOf, details, target, wire, told, unseen, cleared>>

--------------------------------------------------------------------------------
(* Loading a page *)

\* loadHistory: the list is emptied at once; without a customer nothing is asked.
Load(u, from) ==
  /\ version < MaxVersion
  /\ version' = version + 1
  /\ offset' = from
  /\ shown' = <<>>
  /\ view' = IF u = NULL THEN "out" ELSE "loading"
  /\ loads' = IF u = NULL THEN loads
              ELSE loads \union {[version |-> version', user |-> u, offset |-> from, rows |-> NULL]}
  /\ unseen' = IF u = NULL THEN {} ELSE IF from = 0 THEN {b.id : b \in Mine(u)} ELSE unseen

\* authchange: page 1 of the new customer, and no dialog.
AuthChange(u) == /\ user' = u
                 /\ Load(u, 0)
                 /\ session' = version'
                 /\ target' = NULL

Login(u) == /\ user = NULL /\ target = NULL
            /\ AuthChange(u)
            /\ UNCHANGED <<ledger, begun, details, wire, told, cleared>>

Logout == /\ user # NULL /\ target = NULL
          /\ AuthChange(NULL)
          /\ UNCHANGED <<ledger, begun, details, wire, told, cleared>>

Quiet == UNCHANGED <<ledger, begun, user, session, target, wire, told>>

Turn(from) == Load(user, from) /\ Quiet /\ UNCHANGED <<details, cleared>>

NextPage == /\ target = NULL /\ view = "loaded" /\ Len(shown) = PageSize
         /\ Turn(offset + PageSize)

PreviousPage == /\ target = NULL /\ view \in {"loaded", "failed"} /\ offset # 0
             /\ Turn(offset - PageSize)

\* Mutant: Refresh asks for the page again and keeps what is cached.
KeepCache == UNCHANGED cache

ClearCache == cache' = [e \in Events |-> 0]

Refresh == /\ target = NULL /\ user # NULL
           /\ ClearCache
           /\ Load(user, offset)
           /\ cleared' = IF lookups = {} /\ \A e \in Events : cache[e] = 0 THEN cleared ELSE version
           /\ Quiet
           /\ UNCHANGED <<lookups, waiting>>

\* refreshAvailability, as far as this part of the page goes.
Forget(e) == cache' = [cache EXCEPT ![e] = 0] /\ UNCHANGED <<lookups, waiting>>

\* submitPending got its booking: back to page 1.
BookingAnswered == /\ user # NULL
                   /\ \E b \in Mine(user) : Forget(b.event)
                   /\ Load(user, 0)
                   /\ Quiet
                   /\ UNCHANGED cleared

\* submitPending got its booking for a customer who has left, or was declined:
\* no page is asked for.
BookingDeclined == /\ \E e \in Events : Forget(e)
                   /\ UNCHANGED <<pageOf, unseen, cleared>>
                   /\ Quiet

Current(l) == l.version = version /\ l.user = user

Ignored(l) == ~Current(l) /\ UNCHANGED <<view, shown, details, unseen>>

Made(e) == [event |-> e, version |-> version]

\* The cards at once; each replaced when its lookup, an older one or its own,
\* is there.
Render(rows) ==
  LET lookup(e) == IF cache[e] = 0 THEN version ELSE cache[e]
      asked == {e \in {rows[i].event : i \in DOMAIN rows} : cache[e] = 0}
      card(i, v) == [id |-> rows[i].id, event |-> rows[i].event,
                     cancelled |-> rows[i].cancelled, lookup |-> v]
      late(i) == [event |-> rows[i].event, version |-> lookup(rows[i].event)] \in lookups'
  IN  /\ cache' = [e \in Events |-> IF e \in asked THEN version ELSE cache[e]]
      /\ lookups' = lookups \union {Made(e) : e \in asked}
      /\ shown' = [i \in DOMAIN rows |-> card(i, IF late(i) THEN 0 ELSE lookup(rows[i].event))]
      /\ waiting' = waiting \union
            {[version |-> version, user |-> user, at |-> i, card |-> card(i, lookup(rows[i].event))] :
                i \in {j \in DOMAIN rows : late(j)}}
      /\ unseen' = unseen \ {rows[i].id : i \in DOMAIN rows}
      /\ view' = "loaded"

Received(l) == /\ loads' = loads \ {l}
               /\ UNCHANGED <<version, offset, cleared>>

ListArrives(l) == /\ l.rows # NULL
                  /\ \/ Current(l) /\ Render(l.rows)
                     \/ Ignored(l)
                  /\ Received(l)
                  /\ Quiet

ListFails(l) == /\ \/ Current(l) /\ view' = "failed" /\ UNCHANGED <<shown, details, unseen>>
                   \/ Ignored(l)
                /\ Received(l)
                /\ Quiet

\* authRequest signs out the session the request was sent in, no other.
ListUnauthorized(l) == /\ l.version >= session /\ user # NULL
                       /\ version < MaxVersion
                       /\ user' = NULL /\ version' = version + 1 /\ session' = version'
                       /\ offset' = 0 /\ view' = "out" /\ shown' = <<>> /\ unseen' = {}
                       /\ target' = NULL
                       /\ loads' = loads \ {l}
                       /\ UNCHANGED <<ledger, begun, details, wire, told, cleared>>

--------------------------------------------------------------------------------
(* Metadata *)

\* Mutant: a late lookup replaces the card in that place, whosever it is.
PlaceTaken(w) == w.at \in DOMAIN shown

StillShown(w) == w.version = version /\ w.user = user

For(p) == {w \in waiting : w.card.event = p.event /\ w.card.lookup = p.version}

LookupArrives(p) ==
  /\ lookups' = lookups \ {p}
  /\ waiting' = waiting \ For(p)
  /\ shown' = [i \in DOMAIN shown |->
        IF \E w \in For(p) : w.at = i /\ StillShown(w)
        THEN (CHOOSE w \in For(p) : w.at = i /\ StillShown(w)).card ELSE shown[i]]
  /\ UNCHANGED <<cache, version, offset, view, loads, unseen, cleared>>
  /\ Quiet

\* What is cached for the event goes, a newer lookup's promise as well.
LookupFails(p) == /\ lookups' = lookups \ {p}
                  /\ waiting' = waiting \ For(p)
                  /\ cache' = [cache EXCEPT ![p.event] = 0]
                  /\ UNCHANGED <<pageOf, unseen, cleared>>
                  /\ Quiet

--------------------------------------------------------------------------------
(* Cancelling *)

\* The button of a card; showModal keeps the rest of the page out of reach.
AskCancel(c) == /\ target = NULL /\ awaiting = NULL
                /\ ~c.cancelled
                /\ target' = [id |-> c.id, event |-> c.event, user |-> user]
                /\ UNCHANGED <<ledger, begun, user, session, pageOf, details, wire, told,
                               unseen, cleared>>

\* Also while the request is under way, which it does not call back.
KeepReservation == /\ target # NULL /\ target' = NULL
                   /\ UNCHANGED <<ledger, begun, user, session, pageOf, details, wire, told,
                                  unseen, cleared>>

ConfirmCancel == /\ target # NULL /\ awaiting = NULL
                 /\ user = target.user
                 /\ awaiting' = [id |-> target.id, event |-> target.event, user |-> user,
                                 version |-> version]
                 /\ cancels' = cancels \union {awaiting'}
                 /\ answer' = NULL
                 /\ UNCHANGED <<ledger, begun, user, session, pageOf, details, target, told,
                                unseen, cleared>>

\* Mutant: the list is left as it is.
NoReload == UNCHANGED <<pageOf, unseen>>

Reload == Load(user, offset)

Tell(what) == told' = [told EXCEPT ![awaiting.id] = what]

\* Another customer is not told.
NotTold == /\ user # awaiting.user
           /\ UNCHANGED <<user, session, pageOf, details, target, told, unseen>>

Cancelled == /\ user = awaiting.user
             /\ target' = NULL
             /\ Tell("cancelled")
             /\ Forget(awaiting.event)
             /\ Reload
             /\ UNCHANGED <<user, session>>

\* The dialog stays as it is and offers the same cancellation again.
NotCancelled == /\ user = awaiting.user
                /\ IF answer = "started" THEN Tell("started") ELSE UNCHANGED told
                /\ Forget(awaiting.event)
                /\ Reload
                /\ UNCHANGED <<user, session, target>>

SameSession == awaiting.version >= session

CancelAnswered ==
  /\ awaiting # NULL
  /\ \/ answer = "cancelled" /\ (Cancelled \/ NotTold)
     \/ answer = "unauthorized" /\ SameSession /\ AuthChange(NULL) /\ UNCHANGED <<details, told>>
     \/ answer = "unauthorized" /\ ~SameSession /\ (NotCancelled \/ NotTold)
     \/ answer \in {NULL, "started"} /\ (NotCancelled \/ NotTold)
  /\ awaiting' = NULL /\ answer' = NULL
  /\ UNCHANGED <<ledger, begun, cancels, cleared>>

--------------------------------------------------------------------------------
Next == \/ Others
        \/ \E u \in Customers : Login(u)
        \/ Logout \/ NextPage \/ PreviousPage \/ Refresh \/ BookingAnswered \/ BookingDeclined
        \/ \E l \in loads : ServeList(l) \/ ListArrives(l) \/ ListFails(l) \/ ListUnauthorized(l)
        \/ \E p \in lookups : LookupArrives(p) \/ LookupFails(p)
        \/ \E i \in DOMAIN shown : AskCancel(shown[i])
        \/ KeepReservation \/ ConfirmCancel \/ CancelAnswered
        \/ \E m \in cancels : ServeCancel(m) \/ ServeFailed(m)

Spec == Init /\ [][Next]_vars

--------------------------------------------------------------------------------
(* Properties *)

\* Types; the offset is that of a page, and cards are shown of a loaded page
\* only.
TypeOK == /\ LedgerTypeOK /\ begun \subseteq Events
          /\ user \in Customers \union {NULL}
          /\ version \in 0..MaxVersion /\ session \in 0..version /\ cleared \in 0..version
          /\ offset \in {i * PageSize : i \in 0..MaxVersion}
          /\ view \in {"out", "loading", "loaded", "failed"}
          /\ view = "out" <=> user = NULL
          /\ shown \in Seq(Card) /\ (view # "loaded" => shown = <<>>)
          /\ \A l \in loads : l.version \in 1..version /\ l.user \in Customers
          /\ cache \in [Events -> 0..version]
          /\ lookups \subseteq [event : Events, version : 1..version]
          /\ \A w \in waiting : w.card \in Card
          /\ target # NULL => target.user = user
          /\ told \in [Reservations -> {"nothing", "cancelled", "started"}]
          /\ unseen \subseteq Reservations

\* Whatever arrives late, the cards are the logged in customer's own, each
\* booking once, newest first.
OwnNewestFirst ==
  /\ TypeOK
  /\ \A i \in DOMAIN shown : shown[i].id \in {b.id : b \in Mine(user)}
  /\ \A i, j \in DOMAIN shown : i < j => shown[i].id > shown[j].id

\* A customer who pages forward from page 1 to the last page has been shown
\* every booking there was at the start, however many were made or cancelled
\* in between.
WalkMissesNothing == view = "loaded" /\ Len(shown) < PageSize => unseen = {}

\* What the page says of a cancellation is so, however many attempts were lost
\* before or are still under way: a reservation said to be cancelled is, and
\* one whose event had started stays booked.
ToldIsSo == \A r \in Reservations : /\ told[r] = "cancelled" => r \notin inForce
                                    /\ told[r] = "started" => r \in inForce

\* Once the page has said that a reservation is cancelled, no card offers to
\* cancel it again.
NoContradiction == \A i \in DOMAIN shown :
   told[shown[i].id] = "cancelled" => shown[i].cancelled

\* After Refresh no card shows what was looked up before it.
FreshAfterRefresh == \A i \in DOMAIN shown :
   shown[i].lookup # 0 => shown[i].lookup > cleared
================================================================================

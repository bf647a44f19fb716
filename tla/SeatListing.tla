------------------------------ MODULE SeatListing ------------------------------
(***************************************************************************)
(* Browsing the seats of an event while others book and cancel.  The       *)
(* customer page fetches GET /events/{id}/seats page by page until a short *)
(* page (demo/api.js allPages); each page is a request of its own that     *)
(* runs two READ COMMITTED statements, the event and then the rows         *)
(* (services/events.py list_event_seats), so the bookings may change       *)
(* between any two of them.  They change as SeatLedger says, which the     *)
(* booking transactions implement; an operation that passed its check of   *)
(* the clock may still commit after the event's start.                     *)
(*                                                                         *)
(* Seats are ordered as by section, row and number, and known by position  *)
(* in that order.  past is a history variable: it remembers what was true  *)
(* of each seat since the browsing began.                                  *)
(***************************************************************************)
EXTENDS SeatLedger, Pages

CONSTANTS Readers,    \* customer pages
          PageSize,   \* rows asked for: 500 in the page
          NoEvent

ASSUME ListingAssumption == /\ PageSize \in Nat \ {0}
                            /\ Seats \subseteq Nat
                            /\ Members \in [Events -> SUBSET Seats]
                            /\ \A e \in Events : IsFiniteSet(Members[e])
                            /\ NoEvent \notin Events

VARIABLES begun,      \* the events whose start has passed
          at,         \* where each reader stands
          viewed,     \* the event it looks at
          cancelled,  \* event.cancelled_at is not None, as the first statement saw it
          fetched,    \* the rows of the second statement
          seatMap,    \* what the page has collected
          past        \* past[p][s]: the availability s has had since p began

browsing == <<at, viewed, cancelled, fetched, seatMap>>
listing == <<ledger, begun, browsing, past>>

Row == [seat : Seats, booked : BOOLEAN]
Shown == [seat : Seats, available : BOOLEAN]

\* The truth about a seat, at one moment.
Available(e, s) == e \notin begun /\ s \in FreeSeats(e)

ListingInit == /\ LedgerInit
               /\ begun = {}
               /\ at = [p \in Readers |-> "idle"]
               /\ viewed = [p \in Readers |-> NoEvent]
               /\ cancelled = [p \in Readers |-> FALSE]
               /\ fetched = [p \in Readers |-> <<>>]
               /\ seatMap = [p \in Readers |-> <<>>]
               /\ past = [p \in Readers |-> [s \in Seats |-> {}]]

Witness == past' = [p \in Readers |-> [s \in Seats |->
              IF viewed[p] = NoEvent THEN {} ELSE past[p][s] \union {Available(viewed[p], s)'}]]

Others == /\ \/ LedgerNext /\ UNCHANGED begun
             \/ \E e \in Events \ begun : begun' = begun \union {e} /\ UNCHANGED ledger
          /\ UNCHANGED browsing
          /\ Witness

Outside == UNCHANGED <<ledger, begun>>

\* showEvent: earlier responses are ignored from here on.
Browse(p, e) == /\ at' = [at EXCEPT ![p] = "event"]
                /\ viewed' = [viewed EXCEPT ![p] = e]
                /\ seatMap' = [seatMap EXCEPT ![p] = <<>>]
                /\ fetched' = [fetched EXCEPT ![p] = <<>>]
                /\ cancelled' = [cancelled EXCEPT ![p] = FALSE]
                /\ past' = [past EXCEPT ![p] = [s \in Seats |-> {Available(e, s)}]]
                /\ Outside

ReadEvent(p) == /\ at[p] = "event"
                /\ cancelled' = [cancelled EXCEPT ![p] = viewed[p] \in closed]
                /\ at' = [at EXCEPT ![p] = "rows"]
                /\ UNCHANGED <<viewed, fetched, seatMap, past>>
                /\ Outside

\* ORDER BY section, row, number LIMIT PageSize OFFSET the rows collected so far.
Page(e, offset) == PageOf(Members[e], offset, PageSize)

\* Mutant: the claims of cancelled bookings count, too.
EverClaimed(e) == UNION {b.seats : b \in {x \in bookings : x.event = e}}

\* The EXISTS subquery.
Claimed(e) == Taken(e)

ReadRows(p) ==
  /\ at[p] = "rows"
  /\ LET page == Page(viewed[p], Len(seatMap[p]))
     IN  fetched' = [fetched EXCEPT ![p] =
           [i \in DOMAIN page |-> [seat |-> page[i], booked |-> page[i] \in Claimed(viewed[p])]]]
  /\ at' = [at EXCEPT ![p] = "answer"]
  /\ UNCHANGED <<viewed, cancelled, seatMap, past>>
  /\ Outside

Upcoming(p) == ~cancelled[p] /\ viewed[p] \notin begun

\* Mutant: a page that is exactly full is taken for the last one.
NotOverfull(rows) == Len(rows) <= PageSize

LastPage(rows) == Len(rows) < PageSize

AnswerPage(p) ==
  /\ at[p] = "answer"
  /\ LET rows == fetched[p]
         shown == [i \in DOMAIN rows |->
                     [seat |-> rows[i].seat, available |-> Upcoming(p) /\ ~rows[i].booked]]
     IN  /\ seatMap' = [seatMap EXCEPT ![p] = @ \o shown]
         /\ at' = [at EXCEPT ![p] = IF LastPage(rows) THEN "done" ELSE "event"]
  /\ fetched' = [fetched EXCEPT ![p] = <<>>]
  /\ UNCHANGED <<viewed, cancelled, past>>
  /\ Outside

\* One failed page fails the whole map; closing the panel discards it as well.
Abandon(p) == /\ at[p] # "idle"
              /\ at' = [at EXCEPT ![p] = "idle"]
              /\ viewed' = [viewed EXCEPT ![p] = NoEvent]
              /\ cancelled' = [cancelled EXCEPT ![p] = FALSE]
              /\ fetched' = [fetched EXCEPT ![p] = <<>>]
              /\ seatMap' = [seatMap EXCEPT ![p] = <<>>]
              /\ past' = [past EXCEPT ![p] = [s \in Seats |-> {}]]
              /\ Outside

ListingNext == \/ Others
               \/ \E p \in Readers : \/ \E e \in Events : Browse(p, e)
                                     \/ ReadEvent(p) \/ ReadRows(p) \/ AnswerPage(p) \/ Abandon(p)

ListingSpec == ListingInit /\ [][ListingNext]_listing

--------------------------------------------------------------------------------
\* Which of a page's variables hold something when.
Standing(p) == /\ viewed[p] = NoEvent <=> at[p] = "idle"
               /\ fetched[p] # <<>> => at[p] = "answer"

\* Types.
ListingTypeOK == /\ LedgerTypeOK
                 /\ begun \subseteq Events
                 /\ at \in [Readers -> {"idle", "event", "rows", "answer", "done"}]
                 /\ viewed \in [Readers -> Events \union {NoEvent}]
                 /\ \A p \in Readers : Standing(p)
                 /\ cancelled \in [Readers -> BOOLEAN]
                 /\ fetched \in [Readers -> Seq(Row)] /\ seatMap \in [Readers -> Seq(Shown)]
                 /\ past \in [Readers -> [Seats -> SUBSET BOOLEAN]]

\* Pages fetched one after the other fit together, whatever happens between
\* them: a finished map lists every seat of the event once, and in order.
MapComplete == ListingTypeOK /\ \A p \in Readers : at[p] = "done" =>
   [i \in DOMAIN seatMap[p] |-> seatMap[p][i].seat] = Sorted(Members[viewed[p]])

\* What is shown of a seat was true at some moment since the browsing began: it
\* was unavailable if shown so, a withdrawn booking does not keep it from being
\* sold; it was available if shown so, while the event is not cancelled.
RowsWereTrue == \A p \in Readers : \A i \in DOMAIN seatMap[p] :
   LET row == seatMap[p][i]
   IN  row.available \in past[p][row.seat] \/ (row.available /\ viewed[p] \in closed)

\* What README and docstring say: the seats of a cancelled event report
\* unavailable, and event and bookings are read together.  A seat that has been
\* unavailable all along, sold until the event was cancelled, is never shown as
\* available.
NeverFreeNeverOffered == \A p \in Readers : \A i \in DOMAIN seatMap[p] :
   seatMap[p][i].available => TRUE \in past[p][seatMap[p][i].seat]
================================================================================

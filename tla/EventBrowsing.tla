----------------------------- MODULE EventBrowsing -----------------------------
(***************************************************************************)
(* Event discovery: the list of the public page (demo/app.js browse), page *)
(* by page, over GET /events (services/events.py list_events), while       *)
(* organizers create, rename and cancel events and time passes.  Results   *)
(* overtaken by a newer submission are told apart by browseVersion.        *)
(*                                                                         *)
(* Events are numbered in the order of the list, by starts_at and id, and  *)
(* the clock counts in events: those up to clock have started.  Of the     *)
(* filters, venue_id, starts_from and starts_before look at what is fixed  *)
(* when an event is created; together they admit a fixed set of events.    *)
(* A text filter admits the names that contain it.  The page never asks    *)
(* for cancelled events.                                                   *)
(*                                                                         *)
(* The services look at the clock before they commit (events.py:30, 111,   *)
(* 151), so an event may appear, change its name or be cancelled when it   *)
(* has started, and an answer with an older cutoff may list it still.      *)
(*                                                                         *)
(* ever, unseen and left are history variables; a walk begins when page 1  *)
(* is asked for, and left counts no further than there are events to miss. *)
(* Bounds: MaxVersion, and MaxRequests under way at once.                  *)
(***************************************************************************)
EXTENDS Pages, Functions

CONSTANTS MaxEvents,   \* the number of events there may be
          Names,
          Filters,     \* what may be submitted
          DefaultFilter,
          PageSize, MaxVersion, MaxRequests, CANCELLED, NULL

Events == 1..MaxEvents

ASSUME BrowsingAssumption ==
          /\ MaxEvents \in Nat /\ PageSize \in Nat \ {0} /\ MaxVersion \in Nat \ {0}
          /\ Filters \subseteq [names : SUBSET Names, among : SUBSET Events, upcoming : BOOLEAN]
          /\ DefaultFilter \in Filters
          /\ CANCELLED \notin Names /\ NULL \notin Names \union {CANCELLED}

\* What a request asks for, and since when.
Query == [filter : Filters, offset : {i * PageSize : i \in 0..MaxVersion}, since : 0..MaxEvents]

ASSUME NullAssumption == /\ NULL \notin Query
                         /\ \A n \in 0..MaxEvents : NULL \notin [1..n -> Events]

VARIABLES
  name,        \* of each event, NULL before it is created, CANCELLED in the end
  late,        \* the events in force that were changed after their start
  clock,
  applied,     \* appliedFilters
  offset,
  version,     \* browseVersion
  requests,    \* those under way, with the answer if any
  view,        \* what browse-status says
  shown,       \* the cards
  ever,        \* events an answer to the last request might have listed
  unseen,      \* events on the list all through the walk that it has not shown
  left         \* how many have left it meanwhile, or appeared after their start

world == <<name, late, clock>>
page == <<applied, offset, version, requests, view, shown>>
walk == <<ever, unseen, left>>
vars == <<world, page, walk>>

\* The conditions of the query, before LIMIT and OFFSET.
Matches(f, e, now) == /\ name[e] \in f.names
                      /\ e \in f.among
                      /\ f.upcoming => e > now

Listed(f) == {e \in Events : Matches(f, e, clock)}

\* ORDER BY starts_at, id LIMIT PageSize OFFSET from.
Slice(f, from, now) == PageOf({e \in Events : Matches(f, e, now)}, from, PageSize)

\* What an answer to the newest request may list: its cutoff is not before the
\* request was made.
Listable == Listed(applied) \union
            {e \in Events : \E r \in requests : /\ r.version = version /\ r.rows = NULL
                                               /\ Matches(applied, e, r.query.since)}

\* A request asks for something until it is served, and brings rows from then on.
Request(v, f, from) == [version |-> v, rows |-> NULL,
                        query |-> [filter |-> f, offset |-> from, since |-> clock]]

\* The page asks for events as soon as it is opened.
Init == /\ name \in [Events -> Names \union {NULL}]
        /\ late = {} /\ clock = 0
        /\ applied = DefaultFilter /\ offset = 0 /\ version = 1
        /\ requests = {Request(1, applied, 0)}
        /\ view = "loading" /\ shown = <<>>
        /\ ever = Listed(applied) /\ unseen = Listed(applied) /\ left = 0

--------------------------------------------------------------------------------
(* Organizers and time *)

\* A change may commit after the start if the clock was looked at before.  Then
\* it is the last one: changes to an event hold its row, and one that gets the
\* row, or finds the event created, after its start is refused.
Commit(e, n) == /\ e > clock \/ e \notin late
                /\ name' = [name EXCEPT ![e] = n]
                /\ late' = IF e > clock \/ n = CANCELLED THEN late ELSE late \union {e}
                /\ UNCHANGED clock

Create(e, n) == name[e] = NULL /\ Commit(e, n)

Rename(e, n) == name[e] \in Names \ {n} /\ Commit(e, n)

Cancel(e) == name[e] \in Names /\ Commit(e, CANCELLED)

\* Several events may start at the same instant.
Tick == /\ clock' \in clock + 1..MaxEvents
        /\ UNCHANGED <<name, late>>

World == /\ \/ \E e \in Events, n \in Names : Create(e, n) \/ Rename(e, n)
            \/ \E e \in Events : Cancel(e)
            \/ Tick
         /\ UNCHANGED page
         /\ LET after == Listed(applied)'
                gone == left + Cardinality((Listed(applied) \union (Listable' \ Listable)) \ after)
            IN  /\ ever' = IF view = "loading" THEN ever \union Listable' ELSE ever
                /\ unseen' = unseen \intersect after
                /\ left' = IF gone < Cardinality(unseen') THEN gone ELSE Cardinality(unseen')

--------------------------------------------------------------------------------
(* The page *)

Browse(f, from) == /\ version < MaxVersion /\ Cardinality(requests) < MaxRequests
                   /\ version' = version + 1
                   /\ applied' = f /\ offset' = from
                   /\ requests' = requests \union {Request(version', f, from)}
                   /\ view' = "loading" /\ shown' = <<>>
                   /\ ever' = Listed(f)
                   /\ UNCHANGED world

NewWalk(f) == unseen' = Listed(f) /\ left' = 0

Submit(f) == Browse(f, 0) /\ NewWalk(f)

\* Mutant: Next is offered after a failure as well.
NextAfterFailure ==
  /\ view = "failed" \/ (view = "loaded" /\ Len(shown) = PageSize)
  /\ Browse(applied, offset + PageSize)
  /\ UNCHANGED <<unseen, left>>

NextPage == /\ view = "loaded" /\ Len(shown) = PageSize
         /\ Browse(applied, offset + PageSize)
         /\ UNCHANGED <<unseen, left>>

PreviousPage == /\ view \in {"loaded", "failed"} /\ offset # 0
             /\ Browse(applied, offset - PageSize)
             /\ UNCHANGED <<unseen, left>>

\* The cutoff is read before the statement runs, after the request was made.
Serve(r) == /\ r.rows = NULL
            /\ \E now \in r.query.since..clock :
                  LET rows == Slice(r.query.filter, r.query.offset, now)
                  IN  requests' = (requests \ {r}) \union {[r EXCEPT !.rows = rows, !.query = NULL]}
            /\ UNCHANGED <<world, applied, offset, version, view, shown, walk>>

\* Mutant: what arrives is shown, whoever asked for it.
AnyVersion(r) == TRUE

\* Mutant: the count has moved on before it is looked at.
Overtaken(r) == r.version > version

Latest(r) == r.version = version

Dropped(r) == /\ requests' = requests \ {r}
              /\ UNCHANGED <<world, applied, offset, version, ever, left>>

Arrive(r) == /\ r.rows # NULL
             /\ IF Latest(r) THEN /\ view' = "loaded" /\ shown' = r.rows
                                  /\ unseen' = unseen \ Range(r.rows)
                ELSE UNCHANGED <<view, shown, unseen>>
             /\ Dropped(r)

\* A failure, a refused filter, or no answer within 15 s.
Fail(r) == /\ IF Latest(r) THEN view' = "failed" ELSE UNCHANGED view
           /\ Dropped(r)
           /\ UNCHANGED <<shown, unseen>>

Next == \/ World
        \/ \E f \in Filters : Submit(f)
        \/ NextPage \/ PreviousPage
        \/ \E r \in requests : Serve(r) \/ Arrive(r) \/ Fail(r)

Spec == Init /\ [][Next]_vars

--------------------------------------------------------------------------------
\* Types; offsets are those of pages, and only a loaded page has cards.
TypeOK == /\ name \in [Events -> Names \union {NULL, CANCELLED}]
          /\ late \subseteq Events /\ clock \in 0..MaxEvents
          /\ applied \in Filters
          /\ offset \in {i * PageSize : i \in 0..MaxVersion}
          /\ version \in 1..MaxVersion
          /\ \A r \in requests : r.version \in 1..version /\ (r.rows = NULL <=> r.query # NULL)
          /\ view \in {"loading", "loaded", "failed"}
          /\ shown \in Seq(Events) /\ (view # "loaded" => shown = <<>>)
          /\ unseen \subseteq Events

\* Whatever arrives or commits late, the cards are events that the filters last
\* submitted admitted at some time since they were asked for, none of them over
\* when they were if that was asked, soonest first.
CardsMatchFilters ==
  /\ TypeOK
  /\ \A i \in DOMAIN shown : shown[i] \in ever
  /\ \A i, j \in DOMAIN shown : i < j => shown[i] < shown[j]

\* Pages are cut by offset from a list that changes between them.  Still, who
\* pages on to the last page misses at most one event for each that has left
\* the list meanwhile, by starting, being cancelled or renamed, or that came on
\* it while a page was asked for and had started by then; other new events make
\* one see some twice, and miss none.
WalkMissesFew == view = "loaded" /\ Len(shown) < PageSize => Cardinality(unseen) <= left

\* The list never says "Loading" with nobody left to end it: the newest request
\* is still under way, and request() ends each within 15 s.
LoadingIsAwaited == view = "loading" => \E r \in requests : r.version = version
================================================================================

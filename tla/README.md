# A TLA+ model of the VenuePass API

VenuePass sells reserved seats: venue managers describe venues and their seats,
organizers create events at them, customers book and cancel. The service is a
FastAPI application on async SQLAlchemy and PostgreSQL at its default isolation,
READ COMMITTED, with an optional Redis for rate limits and a demo page in plain
JavaScript. Three things are hard in it. Transactions of several statements work on
the same rows at once, and any of them may fail between two statements. The page
cannot tell whether a request took effect, and its answers come late and out of
order. And the schema changes, in both directions, under a service in use.

This directory models those parts, checks them with TLC on small instances, and
proves the central results with TLAPS for instances of every size.

## 1. The system

| Component | State | Operations |
|---|---|---|
| Booking core (`services/reservations.py`, `services/events.py`) | `reservations`, `reservation_seats`, `events.cancelled_at`, `events.name/description`, the row lock of each event, the connections of the pool | create, cancel, cancel event, edit event |
| Venue administration and event creation (`services/venues.py`, `venue_access.py`, `seats.py`, `events.py create_event`) | `venues`, `seats`, `venue_organizers`, `events`, `event_seats`, the row lock of each venue | create venue, grant, revoke, add seats, create event |
| Seat browsing (`events.py list_event_seats`, `demo/api.js allPages`) | none stored; the page collects rows | list seats, page by page |
| Page: booking and session (`demo/booking.js`, `auth.js`, `api.js`) | user, token, session version, open event, selected seats, pending intent | log in and out, select, reserve, retry |
| Page: history and cancellation dialog (`demo/booking.js`, `reservations.py list_reservations`) | history page and version, cards, metadata cache, dialog | load, turn, refresh, cancel |
| Page: event discovery (`demo/app.js browse`, `events.py list_events`) | filters, browse version, cards | submit, turn |
| Rate limiter (`rate_limiting.py`) | a counter and an expiry per endpoint and address, in Redis | admit, refuse, fail closed |
| Accounts (`services/auth.py`, `users.py`, `cli.py`) | `users` | register, log in, promote |
| Tokens and permissions (`security.py`, `dependencies.py`) | none; the account is read anew by each request | authenticate, require a permission |
| Sessions and lifespan (`database.py`, `main.py`) | connection pool, Redis client | one session per request, closed at its end |
| Schema migrations (`alembic/env.py`, `alembic/versions`) | the revision, and rows under its constraints | upgrade, downgrade |
| Schemas, errors, health, configuration | | |

How they interact: requests of all kinds share the database and the connection pool
and nothing else. Everything that writes to an event or its bookings first locks the
event's row; everything that changes a venue's seats, its grants, or creates an event
from it first locks the venue's row. No request takes both locks. Promotions run in a
process of their own and take neither; so do migrations, whose first change of a table
locks it against the service. The page talks to the API over HTTP only; one intended
booking may be several requests, and one cancellation too. The limiter stands in front
of login and registration.

### What is hard, and what makes each part correct

The full list, with lines, is `hazards` in `PROJECT.json`. In short:

* **Booking.** Check and insertion are different statements; the decision rests on
  what was read under the lock and must still be true at the commit. Requests wait for the
  lock across the event's start and across its cancellation, and keep one of few
  connections while they wait; the refresh after a commit takes one again. Retries arrive
  concurrently with the original. Correct: no seat is sold twice, a key books once, claims and
  cancellation agree, history is never overwritten, every answer "ok" is stored, every
  request is answered, and, in one sentence, each operation takes effect at once.
* **Venue administration.** An event copies the seats of its venue. Correct: what it
  copies is what the venue has when the event appears, and its organizer has access then.
* **Seat browsing.** Two statements a page, many pages a map. Correct: the map is complete
  and each row was true at some moment.
* **Page, booking.** No answer proves nothing. Correct: one click, at most one booking;
  what the page says of it is true; an answer to an old session does not end a new one.
* **Page, history.** Pages, details of events and answers to cancellations arrive after newer loads
  and other logins. Correct: the cards are the customer's own, what the page says of a
  cancellation is so, and Refresh refreshes.
* **Page, discovery.** Offset pagination over a list that changes. Correct: what is shown was asked
  for last; who pages to the end misses no more than has left the list, or came on it too late.
* **Rate limiter.** Redis counts, the application acts on its answer later, and a window may end in between; either may fail.
  Correct: nothing is passed on that was not counted, any stretch of time has its bound, and Retry-After suffices.
* **Accounts.** Races of registrations and of the two promotions.
* **Migrations.** A downgrade drops the columns that say what was cancelled. Correct: it is refused
  rather than a cancellation lost, and what a guard lets pass no constraint refuses later.

## 2. Modules

| Module | What it is |
|---|---|
| `SeatLedger` | Abstract specification: a ledger of bookings whose operations are atomic |
| `Booking` | The booking core, statement by statement; implements `SeatLedger` |
| `SeatListing` | Pages of the demo reading an event's seats while `SeatLedger` runs |
| `BookingClient` | The page's bookings against a server that serves each attempt by one step of `SeatLedger` |
| `CustomerHistory` | The page's list of reservations and its dialog, over `SeatLedger` |
| `EventBrowsing` | The page's list of events over a changing set of them |
| `Pages` | Sorted lists and their pages, for `SeatListing` and `EventBrowsing` |
| `VenueLedger` | Abstract specification: venues, access and events, every operation atomic |
| `VenueAdmin` | Venues, seats, grants, event creation, statement by statement; implements `VenueLedger` |
| `RateLimiter` | The Redis windows and the middleware |
| `AccountLedger` | Abstract specification: a registry in which an email is enrolled once and permissions are only added |
| `Accounts` | Registration, login, promotion, with their transactions; implements `AccountLedger` |
| `Migrations` | The nine revisions, up and down, beside the service |
| `BookingProofs`, `VenueAdminProofs`, `MigrationsProofs`, `AccountsProofs`, `RateLimiterProofs`, `BookingClientProofs`, `CustomerHistoryProofs`, `EventBrowsingProofs` | Theorems about the module of that name, with the lemmas they rest on; `BookingClientProofs` also those about `SeatListing`, its neighbour on the page |
| `MC...` | Small instances: functions for the constants, symmetry sets |

`SeatLedger` is the joint: `Booking` is proved to implement it, and the modules that need a booking service
and not its locks (`SeatListing`, `BookingClient`, `CustomerHistory`) extend it and are proved to change bookings by its steps
only (`ReadersKeepLedger`, `ClientKeepsLedger`, `HistoryKeepsLedger`). The venues and the accounts have an abstract specification
each, so that for everything the service stores there is a module that says what its operations come to when no time passes
within them.

### Booking

A request lives in a slot of `Requests`, which is reused, so any number of requests comes in
sequence and as many as there are slots at once. `pc[p]` says where it stands:

    idle  connect  (find)  lock  decide  (seats  insert)  commit | replay  (refresh)  ok | refused | failed

A step runs from one point where another transaction can be noticed to the next. `connect` waits for one of the
`PoolSize` connections of the engine; `find` is the first SELECT of `cancel_reservation`, before its
lock; `lock` waits for `SELECT ... FOR UPDATE`, with the connection;
`decide` is everything that follows from rows the lock protects and the clock; `seats` and
`insert` are the membership and occupancy checks and the flushes of a creation; `commit`
publishes what was staged, releases the lock and gives the connection back; `replay` commits nothing; `refresh` is the
SELECT after the commit of an event operation, which needs a connection again and may fail with the work done. `Fail` is possible at
every position, and every commit may be reported as failed. Staged writes (`rows`, `claims`) are
private until the commit, which is what a crash, a rollback, and READ COMMITTED have in common.

`booking`, `cancellation` and `releasedAt` are the columns of `reservations` and
`reservation_seats`; `seen` is the event's `cancelled_at` as loaded with the lock; `stamp` the
time a transaction writes. `now()` of PostgreSQL is the time of the transaction's first statement
and `utc_now()` is read later; both come from one clock. Foreign keys hold by construction.

### SeatListing, BookingClient

`SeatListing`: `ReadEvent` and `ReadRows` are the two statements of `list_event_seats`,
`AnswerPage` its answer and the loop of `allPages`. `past` remembers what was true of each
seat since the browsing began. An operation of the ledger may commit after the event's start,
since its transaction read the clock before.

`BookingClient`: one page, used by several customers in turn. `intents`, `pending`, `awaiting` are
`pending` and the awaited fetch of `booking.js`; `net` holds the attempts that the server has yet to
serve, in no order, and an attempt stays there when the page gives up on its answer. A token expires at
any moment after it was issued. Events start one by one (`started`): from then on the server books none, and an attempt that is not a replay
is declined although its seats may be free. An attempt for an event that has not begun is declined when its seats are taken.
`verdict` remembers what the page told the customer. 4xx answers other than 401 are one answer, `conflict`.

### CustomerHistory, EventBrowsing

`CustomerHistory` has the same variables as the script: `version` is `historyVersion`, `loads` its requests with the
answer once the server has given one, `shown` the cards, `cache` the two maps of promises, `waiting` the cards
that await one, `target` the reservation of the dialog, `awaiting` the request behind `cancellationBusy`. Two places
decide whether a late answer counts, `Current` for a page and `StillShown` for a card, and one for a 401,
`SameSession`. Reservations are numbered by `created_at`, the start of their transaction, and appear in any order, so a booking
may turn up behind younger ones. `told` remembers what the page said of a cancellation, `unseen` what a reader who began at page 1 has yet to
see, `cleared` the load before the last Refresh. A booking answered while the page is open forgets what is cached of its event, and asks for page 1 if its
customer is still there (`BookingAnswered`); declined, or answered to somebody else, it only forgets (`BookingDeclined`).

`EventBrowsing`: events are numbered in the order of the list and the clock counts in events. `Serve` is the query with its
cutoff, which is read a little before the statement runs; `Latest` is the comparison of
`browseVersion`. `update_event`, `cancel_event` and `create_event` look at the clock before they commit, so an event may be renamed, be cancelled or
appear when it has started (`Commit`), and a query with an older cutoff lists it then, though at no moment was it on the list of upcoming
events. That happens to an event once at most (`late`): the change holds the event's row from before the start, and whoever gets the row after it finds the event
started. `Listable` are the events that an answer to the present request may still contain. `ever`, `unseen` and `left` are history variables
of a walk through the pages: what may have been listed since the request, what has been on the list all the time and not been shown, and how many events left it, or came too late to stay.

### VenueAdmin, RateLimiter, Accounts

`VenueAdmin` has the same shape as `Booking` (`lock`, `check`, `read`, `write`, `Fail` everywhere).
`IsOrganizer` models the identity map: `change_access` gets the caller's own account as it was before
the wait for the lock, other accounts as they are; `create_event` reads it anew. Events and batches are checked
by the schema before they arrive; that the start has passed by the time the clock is read again is a choice. In `VenueLedger` the same operations are
`Open`, `Grant`, `Revoke`, `Furnish` and `Announce`, each guarded by what must be true when it takes effect; of a request, of what it
read and of the lock nothing is left.

`RateLimiter` counts time in units of which a second has `Second`; `Consume` and `Refusing` are the two
branches of the window script, which Redis runs as one step. The middleware awaits its answer (`rate_limiting.py:75-77`) and acts on it later, so a request is a slot
of `Requests`: `Count` and `Refuse` are the script's run, `PassOn`, `TooMany` and `Unavailable` what becomes of its answer, in any order and perhaps in the
next window. A 503 may thus mean an attempt that was counted. An answer is acted on within `Latency` or not at all. The client's socket times out after a
second and does not try again (`main.py:39-40`), and no window is shorter than a second, so `LatencyAssumption` says that `Latency` is at most any window;
what the event loop of a busy process adds to that second the code does not bound, and the bound on what is passed on is relative to this assumption. A restart of Redis may forget
all windows (README says so); the histories then begin anew, and answers still under way are dropped from the books. A key
lives through the millisecond it expires at, as in Redis, which is why `check` has to round zero up.
A deployment without `REDIS_URL` has no limits and is not modelled.

`Accounts`: an INSERT waits for an uncommitted one of the same email, an UPDATE for an uncommitted one of the
same row. The ORM writes only the columns that changed. Passwords are compared as values. That `VenueAdmin`
may take a promotion as a single step is what the refinement of `AccountLedger` shows.

### Migrations

`rev` and `db` are the committed revision and rows; `migration` is the command under way, all of whose revisions run in one transaction
(`env.py`). A revision is a `Guard` (`UpGuard`, `DownGuard`: the `RAISE EXCEPTION` blocks of 0006, 0008 and 0009) and an `Alter` (`Up`, `Down`:
the columns and tables added, filled and dropped), which fails and rolls everything back when a row is in the way of a constraint
(`Admits`). The service commits until the first `Alter` locks the tables. `recorded` is the history that must survive.

A guard is a statement of its own and takes no lock that keeps writers out. What the service cancels
between the guard of a downgrade and the lock is dropped with the columns, though `README.md` says that the downgrade refuses to
discard cancellations. The model keeps these cancellations apart (`gap`) instead of ruling them out: they leave `recorded`
when the downgrade commits, and everything outside the gap is proved to survive. Running downgrades on a stopped service closes
the gap.

## 3. What TLC checks

| Run | Instance | Question |
|---|---|---|
| `booking_core` | 2 requests, a customer and an organizer, 2 seats, 1 key, 2 ids, 2 descriptions, times 0..1, start at 1, 2 connections | no double sale, consistent claims, a key books once, constraints never hit, permanent history, true answers, the inductive invariant, refinement of `SeatLedger` |
| `booking_liveness` | 3 requests, 2 connections, 1 seat, fairness | every request is answered |
| `listing_pages` | 3 seats, pages of 2, 2 bookings | the map is complete, rows were true |
| `listing_cancelled` | the same | expected violation, section 6 |
| `client_intents` | 2 customers, 2 keys, 3 attempts, 3 sessions, a rival, a start | one booking a click, true verdicts, sessions |
| `client_resolved` | as `client_intents` | expected violation, section 6 |
| `history_pages` | 2 customers, 2 reservations of 1 seat, pages of 1, 3 loads, a start | own cards in order, nothing missed, true verdicts, Refresh refreshes |
| `discovery_pages` | 3 events, 2 names, 2 filters, pages of 2, 3 loads, 2 of them at once | cards match the filters, few events missed, loading ends |
| `venue_snapshot` | 2 users, 2 requests, 2 seats, 1 venue, 2 events | refinement of `VenueLedger`, snapshot of new events, batches, the inductive invariant |
| `rate_windows` | limit 2, window of 2 s, half-second ticks 0..8, 2 requests under way for up to a second | bounds of what is counted and passed on, failures, `Retry-After` |
| `account_races` | 3 requests, 1 email, 2 passwords, 2 ids | refinement of `AccountLedger`, what was acknowledged stays, logins |
| `migrations_history` | all nine revisions, 2 events, 1 seat, 2 bookings | cancellations survive, guards suffice, the inductive invariant |

Why the bounds are enough for what they ask: two requests are the least that can race, and three the least where
one waits while two others act (`account_races`), or where all connections are taken and one more is asked for (`booking_liveness`). Two seats
allow sets that overlap and differ. Two reservation ids allow a second booking after a cancelled first. At times
0 and 1 with the start at 1, a request may arrive before the start and be served at it. A page of two and
three seats give a full and a short page; the map also ends on an empty page when seats are a multiple of the
page size, which the same comparison covers. Pages of one reservation give the most page boundaries for as many rows, and with three loads
an answer may be overtaken by a newer one, which may itself be overtaken; that a page is in order says something only of pages of two or more, as in `discovery_pages`, where two loads
under way are the least that can overtake each other, and for reservations in the proof. Three attempts are an original, its retry, and one more booking. Eight ticks hold
a window, its end and the next one, and two slots an answer of each. Two bookings of one seat are a cancelled one and its successor, which revision 0007 cannot hold together.
For the properties proved in section 5 the bounds do not matter.
Symmetry is used for interchangeable values (slots, ids, users, keys, labels, descriptions), and never in a run of a liveness property.

Deadlock is checked in every run but `history_pages` and `discovery_pages`: there `MaxVersion` bounds the loads, and when they are used up and
everything under way has arrived, the page may stop. In the other models there is always a request or command that may arrive or fail.

The type invariant of a module is a conjunct of one of the invariants its run lists: of `IInv` in `Booking`, `VenueAdmin` and
`Migrations`, of `MapComplete`, `OneBookingPerClick`, `OwnNewestFirst`, `CardsMatchFilters`, `FailClosed` and `AcknowledgedStays` in the others.
Two properties are defined and proved (section 5) but in no run's list, since a refinement that is in it says as much: `NoEventAfterRevocation`
is a guard of `Announce` in `VenueLedger`, and `OneAccountPerEmail` follows from one of `Enroll` in `AccountLedger`.

Each property of a passing run has a mutant: a definition of the model changed as a bug in the code would change
it (the lock left out, the retry lookup that skips cancelled bookings, a bulk update with too wide a condition, a comparison off by one), under which TLC
finds the property violated. They stand beside what they change and are marked `Mutant:`.

## 4. Fairness

`Booking`: strong fairness of each request, over getting a connection, getting the lock and doing its work. The waits that end only if others
let go are justified by who serves them: PostgreSQL queues the waiters of a row lock, and the pool of SQLAlchemy
queues those who ask for a connection and gives up on them after `pool_timeout`, which answers them too. A request that waits for nobody stays
enabled, so for it strong fairness says no more than weak: the statement it awaits returns or raises. `Fail` is never assumed to happen, so
`EveryRequestAnswered` holds without anybody's timing out. A request that holds the row lock has its connection already, and the
refresh asks for one only after the lock is given up: that is why the pool and the locks cannot wait for each other.

The other modules have safety properties only. `LoadingIsAwaited` (`EventBrowsing`) is the safety part of a liveness property: whoever sees
"Loading" has a request under way, and `api.js` ends each within 15 seconds.

## 5. What is proved

`BookingProofs` proves about `Booking`, for every set of users, events, seats, keys, ids and slots and every size of the pool, assuming
only `SetAssumption` (owners are organizers, members are seats, times are numbers) and `NullAssumption` (NULL is none of the values):

* `TypeCorrect`, `NoSeatSoldTwice`, `ClaimsConsistent`, `CancellationComplete`, `RetriesBookOnce`, `TimesInOrder`,
  `LockMakesChecksConclusive`: the invariants of the run;
* `HistoryKept`, `CancelledStaysFrozen`, `SuccessIsStored`: the action properties;
* `Refinement`: `Booking` implements `SeatLedger`.

All rest on `Invariance`, that `IInv` is inductive. The safety properties alone are not: that no seat is sold twice
survives a commit only because the seats were free when checked *and* nobody could book since. `IInv` says so for each
position: who is past `lock` holds the row and has seen its state (`HoldsLock`); what a creation checked is still true
(`CreateChecked`); what a cancellation staged is still what the tables call for, and its time is the latest (`CancelStaged`);
what a replay will report was done (`ReplayJustified`); a drawn id is used by one request (`FreshIds`); no lock outlives its
request (`NoStrayLock`). The proof has three parts. A step of one request leaves the others' facts alone, since it writes
only under a lock they do not hold (`OthersSound`). It establishes its own (`ArrivalSound`, `LockingSound`, `CreateSound`, `DecideSound`,
`RereadSound`, `EndSound`). The tables stay sound through the three commits that write (`CreateStored`, `CancelStored`, `CancelEventStored`).
For the refinement the same commits are matched with `Book`, `Withdraw` and `Close`, and every other step with stuttering.

`VenueAdminProofs` proves about `VenueAdmin`, from `BatchAssumption` and `NullAssumption`: `VenueInvariance` (`IInv`), `AccessIsForOrganizers`,
`SnapshotIsTheVenue` (`MembersAreTheVenue`), `RevocationHolds` (`NoEventAfterRevocation`), `BatchesWhole` (`BatchesAreWhole`) and
`VenueRefinement` (`ImplementsVenueLedger`). An event
that appears was read two steps before, so the properties need what the invariant says in between: who is past `lock` holds the venue's row
(`HoldsVenue`), and what it read is what is stored (`ReadyToWrite`). Others leave that alone because they write about a venue only
while they hold its row (`VenueUntouched`); promotions, which hold nothing, only add permissions. The caller's account from the identity map may be
outdated, but only in the direction of having fewer permissions, which is the conjunct on `caller` in `RequestSound`. So nobody gets access wrongly; an owner promoted during the wait may be refused
wrongly, which is what the code does and no property forbids.
For the refinement the three writes are matched with steps of the ledger (`AccessIsGrantOrRevoke`, `SeatsIsFurnish`, `EventIsAnnounce`) and everything
else with stuttering (`OnlyCommitsWrite`). It needs two facts more: an event id that was drawn is used by one request and by no event yet (`EventsAsked`), or an announced
event could be replaced, and who owns a venue is a manager (`OwnersManage`), although the code asks for that permission before the wait for the lock and never again.

`MigrationsProofs` proves about `Migrations`, for any events, seats and bookings: `MigrationInvariance` (`IInv`), `MigrationTypes`, `CancellationsSurvive`
(`HistorySurvives`) and `GuardsSuffice` (`GuardSuffices`). The invariant says of a command half way through (`Course`) that its
rows bear out every record outside its gap, and that between a guard and its change the records are of the kind the change keeps; the revisions are then taken one by one
(`Up`, `Down`), and a transaction of the service either finds no guard passed, or puts what it cancels down to the gap.

`AccountsProofs` proves about `Accounts`, from `NullAssumption`: `AccountInvariance`, `EmailsAreUnique` (`OneAccountPerEmail`), `NothingAcknowledgedIsLost`
(`AcknowledgedStays`), `LoginsSucceed` (`RegisteredCanLogIn`) and `AccountRefinement` (`ImplementsAccountLedger`). The invariant, stated with the proofs, says of each uncommitted row that it still fits what is
stored: an inserted one has an email that nobody has (`Insertion`), an updated one is the stored row and one permission more (`Promotion`), and no two transactions
have written the same row or rows of one email (`WritesApart`), which is what the waits of PostgreSQL are for. What a promotion has read may be outdated, but only by permissions
added since (`ReadSound`), and that is why the UPDATE must not write them all. The refinement reads this the other way round: at a commit the uncommitted row is what
`Enroll` or `Permit` would write at that moment (`CommitEnrollsOrPermits`), whatever was committed since it was written.

`RateLimiterProofs` proves about `RateLimiter`, from `LimitAssumption`, `LatencyAssumption` and `AnswerAssumption`: `LimiterInvariance`, `CountersKeepToLimits` (`TypeOK`), `RetryAfterIsRight`
(`RetryAfterSuffices`, for every resolution of the clock), `WindowsStayAnchored` (`WindowsAreAnchored`), `BurstsStayBelow` (`SlidingBound`) and `NothingUncounted` (`FailClosed`). `counted` and `admitted` keep running
totals, so that what falls into an interval is a difference and no sum has to be unfolded. That the script counts less than twice the limit in *any* stretch of a window's length needs to know of each
key that its counter is what its window has counted, the first request included (`Covered`), and that what was counted less than a window's length before its
beginning fell into the window before, after the request that opened it (`Preceded`). A stretch meets two windows at most, and the opening request of the earlier one
lies outside it. What is *passed on* in a stretch was counted in it or at most `Latency` before, and an attempt under way is not passed on yet (`Linked`): that is a stretch of at most twice a window's length,
which meets three windows, so less than three times the limit. It is no rounding up: a whole window's attempts may be answered late, after the next window has opened, and twice the limit does then pass in
a window's time, which a limiter that counted and passed on at once would not allow. Nor does `RetryAfterSuffices` promise an obedient client success. The wait is told when the answer is back, so it ends at most a second and the
answer's way after the window and never before it; but a client back at the last millisecond of the window finds the key still there.

`BookingClientProofs` proves about `BookingClient`, from `PageAssumption` and `NullAssumption` and for any number of attempts, sessions and rivals: `ClientInvariance`,
`AtMostOneBookingPerClick` (`OneBookingPerClick`), `VerdictsAreTrue` (`VerdictIsTrue`), `FirstConflictIsFinal` (`DeclinedAtOnceIsFinal`) and `SessionsEndByTheirOwnToken`
(`ExpiryEndsItsSession`). The invariant says that the ledger holds at most one entry for each user, event and key (`EntriesUnique`), that an entry under a key of the page is what
the click asked for (`BookingsAsked`), that an attempt still under way was either given up on or is the one awaited (`AttemptsSound`), and that an answer on its way
is still so when it is read (`ReplySound`). The last is where first attempts and retries part: a 409 to a first attempt means that nothing of the intent is under
way any more, a 409 to a retry does not (section 6). `ClientKeepsLedger` shows that what is served is a step of the ledger, seats and reservation ids included.

The same module proves about `SeatListing`, from `ListingAssumption` (a page holds at least one row, an event's seats are finitely many and numbered in their order) and for any
number of readers, any page size and any bookings: `MapInvariance`, `SeatMapsAreComplete` (`MapComplete`) and `ShownRowsWereTrue` (`RowsWereTrue`). The invariant `MapInv` says of a
reader half way through that what it has collected is the beginning of the sorted seats and what it has fetched the continuation, the last one if the page is short (`PlacesSound`); that the
history `past` holds the present availability of every seat (`PastSound`); and that a row, the flag `cancelled` and the event read before it agree with some moment of that history
(`ReadSound`). The one way in which they may not is the cancellation between the two statements, which the property names and section 6 reports.

`CustomerHistoryProofs` proves about `CustomerHistory`, from `HistoryAssumption` and `NullAssumption`: `HistoryInvariance`, `OnlyOwnBookings` (`OwnNewestFirst`), `PagesMissNothing`
(`WalkMissesNothing`), `VerdictsLast` (`ToldIsSo`), `NoCardContradicts` (`NoContradiction`) and `NothingOlderThanRefresh` (`FreshAfterRefresh`). A load of the present version
is the only one, belongs to the present user and page, and its rows, once it has them, leave unseen only what lies on later pages (`Covers`); of a card that awaits details, the card on show
in its place says the same (`WaitingSound`). The page is told "cancelled" or "started" only of what can no longer change (`Gone`, `Stuck`), and the answer that still counts, served or to come,
shows as cancelled whatever the page has been told is (`LoadsSound`), which is why no old answer brings the button back. Since bookings only appear, the number of newer ones (`Newer`) grows, and an unseen booking is never pushed to
an earlier page.

`EventBrowsingProofs` proves about `EventBrowsing`, from `BrowsingAssumption` and `NullAssumption`: `BrowsingInvariance`, `CardsAreWhatWasAsked` (`CardsMatchFilters`), `LoadingEnds`
(`LoadingIsAwaited`) and `FewAreMissed` (`WalkMissesFew`). Here events also leave the list, and each that leaves lets at most one slip from behind a place to before it (`Slipped`). The
invariant counts (`Counted`): the events there all along that lie before the page and have not been seen are no more than have left. A request may be answered by the list of any moment since it
was made, with that moment's cutoff and today's names; it differs from the present list by what has started in the meantime. So the count is kept for each of these lists, with what that list still has to
lose added (`MissedFew`). A change committed after the start puts an event on the older of these lists and not on the present one: it takes a place there as a departed one does, and `left` counts it
when it appears (`ListsMove`, `LeavesCounted`), if it is one that an answer under way may list (`Listable`).
`FewLeftOut` then passes from the list a page was cut from to the present one. `left` stops at the number of unseen events, where nothing remains to be missed.

In the three modules with lists the order is defined by rank, the number of members before a given one: `Ranks`, `SortedList` and `SeatRanks` show that ranks are a bijection onto the places,
`PageOfList`, `PageOfHistory` and `PageOfSeats` what LIMIT and OFFSET cut out.

`NullAssumption` says of each module that NULL is none of the values it stands in for. The bounds (`MaxAttempts`, `MaxSessions`, `MaxVersion`, `MaxRequests`, `MaxTime`, `MaxEvents`) are arbitrary numbers in the proofs.

Only model-checked: liveness (`EveryRequestAnswered`), since TLAPS has no rules for ENABLED or fairness that its provers here can use. Every other property of a passing run is the
statement of a theorem. That the ledger in front of which the page's modules run is the one the transactions implement is the theorem `Refinement`; that these modules ask nothing else of it are
`ClientKeepsLedger`, `HistoryKeepsLedger` and `ReadersKeepLedger`. The pieces are put together through `SeatLedger` and not in one product: no theorem composes a page with `Booking` itself,
whose clock and rejections the page's modules replace by nondeterminism. No module has recursive operators.

## 6. Where code and documentation disagree

* `listing_cancelled`. `list_event_seats` reads the event and then the seats. If a cancellation commits in between, the answer shows
  the event's released seats as available, also those that were sold until then; README says all seats of a cancelled event
  report unavailable, and the docstring that membership and booking state are read together. Harmless to bookings, which are checked anew.
* `client_resolved`. The page keeps an unresolved intent until an answer decides it, but takes a 409 to a *retry* for such an answer. The original attempt
  may still be under way; if the rival that caused the 409 withdraws, it books. README says the page blocks new bookings until the
  original outcome is resolved. The flag that tells a declined first attempt (which is final, `DeclinedAtOnceIsFinal`) from a
  declined retry, `uncertain`, is set and never read.
* The gap of a downgrade, described with `Migrations` above.

## 7. Not modelled

* The lists of venues, of grants and of a venue's seats, which are read and shown once; an organizer's own events, a list that grows at its front only,
  as a customer's reservations do in `CustomerHistory`; the lookup of venue names in event discovery.
* Reloading the page with a booking pending; README warns of it and so does the page. The page's limit of 20 seats.
* Names, addresses, serialization and wording; signatures and claims of tokens; validation other than what bounds the requests of the models.
* Accounts, venues, seats and grants in migrations, which have neither guard nor backfill; rendering migrations without a connection.
* Health, configuration, start and end of the application: input and output.

## 8. Plan

Modelled first was what loses money or seats: `SeatLedger`, `Booking` and its proofs; then the modules that build on the
ledger, `SeatListing`, `BookingClient`, `CustomerHistory`; then the second lock, `VenueAdmin`; `RateLimiter`, `Accounts`, `EventBrowsing`;
then `Migrations`; with proofs about each component, and last the abstract specifications of venues and accounts. What would be worth adding when the code moves:

1. If the page learns to keep a pending booking across a reload, `BookingClient` needs the stored intent as state of its own, and its invariant the cases in which it is older than the session.
2. If `list_event_seats` becomes one statement, or takes a snapshot, `RowsWereTrue` holds without its exception and `listing_cancelled` turns into a passing run; likewise `client_resolved` if the page
   comes to use `uncertain`, and `HistorySurvives` without the gap if a downgrade locks before its guard.
3. If permissions can be withdrawn, `VenueLedger` (`Managed`), the conjunct on `caller` and `AccountLedger` have to say what a request under way may still do.

# ApexRide: models, checks and proofs

ApexRide is a corporate ride service. Employees book a driver through a
Telegram Mini App, drivers work through a queue, administrators verify accounts
and step in when a ride needs another driver. This directory holds TLA+ modules
of its server and of the screens that talk to it, the TLC runs that check them
on small instances, and theorems that TLAPS checks for every instance.

1. [The system](#1-the-system)
2. [What is hard, and what must hold](#2-what-is-hard-and-what-must-hold)
3. [Modules](#3-modules)
4. [Runs, bounds and what they show](#4-runs-bounds-and-what-they-show)
5. [Proofs](#5-proofs)
6. [Disagreements found](#6-disagreements-found)
7. [What is not modelled](#7-what-is-not-modelled)
8. [Plan](#8-plan)

## 1. The system

One FastAPI process serves all requests on one event loop. A request gets a
database session from `shared/db/engine.py` (commit is explicit, anything else
is rolled back) and gives up control at every `await`. Postgres runs at its
default level, READ COMMITTED. Redis holds login tokens to refuse and a geocode
cache, and is not persisted. The bot answers `/start`; the worker has no job
that changes state.

| Part | Source | State | Operations |
|---|---|---|---|
| Orders API | `api/app/orders_api.py` | `orders`, `order_events` | create, edit, cancel, driver transitions, reply to a counter-proposal, queue, lists |
| Slot picker | `orders_api.py:248-411`, `shared/slots.py` | none (reads orders, schedule, time off) | `get_slots` |
| Admin API | `api/app/admin_api.py` | `orders`; `users`, `drivers` | assign, cancel; approve, reject, set role |
| Drivers API | `api/app/drivers_api.py`, `shared/drivers.py` | `drivers`, `driver_schedule`, `driver_time_off` | replace the weekly hours, add and delete time off, duty flag, provisioning of an admin's own driver row |
| Sessions | `api/app/auth_api.py`, `shared/auth_jwt.py`, `api/app/deps.py` | Redis: the blocklist (`jwt:blklist:<jti>`) and the second of the last revocation (`jwt:valid_after:<user>`) | log in, refresh (rotates), log out |
| Addresses | `api/app/addresses_api.py`, `orders_api.py:191-222` | `addresses` | add, touch, mark, delete; touched by each new order |
| Notifications | `shared/order_notify.py`, `shared/telegram_send.py` | none | a message after the commit of some handlers |
| Push, routing, geocoding | `push_api.py`, `routing_api.py`, `shared/openrouteservice.py`, `shared/yandex_maps.py` | subscriptions, Redis cache | upsert, outside calls with fallbacks |
| Schema | `shared/db/models.py`, `shared/db/migrations` | | the EXCLUDE constraint, the unique indexes, `order_busy_range` |
| Web app: pages | `webapp/src/screens` | query cache, open forms, the wizard's draft, the rows of the schedule page | booking wizard, order page, driver's queue and hours, admin lists |
| Web app: address picker | `screens/user/OrderWizardScreen.tsx`, `components/MapAddressPicker.tsx`, `lib/yandex*.ts` | search field, point under the pin, its name, answers under way | type, suggest, geocode, move the map, confirm |
| Web app: session and start | `lib/api.ts`, `store/appStore.ts`, `hooks/useAuthBootstrap.ts`, `App.tsx`, `screens/onboarding` | tokens, the account as last told, the page | start, login, profile, status, refresh on 401, log out |

How they meet. On the server every part shares the database and nothing else.
The orders table is written by three actors (owner, driver, administrator)
whose requests interleave; the slot picker reads what they wrote and advises
the owner; constraints of the database, not the handlers, have the last word.
The web app calls the API through one function, `apiFetch`, which refreshes the
session on the way; its screens show rows as they were last fetched and repeat
in TypeScript the rules of the handlers. The address picker calls Yandex from the
browser, without the server.

## 2. What is hard, and what must hold

*Two ways to write an order.* `transition_order` tests its guard inside one
UPDATE statement and so is atomic. Every other handler loads the row, tests the
loaded copy, awaits, and commits the columns it changed. Whatever was committed
in between is overwritten column by column, not row by row. Which properties
survive this, and which hold only because requests seldom collide, cannot be
seen from any one handler.

*The constraint as the referee.* Rides of one driver must not overlap, buffer
included. Creation, acceptance, reassignment and an accepted counter-proposal
all may break this; only the EXCLUDE constraint sees all of them. Elsewhere
(weekly hours, recent addresses) there is no constraint and the handlers are
trusted.

*Duplicates and lost answers.* A double tap sends one request twice; a request
whose answer is lost is sent again with the same key and perhaps another draft.

*Answers out of order.* The web app awaits an answer, and only then cleans up
after it: by that time the user may be on another page, in another form, or
logged out.

*Advice that must agree with the referee.* The slot picker computes in Python,
from rows fetched around one date and from answers of a route service, what the
constraint will accept, and must neither offer what is refused nor hide what is
free. The screens, from old rows, decide which buttons there are.

*A start of many steps.* When the page opens it may log in, or refresh and ask
for the account, or find that it can do neither; each request may fail, and
until somebody says that the start is over the page shows a spinner. What it is
told of an account is a copy, which administrators change meanwhile.

*Outside services.* Suggestions, geocoder, map script and the position of the
phone answer in any order or never, while the user goes on.

*Keys that expire.* A token is refused because of a key in Redis; the key and
the token have lifetimes of their own.

Per part, what makes it correct:

- *Orders*: no double booking; one order per key; a finished order stays
  finished; an order is offered to drivers at most once and taken by one of them;
  a proposed time is there whenever it may be accepted; the audit trail explains
  the status; no live order is left to nobody; an agreed ride has a driver.
- *Screens*: what is offered is what the server accepts; a tap on an old row
  does what the row said or nothing; the queue catches up.
- *Slots*: an offered time can be booked, leaves the driver the way to the next
  pickup, and no free time of the drivers in question is hidden.
- *Schedule*: stored hours do not overlap, and replacing them leaves nothing of
  what was stored before.
- *Accounts*: a driver account has a driver row; a decision stands and the status
  is the outcome of one; somebody remains an administrator.
- *Sessions*: a refused token stays refused; one live token per browser; a
  client with a valid session is not logged out.
- *Addresses*: one recent row per text; an order is stored with its addresses;
  requests that wait for one another end.
- *Start and onboarding*: the start ends; nobody works in the app who is not
  cleared; whoever logged out is out.
- *Address picker*: the name under the map is that of the point under the pin,
  and stays with it when it is confirmed; suggestions belong to the text;
  nothing is waited for for ever.
- *Schedule page*: "saved" means that the rows shown are those stored; a save
  changes the days the driver changed.
- *Wizard*: one order per wizard; the order a client ends with is the one it
  asked for; a page that submits has everything it submits.

`PROJECT.json` lists the hazards one by one, at the lines where they bite, with
the properties that cover them, or the reason why none does.

## 3. Modules

```
 Calendar      OrderLifecycle          abstract specifications
    ^  ^             ^
    |  |             |  refinement (requests one at a time)
    |  +- OrdersRefined
    |         |  extends
    |      Orders  <-- Screens  <-- Desk  <-- MCDesk
    |         ^                       |
    |      MCOrders (extends OrdersRefined, Screens)
    |         ^                       |
    |         +----- OrdersProofs ----+
    |
    +-- Slots  <-- MCSlots

 Accounts <- MCAccounts <- AccountsProofs
 Schedule <- SchedulePage <- MCSchedule <- ScheduleProofs
 MCSlots, MCAccounts, MCSchedule <-- MCStaff <- StaffProofs

 AppStart, AddressPicker <-- MCWebApp <- WebAppProofs
 Sessions <- MCSessions <- SessionsProofs
 Wizard <- MCWizard <- WizardProofs
 Addresses <- MCAddresses <- AddressesProofs
```

An MC module instantiates a specification for TLC. Several add one Boolean
variable, chosen at the start and constant from then on, so that one run
explores two worlds: `inTurn` (requests are served one after the other) in
`MCOrders`, `MCAccounts`, `MCSchedule` and `MCAddresses`; `calm` (one call at a
time, every answer heard) in `MCSessions`, `MCWizard` and `MCWebApp`
(nothing but the map is touched while a name is awaited). Properties that end in
`InTurn` or `WhenCalm` are about that world and say what a handler or a screen
achieves by itself; the others hold in both. In `MCDesk`, `lookingAt` tells
which of two screens the behaviour follows.

`MCStaff` and `MCWebApp` put parts that share nothing into one run: a behaviour
is one of a single part (`part`, `atPicker`), and the variables of the others
keep their first values. So each part is explored exactly as it would be by
itself, and the states are the sum and not the product. In `MCSchedule` a
behaviour is one of the server or one of the page (`atPage`).

Definitions whose name ends in `_Something` after a comment "Mistake:" are
plausible bugs; a run must fail when one replaces the definition after it.

### Orders

`orders` is the table (id to row), `events` the set of audit rows, `onDuty` the
drivers' flags, `now` the clock, and `inflight` what each request context has
loaded and is about to commit. `Worker` is the set of request contexts: with
one, requests run one after the other; with two, they interleave.

A read-then-write handler is two steps. The first (`CreateOrder`,
`UpdateOrder`, `CancelOrder`, `RespondToCounter`, `AssignOrder`,
`AdminCancelOrder`) is the handler up to its last `await` before the database
write: it tests the guards and stages the row to insert, or, per column, the
new value or `Keep`. `Changes` is the unit of work of the ORM: a column is in
the UPDATE only if its value differs from the one loaded. The second
(`CommitInsert`, `CommitUpdate`) applies this to whatever the row has become
and asks the constraints; `Rollback` is a constraint refusing, a lost
connection or the process dying, after which nothing of the request remains.
`TransitionOrder` is one step: its guard is the WHERE clause of the UPDATE that
sets the new status, and the row lock of that UPDATE lasts until its commit.

A row keeps the columns the guards and properties tell apart: owner, key,
driver, status, time, duration, proposed time, `cancelled_by`, and the number
of passengers for "the details". The comment, reasons, addresses, distances and
timestamps are left out. `draft` and `expired` are statuses the schema admits
and no code sets. A replayed request that finds its key returns the stored
order and is not a step. `Time` counts in units in which the buffer is whole.

### Calendar and OrderLifecycle

`Calendar` is what the table promises a driver: bookings enter, move and leave
one at a time and never overlap. `OrderLifecycle` is what the product
description promises an owner (docs/tz.md 4.2 with the counter-proposal of
migration 0005). `OrdersRefined` maps the order table onto both. The first
mapping holds however requests interleave and is proved; the second holds only
when requests run one after the other, which is the point of the runs below.

### Screens and Desk

`Screens` is stateless: which buttons `OrderDetailScreen`, `DriverTodayScreen`
and `AdminScreen` show for a row (`OwnerButtons`, `DriverButtons`,
`AdminButtons`), and the comparison with the guards of the handlers.

`Desk` adds the screens' memory to `Orders`: the driver's queue as last shown
(`queue`), the answer of a fetch on its way (`arriving`), the two forms of the
queue, the order page that is open (`open`), the cached details of each order
(`details`), the form open on the page (`mode`), and the requests under way
(`taps`), each with the row that was on the screen. Actions are the taps
(`TapButton`, `OpenReject`, `SendReject`, `Reply`, `SendForm`, ...), the fetches
(`Fetch`, `ShowQueue`, `FetchOrder`), the server handling a tap (the actions of
`Orders`), and the screen hearing of it. A success has the queries fetched anew
before the code after the `await` runs, so `HearDriver` and `CloseForms` are two
steps. Reasons and comments typed into forms are left out.

### Slots

State: the drivers' calendars, weekly hours, absences, duty flags, the clock.
Rides come and go by steps of `Calendar` (the order table is proved to make no
other), so the picker is checked against every history of rides and not
against those one handler makes. `get_slots` only reads; it is the operator
`Offered`, built like the code: rides fetched around the date (`Fetched`), each
widened by the drive before and after it (`RideRange`), absences (`OffRanges`),
the grid of each schedule row (`RowGrid`), availability per time, the merge over
the drivers in question (`Candidates`). These are the driver asked for, whatever the
role of the account, or, when any would do, the drivers on duty whose account has the
role driver: an administrator's own driver row, or that of somebody who was demoted,
is left out on purpose (`orders_api.py:285-294`). `hasRole` says which accounts have
the role and changes at any time (`SetRole`). That an owner of a row without the role
and without that of an administrator cannot set hours or duty any more is not
modelled, so there are more histories here than in the program. The route service is
an arbitrary function from rides to answers.
The hours of a driver may contain overlapping windows, because two concurrent
replacements can leave the union of both. Left out: the time zone's clock
changes (the company's zone has none), seconds, and drivers that are
deactivated by hand in the database.

### Schedule

`set_my_schedule` replaces the week of a driver: `Accepted` is the sort and the
scan of neighbours; `Delete` and `Deleted` are the DELETE, which sees the rows
committed when it starts, waits for a transaction deleting one of them, and
does not see what that one inserts; `Commit` deletes what was seen and inserts
the new week, unless the unique index refuses. A field of the request that no handler
reads, `meanwhile`, collects what was stored for the driver since its DELETE started.

### SchedulePage

The page of one driver over `Schedule`: its rows (`dayRows`), the query cache
that outlives it (`cached`, `stale`), the question after the hours (`fetch`), the
save (`save`) and the messages (`saved`, `error`). `Filled` builds the rows from
an answer, `Entered` the request from the rows. Stored rows have new ids after
every save, so an answer that brings new rows refills the page and one that
brings the same does not: `replaced` and `fetch.new` say which. Leaving the page
forgets its rows but not the cache. The save is `Delete`, `Deleted` and `Commit`
of `Schedule`; `Elsewhere` are other clients of the driver. `touched` is a
history variable: the days changed since the rows were filled.

### Accounts

Accounts, their roles and statuses, the driver rows, and two audit trails
(`decisions`, `lastRole`). A request enters with the role its caller has
(`Enter`), loads its account unless that is the caller's, already loaded
(`Load`), and decides on the copy. `SetRole`, `Approve`, `Reject` commit;
setting the role driver and an administrator's own provisioning look for the
driver row first (`LookForDriver`). Looking flushes the pending UPDATE and so
takes the row lock, which others wait for (`Unlocked`).

### Sessions

One account in one browser. The server: refresh tokens and when they were
issued, the two kinds of Redis key with their expiry (`blocklist`,
`validAfter`), whether the account is blocked. The client: the token in
localStorage, the access token in memory, the calls under way, a logout under
way. A call that is answered 401 presents the stored token (`Unauthorised`);
the server handles a refresh in three steps (`Check`, `ReadUser`, `Rotate`), for
it awaits Redis and the database in between; `Granted` stores the pair and
repeats the call once, `GiveUp` clears the session. Time is counted in the whole
seconds tokens carry. Several tabs and a restart of Redis are left out.

### AppStart

One account and one tab. The server's side is the account (`account`) and what
is answered about it; which refresh tokens are good is the subject of
`Sessions`, so here a request may be answered 401 at any time and a refresh be
granted or not. The client's side is the store of `appStore.ts`, field by field,
and at most one request each of the start, the onboarding's form, the login
widget and the page at work (`calls`), which goes on its way (`ServeLogin`,
`Serve`, `Unauthorised`, `Granted`, `Refused`, `Lose`) until it is heard
(`Hear`). `Page` is what is on the screen; an action of the user names the page
it is taken on. `showSlides` is local state of the onboarding and starts anew
whenever that appears (`KeepsPlace`). `left` is a history variable: whether the
last logout overtook a refresh. The refresh token is in `localStorage` and
survives `Reload`; all else does not.

### AddressPicker

The first step of the wizard: the field an address is picked for, the text in
the search field, the suggestions and the requests for them, the geocoder, the
point under the pin (`pickedCoords`), its name (`mapResolvedLabel`), the map. A
place stands for the point and for its address. Effects of React are part of the
action that causes them: `Suggests` is the effect of the search field, with its
clean-up that cancels what was asked before, and `Mounts` the map appearing,
with the centre it is given at that moment, or going away. Everything that may
fail has that outcome: no suggestion, no place found, no name, a position
refused, a script that fails or exceeds its time. An answer of the geocoder is
taken whatever the user did since, as in the code; the answer about a name is
taken only if the pin has not moved since (`IsCurrent`).

### Wizard

The draft of the booking wizard over its four steps, the idempotency key drawn
once per wizard, and `create_order` behind it in two steps: `LookUp` (the
stored order of that key, the checks) and `Insert` (the two constraints). An
answer may be heard (`HearCreated`, `HearConflict`, `HearRefusal`) or lost
(`LoseAnswer`); a request may vanish. After a conflict the slot is dropped only
when the slots have been fetched again: `ForgetSlot` is a step of its own.
`OthersBook` is everybody else taking slots.

### Addresses

The address book of one user as a table without constraints, and the requests
on it as transactions: `touch_address`, the two touches of `create_order`,
`set_favorite`, `delete_address`, `create_address`. A transaction looks up a
text (`LookUp`), raises if it finds several rows (`FindSeveral`), flushes the
UPDATE or DELETE of a loaded row and keeps its lock (`Flush`), raises if the row
is gone (`FindGone`), and commits its inserts (`Commit`). Postgres ends one of
the transactions that wait for one another (`BreakDeadlock`). Coordinates,
labels and the time of last use are left out.

## 4. Runs, bounds and what they show

| Run | Instance | Distinct states | Shows |
|---|---|---|---|
| `orders_race` | 1 order, 2 drivers, 2 requests, 3 instants (one on a weekend), clock 0..1, 2 numbers of passengers | 259 thousand | under interleaving: the inductive invariant, every ride that started was accepted and departed for, each status has its audit event, an agreed ride has a driver, the screens offer exactly what the server accepts, an order is offered once and taken by one driver. One request at a time: no live order is left to nobody, and every order lives as documented (refinement of `OrderLifecycle`, with finality, `cancelled_by`, edits and counter replies) |
| `orders_calendar` | 2 orders, 2 keys, 1 driver (on duty), 2 requests, 3 instants | 553 thousand | no double booking, buffer included; refinement of `Calendar` |
| `orders_race_terminal` | as `orders_race` | | violated: section 6 |
| `desk` | 1 order, 2 drivers, 1 request, 2 instants, 1 tap at a time | 745 thousand | a tap on an old screen does what the screen said or nothing; once nothing changes, the queue shows what the server holds |
| `staff`, slots | 2 drivers, 2 rides, a day of 6 units, rides around a midnight, drives of 1 and 3 units or no answer, each account with or without the role | 609 thousand in all | an offered time can be booked and leaves the way to the next pickup; no free time of a driver in question is hidden |
| `staff`, accounts | 2 accounts, 2 requests | | a driver account has a driver row; the status is the outcome of a decision on record, and none is made by a request that begins after one was stored; with one request at a time the trail is complete and somebody remains an administrator |
| `staff`, hours | 1 driver, 2 weekdays (0 and 1), 3 times of day, 2 requests, up to 3 windows per week (2 of one day where requests overlap) | | a window stored before a replacement began is gone after it, unless named again; with one request at a time windows never overlap; on the page of a driver who alone sets the hours and touches it when nothing is under way, "saved" is true and a save keeps the days not changed |
| `sessions` | 3 tokens, 2 calls, clock 0..4, calls may be lost or repeated | 1.07 million | a refused token stays refused, a condemned session stays out; one call at a time: one live token, and nobody with a valid session is logged out |
| `sessions_two_calls` | 2 calls, nothing lost | | violated: section 6 |
| `wizard` | 1 trip, 2 slots, 1 driver, 2 keys, 2 requests, the wizard opened twice | 1.62 million | one order per wizard; the last page is complete; one answered call at a time: success shows the order that was confirmed, failure means there is none |
| `addresses` | 2 texts, 2 rows, 2 requests of any client | 125 thousand | an order is stored with both its addresses or not at all, though they may be deleted meanwhile; requests that wait for one another end; one request at a time: one recent row per text |
| `webapp`, start | 1 account, from any earlier state of it, 4 requests at once | 254 thousand in all | the start ends; only those cleared get to work; a logout is for good |
| `webapp`, picker | 2 places, 1 text, 1 field, 1 answer of the geocoder under way | | suggestions follow the text; map and geocoder are not waited for for ever; to a calm user the name shown is that of the point under the pin |
| `picked_address` | as the picker, 2 answers of the geocoder | | violated: section 6 |
| `addresses_twice` | as `addresses`, requests of the web app only | | violated: section 6 |

**Why the bounds are enough.** A stale write needs one order, one handler that
loaded it and one that changed it meanwhile: two request contexts and one order
make every such pair, and the driver's compare-and-swap steps come between them
without needing a context. A conflict between bookings needs two orders. Starts
one, two and three units apart with a ride and a buffer of one unit each fall
inside the ride, exactly at its buffer's end, and beyond. The lead time, the
horizon and the weekend each exclude at least one instant of `orders_race`, and
the clock moves past the lead time of another. In the slots of `staff` a day is six units;
rides start late on one day, at midnight and on the next, so that some fall
outside the date and inside the pad; the rows of hours include hours that
overlap. `sessions` needs three tokens to tell a token, its successor and the
successor's successor apart, and its clock passes the lifetime of each.
`wizard` needs a second slot to change one's mind to and a second key to open
another wizard with. Two replacements at once need two windows each
for their union to overlap, the sort and scan three windows in any order.
`addresses` needs two texts for a lock order to exist. The
page needs two weekdays, one changed and one not, and three times of day, so
that hours may differ from the defaults. The picker needs two places for a name
to be of the wrong one, and one text that is no place; questions about names are
not bounded except by the number of places, nor those for suggestions.

Bounds by name: `MaxNow` (clock), `Horizon`, `HorizonDays` (booking horizon, of
the code), `MaxRows` (windows per request), `MaxOrders` (orders in the table),
`MaxResets` (wizards after the first), `MaxTaps` (taps under way), `MaxGeocodes` (answers of the
geocoder under way), `OverlappingRows` (windows of a request that overlaps
another); the sets of ids. Where requests overlap, `Affordable` (in `MCOrders`) leaves
one of the three instants out of `orders_calendar`; one at a time they use all.
`AllOnDuty` keeps that run's driver on duty, for only an assignment looks at the flag.

`WithoutAudit` is a VIEW without the audit events: no guard reads them, and the
runs that use it check nothing about them. Symmetry permutes ids, drivers,
users, keys and request contexts; it is used only for safety and action
properties, never in the runs with liveness (`desk`, `addresses`,
`webapp`).

**Deadlock** is checked except where the system may stop: `sessions` (a blocked
account without a session), `staff` (nobody is an administrator any more;
a day's slots are at their last hour),
`wizard` (an order is placed and no wizard is opened after it), `desk` (the
order is over and its pages are closed).

**Fairness** is assumed in three runs only. `addresses`: the event loop runs a
coroutine that is ready, Postgres grants a lock that is free and ends one of
the transactions that wait for one another after `deadlock_timeout`; nobody has
to send a request. `desk`: the driver's queue is fetched every 20 seconds
(`refetchInterval`) while it is on the screen, and a fetch is answered; nobody
has to tap. Nothing is claimed about an order being accepted or a wizard being
finished: both wait for people, and no code sets `expired`. `webapp`: the browser
ends every request of the start, with an answer or an error, and the handlers of
the server end; geocoder, map and position have time limits in the code
(`yandexGeocoder.ts:17`, `MapAddressPicker.tsx:18-19`). Nothing else of the picker
is fair: no name, no suggestion and no tap has to come.

**Types.** Each module has a type invariant. `TypeOK` of Orders is part of
`OrdersInv`; those of the other modules are proved, as theorems or as parts of the
inductive invariants of section 5. Of the types of Schedule, SchedulePage and
AddressPicker the proofs need a part only (`ServerTypes`, `PageTypes`,
`PickerTypes`); all of them document the state and have been checked with the other
properties, but are in no configuration.

## 5. Proofs

Every safety invariant and every action property that a passing run checks is also
stated by a theorem, so what a run shows on its instance holds for every value of the
constants that satisfies the assumptions at the end of this section. A theorem about
a world that only an MC module tells apart (requests in turn, calm users) is about
`MCSpec`, whose steps are steps of the specification
(`InTurnIsAStep`, `CalmIsAStep`, `ServesAsSpecified`); that is why the proof
modules extend the MC modules. TLC finds the inductive invariants true in
every state of the instances of section 4; that of `Desk` also with two request
contexts, where the run `desk` has one, over 8 million states and not to the end.

### Orders, calendars and screens (`OrdersProofs`)

For any number of orders, users, drivers, keys, request contexts and instants, and
any buffer.

- `InvariantHolds`: `OrdersInv`, the inductive invariant. `TypeOK` alone is not
  inductive: an accepted counter-proposal copies `proposed_scheduled_at` into
  `scheduled_at`, which is typed only if a countered order always has a
  proposed time (`ProposalIffCountered`). That in turn is kept only if every
  stale write in flight either leaves status and proposal alone, closes the
  order, or confirms it and clears the proposal in the same UPDATE
  (`StagedWrites`), and every order starts without one (`StagedInserts`).
- `TypeCorrect`, `ProposalsMatchStatus`: its parts.
- `NeverDoubleBooked`, `NeverOrderedTwice`: the two constraints, carried through
  every action that writes a row (`OneWrite`).
- `HistoryInvHolds`, beside `OrdersInv`, and from it `TrailIsComplete` and
  `AgreedRidesAreManned`. That each status is explained by an event is not
  inductive: a stale UPDATE sets a status on a row its handler never saw. It is
  kept because the UPDATE brings its event along (`StagedExplained`), because
  events are only added, and because the chain of ride events is a fact about
  the events alone (`Explains`), which no status written over it can break. An
  UPDATE that will confirm an order does not set its driver, so the order must
  be manned while the reply is under way (`StagedIsManned`).
- `OneDriverTakesIt`: no staged write sets `pending_driver`, so a status that was left
  never returns (`NeverOfferedAgain`), and one that changes the driver brings the
  event of a reassignment (again `StagedExplained`), so that no copy loaded before an
  acceptance gives the order to somebody else but a reassignment's.
- `ImplementsCalendar`: each write of the order table is one step of `Calendar` or
  none; `CalendarsNeverOverlap`, what that is worth.
- `LivesAsDocumented`: with one request context, each write is one step of
  `OrderLifecycle` or none. Its invariant, `FreshCopy`, says that the UPDATE in
  flight is a legal step of the row as it is now; with two contexts that
  interleave it is false, and the first disagreement of section 6 is what follows.
- `InTurnInvHolds`: `InTurnInv` brings `FreshCopy` to any number of contexts served
  one after the other, a context that waits among them. `Serial` says that
  whoever writes was the only one under way (`WritesAlone`). From it
  `EachLivesAsDocumented`, and with two more parts `NoneIsStranded`: an order that
  is under way has a driver (`RideIsManned`), because a reassignment under way is
  about an order that may still be reassigned (`AssignsEarly`).
- `DriverSeesWhatIsAllowed`, `OwnerSeesWhatIsAllowed`: the conditions in the
  screens and the guards in the handlers agree for every row. The second needs
  the inductive invariant: the page asks for a proposed time, the handler for
  the status.
- `TapsDoWhatWasSaid`: a tap on a screen of any age does what the screen said or
  nothing, though the handlers compare the status only. Two invariants are behind
  it. `TimesInv` is about the table alone: whatever acceptances of one proposal
  are in flight (two taps on one button, say), they move the order to one and the
  same time (`OneOtherTime`), and none moves an order that is agreed already
  (`ConfirmsWhatWasAsked`). `ScreensInv` relates every row on a screen, on its way
  to one, or with a tap that was sent, to the row as it is now and to the writes in
  flight for it (`MayHaveBecome`): an order agreed when it was shown has kept its time,
  and nothing in flight will move it; one that is countered now was countered with
  the same proposal, or not yet. Rows with equal statuses so have equal times and
  proposals, and every write keeps it so (`MayBecome`). What a screen comes
  to show is what it or the table had (`ShowsOnlyRows`). The run `desk` has one
  request context; the theorem has any number.

### The slot picker, accounts and hours (`StaffProofs`)

`MCStaff` runs three parts with no variable in common, so a step of the whole is a
step of one part or stutters for it; what `AccountsProofs` and `ScheduleProofs`
prove becomes a theorem of the whole.

*Slots*, for any calendar, hours and answers of the route
service: `SlotsTypeCorrect`; `OfferedCanBeBooked` and `DriverReachesNextPickup`,
under the condition `PadCoversRides` that the longest ride with the longest way
after it fits the pad of `get_slots` (section 6 says what happens without it);
`NothingFreeIsHidden`. The argument is one lemma, `ClearOfRide`: a ride that was
fetched blocks its range, and a ride that was not is further from the date than
the pad. `GridWithinDay` supplies that a candidate stays within its date.

*Accounts* (`AccountsProofs`): `AccountsKeepIInv`, whose second part says that a
request which found a driver row may rely on it until it commits (no handler
deletes one), and a third, `UndecidedIsPending`, that an account without a decision has
its first status and that a copy with that status was loaded by a request which began
when there was none; from it `DriversHaveRows` and `DecisionsStandForGood`. In turn,
`InTurnInv`: what a request has read is still stored (`CopyIsTrue`), and, since
that includes the administrator who asked, a change of role that takes an
administrator's leaves that one. From it `TrailIsKept` and `AdminRemains`. It needs
that a pending account has no decision yet (`DecidedWhenNotPending`), or an
approval repeated would be on record twice.

*Hours* (`ScheduleProofs`): `ScanFindsOverlaps`, for weeks of any size,
comparing neighbours after sorting finds every overlap; the proof takes a pair
that overlaps and shows that the first of them overlaps its neighbour too.
`HoursInvHolds` is the inductive invariant, `ServerInv` for a server alone and
`PageInv` for a driver's page. For the server, however saves overlap, a row that a
DELETE did not see was stored after it started (`UnseenIsRecent`), from which
`OldHoursGoAway` follows: a save may leave the weeks of others it overlaps, but no
older one. In turn a DELETE has seen every row when it is committed (`SeesAll`), and so
`HoursAreDisjoint`. For the page, the parts say what a save under way has of the
rows shown (`SaveIsThePage`), when the query cache agrees with the table or will be
replaced (`CacheIsRight`), and what that means for what is shown (`PageIsRight`).
From it `SavedHoursAreStored` and `SavesKeepOtherDays`: the request entered from
rows that were filled from stored hours has, on a day not touched, what the table
has, for a day with at most one window is shown as it is stored (`RowShowsItsDay`); a
day with several is outside the property (section 6).

### Sessions (`SessionsProofs`)

`TypeCorrect`; `KeysOutliveTokens`, a key about a token is in Redis until the token
has expired; from it `DeadTokensStayDead`, and `CondemnedNeverReturn` for the marker
of a revocation. For a calm client `CalmInv`: one thing at a time is under way,
a refresh presents the token stored and is refused for a reason (`Presents`), and a
live token is the one stored or, between `Rotate` and `Granted`, the one
on its way to the client (`LiveIsHeld`). `OneLiveToken` alone is not inductive:
a refresh would add a second live token if it could present another than the only
one. From it `CalmHasOneToken` and `CalmIsNotLoggedOut`; both also need
`NoRevival`, that no step makes a dead token live, which the keys supply.

### Wizard (`WizardProofs`)

`WizardInvHolds`, every answer under way belongs to a
stored order of its key, and past a page the draft has what the page asks for;
from it `OneOrderEach` and `ConfirmationComplete`. That the page after the slot
cannot lose its slot to a late clean-up needs the fact that the clean-up also
sends the draft back to the page of slots. For a calm user `CalmInv`: the request
the button waits for is the only one, it carries the draft last confirmed, and its
key has an order exactly when that request has placed it. From it `CalmSuccess` and
`CalmFailure`.

### Saved addresses (`AddressesProofs`)

For any number of texts, rows and transactions. `PlacesInvHolds`: rows that are
locked exist and are locked by one transaction (`LocksHold`), and a transaction
that places an order has each of its two addresses still to look up, about to be
inserted, or locked (`PlacesAreKnown`). Locks are what makes it inductive: a row that
was looked up may be deleted by another request before its UPDATE, and then
the order fails (`FindGone`); after the UPDATE nobody else can delete it.
From it `OrdersKeepPlaces`. `InTurnInv`, from it `OneRecentRow`: the texts
a transaction is about to insert have no recent row, which holds while nobody else
is at work and no favourite becomes a recent row again; the web app sends no
such request, though the API would take it.

### The web app (`WebAppProofs`)

*AppStart*: `AppInvHolds`, the inductive invariant, in parts
that each say one thing. `Copies`: what the page, or an answer under way, says of
the account is never ahead of it; a decision, a name and a phone number are never
taken back, so an old copy errs on the safe side. `Callers`: who may have what
under way, where. `Starting`: before the start is over nothing else is. `Onboards`
and `Works`: the form is for those not cleared, the page's requests for those who
are, so no late answer to a form replaces what the page knows by less. `Out`:
after a clean logout nothing under way could bring the session back.
`OnlyTheCleared`, `LogoutIsForGood` and `BlockedAreNotTold` follow.

*AddressPicker*: `PickerInvHolds`. `WelcomeIsForTheText`: a request for suggestions
that was not cancelled is for the text as it is; with the effect's clean-up part of
every action that changes the text, `SuggestionsAreForTheText` follows.
`LabelIsOfThePoint` holds for calm users only, and is not inductive: a name
left over from another point stays in the state while the next is asked for. It
is not on the screen then (`OldNameIsHidden`), and the answer that comes is about
the point under the pin (`OneAtATime`).

### Assumptions

Each is named in the module that declares the constants and evaluated
by TLC in every run: `TimesAssumption` and `NumbersAssumption` (times and
durations are natural numbers; the buffer of Orders is not zero),
`NullsAssumption` (NULL and the other sentinels are not values),
`SessionsAssumption` (lifetimes are natural numbers), `WizardAssumption` (sentinels,
and that None is no position in the list of orders), `AddressesAssumption`,
`DeskAssumption` (sentinels, again, and the stages of a tap are not named like a
request context), `HoursAssumption` (there are finitely many weekdays and times,
and "not asked yet" is no answer). Accounts and
AppStart need none. A negative duration, which the API does not
refuse, is outside them.

### Only model-checked

Liveness, which is out of the prover's reach: `RequestsEnd`, `QueueCatchesUp`,
`StartSettlesHere` and `PickerSettles`, each in the run of its module; and with it
that the server never stops for good where deadlock is checked, for that is a
statement about ENABLED. What a recursive definition computes for every
input is out of reach too; no module declares one. The four violated statements of
section 6 are shown by TLC's counterexamples.

## 6. Disagreements found

Four have a run that violates what the repository says of itself:

- *A closed order reopens* (`orders_race_terminal`). A cancellation or a reply
  that races a completion or another cancellation overwrites a terminal status:
  `admin_api.py:270`, `orders_api.py:612`, `:776`. With one request at a time
  the same property is part of the refinement checked by `orders_race`.
- *Two calls log the user out* (`sessions_two_calls`). Both are answered 401,
  both refresh with the same token, and the loser of the race removes the token
  the winner has stored (`api.ts:74`).
- *A recent address twice* (`addresses_twice`). Two requests look a text up and
  insert it; every later look-up of that text fails (`addresses_api.py:146`,
  `orders_api.py:206`).
- *A ride under another address* (`picked_address`). The map is moved, the point
  is named, and the name goes to the search field; the map is moved again and the
  new point has no name, or it does not come. Confirmed, the address has the
  coordinates of the second point and the text of the first
  (`OrderWizardScreen.tsx:432`, `:245`).

Seen while modelling, in the models as the code has them, and without a run of
their own. Most contradict no statement of the repository; where one does, it is
quoted:

- Orders: an edit may land after the driver departed, and a second reply to a
  counter-proposal may take effect. An administrator who assigns "no driver" to
  an agreed ride leaves it in nobody's queue; the form of `AdminScreen` offers
  this as "any free driver", and remembers the driver it was opened with. Assigning another driver keeps the
  previous driver's counter-proposal, and the owner answers it as if the new one
  had made it. `AdminScreen` offers to reassign rides that are under way, which
  the API refuses; the owner's page hides the plain cancel button while a
  proposal is open, which the API would accept.
- Slots: a ride longer than four hours from the evening before is not seen by
  the picker of the next date (`orders_api.py:301`, `shared/slots.py:32`). On
  the last date of the horizon the picker offers times the API refuses.
- Schedule: two replacements at once may leave the union of both weeks, with
  windows that overlap (`drivers_api.py:161`), though `models.py:77-79` says "Real
  overlap prevention is enforced app-side in the schedule-replace endpoint instead":
  the endpoint sorts and scans one request, not the table. The form shows
  only the last of several windows of a weekday and drops the others when saved
  (`DriverScheduleScreen.tsx:36-43`).
- Accounts: two administrators who take the role from each other leave none
  (`admin_api.py:125`). A pending administrator may reject the own account. An
  approval and a rejection at once are both recorded, and the one committed later
  counts. The record need not tell which that is: `created_at` is the start of the
  transaction (`models.py:226-228`) and ids are random, so that after an approval
  begun first and committed last the latest decision on record is the rejection while
  the account is verified. `DecisionsStand` therefore compares the status with the
  decisions on record and not with the latest of them, and says that only
  requests under way together leave several.
- Sessions: two refreshes of one token at once may both be granted. A refresh
  answered after the user logged out stores a session again. Revocation counts
  in whole seconds and compares with `<` (`auth_jwt.py:73`), so a token issued in the
  second of the revocation, before it or after, survives it; `CondemnedStayOut` is
  about the sessions begun before that second.
- Start: the page for blocked accounts is never shown, for the server answers
  them 401 and the page turns to the login (`App.tsx:23-24` counts on it;
  `BlockedAreNotTold` proves it). A start without a network forgets the stored
  token. After the start nothing asks for the account again, so a role or a
  decision shows at the next start. The open page of users and the query cache
  survive a logout.
- Address picker: when the map is unavailable its text promises an order without
  coordinates (`MapAddressPicker.tsx:133`), but the button that confirms needs
  them (`OrderWizardScreen.tsx:428`). An answer of the geocoder for a text that
  has been changed since is taken. A name that arrives after the picker was
  closed goes to the search field of the next.
- Schedule page: it can be saved while its rows are not filled, or when asking
  for the hours failed, which stores the rows as they are. What is entered while
  a save is under way is shown as saved, and lost when the hours are fetched anew.
- Accounts and orders: a driver with rides booked may be given another role
  (`admin_api.py:132`) and cannot reach them any more.
- Wizard: a request sent again after a lost answer returns the order of the old
  draft while the page shows the new one; the draft may be edited while an
  answer is awaited. A conflict on the idempotency key of two requests at once
  is answered as a conflict of slots. The slot stays when trip or driver are
  changed after it; a late clean-up drops a slot chosen since.
- Screens: the answer to a form or to a cancellation closes whatever form or
  order page is open when it arrives; a reason typed for one order is carried
  to the form of another.
- Addresses: deleting an address fails the order being placed with it.

## 7. What is not modelled

- Verification of Telegram logins (a keyed hash); rendering, gestures and
  formatting; the bot; the worker, which has no job that changes state; reading
  of the configuration.
- Messages (`order_notify.py`, `telegram_send.py`): they follow the commit and
  change nothing. Push subscriptions: an upsert and a delete of rows nothing reads.
- The connection pool, the geocode cache, and requests to the route service,
  whose answers are arbitrary in `Slots`.
- The administrator's forms beyond the buttons they show: `Orders` lets an
  administrator send any request at any time, which includes theirs.
- Several tabs of one browser, and a restart of Redis, which forgets what was
  refused.
- Running a migration, and rows indexed under the old `order_busy_range`
  (migration 0006).
- The development build's toolbar.

## 8. Plan

1. *Done*: every module with runs; every safety and action property of the
   passing runs stated by a theorem.
2. `Sessions`: several tabs with one localStorage; `AppStart` over `Sessions`.
3. `Accounts` composed with `Orders`: a driver with rides booked is given
   another role.
4. `Desk`: the administrator's forms.
5. Proofs: the types of AddressPicker and Schedule in full; that a deadlock of `Addresses` is
   the only way for its requests to wait for one another; what of the calm
   properties survives when only answers are lost.

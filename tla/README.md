# Verification of the ride-pooling server

The repository is a ride-pooling service: a React client (`src/client/src`), an
Express API (`src/server/src`) and a PostgreSQL schema (`src/server/db`).  There is
no queue, no scheduler and no in-memory state in the server: every rule is kept by
transactions of the API processes and of three cron commands, through row locks,
re-reads and unique indexes.  Most of what can go wrong is therefore a question about
the order in which transactions commit; the rest is arithmetic (fares, detours,
scores), reads that are older than the write they lead to, and a client that polls
over a network which may lose its answers.

## Inventory

| Component | State | Operations | Properties that make it correct |
|---|---|---|---|
| Ride requests (`ride-request.service.js`, `ride.status.js`) | `ride_requests.status`, `searchExpiresAt` | create (idempotent), cancel, expiry sweep | a search ends; a cancelled or expired request is never ridden; one active request per passenger; one ride per key, whatever is retried |
| Dispatcher (`dispatch.service.js`, `dispatch.rules.js`) | `dispatch_offers` of kind INITIAL_RIDE | search, dispatch transaction, offer expiry sweep | one offer per passenger at a time; only to drivers who are free; every offer ends |
| Assignment (`assignment.service.js`) | none | pool search, then driver search, per request, at creation and in the sweep | a race or a failure of one request leaves the others served |
| Offers (`offer.service.js`) | `dispatch_offers.status` | accept initial, accept join, reject, late answer | an answer is final; an acceptance makes exactly one seat; a stale plan is refused |
| Driver availability (`driver.service.js`) | `driver_profiles.status` | online, offline, refresh | availability and active pools tell one story |
| Pool plans (`pool.service.js`, `09-driver-dispatch.sql`) | `ride_pools`, `pool_members`, `pool_stops` | found a pool, add a member | seats never exceed the vehicle; stops are ordered pickup before drop-off |
| Shared matching (`matching.service.js`, `matching.rules.js`) | offers of kind ADD_PASSENGER | search a forming pool (three unlocked queries and the router), choose the best insertion, create a join offer | a join offer describes the pool as it is; nobody aboard is carried farther out of the way than the limits allow |
| Driver trip (`trip.service.js`, `trip.rules.js`) | pool, member, stop and request statuses | depart, arrive, pick up, start, drop off, complete | request, seat and pool agree; nobody is left aboard; the trip can always go on |
| Shared fares (`pool-fare.service.js`, `pool-fare.rules.js`) | `pool_fare_calculations` | recalculate, finalise, repair command | one answer, for the plan the pool has, frozen at departure; a fare never rises and never exceeds the solo fare |
| Solo fares (`fare.service.js`, `fare.calculator.js`) | `fare_quotes`, `fare_policies` | quote, accept | the policy of the instant, the minimum fare, the unit |
| Sweep commands (`commands/`) | none, but the clock and the page they read | one pass over overdue requests, overdue offers and waiting requests | nobody who can be served is forgotten, whatever died before; no overdue offer stays |
| Web client, passenger (`ride-request-panel.js`, `ride-tracker.js`, `cancel-request.js`, `use-polling.js`) | React state: the form, the quote and its idempotency key, the ride last read, the loops and the calls in flight | choose, quote, book, poll, cancel, settle the outcome | a retry is harmless; the end of a ride is shown |
| Web client, driver (`driver-console.js` and its panels) | React state: status, offers and pool last read, the queue of refreshes, the action in flight | go online, answer, drive, poll | what the driver just did is on the screen; the polls that keep a driver in dispatch go on |
| Read models (`passenger-ride.service.js`, serializers) | none | what the client reads | a view of the tables |
| Routing, locations, users, sessions | road graph, users | routes, login | they hold no state of the ride lifecycle |

**How they interact.**  A request is created WAITING; the controller then calls
the assignment run outside the creating transaction, and the sweep calls it
again for every request left waiting.  A run looks for a FORMING pool whose plan
can take the passenger, else for an AVAILABLE driver.  Both searches read
without locks and call routing, for seconds; a transaction then re-checks and
inserts an offer.  The driver answers through the API.  An acceptance creates a
pool or grows one, moves request, seat and driver, and prices the plan, in one
transaction.  The trip commands move the pool's stops, members, requests and
driver to the end.

**Where it is hard.**
* Interleaving: the dispatch transaction locks the request but only *reads* the
  driver; acceptances lock request, then pool, then driver; availability locks the driver
  alone; trip commands lock pool, then its requests, then driver.
* Staleness: a search result is used seconds later, a join offer minutes later.
* Partial failure: a process may die between a search and its insert; nobody
  retries except the next sweep; a unique violation that is not caught ends a
  whole pass.
* Timeouts: an answer may arrive after the deadline and before the sweep, or
  after the sweep ended the request and left the offer.
* Limits: seats, one pending offer per driver, one pending join per pool, the page of
  a sweep.
* Arithmetic: fares are split by leg to the smallest unit and then rounded and capped;
  scores are sums of penalties and a capped credit.
* The client: answers are lost or overtake each other, a tab is hidden, a screen is left
  while its question is still on the way.

`PROJECT.json` lists each of these hazards with its line and its properties.

## Modules

| Module | Extends | Holds |
|---|---|---|
| `RideStatus` | | the statuses of the schema, and what each means to a passenger |
| `RidePromise` | | the abstract specification |
| `Dispatch` | `RideStatus` | matching, offers, pools and trips as concurrent transactions |
| `Trip` | `RideStatus` | one pool driven stop by stop |
| `LockOrder` | | the row locks of the transactions around one pool |
| `RideLedger` | | the abstract specification of booking a ride |
| `RideCreation` | | the creation of a request, statement by statement |
| `FareMath` | | solo fares, legs, shares and passenger fares, as operators |
| `PoolFares` | `FareMath` | quotes, shared-fare calculations, departures and the repair |
| `InsertionPlans` | | insertions, their metrics, limits and scores, and the rewrite of the stops |
| `JoinSearch` | `InsertionPlans` | the search for a pool, its offer and the driver's late answer |
| `DriverSearch` | | the shortlist of drivers, the router's answer and the score |
| `Sweeps` | `DriverSearch` | sweeps and follow-ups that search by an old clock while people move |
| `Polling` | | a browser tab, and `usePolling` |
| `PassengerApp`, `DriverApp` | `Polling` | the two screens of the web client, with what the server answers them |
| `Client` | both | the tab of whoever signed in |
| `MCDispatch`, `MCTrip`, `MCLockOrder`, `MCRideCreation`, `MCPoolFares`, `MCJoinSearch`, `MCSweeps`, `MCClient` | their module | instances for TLC |
| `DispatchProofs`, `TripProofs`, `LockOrderProofs`, `RideCreationProofs`, `PoolFaresProofs`, `JoinSearchProofs`, `SweepsProofs`, `ClientProofs` | their module | types, inductive invariants, action properties, refinements |

`Dispatch` and `Trip` look at the same transactions from two sides: `Dispatch`
has many drivers, workers and offers and leaves the order of stops open, `Trip`
has one pool and all of its stops.  Both implement `RidePromise`.  `LockOrder`
opens up the one step they give a transaction, and `RideCreation` the one they give
the creation of a request: `Create` of `Dispatch` and `Trip` is its `Commit`.
`JoinSearch` is what lies behind `OfferJoin` and `AcceptJoin` of `Dispatch` (any plan may
win there), `Sweeps` what lies behind `SearchDriver` (any candidate may), and `PoolFares`
what lies behind the variable `fare`.  `Client` looks at all of it from outside: the server
is there only what its answers say.

### `Dispatch` - the transactions that match and drive

| Variable | Code |
|---|---|
| `request` | `ride_requests.status`, `"NONE"` before creation |
| `seat`, `rider` | the `pool_members` row of a request: its pool and status (the row is unique per request) |
| `pool` | `ride_pools` status, driver and `version` |
| `driver` | `driver_profiles.status` |
| `offer` | `dispatch_offers` rows: status, kind, request, driver, pool, pool version |
| `late` | requests and offers whose deadline has passed |
| `fare` | the pool's newest `pool_fare_calculations`: its plan version, status and passengers |
| `work` | the assignment runs in flight: what each has read and not yet written |

A transaction is one action when its row locks make it atomic: it re-reads under
`FOR UPDATE` whatever it decides on, so an interleaving of two such transactions
equals one of the two serial orders.  The exception is `dispatchWaitingRequest`, and it
is split where the code can be interrupted: `SearchDriver` (unlocked shortlist
and routing), `CheckDriver` (request locked, driver merely read) and
`InsertOffer`.  Between the last two the worker *holds* the request's lock, and
`Unlocked(r)` keeps every transaction that needs that lock waiting; all others
may commit.  `OfferJoin` locks request and pool and is one action; its plan was
read in `BeginAssign`.  `Crash` is a process that dies or a transaction that
times out: the worker forgets what it read and its locks are released.

Abstractions, each of which only adds behaviours or merges equal ones:
* A pool is named by the request that founded it, since a request is in one pool
  for ever.
* Every transaction reads the clock before it waits for its first lock and
  decides with that instant.  `late` is a set that only grows for an entry, and a deadline
  tested with an older instant equals the order in which the clock moved after
  the transaction; so a single test at the action is enough.
* Whether a plan exists, and how drivers are scored, depends on geography: any
  candidate may win, and none may.  (`JoinSearch` and `Sweeps` have the geography.)
* The stops of a pool are abstracted to "some passenger is next"; `Depart`
  needs a member, `PickUp` may take anyone assigned.
* `FreeOffers` bounds the offers ever made.  A full table blocks only the insert
  and not the run: `Crash` still ends it.

### `RidePromise` - what the service promises

Three variables: the phase of every passenger's ride, the driver who took them, and
what every driver is doing.  No offers, pools, workers, stops or deadlines.  A driver
takes a first passenger only when free and empty, further ones only while
gathering and below the seats, sets off, and is free again only when everybody
was delivered.  `Dispatch` and `Trip` instantiate it as `Promise`, with `Phase`,
`Carrier` and `Duty` as the refinement mapping: a request's status, the driver of
its pool, a driver's availability.

### `Trip` - the pool's plan and the driver's commands

| Variable | Code |
|---|---|
| `request`, `rider`, `driver`, `pool` | the four statuses, of every request and of the one driver and pool |
| `plan` | `pool_stops` ordered by `sequence` |
| `stop` | `pool_stops.status` |
| `fare` | whether the pool's calculation is CURRENT or FINALIZED |

A driver's client may send any command at any time, twice, or long after it was
shown.  So `Decision(c)` answers *every* command in *every* state, as the rules in
`trip.rules.js` do: REPEAT for one that is done already, APPLY, or REFUSE.  The
order in which the rules test is kept (a repeat is recognised before anything is
refused).  Only an applied command is a step; `Served` is what its transaction
checks after the decision.

Acceptances found a pool (`FoundPool`) and grow it (`Join`); a join may choose any
placement of the two new stops that keeps the others in order and fits the seats,
which is what `insertionPositions`, `buildProposedStops` and `simulateOccupancy`
leave to the scoring.

Abstractions:
* Service points and times.  Which insertion is kind enough to be offered is
  geography; every one that fits is tried.
* A join is one step, without its offer: `JoinOffersAreCurrent` of `Dispatch` shows
  that the plan an acceptance applies is the plan the pool has.
* A command that names a stop of another pool is refused and left out.
* One pool per behaviour.  After the trip the driver may go offline and online,
  but founds no second pool; when every request has ended as well nothing more is
  to happen, so deadlock is not checked.

### `LockOrder` - one lock at a time

| Variable | Code |
|---|---|
| `request` | whether a request is WAITING, a member (MATCHED) or ended |
| `offered` | the requests with a pending join offer of the pool |
| `pool` | not founded, FORMING, or departed |
| `task` | per database session: the call it runs, the request it is about, the lock it waits for, the locks still to take, those it holds, and the members it read |

Each kind of transaction is the order of its locks: `INITIAL` (dispatch or
acceptance of a first offer: request, driver), `OFFER` (request, pool, and the
driver through the foreign key of the offer it inserts), `JOIN` (request, pool,
every member for the fares), `CLOSE` (cancel, reject, expire: the request alone),
`COMMAND` (pool, members, driver), `REPAIR` (pool, members), `AVAILABILITY`
(driver) and `DEPART`, which reads the pending join offers *outside* its
transaction, locks their requests, and only then pool, members and driver.
A lock that is granted is followed by the re-read the code does under it
(`StillOpen`, `MayTakePool`); `RollBack` is any refusal, time-out or deadlock
victim and may come at any time.

The trip locks members by request id, the fares by member id; the model locks
them in any order, so nothing it shows depends on one.  Stops and vehicles are
locked only by who holds the pool or the driver and are left out.

### `RideCreation` - one ride per key, quote and passenger

| Variable | Code |
|---|---|
| `ride` | the `ride_requests` row a quote was accepted for: passenger, idempotency key, active or not |
| `expired` | the quotes past `expires_at` |
| `call` | per HTTP call: passenger, key and quote it sends, whether the quote had expired when it came, and the statement it is at or the answer it was given |

`createRideRequest` says of itself that its checks are a courtesy and the constraints
decide, so here nothing is taken for atomic: every statement is an action and sees
what is committed when it runs.  `FindPrior`, `LockQuote` (the row lock, and what is
read under it), `CheckActive`, `Insert` (which waits for an undecided row that stands
in its way, then breaks a rule or not) and `Commit`; after a broken rule `RereadPrior`,
`RereadQuote` and `RereadActive` look for the reason.  A client sends any call at any time,
again or with a key it used before; `Lose` is a time-out, a crash or a
broken connection at any point, after the commit too.

`RideLedger` is what all of that should amount to: `Book` in one step, when quote and key
are unused and the passenger has no active ride.  Its only variable is `ride`.

Abstractions:
* A fingerprint is a digest of the passenger and of an immutable quote: equal when both are.
* A ride is named by its quote, which has a unique column of its own.
* What a ride goes through is `Dispatch`; here it ends at any time.
* A service point that was closed is a refusal that may come whenever it is asked for.

### `PoolFares` and `FareMath` - what passengers are asked to pay

| Variable | Code |
|---|---|
| `quote`, `solo` | the open `fare_quotes` row of a ride, and the fare it was requested at |
| `pool` | status, `version` and stops of a pool |
| `rows` | its `pool_fare_calculations` in the order they were written, with legs, shares and allocations |
| `rule` | `SHARED_FARE_RULE_VERSION` of the running release |
| `sweep`, `report` | the pools a repair has still to price; how the last pricing ended |

A calculation runs in the transaction that changes the plan, so `OpenPool` and `Join` are
one action with their price and leave nothing behind when it cannot be made.  `Pricing`
keeps the order of the refusals; `Stored` is what the unique indexes and the CHECKs of
`11-pool-fares.sql` and `14-fare-rounding.sql` make of the rows.  Amounts are whole numbers
of the smallest unit of money, weights thousandths, multipliers hundredths: what the code
rounds is rounded at the same place, half away from zero, and what it keeps exact is exact.
`SoloFare`, `LegShares` and `PassengerFare` are `calculateSoloFare`, `allocateLegShares` and
`computePassengerFare`.

Abstractions: routes are a table by traffic and pair of points; events and the fields kept
for display are left out; a ride's number is also its member's id, by which leftover units
are handed out.

### `InsertionPlans` and `JoinSearch` - a place in a pool

| Variable | Code |
|---|---|
| `ride` | status, instant of the request, and the quoted duration a detour is measured against |
| `pool` | status, version, `stops` with the planned `arrivals`, members in the order they `joined` |
| `search` | what an assignment in flight has read: the candidates and their versions, then the stops, then the members |
| `offer`, `spent` | the pending join offer of a pool with its plan; pairs never offered again |

A search is four actions, because `findBestJoinPlan` reads in three queries outside any
transaction: `Shortlist`, `ReadStops`, `ReadMembers`, and `CreateOffer` with its
re-reads under the locks (`StillOffered`).  `Accept` re-anchors the plan at the instant of
the answer, checks the stops it finds and rewrites them one row at a time: `Rewrite` goes
through the intermediate rows and stops at the first that the unique sequence or the trigger
of `09-driver-dispatch.sql` refuses.  `Metrics`, `Allowed`, `Score` and `Better` are
`planMetrics`, `validatePlan`, `scorePlan` and `comparePlans`.

Abstractions: `PassesNear` compares points of stops instead of the route's geometry; which
of equally near pools make the shortlist is left open; a driver answers for one pool and
waits where it was planned from.

### `DriverSearch` and `Sweeps` - who is offered a ride, and when

| Variable | Code |
|---|---|
| `request`, `offer`, `driver` | the three tables, with the instants that something reads: `requested`, `offered`, `answered`, `availableSince`, `lastSeenAt` |
| `run` | per process: its stage, the loop it is in, **the clock it read when it began**, the page of the loop, and the assignment it is at |
| `deeds` | bound on what people do unasked and on processes that die |

`dispatch-sweep.js` reads the clock once and passes it on through both loops, so every
window is judged and every offer dated by that instant, however long the router takes
meanwhile.  `Search` and `Insert` are two steps; people move, answer and cancel between
them.  `RouterFails` ends the whole run, as the exception does, and so does `InsertRefused`:
`Forestall` is another process whose offer to the same driver was committed first, and the
unique index refuses the second row.  `Pages` is `ORDER BY ... LIMIT` with its ties open.

Abstractions: pools are `JoinSearch`'s; cancelled, expired and completed requests are all
`CLOSED`; an instant nothing reads again is 0; a trip is over in one step.  The transaction's
check and its insert are one step, so a driver who has an offer by then was seen to have it
(`Insert`) or was not (`InsertRefused`).  The other process of `Forestall` searches and
inserts in one step and appears only where it gets in the way of a run; two dispatchers step
by step are in `Dispatch`.

### `Polling`, `PassengerApp`, `DriverApp`, `Client` - the web client

| Variable | Code |
|---|---|
| `hidden`, `hides`, `lost` | `document.visibilityState`; bounds on hiding and on failed calls |
| `form` | `RideRequestPanel`: journey chosen, quote shown, key, a submission under way |
| `track`, `watch` | `RideTracker`: ride last read, record of a ride that is over, notices; its `usePolling` loop |
| `calls` | requests on their way: what they ask, for whom, and the answer once served |
| `quotes`, `rides` | the server's rows behind the passenger's answers |
| `desk`, `beat`, `queue`, `reading`, `act` | `DriverConsole`: what it shows, its loop, the refreshes waiting, the one reading, the action pressed |
| `duty` | the server's side: status, freshness, offer, pool |

A call is three steps, `Serve` (the server's answer, at one instant), `Lose` (before or
after that) and `Land` (the continuation in the component), so answers overtake each other
and arrive at screens that are gone (`Outlives`, `Abandoned`).  `usePolling` is a loop with
any number of pending timers: coming back to the tab asks at once and leaves the old timer
alone.

Abstractions: the four parallel reads of the driver's page are one instant; navigation is
atomic with the read it makes; the six trip commands are reduced to departing and
completing; sign-up, sign-out and leaving the console are left out; the tab is hidden only
while a loop listens or a booking is under way.

### Instances

`MCDispatch`: requests, drivers and workers are symmetric model values; offers are
numbers because a free one is picked with `CHOOSE`.  `MCTrip` has one driver and
no symmetry.  `MCLockOrder`: requests and transactions are symmetric.
`MCRideCreation`: keys and calls are symmetric.  `MCJoinSearch`: workers are symmetric;
its three rides lie along one road of four points.  `MCPoolFares` has three rides over
three points and two policies, `MCSweeps` one road of two points.  No run that
checks liveness uses symmetry.

## Runs

| Run | Instance | Shows |
|---|---|---|
| `dispatch_races` | 2 requests, 2 drivers, 2 workers, 2 offers, 2 seats | availability and pools tell one story, one offer per passenger |
| `dispatch_joins` | 3 requests, 1 driver, 1 worker, 3 offers, 2 seats | join offers describe the pool as it is, the fare prices the plan, request, seat and pool agree, answers are final, an acceptance is a seat, `Dispatch` implements `RidePromise` |
| `dispatch_live` | 2 requests, 1 driver, 1 worker, 3 offers, fair | every offer and every search ends |
| `trip_stops` | 4 requests, 3 seats | plans stay drivable and are followed, no trip is stuck, buttons and retries work, order is kept, `Trip` implements `RidePromise` |
| `lock_order` | 3 requests, 3 transactions | checks under the pool's lock stay true, a departure closes the pool, only departures collide |
| `ride_creation` | 2 passengers with 2 quotes and 1, 2 keys, 2 calls sent again and again | what was checked holds at the commit, a retry is no conflict, `RideCreation` implements `RideLedger` |
| `pool_fares` | 3 rides, 2 pools, every order of stops, 2 policies, 2 releases, a repair that examines 1 pool | a pool has one answer, for its plan; fares never rise, never exceed the solo fare and never undercut the minimum; everybody pays for their own legs; the tables refuse nothing the code computes; a settled fare stays |
| `join_search` | 3 rides, 2 pools, 2 searches at once, 3 instants, with and without rush hour | limits hold for everybody aboard after every join, the wait counts from the answer, the offer is the best place in the pool as it is, the rewrite is clean |
| `sweeps` | 2 requests, 2 drivers, 1 process and those that forestall it, pages of 1, 3 instants, fair steps | nobody who could be served is forgotten, though a failing router or a refused insert ends a sweep; overdue offers end even if the router never recovers; matches come in time; proximity wins |
| `client` | 1 tab, 2 journeys, 1 ride, 2 offers, 1 failed call, 1 look away, fair | a lost answer is harmless; the outcome is shown; the driver's own action is on the screen; the heartbeat goes on |

Why these bounds: a race needs two workers for one request or two requests for one
driver, and both are in `dispatch_races`; a refusal, the re-offer to another driver
and its answer take two offers, one more lets a late answer cross them.  A full
pool that a third passenger wants needs three requests for two seats.  Every way two
passengers' stops can interleave is in `trip_stops`, and a third passenger adds the
joins into a plan that is already interleaved; the fourth request is the one the
full vehicle turns away.  A cycle of locks needs two holders and one
acceptance that went before; three transactions have room for it.  Two calls in flight are one that waits
and one it waits for, and each may be sent any number of times, so a third that comes in
between is the first one again.  Three passengers are the first number for which a leg's
cost does not divide between those aboard and a cap comes from a plan that was capped
itself; the prices were chosen so that legs leave units over, and the second policy is
dearer, so caps bite.  A join on top of a join needs three rides, and two searches are
enough for one to read a pool in the middle of the other's join.  With pages of one and two requests, one that needs no search
can stand in the way of one that does; an offer lives one instant and a search window two,
so both end while a sweep is at work.  In the client one failed call, one look away and three
deeds are enough to have each of them before and after each answer.
What must hold for larger instances is proved, where the prover reaches.

### Disagreements between the code and its comments

Each of these runs checks one sentence of a comment and is expected to fail.

| Run | The comment | What happens |
|---|---|---|
| `pool_fares_repair` | the repair exists for a bug in a past calculation that a deployment has since fixed (`recalculate-pool-fares.js:14-16`), and the rule version is bumped whenever the arithmetic changes (`pool-fare.rules.js:87-88`) | the previous answer is looked for among *older plans* only (`pool-fare.service.js:449`), so the CURRENT row of the same plan under the older rules is not superseded, the insert breaks the index on the current answer, and the pool is skipped in every pass |
| `client_booked` | the timer is cleared by the next change, so only the journey the passenger settled on is ever priced (`ride-request-panel.js:178-181`) | a quote already on its way is not called back: its answer sets price and key although the journey was changed, and the button books the old one |

Remarks made while modelling, kept here without a run of their own:

* *Dispatch.*  A comment promises that two dispatchers racing produce one offer and one
  controlled skip (`dispatch.service.js:48-51`), but nothing catches the unique violation of
  the second insert (446), and it ends a sweep; `NobodyIsForgotten` holds all the same, because
  a later sweep finds the requests behind it.  A driver who refuses between search and
  insert is asked again (365), against 70-73.  The driver is read unlocked (378-391), so one
  who went offline in between is offered the ride, against `driver.service.js:20-22`.  An
  offer to a driver who moved in between can only lapse: the insert does not compare points.
* *Trips.*  `decideStart` refuses whenever the next stop is a pickup (`trip.rules.js:413`),
  against 390-393.
* *Locks.*  A departure can wait for a pool while it holds a member's request, when the join
  offer it read was accepted first (`trip.service.js:403-413`), against 95-97; PostgreSQL
  rolls one of the two back.
* *Booking.*  A retry is said to be no conflict (`ride-request.service.js:345-349`), but the
  deadline of the quote is tested before its use; `RetryIsNoConflict` names the exception.
* *Sweeps.*  The shortlist's LIMIT comes before the test of freshness, so stale nearer drivers
  can crowd fresh ones off it (`dispatch.service.js:60-69`); a page of the oldest requests
  that nobody can serve blocks the younger ones until their windows close; an offer made late in a
  long sweep is born with less than its life, or already overdue, and its driver is not
  asked again for that request.  `Neglected` states precisely who is not forgotten.
* *Joins.*  The newcomer's own detour is not limited at their own join, and later joins may
  move a pickup back without limit (`env.js:190-196` limits the newcomer's wait only).
  `POOL_JOIN_ACCEPTED` is appended to the joiner's own timeline, which reads it as somebody
  else joining (`offer.service.js:1027-1029`).
* *Fares.*  The repair takes its page before it filters for staleness, so up-to-date old pools
  can fill it.  When a new policy changes the rounding unit, caps from the old one may not be
  multiples of the new one, and acceptances are refused by `passenger_fare_allocations_caps_are_whole_units`.
  `fare_policies` only asks multipliers to be positive (`07-fare-pricing.sql:105`, `fare.seed.js:85`),
  but with one below 1 the traffic adjustment is negative, and `fare_quotes` refuses every quote made under it.
  `ChecksNeverRefuse` therefore speaks of policies with one unit and no multiplier below 1; the
  seeded policies are of this kind.
* *Client.*  A poll in flight while a ride is cancelled can bring the ended ride back to the screen
  until the next poll; a cancellation whose answer was lost ends, when pressed again, in
  a notice that it was too late; coming back to a tab leaves two chains of timers.

None of them breaks a safety property of the server: every acceptance locks and re-checks the
driver, which is what `DriverCommitment` and `PromiseKept` show, and a deadlock's victim is
rolled back.

## Fairness

`dispatch_live`, `sweeps` and `client` assume some, and nothing of a person: no driver
answers, no passenger cancels, nobody goes online, presses a button or looks at a tab.

In `dispatch_live`:
* The clock: `CloseWindow` and `LapseOffer` are weakly fair, because deadlines pass.
* The sweeps: `ExpireRequest` and `ExpireOffer` are weakly fair, because both
  commands are meant to run again and again from cron and go through every overdue row.
* A worker's steps together (`RunStep`, with `Crash`) are weakly fair, because
  every transaction has a timeout (`transactionTimeoutMs`) and a search ends: a run goes on,
  or it fails; it does not hold its request's lock for ever.

From this follow `OffersEnd` and `SearchEnds`.  That a *ride* ends is
not promised: it is up to the driver.

In `sweeps` the steps of a process are weakly fair (`Step`): a scheduler starts the sweep
again when it ended, and a search, a query and a transaction end.  Nothing makes the clock
move, so `NobodyIsForgotten` does not live on closing windows; and the router may fail
for ever, which is why that property is stated for behaviours in which sweeps are broken
off by the router only finitely often, while `OverdueOffersEnd` is not.  Sweeps broken off by a
refused insert need no such clause: each follows an offer somebody else got in first, and no search
chooses a driver again who let the request go.  `Forestall`, like people's deeds, has no fairness.

In `client` timers fire, requests are served and answers arrive.  Failed calls are finitely many
(`MaxLost`), because otherwise no retry need ever get through.

## What is proved

The proofs are for every set of requests, drivers, workers, offers and
transactions, any number of seats and plans of any length.  They assume only what the modules
name: a positive capacity (`CapacityAssumption`, `SeatsAssumption`: the schema's
CHECK on `capacity_snapshot`), that null is no request, driver, lock or ride
(`NoneAssumption`, `DriverAssumption`, `LocksAssumption`), and that a quote belongs to one
passenger or to none (`OwnerAssumption`); for `Sweeps`, that drivers and requests are finitely many
numbers, that windows and weights are natural numbers, and that distances and approaches are
given for every pair of points (`DriverSearchAssumption`, `SweepsAssumption`); for `PoolFares`,
that policies satisfy the CHECKs of `fare_policies` (`PoliciesAssumption`), that whatever the
router answers between two different points is a list of edges with positive lengths and durations, or nothing
(`RouteAssumption`), and that a ride runs between two points and has an old fare where it has an
old pool (`PoolFaresAssumption`); for `JoinSearch`, that pools are finitely many, that no plan is longer
than the offset the rewrite parks rows at (`pool.service.js:250-251`), that limits are integers and
weights natural numbers (`JoinSearchAssumption`), and that every road between two different points
takes time, or is not there (`TravelAssumption`); and for `Client` a finite number of deeds and that null is no
screen (`DeedsAssumption`, `NoneAssumption`).

**`Dispatch`.**  None of its properties is inductive alone; `Inductive` is their
conjunction with what they rest on, in three layers, each proved from those
before it:
1. *Offers* (`OfferInv`): an unanswered offer seeks a rider and is the passenger's
   only one.  This needs `DriverSlot` (one pending offer per driver, the unique
   index) and `LockedSearch`: while a worker holds its request's lock, between its
   check and its insert, the request still has no offer and no seat.  The lemma
   `LockHolds` is the row lock: nobody else changes that request.
2. *Rides* (`RideInv`): request, seat and pool agree; availability and active
   pools tell one story.  This needs `FounderSits`: a pool's founder is its member,
   so a pool is never empty and never founded twice.
3. *Plans* (`PlanInv`): join offers are current, the fare prices the plan, an
   acceptance is a seat, no overbooking.  The version of a pool counts its
   members, which needs the member sets to be finite.

`InductiveHolds` is that it is inductive; each property is then
drawn from it, and `OfferFinality`, and every step is shown to map
to a step or a stutter of `RidePromise` (`PromiseIsKept`).  The heart of the mapping is
`LoadIs`: the passengers a driver carries are the unfinished members of the pools they drive.

**`Trip`.**  `TypeOK /\ Stages` is inductive, with nothing said of the plan: the
stage of each passenger bounds the pool's, whatever order the stops have.  From
it follow `ButtonsWorkHolds` (a command that applies is never refused by the
transaction's later checks) and `PromiseIsKept`.  Type correctness needs
the facts about `InsertAt` that are proved as lemmas first.  What speaks of the order of
the stops needs more, `Inductive`: the plan names each stop once and pickups first
(`PlanIsDrivable`), the stops that are done are a prefix of it (`ServedInOrder`), and a passenger's
row, request and two stops say the same (`RowsAgree`).  An insertion keeps the prefix because
it lands behind the first stop that is not pending (`Processable`), and two insertions move
every other stop without passing another (`Shifted`).  From `Inductive` follow
`RidersFollowThePlanHolds`, `OrderIsKeptHolds` (what the driver has begun is never overtaken by
an insertion), `TripCanGoOnHolds` (some command applies until the pool is over: the first
unfinished stop is the one its command asks for) and `RetriesSucceedHolds` (a command
sent again is answered as a repetition and not as a conflict).

**`LockOrder`.**  `Inv` is inductive: no lock has two holders, each transaction is
in order (`Stage`), what was read under the pool's lock is still so (`Checked`),
a departed pool has no join offer.  `ReadStep` and `WriteStep` split the
steps: one that takes a lock disturbs nobody, and one that commits writes only under
locks the others do not hold.  `NoDeadlock` then argues down the lock order: who holds the
driver waits for nobody; so nobody waits for the driver; a member is held only
with the pool, or by an overtaken departure; so the pool's holder waits for nobody;
so nobody waits for the pool; and who waits for a request holds nothing.

**`RideCreation`.**  `Inductive` joins the uniqueness of rides with the progress of each
call (`Progress`) and what keeps two calls apart (`Apart`).  `RidesAreUnique` alone is not
inductive: a commit is safe because its insert waited for every undecided row of its passenger, so
nothing was booked between insert and commit.  From that, `CommitBooks` shows each commit to be a
`Book` of `RideLedger`.  `RetryIsNoConflictHolds` needs that the quote of an existing ride
is the caller's own, and that who holds its lock would have seen it.

**`PoolFares`.**  `Inductive` says of each pool that its calculations follow its plan (`Follow`:
versions grow, only the last row is not superseded, its fares are those of the plan's passengers, and
earlier rows priced no others) and that no fare of any row exceeds what its passenger accepted or was
charged in an earlier row (`Capped`); and that no ride is in two pools (`PoolsAreApart`).
`FaresStayInBounds` alone is not inductive, because a recalculation looks at the last answer only: that
it is below *all* earlier ones needs the last one to be so, and a passenger of an earlier row to be
still in it.  The repair is the delicate step.  It prices pools that have rows of another rule
version only when the present version has none of them, so that the row it adds is the first of
a pool or is refused; `PreviousIs` computes which answer such a row is compared with.
Below that lie the lemmas about the arithmetic: `Total` of natural numbers is one (`SumType`),
rounding keeps whole units (`RoundingKeepsUnits`), so a fare that the tables accept obeys both caps
and is below the minimum only where a cap is (`PassengerFareIsFair`); the walk along the stops finds aboard just
those collected and not yet delivered (`AboardAreCollected`), and they share each leg with no two
shares more than a unit apart (`LegSharesFair`, `SharesOfThePlan`).  Sums and
walks are defined by recursion over data, and the library's induction rule takes an operator;
the proofs use `NatByInduction` instead, which speaks of a *set* of numbers and is proved from
well-foundedness, and establish each recursive function by showing that one exists.
From `Inductive` follow `OneAnswerHolds`, `FaresStayInBoundsHolds`, `PaysForOwnLegsHolds` and
`SettledForGoodHolds`.

`ChecksNeverRefuseHolds` needs a second invariant on top, `NothingIsRefused`: under steady policies
(`SteadyPolicies`: one unit, no multiplier below 1, old fares in whole units) every quote, every
accepted fare and every fare of a row is a whole number of units, and every plan can be priced.
Two insertions keep the latter (`InsertedStops`, `JoinedCanBePriced`): all other stops keep their
order, and the seats were counted by the acceptance.  The CHECKs on a row follow one by one: the
adjustments are not negative (`TrafficAdds`), the shares of a leg add up to its cost because
as many passengers get one unit more as there are units left over (`HandedOut`, `LegSharesAddUp`),
rounding moves a fare by half a unit at most and past no cap (`RoundingIsClose`, `CapsAreKept`), and
some leg leads somewhere (`SomeLegLeads`).  The row of totals is the hard one, because the route is
summed by leg and its shares by passenger: sums have to be shown independent of their order first
(`SumIs`, `TotalAdds`), then exchanged (`TotalsExchange`).

**`JoinSearch`.**  `Inductive` says of each pool that its plan picks everybody up before it drops them
off, in two stops per passenger, and that the limits hold for them (`Good`); and of each search and
each offer that the version it read is at most the pool's, and that if it is the same, then stops,
members and creation are the pool's and the plan is the best of those feasible in it (`ReadingIs`, `StillBest`).
That is what makes three queries outside a transaction harmless: the version is read first, and
`CreateOffer` and `Accept` go on only where it has not moved.  Four groups of lemmas carry it.
An insertion keeps the order of the other stops and the pairs (`InsertAtElements`, `ProposedShape`, `PlacedIsPlan`).
`comparePlans` is a strict order, so among finitely many plans there is a best
one (`OrderOrder`, `BestIs`).  The time a passenger rides is the sum of the legs between their stops, whatever the
instant the plan is anchored at, so re-anchoring at a late answer moves waits and nothing else
(`RideTimeIs`, `MetricsAre`); `RatioBounds` takes the rounded ratio of the code to the
one the property speaks of.  And after any number of statements of the rewrite, the rows written have their new
sequence and the others are parked behind the offset, so that no two rows meet and no drop-off is written
while its pickup stands behind it (`HalfwayUnique`, `WriteNext`, `WrittenIs`); what is read back is the new plan
(`OrderedStopsAre`).  From `Inductive` follow `KindToAllHolds`, `WaitHoldsHolds`, `RewriteIsCleanHolds` and
the action property `OfferIsTheBestHolds`.

**`Client`.**  The screens do not share state, so there are two invariants.
`ConsoleInductive` says of the driver's screen that refreshes wait in a queue, that at most one
of them is the action's own, and that the parts the running refresh has read since the action
wrote are just those its step has passed (`PartsRead`): so what is shown when the action ends was
read after its write (`OwnWriteIsShownHolds`).  `PanelInductive` says of the passenger's that
each quote is asked for once (`AsksAreNew`), that a booking in flight is the panel's, which waits,
or nobody's (`OneBooking`), and that the key of a booking names its quote wherever it is kept
(`KeysNameQuotes`), so a booking sent again after a lost answer finds its own ride or an unspent
quote (`LostAnswersAreHarmlessHolds`).

**`Sweeps`.**  `MatchesComeInTime` and `ProximityWins` are about single steps, and each needs
an invariant.  For the first it is `Timely`: an offer of a waiting request was made within
the request's window, by whatever clock, because the insert judges the window and dates the offer by
the same one (`InsertKeeps`); `OnlyAcceptMatches` and the offer's own deadline do the rest.  For the
second it is that a run in its search is at a request of the table, so that everything compared
is a number (`RunsReady`, `TypeOK`).  `PageOf` then shows that a page leaves out nobody nearer than one of its rows, and
`ScoreBounds` that a score differs from the approach by at most the capped credit one way and the
penalties the other, so `BestIsNudged`.

The type invariants of `Dispatch`, `Trip`, `LockOrder`, `RideCreation` and `Sweeps`, the inductive
invariants (each was checked on an instance before it was proved), and `NoOverbooking`, `OffersSeekRiders`, `LocksAreHeld`, `Stages` and `RidesAreUnique` are proved
and listed as theorems only; no run spends time on them.

**Only model-checked.**
* Liveness (`OffersEnd`, `SearchEnds`, `NobodyIsForgotten`, `OverdueOffersEnd`, `ShowsTheOutcome`,
  `KeepsLooking`): beyond the prover.
* The runs that are expected to fail.

## Not modelled

* Routing (road graph, Dijkstra, traffic windows) and locations: pure functions of the map; a
  table of routes or distances stands for them, and `RouterFails` or a missing route for their failures.
* Users, sessions and passwords: no state of the ride lifecycle; `role` in `Client` is all that is
  seen of them.
* Read models: the serializers' wording and layout, timelines and events.  What the client decides on is
  modelled (`CurrentRide`, `Online`); events are appended under the locks of what they describe and
  read by nothing that decides.
* Solo quotes: expiry, policy choice and price are modelled; the display fields are not, and
  a quote that is accepted for two rides at once is `RideCreation`'s subject.
* In the client: sign-up and sign-out, the map, formatting, the pages that only show.
* Driver profile details that an acceptance re-checks besides point and freshness (vehicle): a
  refusal changes no state.
* Seeds, migrations, build and deployment files.

## Open ends

What a continuation would take up first: two processes in `Sweeps`, which is beyond a run of a
few minutes; liveness, should a prover for it become available.

# GoRail in TLA+

Specifications of the GoRail railway booking backend (`src/BackEnd`): TLA+ modules
translated from the source, TLC configurations that check them on small instances, and
proofs checked by TLAPS. Paths below are relative to `src/BackEnd` unless they start
with `src/`; `inventory.service.js:315` means line 315 of the file of that name.

Run a configuration with `tlc -config <run>.cfg <MC module>`; the runs are listed below and in
`PROJECT.json`. Check the proofs of a module with `tlapm <module>.tla`; they are in the eight
modules whose names end in `Proofs`. `BookingSagaProofs` takes some minutes, the others less.

## The system

A customer's browser talks to an API gateway, which forwards to eight services. Each
service has its own PostgreSQL database. Three things connect them:

- REST calls from booking-service to inventory-service and payment-service
  (`inventoryClient.js`, `paymentClient.js`), each tried up to three times, so that a
  call can take effect and still report an error;
- Kafka topics: admin-service → inventory-service and search-service (routes,
  schedules, cancellations), payment-service → booking-service (outcomes of payments),
  user-service → notification-service (e-mail). Delivery is at least once, and nothing
  orders one topic with another;
- Redis: the seat locks of booking-service, the codes and sessions of user-service, the
  windows of the gateway's rate limiter.

Two jobs run on an interval: the lock clean-up of inventory-service and the expiry of
bookings in booking-service.

### Components

| component | state | operations | what makes it correct | model |
|---|---|---|---|---|
| inventory-service, `inventory.service.js` | `schedule_inventories` (status, three counters), `seat_inventories`, `seat_segment_locks`, `idempotency_records` | `initializeInventory`, `cancelScheduleInventory` on events; `lockSeats`, `unlockSeats`, `confirmSeats`, `cancelBooking`, `getSeats` on requests | a stretch of a seat has one owner; seat rows and counters say what the segment rows say; a cancelled schedule sells nothing | `SeatReservation` (abstract), `Inventory`, `InventoryTx` |
| its clean-up job, `lockExpiry.js` | the same tables, `lockExpiresAt` | `cleanExpiredLocks` | a lock lasts until its deadline and not for ever | `LockExpiry` |
| booking-service, `booking.service.js`, `saga.service.js`, `bookingExpiry.js`, `distributedLock.js` | `bookings`, `saga_logs`, `idempotency_records`, Redis keys | `createBooking`, `handlePaymentSuccess`, `handlePaymentFailure`, `cancelBooking`, `cleanExpiredBookings` | a confirmed booking has its seats and its money; a closed one has neither; every booking ends | `BookingSaga` |
| payment-service, `payment.service.js` | `payment_orders`, `idempotency_records`, audit log | `createPaymentOrder`, `verifyAndCapturePayment`, `handleWebhook` | one order per booking; a success is announced only for a payment that was authorized, and such a payment is announced or there is a reason | `Payment` |
| admin-service, `schedule.service.js`, `train.service.js` | stations, trains, routes, schedules | `createRoute`, `createSchedule`, `cancelSchedule` and the messages they send | what the other services know follows what is written here, or there is a reason | `Catalog` |
| Kafka consumers and `dlqHandler.js` | offsets, `retryMap` | `withDLQ`, `sendToDLQ` | a failing message is retried and in the end passed by | `Catalog` |
| search-service, `search.service.js` | Elasticsearch documents of stations and trains | `indexTrainRoute`, `indexSchedule`; queries | a train lists each of its schedules once | `Catalog` (the train document) |
| api-gateway, `proxy.js`, `rateLimiting.middleware.js` | a circuit breaker per service; Redis windows | routes, `verifyJWT`, `rateLimiter`, `execute`, `onSuccess`, `onFailure`, `forwardRequest` | a tripped breaker sends nothing until its time and closes again when the service recovers; no window lets more through than its limit | `Gateway` |
| user-service, `otp.js`, `auth.service.js` | users; codes, attempts and refresh ids in Redis | `sendOtp`, `verifyOtp`, `login`, `rotateRefreshToken` | one account per verified address, bounded codes and guesses, the newest refresh token is the one that works | `Accounts` |
| notification-service, `email.consumer.js` | none | sends e-mail | none beyond its retries | `Accounts` (the e-mail with a code) |
| HTTP controllers, repositories, configuration, logging | none | argument checks and single statements | | not modelled |

### What is hard in it

- Transactions of inventory-service overlap. Seats are locked with `FOR UPDATE NOWAIT`; the
  schedule row and, in one path, the segment rows are read without a lock.
- The same seat can be taken by two kinds of request that use different tables.
- A booking is changed by five kinds of thread. Four of them claim it by its version
  (`casUpdateBooking`), one, `createBooking`, writes it by id, and a customer who looks up the
  booking can cancel it while that one runs.
- Calls between services fail after taking effect; messages come twice, late and in any
  order; a process stops between two steps and nothing reads its log afterwards.
- The webhooks and the verification call of one payment read, await and write the same row.
- Locks, orders and bookings have deadlines of their own.
- Calls that the gateway has in flight report to a breaker that has meanwhile opened, closed
  or is on trial.
- Codes, attempts and sessions are read, compared and written in separate Redis commands.

`PROJECT.json` lists each hazard at its line with the properties that cover it.

## The modules

`SeatReservation` says what the sale of seats promises: a set of exclusive claims on
stretches of a seat. A claim is held for an owner, released, turned into a sale for a
booking, or cancelled with its booking; claims on overlapping stretches never coexist.

`Inventory` is the code's tables. `schedule`, `seats` and `segLocks` are the rows of the three
tables and `processed` the event keys in `idempotency_records`. An action is one successful
transaction, with the code's conditions as guards (a transaction that throws is rolled back).
Requests with `fromSeq` and `toSeq` take the segment path (`LockSegment`, `UnlockSegment`,
`ConfirmSegment`, `CancelSegmentBooking`), requests without them the full-journey path
(`LockFull`, `UnlockFull`, `ConfirmFull`, `CancelFullBooking`). `Modes` says which of the two the
callers use; `SegmentSpec` has callers that always name a segment, as booking-service does when
the search result gave it one. `Recompute` is `recomputeSegmentSeatStatuses` and `Recount` is
`recountScheduleAggregates`. Claims are the segment rows, plus the whole journey of a seat that is
taken without rows (`ImplementsReservation`).

`InventoryTx` runs the same transactions at once, at PostgreSQL's READ COMMITTED. `tx[w]` is
what worker `w` has read, locked and not yet committed. A step is as large as the row locks
allow: while a transaction has a seat row nobody else can commit a change to that seat, so
select, check and write are one step; what is read without a lock, the schedule's status,
the rows that `cancelBooking` recomputes from, the recount, is a step of its own.

`LockExpiry` adds the clock, the deadlines and the clean-up job to `Inventory`. Each statement of
the job is a step, and what it listed earlier (`job`) may be old when it writes. Its recompute
reads the segment rows without a lock (`ReadSeatRows`) and then locks and writes the seat rows
(`RecomputeSeats`); each of these is one step for all the seats listed, where the code goes from
seat to seat.

`BookingSaga` has a thread per booking and role: the creation, one or more consumers of
PAYMENT_SUCCESS, the consumer of PAYMENT_FAILED, the cancellation, the expiry job. `at[b][role]`
is where it is and the row it read. A step ends where the code awaits another service or row: the
call of a saga step, the log that it is COMPLETED (`LogCompleted`) and the status written after it
(`MarkHeld`, `MarkPending`) are three steps. inventory-service is reduced to `claim`, what its
operations do to the one set of seats that all bookings want; payment-service to one order per
booking (`pay`), which may announce a success, a failure or both (`CustomerPays`). A call may be
lost before or after it took effect (`Losses`), and a thread may stop between two steps (`Crash`).
`compensateAll` is `ReadCompleted`, which reads the completed steps into `todo`, and a
`Compensate` for each of them in the order of `Undoing` (`IsNext`).

`Payment` has the calls of `createPaymentOrder` (`creating`), which may overlap because booking-service
retries, and the verifications and webhook deliveries (`visits`), each of which reads the
order, writes it and publishes as three steps. `gateway` is Razorpay: orders and the events of their
payments, `failed`, `authorized` and `captured`. A right checkout signature shows `authorized`; nothing
in the code captures, and `Capture` is the account's settings or somebody at the dashboard.
`lost` is history: why an announcement is missing.

`Catalog` composes admin-service, Kafka, the consumers and `Inventory`: the events of `Inventory`
become the steps of its consumer (`Deliver`), and its requests run between them. All messages of a
topic are alike, so a topic is their number; a subscription has a position and a committed
position, and a restart goes back to the committed one. `Retry` and `SendToDLQ` are `withDLQ`, and
`SendUnparseable` its branch for a message that is not JSON (`garbled`), which is given up at
once. `Restart` of search may delete the index first (`ES_RECREATE_INDICES`, `true` in the example
at `src/README.md:589`). `failed` and `gaveUp` are history variables for a property, and `lost`
notes what was dropped on the way: a cancellation that could not be sent or came before its
schedule, a listing that could not be sent or indexed, or was replaced by its route or deleted
with the index.

`Gateway` is a request's way through the gateway, in front of one service (each has a breaker of
its own): the route and the token (`Arrive`), the limiter of the address and then of the user
(`IpRateLimit`, `UserRateLimit`), the breaker (`Execute`) and what the call reports (`Answer`,
`CallFails`). A step of a request ends where it awaits Redis or the service, so the calls that one
breaker state let through report to another. The four kinds of route are those of
`routes/index.js`. A limiter's sorted set (`hits`) has its members with their age as score;
`passed` is the history of those it let through. `Execute` includes the change to HALF_OPEN, as
there is no await between. When Redis fails, the pipeline answers with errors instead of counts,
so that nothing is compared and the request passes uncounted, or it throws: then the answer of the
catch branch has no `resetTime`, the header cannot be written (`rateLimiting.middleware.js:85`,
127), the request ends, and with it the process (`index.js:66`; a `Restart` may follow).
`RateLimiter` has both outcomes.

`Accounts` has the requests of user-service in flight (`call`), with a step for every Redis
command and statement that it awaits (an INCR and the EXPIRE behind it are one). `code` is
`otp:session:<id>` and where its e-mail is, `attempts`, `rate` and `token` are the keys of those
names, `users` counts the rows of an address. Keys end by actions of their own (`ExpireCode` and
the like), in an order their lifetimes allow: the attempts of an address outlast the codes that
were guessed, its rate outlasts the codes that were counted. A wrong guess is compared
(`CheckAttempts`) before it is counted (`CountMiss`), and the counting may fail (`LoseMiss`);
`RequestFails` stops a request anywhere else. `verified`, `failed` and `guess`, the wrong guesses
of a code and those nobody counted, are history.

| module | extends | checked by |
|---|---|---|
| `SeatReservation` | | through `ImplementsReservation` and `RowsImplementReservation` |
| `Inventory` | | `MCInventory`, `InventoryProofs` |
| `InventoryTx` | `Inventory` | `MCInventoryTx`, `InventoryTxProofs` |
| `LockExpiry` | `Inventory` | `MCLockExpiry`, `LockExpiryProofs` |
| `Catalog` | `Inventory` | `MCCatalog`, `CatalogProofs` |
| `BookingSaga` | | `MCBookingSaga`, `BookingSagaProofs` |
| `Payment` | | `MCPayment`, `PaymentProofs` |
| `Gateway` | | `MCGateway`, `GatewayProofs` |
| `Accounts` | | `MCAccounts`, `AccountsProofs` |
| `InventoryProofs` | `Inventory` | `tlapm` |
| `InventoryTxProofs`, `LockExpiryProofs`, `CatalogProofs` | the module of that name, `InventoryProofs` | `tlapm` |
| `BookingSagaProofs`, `PaymentProofs`, `GatewayProofs`, `AccountsProofs` | the module of that name | `tlapm` |

Definitions marked `Mutant:` are not used by any specification. Each is a plausible mistake in
the definition it stands before; put in its place it makes the run named in `PROJECT.json`
fail, which shows that the property can fail.

## The runs

| run | instance | shows |
|---|---|---|
| `inv_segment` | 2 seats, 2 users, 2 bookings, 3 stops; segments only | `SegmentSpec`, one transaction at a time: rows never overlap, seat rows agree with them, every step is a step of `SeatReservation` |
| `tx_segment` | 2 transactions at once, 2 seats, segments only | overlapping transactions still implement `SeatReservation` on the rows, whose claims never overlap |
| `tx_full` | 2 at once, 2 seats, 2 users, 2 bookings, full journeys | counters, cancellation and `SeatReservation` hold, as this path locks before it reads and adds in place |
| `expiry` | 1 seat, 3 stops, lifetimes 1 and 2, clock to 3, both kinds | with the job running no held row goes before its deadline, and expired locks go |
| `catalog` | 1 seat, 1 segment, 1 cancellation message, 1 restart, any topics failing for ever, any messages of the others unparseable, both kinds | no message blocks a topic; none that can be parsed is given up early; no redelivery revives a cancelled schedule; when everything is handled, a cancelled schedule is on sale, or a schedule not listed exactly once, only for the reasons in `lost` and `gaveUp` |
| `saga_races` | 2 bookings of the same seats, no losses | a confirmed booking has its seats, seats are sold to no closed one, and held seats have somebody who will release or buy them |
| `saga_faults` | 1 booking, lost calls, 1 crash, cancellation before `createBooking` returns | a confirmed booking is still paid for; every booking settles, unless the crash left it claimed; after `createBooking` a closed one does not open again |
| `payment` | 1 key, 3 gateway orders, 2 overlapping attempts, 2 visits | one order per key; success only for an authorized payment; such a payment is announced, unless the order was written FAILED or publishing failed |
| `gateway` | 2 requests, 1 address, 1 user, limits 2 and 1 in 2 ticks, a threshold of 2, open for 2 ticks | a tripped breaker is quiet, a closed one healthy; windows keep their limits; the breaker closes when the service stays up |
| `accounts` | 1 address, 3 codes, 2 requests, limits of 1, 2 refresh tokens | one account exactly for a verified address; codes and guesses bounded |
| `saga_duplicate` | 1 booking, 2 consumers | *violated*: a confirmed booking loses its seats |
| `accounts_rotation` | 1 code, 2 requests | *violated*: the session does not accept the refresh token it handed out last |

The last two are findings; see Deviations 4 and 22.

**Bounds and why they are enough.** Three stops give two adjacent segments and one that overlaps
both. Two seats are needed for partial requests and for counters that two transactions write; two
users for ownership; two bookings to compete. Two transactions at once suffice for every race
between a read and a write. With `Ttls` 1 and 2 a new lock can outlive and be outlived by another,
and time 3 lets one expire while the job is in the middle. The longest path of a booking counts four
versions; `MaxVersion`, 6, cuts only the loops of a cancellation that is rolled back again and
again, which needs a lost answer each time, or cancels what `createBooking` opens again. A
cancellation starts only when there is room for the updates that can follow, so that the bound stops
no thread half-way. Two bookings compete in `saga_races`; settling is checked with one, whose
threads are all that a booking waits for. In `payment` a third gateway order covers an attempt that
has left an order nobody uses. In `catalog` one restart already delivers a handled message again,
and `DLQ_MAX_RETRIES` is 2 (3 in the code): a message can fail, be counted, and fail again. In
`gateway` two requests are enough for one to report while the other is let through or on trial, and
a threshold of 2 is the least at which a count matters; the user's limit is below the address's so
that one address reaches it (in the code it is ten times as large, and a user reaches it from many
addresses); `Burst` 2 fills a window of 2 ticks above both limits. In `accounts` a limit of 1 and
two requests allow two codes, and the third shows that it is not sent; two codes suffice for guesses
on one with others of the other in between, and `MaxUncounted` 1 lets one guess in a run go
uncounted. `inv_segment` uses symmetry over seats, users and bookings, `tx_segment`, `saga_races`
and the runs of `Accounts` the symmetry of their modules; no run with liveness does.

**Deadlock** is checked except where the system may stop: `BookingSaga` when every booking has
settled, `InventoryTx` with full journeys when the schedule is cancelled, `Catalog` when a message
that was never sent leaves nothing to do, and `Accounts` when codes and tokens are used up.

## Fairness

- `LockExpiry`: time passes (`WF(Tick)`), and `setInterval` starts the job again and again
  (`WF(JobStep)`). Strong fairness of the four steps that list and remove says that a statement
  which can be tried for ever does not fail for ever; the job stops a phase when its NOWAIT
  finds a seat taken. No request is fair.
- `BookingSaga`: while a thread of a booking can go on, a consumer has a message for it, the
  expiry job finds it or its time is to pass, one of these happens (`WF(ServiceStep(b) \/
  TimePasses(b))`). Which thread goes first is left open. Customers need not pay or cancel, and no
  fairness makes a lost call succeed: bookings settle with lost calls too. `HeldIsWanted`, without
  them, says of held seats that somebody is there to release or buy them; with `BookingsSettle` no
  hold lasts.
- `Payment`: calls go on, and Razorpay delivers a webhook until it is answered. Nobody need
  pay, capture or verify.
- `Catalog`: the consumer of inventory goes on polling. Nothing says that handlers succeed.
- `Gateway`: a request that has arrived goes on, and time passes. Nobody need send a request, so
  `BreakerRecovers` has as premises that requests go on reaching the proxy and that the service
  stays up from some time on. Both are about the surroundings; with them the trial call is one
  that reaches the proxy after `nextAttempt`.
- `Inventory`, `InventoryTx` and `Accounts` have safety properties only.

## What is proved

Every safety property of the passing runs but `HeldIsWanted` is a theorem, for every value of the
constants that meets the modules' assumptions: limits are positive naturals; seats and the requests
in flight are finite sets; a route has at least two stops; NULLs and the names of roles are not
users, bookings or consumers. The runs show them on small instances, and the invariants below were
checked there before they were proved. A theorem that needs more says so in its ASSUME.
`NoOverlappingSegments`, which `inv_segment` checks, is also proved for overlapping transactions and
with the clean-up job.

**`InventoryProofs`**, one transaction at a time.

- `TypeCorrect`, `NoDoubleBooking`, `CountersAreExact`: for callers of both kinds, `Spec` keeps
  `TypeOK`, `NoOverlappingSegments` and `CountersExact`. Each is inductive with the types: a lock
  adds rows only for seats with no overlapping row (`SegmentBlocked`); recounting paths establish
  the counters outright (`ExactByCounter`), and where they are added to, a lemma on cardinalities
  (`MoveCounts`) shows that both counts change by the number of seats moved.
- `SeatsSummariseRows`, `SegmentsImplementReservation`: for callers that always name a segment,
  `SegmentSpec` keeps `SummaryMatchesRows` and implements `SeatReservation`. `SegmentInv` adds
  that a row has a booking exactly when it is sold (else cancelling a booking could remove rows of
  a seat it does not recompute) and that there are no rows before the schedule's event. With both
  kinds of caller these fail (deviation 1).

**`InventoryTxProofs`**, any number of transactions at once.

- `TxTypeCorrect`, `NoDoubleBookingOverlapping`, `OverlappingTransactionsReserve`: whichever paths
  callers use, segment rows never overlap and implement `SeatReservation`. `TxInv` says what the
  lock on a seat row is worth: what a transaction read of its seats is still so when it commits
  (`WorkerOK`), and no two transactions hold a seat together, sell what the other frees, or free
  the same rows (`PairOK`).
- `FullJourneyCounters`, `CancelledStaysFinal`, `FullJourneysReserve`, with `"segment" \notin
  Modes`: counters, cancellation and `SeatReservation` on the seat rows. `FullInv` adds that a
  full-journey transaction only ever waits to shift seats which it holds and which are as it found
  them. For segment requests they fail (deviations 2 and 5).

**`LockExpiryProofs`**, the clean-up job among the requests of both kinds.

- `ExpiryTypeCorrect`, `NoDoubleBookingWithJob`, `HeldLocksStay`. `ExpiryInv` says that a row in
  the job's list is still there and, while it is LOCKED, past its deadline: a row keeps its
  deadline until it is sold or deleted, and only the job's deletion is by an old list.

**`BookingSagaProofs`**, any number of bookings of the same seats. `StepsAreLocal` is the lemma
the others rest on: a step of one booking's threads leaves the rows and threads of the others
alone, and takes the seats only when they are free or its own.

| theorem | needs | although | without it |
|---|---|---|---|
| `SagaTypeCorrect` | | losses, crashes, any consumers | |
| `ConfirmedArePaid` | one consumer of PAYMENT_SUCCESS at a time | losses, crashes, early cancellation | violated (deviation 4) |
| `ConfirmedKeepSeats` | one consumer, no lost answers | crashes, early cancellation | violated (4, 14) |
| `SoldSeatsAreWanted` | one consumer, no lost answers | crashes, early cancellation | violated (3, 4) |
| `ClosedNeverReopens` | | losses, crashes, early cancellation, any consumers | |

`AllPaid` has what every thread may still rely on where it is: before `createBooking` returns
there is no payment and no thread that needs one (`BeforeAnswer`); a message of success stays
until it is dealt with, and its money is there (`Announced`); a handler's claim succeeds only on
PAYMENT_PENDING, and what it compensates has left the open states for good (`HandlerInv`); a
cancellation frees and refunds only what it has taken from CONFIRMED (`CancelInv`); the expiry job
and the handler of a failed payment compensate only what is closed or closing (`EndInv`).
`AllSeats` adds whose the seats are at each of these places.

`ClosedForGood` starts where `createBooking` ends, because until then its writes by id do open a
closed booking (deviation 13). `AllFinal` needs only that nothing but a
cancellation runs beside `createBooking` (`AloneUntilAnswered`), and that a claim which finds the
version its thread read finds an open booking, or for a cancellation one that `createBooking` has
made FAILED meanwhile (`ClaimsOpen`).

**`PaymentProofs`**: `PaymentTypeCorrect`, `AttemptsGetOneAnswer`, `SuccessMeansAuthorized`, for any
number of overlapping attempts and visits. `PaymentInv` adds that the saved answer is the order of
the row (`RecordIsRow`), that only the call that inserted the row goes on to save its own order
(`SaverInserted`), and that a visit on its way to write CAPTURED is to an order with an authorized
payment (`VisitIsTrue`). The theorem says no more than that: that the money is captured does not
hold (deviation 32).

**`CatalogProofs`**: `CatalogTypeCorrect`, `CancelledNeverRevived`, `DeadLettersFailed`,
`CancellationsArrive`, `SchedulesAreListed`, for any number of retries, cancellations and
restarts. `CatalogInv` follows a cancellation and a listing from the admin's row through the topic
to its effect: at each place it is on its way, handled, or lost for a reason (`CancelOK`,
`ListingOK`), search having deleted its index being one of the reasons; the records of handled keys
agree with the schedule's status (`ProcessedOK`), and no attempt is counted that did not fail
(`RetryOK`), so that only a message that cannot be parsed is given up without failures.

**`AccountsProofs`**: `AccountsTypeCorrect`, `OneAccountEach`, `GuessesAreBounded`,
`CodesAreBounded`. `GuessInv` and `RateInv` count the requests that have passed a check and not
yet counted themselves: with them the counter stays within the limit and the number of requests in
flight, and the guesses counted for a code never exceed it. `GuessesSplit` ties the guesses that
were compared to it: each is counted, is about to be (`Pending`), or was lost, and
`GuessesBounded` therefore has a term for those whose INCR failed.

**`GatewayProofs`**: `GatewayTypeCorrect`, `ClosedBreakerIsHealthy`, `TrippedBreakerIsQuiet`,
`LimitsHold`. `BreakerInv` adds that only an OPEN breaker waits: without it a success in HALF_OPEN
could leave a wait behind; `BreakerStep` lists what any step does to the breaker, `RequestStep`
what it does to a request. `LimitInv` adds that what was let through is still among the members
that are counted (`PassedIsCounted`).

**Only model-checked**: the liveness properties (`ExpiredLocksGo`, `ExpiredSeatsGo`,
`BookingsSettle`, `PaidIsAnnounced`, `ConsumerMovesOn`, `BreakerRecovers`), because fairness and
ENABLED are outside what TLAPS proves; `HeldIsWanted`, whose inductive invariant is not written
yet; and the two findings, which are counterexamples.

## Assumptions

- Calls and imports that do not resolve in the source are read as what they name (Wiring).
- A database statement takes effect or the transaction is rolled back. Redis and PostgreSQL do
  not fail on their own, except where a module says so (`InsertBooking`, `AnswerCreate`, `JobFails`,
  `Abort`, handlers in `Catalog`, `RateLimiter`, `LoseMiss`, `RequestFails`).
- In `InventoryTx` a cancellation and a confirmation of one booking are never in flight together
  (`TakeConfirm`, `CancelFind`). inventory-service does not see to that; booking-service does, as it
  claims the booking by its version before it calls either, CONFIRMING for the one and CANCELLING
  for the other, and compensates a confirmation only after its answer.
- One leader runs the clean-up job (`pg_try_advisory_lock`).
- A refund call works although its route is commented out, so that the saga's order of steps
  is what is examined.
- `createBooking` starts with a booking id per idempotency key; the idempotency record, saved at
  the end (`booking.service.js:225`), is not modelled. While the first call runs, a retry is refused by
  the seat locks; after it the record answers, or the unique key refuses a second row.
- How long a forwarded call takes is not tied to the gateway's clock: `SERVICE_TIMEOUT_MS` and
  `CIRCUIT_BREAKER_TIMEOUT` are set separately. A service that is up answers.
- An otpSessionId and a refresh token's id are drawn once; tokens carry valid signatures.

### Wiring

Defects that stop functions from running at all at this commit, and are not modelled:

- `booking.service.js:7` and `bookingExpiry.js:6` import the saga as a default export; it has a
  named one.
- `saga.service.js` uses `paymentClient` without importing it; `this.` is missing in
  `booking.service.js` at 367, 384, 445, 488, 508, 550 and 625; several files use `StatusCodes` or error
  classes they do not import (in `inventory.service.js` at 480, 515 and 523 the transaction is
  rolled back all the same).
- `booking.consumer.js:55` calls `handleScheduleCancelled`, which is not defined, and the topic it
  listens to, `schedule.cancelled`, is not the one admin-service writes, `admin.schedule-cancelled`.
- `paymentClient.js:6` uses the URL of inventory-service; `payment-service/src/index.js` is empty
  and its `/refunds` route is commented out.
- `api-gateway/src/index.js:17` parses JSON bodies before line 24 keeps the webhook's raw, so that the
  signature is checked against a body that has been parsed and written again.
- `startLockExpiryJob` (`lockExpiry.js:138`) is never called. `LockExpiry` is the service with it
  running, `BookingSaga` the service without it.

## Deviations

Where the code does something its documents, or a reader, would not expect. The runs
`saga_duplicate` and `accounts_rotation` show 4 and 22; the others were seen as counterexamples to
properties or instances that are therefore not among the checked ones.

1. A seat locked or booked for the full journey has no segment rows, and `lockSeats` with a
   segment looks at segment rows only (`inventory.service.js:336`): it locks the seat a second time.
   `getSeats` reports the seat UNAVAILABLE, as its comment at 291 says.
2. Two segment transactions on different seats count the seats before the other commits
   (`inventory.service.js:195`); the later UPDATE overwrites the counters with an old count, although
   the comment at 192 says that the recount avoids drift.
3. inventory-service sells the seats, the answer is lost, CONFIRM_SEATS is
   not logged COMPLETED, and `compensateAll` leaves the sale (`booking.service.js:431`): the booking is
   FAILED and its seats BOOKED.
4. `saga_duplicate`. `casUpdateBooking` throws an error without `code` (`booking.service.js:300`),
   so the test for STALE_STATE at 423 never holds; the second handler of a PAYMENT_SUCCESS
   compensates the booking that the first one confirms.

5. `lockSeats` reads the status of the schedule without a lock (315); the schedule is cancelled
   while it waits for its seats; the recompute then makes a CANCELLED seat LOCKED.
6. `cancelBooking` reads the rows of a seat (143) before it locks the seat row (158). A lock on the
   same seat commits in between, and the seat is written AVAILABLE with a LOCKED row.
7. `confirmSeats` does not read the deadline (593): a lock that has expired and is not yet removed
   is sold. `confirmSeats` also succeeds when some of the seats it names are not held (606).
8. The clean-up job lists expired rows (`lockExpiry.js:43`) and deletes them by id (54). A request
   confirms one in between; the sold row is deleted. Its second phase checks only the status
   (117): a seat released and locked again in between loses the new lock.
9. A SCHEDULE_CANCELLED consumed before its SCHEDULE_CREATED finds no schedule, is dropped
   (`inventory.service.js:99`), and the schedule is sold. The two are on different topics, and
   `createSchedule` sends its message after the row can already be cancelled.
10. The search document of a train loses its schedule when SCHEDULE_CREATED is indexed before
    ROUTE_CREATED (the update finds no document, `search.service.js:130`) or ROUTE_CREATED comes
    again (`schedules: []`, 65), or when search-service starts with `ES_RECREATE_INDICES` and goes
    on from its committed offsets (`index.js:44`, `elasticsearch.js:121`). It never learns of a
    cancellation: search-service does not subscribe to it.
11. A message of admin-service that fails to be sent is only logged (`schedule.service.js:82`,
    `train.service.js:146`); the row stays and no other service learns of it.
12. `src/README.md:35` has dead letter queues on every Kafka consumer; those of search-service and
    notification-service log the error and drop the message (`search.consumer.js:48`,
    `email.consumer.js:31`).
13. `createBooking` writes SEATS_HELD, PAYMENT_PENDING and FAILED by id and does not
    count the version (`saga.service.js:42`, 86, `booking.service.js:235`). A cancellation that
    comes between, from a customer who finds the booking in the list of bookings, is overwritten
    and the closed booking is open again. A cancellation that has read PENDING also finds its
    version when the status is SEATS_HELD by now: it releases nothing, as PENDING has nothing to
    release, and the hold stays.
14. The answer to `cancelBooking` of inventory-service is lost (`booking.service.js:574`): the
    booking is CONFIRMED again and its seats are free.
15. A thread that stops after its claim leaves the booking CONFIRMING or CANCELLING; neither the
    expiry job nor a start of the service looks for them, and the saga log is never read for it.
16. A compensation that fails is logged (`saga.service.js:159`) and the hold stays; the clean-up
    job that would end it is not started.
17. Money paid after the booking expired or was cancelled: the message is dropped
    (`booking.service.js:358`) and nobody refunds.
18. `forceReleaseSeatLocks` deletes the Redis key of whoever has it by now
    (`distributedLock.js:147`). The seat locks of inventory-service keep this from selling twice.
19. Two webhooks, or a webhook and a verification, both read CREATED and both write and publish: a
    success is published twice, or a FAILED overwrites a CAPTURED (`payment.service.js:268`, 305).
20. The order is CAPTURED and publishing fails (`payment.service.js:286`): the next delivery is answered
    `already_processed`, and the booking is never confirmed.
21. After `payment.failed`, or a wrong signature, the order is FAILED; a second attempt that succeeds is
    answered `invalid_state` (`payment.service.js:260`) and its money is not announced.

22. `accounts_rotation`. `rotateRefreshToken` stores the id of the token it was given
    (`auth.service.js:152` decodes `refreshToken`): the token it hands out is refused by the next
    rotation, which ends the session; the old token goes on working. A rotation that overlaps a
    login also overwrites the login's token (154).
23. `otp.js:65` refuses when more than the maximum are counted (`>`), so that
    one wrong guess more than the five of the comment at 60 is let through, overlapping requests
    let through one each, and a guess whose INCR fails (86) is not counted at all. Overlapping
    requests also let through one code of an hour each (26). When the process ends between the
    first INCR of the attempts and its EXPIRE (`otp.js:86`) the key never ends, and an address
    over the maximum stays refused.
24. `verifyOtp` deletes the code before it inserts the user (`otp.js:78`, `auth.service.js:64`):
    when the insert fails the customer has to ask for a new code. When only the welcome message
    cannot be sent, the customer is told of an error although the account is there (74).
25. `endpointRateLimit` builds its error and calls `next()` without it
    (`rateLimiting.middleware.js:168`-175): the limits of the public routes and of new bookings
    refuse nobody, although `src/README.md:246` says that the gateway applies them.
26. `retryAfter` is the time until the oldest entry leaves the window
    (`rateLimiting.middleware.js:44`-46), and refused requests are entries too: with a limit of 2
    and entries at 0, 1 and 2, the refused caller is told to come at the window's end, when two
    other entries are still there, and is refused.
27. A success while the breaker is OPEN sets the count to zero (`proxy.js:55`). The trial after it
    can then fail without opening the breaker, which stays HALF_OPEN and lets every call through
    until `threshold` failures. In HALF_OPEN all calls are let through, not one.
28. `execute` makes every error an AppError with status 500 (`proxy.js:47`), so that the branches of
    `forwardRequest` for timeouts and refused connections (159-192) are never taken.
29. All answers of a service are one object (`utils/common/successResponse.js`); `sendOtp` and
    `rotateRefreshToken` set only its message (`auth.controller.js:40`, 145), so that the answer
    has the data of an earlier one, the user of another customer's login among them.
30. A booking that failed keeps its idempotency key, which is unique: a retry with the key gets an
    error from the INSERT each time (`booking.service.js:181`), never a booking.
31. search-service lists a cancelled schedule as ACTIVE and offers it; `createBooking` refuses it
    (`booking.service.js:71`).
32. Nothing captures a payment. `verifyAndCapturePayment` checks the
    signature, which an authorized payment has, and writes CAPTURED (`payment.service.js:156`), a
    webhook does so for `payment.authorized` (237), and the message carries a `capturedAt`
    (`payment.producer.js:77`); the order is created without automatic capture
    (`razorpay.gateway.js:27`). Unless somebody at the gateway does it, the money for a confirmed
    booking is never captured.
33. The header of a request is made of a `resetTime` that the catch branch of the rate limiter
    does not return (`rateLimiting.middleware.js:64`, 85, 127): a limiter meant to let requests
    pass without Redis ends the request, and, as `combinedRateLimit` does not await its limiters
    (189-194), the unhandled rejection ends the gateway (`index.js:66`).

To see one of the others, add a property or set a constant: for 1 `Spec` and both `Modes` in
`inv_segment.cfg`, where `SummaryMatchesRows` and the refinement then fail; for 2 `CountersExact`,
for 5 `CancelledIsFinal` and for 6 `SummaryMatchesRows` in `tx_segment.cfg`; for 3, 14 and 16
`Losses`, and for the hold of 13 `EarlyCancel`, in `saga_races.cfg`; for the opened booking of 13
`ClosedIsFinal` in `saga_faults.cfg`, and for 15 its `BookingsSettle` without the exception for a
crash; for 19 to 21 `PaidIsAnnounced` without `lost`, and for 32 `CapturedAtGateway`, in
`payment.cfg`; for 23 `OnlyMaxAttempts` in `accounts.cfg`.

## Not modelled

- Reads that change nothing: search queries and autocomplete, profiles, `getBooking`, `getSeats`,
  `getAvailability`.
- Stations and trains in admin-service: single inserts with a unique key, to which no other
  service reacts before a route is made.
- Refunds in payment-service: no code inserts a refund row, and the route is commented out.
- HTTP controllers, repositories, configuration, logging, templates: argument checks, single
  statements and wiring; the defects found there are under Wiring and Deviations.

## Plan

Done: the nine modules above with their runs, and the theorems. Next:

1. The wrapper `withDLQ` around the payment handlers, in `BookingSaga`.
2. `HeldIsWanted` as a theorem, from an invariant that says who may still release a hold.
3. What the theorems of `BookingSaga` give for a booking whose answers are lost: which of its seats and
   money a repair job would have to look at (deviations 3, 14 and 15).

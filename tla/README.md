# Verification of the WeRun registration API

WeRun is a race-registration platform: runners (or a team captain) register for the
categories of an event, pay by bank transfer, upload a photo of the transfer, and finance
staff match it against the account. The server is a Go API over PostgreSQL with River as
job queue (`src/api`); two TypeScript clients (`src/web`) and an end-to-end suite call it.

This directory holds TLA+ models of the parts of the API whose correctness depends on
what other requests, jobs and staff do at the same time, TLC configurations that check
them on small instances, and TLAPS proofs for every value of the constants.
`PROJECT.json` lists components, runs, mutants, theorems and hazards, and maps every
definition to the lines of the source it stands for.

## 1. The system

### Components

| Component | State it keeps | Operations | Talks to |
|---|---|---|---|
| Paid registration (`registration/create.go`, `orders.go`, `deadline.go`, `locks.go`) | `reg_orders`, `order_participants`, `registrations`, `idempotency_keys` | create, cancel, expire in batches, remind, confirm, purge keys | pricing (`Quote`, `Reserve`, `Consume`, `Release`), notify, audit, in one transaction |
| Pricing (`pricing/*`) | `price_rules`, `coupons`, `coupon_redemptions`, the `used_count`/`reserved_count` pair of rules, coupons and `categories` | quote, reserve, consume, release, create/update rule and coupon | called by registration and payment inside their transactions |
| Payment (`payment/proofs.go`, `review.go`) | `payment_proofs`, `payment_receipts`, exceptions, the stored image | submit proof, list queue, approve, reject | registration (`ConfirmPaid`, the order row lock), storage, notify |
| Payment accounts (`payment/accounts.go`) | `payment_accounts` | create, update, select for registration | read when an order is created and when registration opens |
| Events (`event/*`) | `events`, `categories`, the registration window | create, update, publish, open/close registration | opening requires an account and a price for every category |
| Staff login (`iam/limiter.go`) | in-memory hit lists, failure lists, locks and slots | the calls of a login | `iam/service.go` |
| Sessions (`iam/service.go`, `runner/service.go`, `httpapi/auth.go`, `jobs/jobs.go`) | `sessions` | login, logout, check with sliding expiry, cleanup; roles | HTTP middleware, before every handler |
| Runner phone login (`runner/otp.go`, `limiter.go`) | `auth_otps`; in-memory lists of requests and verifications | request code, verify code, log out | Telegram gateway |
| Runner profiles and consents (`runner/profiles.go`, `consents.go`) | saved participants, consent texts and signatures | CRUD, choosing the own profile, sign, publish | registration copies a participant into an order |
| Notifications (`notify/*`) | `notification_logs`, River jobs | enqueue in the caller's transaction, deliver with retries | Telegram Bot API |
| Free signups (`registration/free.go`) | `registrations` without an order, `categories.used_count` | sign up for a free event | capacity counters |
| File storage (`platform/storage/*`) | images on the disk, rows of `files` | put, delete, insert the row | payment proofs and account QR codes |
| Jobs (`jobs/*`) | River's tables | `order_deadline` every minute, `session_cleanup` every day, `notify_send` | registration, sessions, notify |
| Platform (`platform/*`, `audit`, `httpapi`, `cmd/werun`) | configuration, audit rows | transactions (`db.InTx`), numbers (`idgen.Retry`), encryption, errors, i18n, routing | everything |
| Web clients (`src/web`) | none that the server trusts | call the API | HTTP |

### How they interact

All shared state is in PostgreSQL, and every operation is one transaction (`db.InTx`).
What makes operations safe against each other is one of

* a row lock on the order (`FOR UPDATE`), taken first by cancel, submit proof, approve,
  reject and, with `SKIP LOCKED`, by expiry;
* `FOR SHARE` on the event row while an order is created, against `FOR UPDATE` while
  staff open or close registration;
* advisory transaction locks on the hash of every participant's identity number and on
  the payment account;
* conditional updates: `UPDATE ... SET reserved_count = reserved_count + n WHERE used_count
  + reserved_count + n <= limit`, refused when it touches no row;
* unique indexes (live proofs by account and transaction reference, receipts by proof and by
  reference, notification dedupe keys).

The staff and runner limiters keep their state in the process, under a mutex held for one
method call at a time, so a login is a sequence of steps other logins interleave with.

### What is hard

* Creating an order reads prices, quotas and the coupon **without** a lock, computes what
  is owed, and only then takes the counters: everything read may be out of date.
* The reminder job lists orders without a lock and queues their reminders afterwards.
* An order is spread over seven tables that must tell one story after every transaction,
  whichever of buyer, finance, staff and deadline job acted last.
* The three counters an order draws on are moved by creation, cancellation, expiry, review
  and free confirmation; one missed or doubled movement is never corrected.
* Deadlines race uploads, uploads race reviews, staff resize quotas under running orders.
* The login limiter checks and counts in different critical sections.
* Codes, messages and images leave the database: they are sent or stored outside the
  transaction that records them, which can fail after them, or succeed and look failed.
* A session is checked by a read and extended by a later write; logouts and the cleanup come
  in between.
* Fifteen kinds of locks are taken by fourteen kinds of transactions, in batches as well.

`PROJECT.json` lists 40 hazards at their lines with the properties that would catch them.
One has none: an order charged the price it was quoted although staff have changed it since
(the amount computed when the order is created is the binding one). Three more have properties
that reach only a part of them, and a note: a creation that fails between its counter updates
and a batch of expiries that fails half way are whole actions here, because `InTx` makes each one
transaction, so that the models have all or nothing of them and never a part; and
the three exits of a login each give its slot back in one action, so that what is checked is
that giving back once is right, with sweeps, locks and other logins in between, and not
whether an exit was forgotten.

### What makes each component correct

* Registration: `OrderRowsAgree`, `OneActiveRegistration`, `CreatedWhileOpen`,
  `NeverExpiredEarly`, `ReservationsSettle`.
* Pricing: `CountersConserved`, `NeverOversold`, `ImplementsLedger`; for the computation of
  a quote `TiersAreCheapest`, `PaidAddsUp`, `OffsetSound`, `AgesChecked`.
* Payment: `AmountsIdentify`, `ReviewNeverStuck`, `MoneyMatches`.
* All transactions around orders: `NoDeadlock`.
* Notifications: `NoticesTell` for what is enqueued; `OneJobPerNotice`, `ResendsExplained`,
  `NoSilentLoss`, `NoticesSettle` for what becomes of it.
* Images: `ImagesMatchRows`.
* Sessions: `SessionLifetime`, `SessionsEndOnce`.
* Free signups: `SeatsAreSignups`. Profiles: `OneSelfProfile`.
* Staff login: `SlotsReturned`, `GuessesBounded`, `AddressBounded`, `LockHolds`.
* Runner login: `OneTimelyCode`, `GuessesPerCode`, `SendsBounded`, `WaitIsRight`.
* Repeated requests: `OneOrderPerKey`, `AnswersMatch`, `KeptWhileAlive`.

## 2. The modules

| Module | What it is |
|---|---|
| `Pricing` | the pure functions of a quote: tier choice, coupon discount, identification offset, spreading of cents |
| `Quotes` | `Quote` loop by loop over chosen inputs, compared with `Pricing` |
| `RegOrders` | orders, registrations, counters, proofs, receipts, notices and the staff settings that affect them |
| `RegOrdersProperties` | what must hold of `RegOrders` |
| `SeatLedger` | the abstract specification: bookings hold units of pools, then sell or free them once, within the limits |
| `LoginLimiter` | the staff login limiter and the sequence of calls a login makes |
| `OtpLogin` | codes for a runner's phone: the limiter, the transaction that replaces the code, sending, entering it, restarts |
| `Idempotency` | the idempotency key of order creation and the purge of expired keys |
| `OrderLocks` | which rows, keys and advisory locks each transaction asks for, in which order |
| `Uploads` | an image stored on the disk before the transaction of its rows, and its clean-up |
| `Delivery` | a notice's log row and job, queued in one transaction, and the worker's attempts |
| `Outside` | composes `Uploads` and `Delivery`: the server process and the worker process |
| `Sessions` | the table of sessions: issue, check and extend, log out, clean up |
| `Portal` | composes `Sessions` with what requests do under a session: a free event, signups, consents, profiles |
| `MCRegOrders`, `MCQuotes`, `MCLoginLimiter`, `MCOtpLogin`, `MCIdempotency`, `MCOrderLocks`, `MCOutside`, `MCPortal` | instances for TLC |
| `RegOrdersProofs` | types and row agreement of `RegOrders`; one registration per person, orders only while open, expiry only when due, how late an upload can be, what reminders follow; counters and limits, amounts, receipts, the review queue and notices; `RegOrders` implements `SeatLedger`; discount, offset and tier choice of `Pricing` |
| `QuotesProofs` | the loops of `Quotes` compute what `Pricing` defines |
| `LimiterProofs` | the staff login limiter |
| `OtpProofs` | the phone login: codes, guesses, quotas and waits |
| `IdempotencyProofs` | one order per key, right answers, living keys kept |
| `LockProofs` | no deadlock in `OrderLocks` |
| `OutsideProofs` | images and notices of `Outside` |
| `PortalProofs` | sessions, signups and profiles of `Portal` |

A definition `X_Something` written before `X` is `X` with a plausible bug; no
specification uses it. Each property has one, which the property rejects.

### `RegOrders` and the code

One variable per column that a decision reads; `reg_orders` columns are functions of the
order. Rows that do not exist yet have the value `NONE` or `Null`.

| Action | Code | Transaction |
|---|---|---|
| `BeginOrder` | `createOrderTx` to the end of `Quote`'s reads | event row `FOR SHARE`, identity locks, duplicate check, unlocked prices |
| `PickOffset` | `pickIdentOffsetLocked` | account lock, amounts of open orders |
| `CommitOrder`, `CommitFreeOrder` | `Reserve`, inserts, (`ConfirmPaid`,) commit | conditional counter updates |
| `RollbackOrder` | any error, or the end of the process or connection, before the commit | all of it undone |
| `CancelOrder` | `CancelOrder` and `ReleaseOrder` | whole |
| `ExpireBatch` | one round of the batch loop of `ExpireDueOrders` | whole; `SKIP LOCKED` makes the batch any part of what is due |
| `ListReminders` | `ListOrdersDueForReminder` in `enqueueDeadlineReminders` | a plain `SELECT`: nothing is locked |
| `QueueReminders`, `DropReminders` | the inserts for the orders listed, and the commit; or any error or end of the process | whole |
| `SubmitProof` | `SubmitProof` | whole, with the clock reading taken before the image is stored |
| `ApproveProof`, `RejectProof` | `ApproveProof`, `RejectProof`, `ConfirmPaid` | whole |
| `UpdateRegistration` | open, move or close the window | waits for open creating transactions |
| `SelectAccount` | create or update an account, by its effect | whole |
| `UpdatePriceRule`, `UpdateCoupon` | the staff updates with their `taken` checks | whole |
| `Tick` | time | |

Two operations are cut into steps, because they act on state they read without a lock: creating
an order and queueing reminders. Every other transaction locks the order (or rule,
coupon, event) row before it reads. Between the steps of a creation the orders of other buyers,
staff updates, deadlines and reviews all happen; between listing an order for a reminder and
queueing it the order may be paid, rejected, cancelled or expire, or be listed by another run of
the job (`listed` holds what each run found). The locks of a creation are state predicates: `IDLocked` (from
`BeginOrder` to the end), `AccountLocked` (from `PickOffset` to the end), and the event row
(`UpdateRegistration` waits while any order is in flight).

Categories, price rules and coupons use the same counter pair and the same conditional
updates, so they are one set `Pool`; what an order takes of a pool is a set of its
participants (and the number 0 for its coupon), and a counter is compared with the
cardinality of such sets.

Left out on purpose: names, numbers, audit rows, consent texts, images, and the wording of
notices. One event is modelled: orders of different events share only coupons and accounts,
which the pools and accounts already let two orders share. `Quote`'s separate statements for
tiers and for the coupon are one read. Creating a price rule or coupon is modelled by the row
being among those staff may give it.

### `Quotes` and the code

`Quote` is run statement by statement over an input chosen in `Init`: participants with
birth dates, tiers and minimum age of each category, coupon, clock, open amounts. `ScanTier` is the inner loop of `selectTier`
with its tie-break, `TryOffset` the search loop of `pickIdentOffset`, `Cent` the loop handing
out left-over cents by largest remainder. The properties compare the end state with the
declarative functions in `Pricing`, which is what `RegOrders` uses; so the loops are checked
once here and the order model needs none of them.

### `LoginLimiter` and the code

A request is `idle`, `admitted` (`AllowIP` let it through), `checking` (`BeginAttempt` gave it
a slot and the password is being compared without the mutex) or `done`. Each method is one
step, including `maybeSweep`. Lists of times grow at the end and are pruned from the front,
so each is kept as the set of the requests whose times are in it. `wrong` is a history
variable: the failures since the last success, whatever the limiter has forgotten. A restart
of the process empties every map, which is `Init` again.

### `OtpLogin` and the code

| Action | Code |
|---|---|
| `AskRefused`, `AskAllowed` | `OTPLimiter.Allow`, under the mutex, with its sweep |
| `VoidOld` | the update of `ConsumeActiveOTPs` takes its snapshot of the active codes |
| `StoreCode` | `InsertOTP` and the commit, by which the codes in `sees` become consumed |
| `AskFails` | an error before the commit |
| `Send`, `VoidUnsent` | the call to the gateway after the commit; `ConsumeOTP` if it failed, which may fail as well |
| `VerifyRefused`, `VerifyAllowed` | `OTPLimiter.AllowVerify` |
| `CheckNothing`, `CheckExhausted`, `CheckWrong`, `CheckRight` | the outcomes of `VerifyPhoneCode`'s transaction, under the code's row lock |
| `Restart` | the process ends and starts again: the limiter is empty, the rows stay |

Replacing a code is two steps because a READ COMMITTED update sees only what was committed
when it started: a code that another request inserts afterwards is not voided. Verification
is one step since it holds the lock of the only row it reads and writes. `at` is the
limiter's clock reading; the handler reads the clock again at once, and that later reading
is folded into it. A handler may take any time at every step (`Tick` has no guard but the
horizon): nothing in the code ends it. A refusal names the time `ceilSeconds` gives, whole seconds
of `Second` ticks; `retryAt` keeps it until a call that counts against the same limit is let
through. `asked`, `late` and `compared` are history variables. The code itself is not
modelled: entering the right or a wrong one is a choice.

### `Idempotency` and the code

`Claim` is the upsert of `ClaimIdempotencyKey` that inserts a row or overwrites an expired
one; it keeps the row locked (`holder`) until `Commit` or `Rollback`. An upsert that finds an
unexpired row locks it too before its `WHERE` refuses it, so `Replay` waits in the same way.
`PurgeSelect` and `PurgeDelete` are the two halves of one `DELETE ... USING (SELECT ...)`: the
subquery reads, and the delete waits for each row and checks its latest version once more.
The answer to a committed request may be lost, which is why the client repeats it. An order
is named by the request that made it, and the making (`createOrderTx`) is `RegOrders`.

### `OrderLocks` and the code

A transaction is the set of lock requests its code makes, each with the number of the
statement that makes it; ids within a statement are taken in ascending order, because the code
sorts them (`LockCountersForOrders`, the sorted hashes of `checkAlreadyRegistered`, `ORDER BY id`
under `FOR UPDATE`). Row modes conflict as in PostgreSQL's table; foreign keys ask for
`KeyShare` on the row they refer to, unique indexes and advisory locks are exclusive.
`Acquire` grants the next request when nobody else holds a conflicting mode, `End` releases
everything at any point. `ExpireBatch` takes its orders without waiting (`SKIP LOCKED`).
Rows locked last by transactions that then wait for nothing (profiles, sessions, codes) are
left out, as are reads without locks. The scans of the purge and of the reminders are taken
to meet their rows by ascending id.

### `Uploads`, `Delivery`, `Outside` and the code

| Action | Code |
|---|---|
| `Put`, `PutFails` | `Disk.Put`: a temporary file, then a rename |
| `Commit`, `CommitUnanswered`, `Rollback` | the transaction of `SubmitProof`, `CreateAccount`, `UpdateAccount`; `InTx` reports the second as failed although it took effect |
| `Panics` | a panic inside the transaction: `InTx` rolls back and passes it on, past `discardFile` |
| `Discard`, `DiscardFails` | `discardFile`, under a context that outlives the request |
| `ServerStops` | the process ends; open transactions roll back, files stay |
| `Enqueue`, `CommitTxn`, `RollbackTxn` | `Service.Enqueue` inside the caller's transaction: log row with its deduplication key, then the job |
| `Start`, `Load`, `SkipSent`, `Send`, `RecordSent`, `RecordFailure`, `Return` | one attempt of `SendWorker.Work`, from the read of the log to what it returns to River |
| `Forget` | an error of a read or write, a time-out, or the end of the worker process, at any point of the attempt |

River, which is outside the repository, is modelled by what the worker relies on: it starts
waiting jobs, counts attempts, and lets a failed job wait again while it has any. `Send` has
four outcomes: delivered and confirmed, delivered and not confirmed, refused, and blocked
by the recipient. `Put` is taken to keep what it stored: it does not sync the disk, so that an image may
be lost when the operating system goes down, which is not modelled. `delivered`, `unsure`, `lost`, `unacked` and `stranded` are history
variables: what happened outside that the database cannot know.

### `Sessions`, `Portal` and the code

`Authenticate` is the read of the row with the clock reading that follows it, `Extend` the
second statement, which finds the row by its id if it is not revoked. Between the two come
logouts, other requests' extensions and the cleanup. A runner's session does not slide. The
role a handler asks for and the account's status are not modelled: every account is made
`ACTIVE` and nothing in the code changes that. `lastUse` is a history variable.

In `Portal` a request acts only after its session has been accepted, and may act long after
(its session can be revoked meanwhile, as in the code, which checks once). A free signup is
three steps: the event row `FOR SHARE` and the checks (`BeginSignup`), the conditional
update of `used_count`, which keeps the category's row locked (`TakeSeat`), and the insert
against the unique index with signature and commit (`Register`); `Undo` is every failure.
Choosing the own profile is three as well: `LockUser` (`BeginSelf`), `ClearSelfProfiles`
(`ClearSelf`), and the write with the commit (`WriteSelf`). Other profile writes touch one
row; an insert refers to the runner's row and so waits for its lock. What a profile or an
event says, and the texts of consents, are left out.

## 3. What the runs check

All configurations but `MCOrderLocks` set `CHECK_DEADLOCK FALSE`: once all orders, proofs,
logins or uploads an instance has are used and its clock stands at the horizon, the system
rests. In `OrderLocks` a transaction can always begin or end, so TLC checks deadlock as well;
the circle of waiting transactions itself is `NoDeadlock`.

| Run | Instance | Shows |
|---|---|---|
| `seats` | 2 orders of 1–2 of 2 people, 2 categories (1 and 2 seats), a local tier staff resize between 1 and 2, an unlimited tier, a one-use coupon staff may withdraw, 1 account, proof and reference, 2 ticks | types, rows agree, counters conserved, nothing oversold, one registration per person, orders only while open, the ledger is implemented |
| `pay` | 2 orders of 1 person, 2 references, 3 proofs, prices 2 and (later) 1 cent, offset at most 1, overpayment of 1 cent, 3 ticks, one buyer with Telegram, any number of runs of the reminder job at once | open amounts differ, the queue can always be worked, money and notices agree with the orders, reminders name the deadline in force when listed, nothing expires early |
| `live` | 2 orders, 2 proofs, a window that may close, 3 ticks, `FairSpec` | no reservation holds seats for ever unless finance has its proof |
| `late` | 1 order, clock readings up to 1 tick old | expected violation: section 5 |
| `quotes` | up to 3 participants, every kind of coupon, tiers shared by two categories with minimum ages of 18 and 17, two race days, two instants | the loops compute what `Pricing` says |
| `otp` | 3 requests of one phone from one address, 2 verifications, 1 attempt a code, codes live 1 tick, cooldown 1, quotas of 2 requests in windows of 4 (phone) and 2 (address) and of 1 verification in 4, seconds of 2 ticks, sweep every 2 calls, 4 ticks | one active code but for those committed later than the cooldown, guesses and sessions per code bounded, quotas hold across sweeps and restarts, waits are right up to rounding |
| `keys` | 3 requests, 2 keys, 2 bodies, keys live 2 ticks, clock readings up to 1 tick old, 6 ticks | one order per living key, the right answer, nothing alive is purged |
| `limiter` | 5 logins of one username from one address; 2 failures lock, for 2 ticks; 4 hits a tick; sweep every 3 calls; 4 ticks | slots, guesses and hits bounded; a running lock stays |
| `locks` | 3 transactions of any kind, 2 ids of keys, categories and rules and 1 of every other row, 2 carts, 2 orders whose ids and categories run in opposite directions | nobody waits in a circle |
| `outside` | a proof and a new QR code, 3 notices (one about the proof, one to a runner without Telegram), 2 transactions that queue, 2 attempts a job, `FairOutsideSpec` | rows have their images, notices their one job, repeats and losses are explained, every notice comes to an end |
| `upload_lost` | one proof | expected violation: section 5 |
| `portal` | 2 requests at a time, a staff and a runner session (idle 4, worth a write from 2, absolute 8, runner 1, kept for 1), requests up to 1 tick slow, a free category of 2 places, 3 persons of whom 2 are old enough, 1 consent version, 2 profiles, 5 ticks | sessions live as long as they should and end once, seats are signups, one own profile |

Why the bounds are enough: a conflict over a seat, a person, an offset or a reference is
between two orders, and every order draws on a pool that a second one exhausts; two people
let an order hold one or both, so a two-person order meets the last seat. Three proofs let
an order be rejected, uploaded again and compete with the other for a reference already
used. Three ticks with windows of one tick take an order past its upload deadline, a
re-upload deadline and one more. Five logins with a maximum of two let two fail, lock the
name, and leave three to act on both sides of the end of the lock, one of them started
before it. Two requests for a code are enough to race each other, three to fill a quota of
two and be refused; two verifications are one more than a code or an address allows. A second of
two ticks with limits of one, two and four tells rounding up from rounding down, and a handler
slower than the cooldown leaves a second code. Three requests
under one key are a first, a repetition and one after the key's end; the horizon of the keys
is three lifetimes. Three transactions make every circle of two and of three; two
ids show a wrong order within a statement. Two transactions that queue the same notice race for
its key, two attempts are one retry and one last attempt, and an upload of each
kind fails and ends in every way. Two requests race each other for the last place, the own
profile and the extension of one session; two places and two persons old enough let one sign
up twice and both compete. The proofs of section 4 remove the bounds for everything they cover.

Bounds named in the modules: `Horizon` (clock), `Lag` (age of a clock reading; 0 except in
`late`, where the property is about it, and in `keys`, where `OneOrderPerKey` is stated
relative to it), `Slow` (how long a request under a session may take after its clock reading), `MaxId` (ids of `OrderLocks`),
`Overpay` (cents above the amount due),
`MaxParticipants`, and the sets of rows `TierRows`, `CouponRows`, `Windows`. `BeginOrder` and
`RejectProof` are only taken when the deadline they set is within the horizon, so that time
can reach every deadline; without that guard `live` would fail only because the model's
clock stops.

Symmetry: `seats` permutes orders and persons (both local, all eligible for every category,
no buyer singled out by `Reachable`), `pay` permutes proofs and references (they have no
attributes), `limiter` permutes logins, `otp` requests, verifications, phones and
addresses, `keys` requests, keys and bodies, `locks` transactions, `portal` requests, the
persons old enough, and profiles. No expression of the modules orders or chooses
among those values. The liveness runs use none.

Fairness: `FairSpec` assumes weak fairness of `ExpireBatch` for as long as anything is due
and of `Tick`. The first is the `order_deadline` job that River starts every minute
(`jobs/jobs.go`), each run of which repeats batches until none is due; the second says
that time passes. Nothing is assumed of buyers, finance or staff, which is why an order under review
may hold its seats for ever. `FairOutsideSpec` assumes weak fairness of each job's next step
and of each transaction's end: River starts waiting jobs until their attempts are used up
and rescues those whose process ended, and a transaction commits, fails or loses its
connection. Nothing is assumed of uploads, of Telegram or of the processes, which may fail at
every step.

## 4. What is proved

TLAPS checks the following for every value of the constants allowed by the named
assumptions:

* `RegOrders`: `PoolsDisjoint`, `TablesFinite`, `NullIsNoValue`, `NumbersType`, `RowsType`,
  `BuyersOfOrders` (types and distinct values only).
* `LoginLimiter`: `LimitsType`, and `LockOutlivesFailures`, which is `lockDuration =
  failureWindow = 15 min` in the code; without it a failure from before a lock could count
  again after it.
* `OtpLogin`: `OtpLimits` (types) and `LimitsInOrder`: the cooldown is no longer than the window (60
  seconds and an hour in the code). Nothing is assumed of how long a handler takes.
* `Idempotency`: `KeyLimits`. `OrderLocks`: `LockInstance`. `Uploads`: `KeysDiffer`. `Delivery`: `DeliveryConstants`.
  `Portal`: `PortalConstants`. All say what kind of values the constants are.
* `Quotes`: `InputRows`, the rows a quote may read: no price is negative (the CHECK of
  `price_rules.price_cents`) and a category lists a price rule once (the primary key of
  `category_price_rules`); the rest are types.
* `Sessions`: `SessionConstants`, which also says that a request takes no longer than an unused
  session lives (`Slow <= IdleTimeout`, 8 hours in the code); a request as slow as that could write an
  expiry that has already passed.

| Theorem | Says |
|---|---|
| `TypeCorrect` | counters never negative, no amount below zero, every column of its type |
| `RowsAlwaysAgree` | status, reservation, registrations, redemption, deadline and review queue of an order agree |
| `OneRegistrationPerPerson` | no two live orders carry the same person |
| `OrdersAppearWhileOpen` | no order is committed after registration was closed |
| `ExpiryOnlyWhenDue` | only overdue orders, never under review, expire |
| `UploadsBarelyLate` | an upload is accepted after its deadline only by less than the age of its clock reading |
| `RemindersFollowReads` | an order is listed for a reminder only while to be paid, with its deadline of that moment, within the window give or take that age; what is queued was listed |
| `CountersCountOrders` | the counters are what the reserved and paid orders take |
| `PoolsNeverOversold` | no pool beyond its limit |
| `OrdersImplementLedger` | `RegOrders` refines `SeatLedger` |
| `OpenAmountsDiffer` | open orders of an account ask for different amounts unless no offset was left |
| `OneReceiptPerPayment` | an order that owed money is paid exactly by one receipt covering it; a bank transaction pays once |
| `QueueStaysReviewable` | every proof in the queue can still be approved |
| `BuyersToldTheTruth` | expiries, approvals and rejections are told exactly when they happened; reminders never early, and with the deadline in force unless the order has moved on |
| `LocksClimb`, `NeverDeadlocked` | locks are asked for by ascending rank, so no set of transactions waits for itself |
| `ImagesKept` | rows have their images and images their rows, but for the stated accidents |
| `JobsMatchLog`, `ResendsAccounted`, `LossesKnown` | one job a notice, repeats and losses explained |
| `ExpiryFollowsUse`, `RevocationFinal` | how long a session lives; revocation is final |
| `SeatsCounted`, `SelfIsUnique` | places of free categories are signups; one own profile |
| `OneCodeInTime` | of the codes of a phone that can be entered at most one was committed within the cooldown |
| `FewGuesses`, `QuotasHold` | comparisons and sessions per code, requests per phone and address |
| `WaitsAreRight` | the wait a refusal names is right up to rounding to whole seconds |
| `OtpTables` | types of the phone login |
| `KeyMakesOneOrder`, `AnswersAreOwn`, `LivingKeysKept`, `KeyTables` | one order per living key, repeated requests answered with their own order |
| `SlotsAlwaysReturned`, `GuessesStayBounded`, `AddressesStayBounded`, `LocksHold` | the limiter's four properties |
| `CheapestTiers` | every runner gets the cheapest tier open to them, seats of the same order counted |
| `OffsetsIdentify` | the offset search ends at what `PickIdentOffset` defines |
| `SharesAddUp` | what the runners pay adds up to the amount of the order, nobody above their price |
| `RunnersOldEnough` | an accepted runner has the minimum age of their category on race day |
| `CouponDiscountBounded` | a coupon takes off between nothing and everything |
| `PickIdentOffsetSound` | the offset is the smallest that tells the amount from the open ones, and 0 only if none does |
| `SelectTierBest` | a tier is selected whenever one is open, exactly one: open, cheapest, first by sort order and id |

The arguments:

* `TypeInv` adds to `TypeOK` that a proof belongs to a committed order and carries its
  account (`ProofsBelong`) and that an order has an account (`OrdersPayable`); without them
  `amount[proof[f].order]` has no type.
* `RowsInv` adds `OrderRowsAgree`. It is inductive because each transaction ends with all
  rows of an order rewritten together; the case that needs work is `ExpireBatch`, which
  rewrites many orders at once.
* `RegInv` adds `Claims`: the sets of people of any two orders that are in flight or still
  hold registrations are disjoint. `OneActiveRegistration` alone is not inductive: two
  orders in flight for one person satisfy it and violate it one commit later. The advisory
  locks are what gives `Claims`. `SeenOpen` (an order in flight saw the event open, and it
  still is) gives `CreatedWhileOpen`.
* `CountInv` adds `CountersConserved` and `NeverOversold`. Counters are cardinalities of
  sets of (order, participant) pairs, so that an action adds, moves or removes a set
  disjoint from, or contained in, the rest; the lemmas of `RegOrdersProofs` say which, and
  finite-set theorems turn it into sums. `Moved`, which the code computes from the state of the
  redemption row, is shown to be exactly what the orders took, by `OrderRowsAgree`.
* The refinement maps `reservation` to the state of a booking and `Takes` to its units;
  steps of `RegOrders` map to `Book`, `Settle`, `Resize` or a stutter. The ledger's limits
  follow from `NeverOversold`.
* `LimInv` has eight parts. `GuessesBounded` needs that recent wrong guesses of a name that
  is not locked are among the failures the limiter still keeps (`Remembered`: nothing pruned
  or swept still counts), that those and the slots taken fit (`Fits`), and that no login is
  being checked while a lock runs (`LockIdle`). `HitsKept` does the same for addresses.
* Also in `RegOrdersProofs`: `AmountsIdentify` is inductive once orders between `PickOffset` and their
  commit count as open (`Identified`), for the account lock is held from the one to the other.
  `MoneyMatches` needs that open orders owe something (`Owes`), that live proofs of an account
  have different references (`LiveRefs`, the unique index) and that a receipt has the account
  and reference of its proof (`ReceiptRefs`). `ReviewNeverStuck` follows from these and from
  `CountInv`: what an approval moves is part of what is counted as reserved. The outcomes of `NoticesTell`
  are inductive because expiry and review are final; its reminders because an order that awaits its
  payment for the first time keeps its deadline (`CommittedStays`), so that what was listed stays true until
  it is queued and after. `UploadsBarelyLate` and `RemindersFollowReads` need only
  `RowsInv`: of all steps that move an order under review or list it for a reminder, one reads a clock.
* `QuotesProofs`: `QuoteInv` says for each loop how far it has come: `Scanning` (the best tier so far
  is the cheapest of the candidates passed), `ChosenSoFar` and `AllChosen` (the same of the
  runners passed, with the seats this order took counted), `Searching` (every smaller offset is taken or
  leaves nothing to pay) and `Spreading` (each share is rounded down, and
  the cents handed out so far went to those who lost most). Prices are added up by induction on the
  prefixes of a list, as a smallest-counterexample argument over the natural numbers
  (`LeastMember`), since the library's induction theorem takes an operator as parameter. That the shares add up rests on
  two facts: the cents left over are fewer than the shares that were rounded (`LeftOverFits`),
  and `Place`, the rank by lost fraction, is a bijection, injective on a finite set and hence
  onto (`PlacesDiffer`, `EveryPlaceTaken`). `RunnersOldEnough` compares the dates on which a
  runner turns the minimum age of their category with the race (`BirthdaysCover`).
* `OtpProofs`: `Kept` says that a list still has every request its window counts, whatever was
  pruned or swept, which gives the quotas. From them follows that two requests of one phone that
  both sit between admission and commit have readings a cooldown apart, so one of them commits late
  (`OneIsSlow`): whatever active code the snapshot of a request misses was committed late or belongs to a
  request that makes this one late (`Asking`), and of two active codes one was (`Alone`).
  `Tries` counts comparisons against attempts for as long as a code is not used up. `Waits` says
  of every refused caller that the limit that refused has as many hits as it allows a second
  before the named time, and fewer at that time (`Fits`); rounding up leaves both true
  (`RoundedUp`), rounding down the second not.
* `IdempotencyProofs`: the holder of a key's row is the one request creating under it (`Locks`),
  and what the key held when that request claimed it was over by the request's reading
  (`Superseded`), give or take the age of readings; so at a commit no order of the key is
  still within its lifetime. `Stored` ties a row to the request whose order it names.
* `LockProofs`: every request has a rank, from what it locks and how strongly. `LockInv` says that
  whatever a transaction holds lies under all it still wants, measured by any request that
  the lock it holds would make wait. So whoever waits for a transaction
  that waits itself asks for something lower than that one does; in a circle
  the request of largest rank and id would have to be lower than another.
  The rank has to depend on the mode: `KeyShare` on a category comes last although
  `NoKeyUpdate` on it comes before rules, and only because `KeyShare` never waits for
  `NoKeyUpdate` is there no circle.
* `OutsideProofs`: `UploadInv` is inductive as it stands. For notices `Queueing` ties each notice
  to the one transaction that inserted it and its job, and `Story` says for each state of the
  worker's memory what the log, the runner and the job's attempt can be.
* `PortalProofs`: `SessionInv` says that what an extension is about to write was right at its
  clock reading (`Extension`), which is at most `Slow` old (`Fresh`), and that a session was
  last used while it was valid (`Used`). `SelfInv` says that one request at a time chooses
  (the runner's row is locked) and that what it has cleared is all there was; `SeatInv` that one
  request at a time holds an unregistered seat of a category, and that its event is open.

Only model-checked: `ReservationsSettle` and `NoticesSettle`, because liveness under fairness and
`ENABLED` are beyond the prover. Every other property of a passing run is stated by a theorem.
What the recursive sum `Total` is of a given list is not proved (induction over data), only how
it behaves from one prefix to the next, which is all the theorems about quotes need.

## 5. Findings

`late` / `NoLateUpload`. The design document
(`docs/superpowers/specs/2026-09-14-registration-payment-design.md:155`) has an upload refused
once the deadline has passed. `SubmitProof` (`payment/proofs.go:76`) reads the clock before it
stores the image and waits for the order's row lock, and compares the deadline with that
reading: an upload that started in time is accepted after the deadline if the expiry job has
not reached the order yet, by less than the age of the reading (`UploadsBarelyLate`). No other property depends on it: `OrderRowsAgree`,
`NeverExpiredEarly` and the counters hold for any age of the reading (they are proved for
every `Lag`).

`upload_lost` / `DiscardedOnlyFailed`. The comment of `SubmitProof` (`payment/proofs.go:67`) says
that the stored file is deleted when the transaction failed. The code deletes it whenever `InTx`
returns an error, and `InTx` also returns one when the commit was sent and its answer was lost, because the
connection broke or the request's context ended. The rows may be committed then: the order is under review
with a proof whose image is gone. Creating and updating an account do the same to QR codes.
`ImagesMatchRows` names this exception for rows without their image (`unacked`), and for images without
rows the upload whose process ended, whose handler panicked or whose delete failed (`stranded`).

Limits of the phone login, which are no disagreement with a line of the code. The limiter's
refusal names the wait for the first limit that refuses, not for all of them: a caller who
waits as told may be refused again, by another. The wait is rounded up to whole seconds, so that a
caller may be told to wait up to a second longer than needed, and never shorter (`WaitIsRight`).
And a phone can have two active codes: `RequestPhoneCode` takes no lock that two requests share
when no code is active, so only the cooldown of 60 seconds keeps them apart, and nothing in
the code ends a request that takes longer than that from its admission to its commit.
`OneTimelyCode` says exactly how far this goes: every active code but one was committed so late.
Each code has its own attempts, so a second one doubles what may be guessed.

## 6. Not modelled, and why

* Generated code: the request types of `httpapi/apigen/api.gen.go` (6,698 lines) and the
  copies of `models.go` in eight `store` packages (some 1,100 lines each, of which one
  column or table at a time is mapped where a model reads it) are close to half of the implementation's lines. They
  have no behaviour of their own, which is why the mapped share stays far below the
  share of the hand-written core that is modelled.
* Handlers and routing (`httpapi`): each handler decodes a request, calls one service method and
  encodes its answer. `AuthMiddleware` is the exception and is in `Sessions` and `Portal`.
* Lists, reports and reads: they change no state.
* What events, profiles, consents and notices say, their validation, translation and
  encryption; audit rows, inserted in the transaction they describe; retries of colliding
  random numbers (`idgen`).
* `UpdateMe`, the places for password hashing (`iam/password.go`), creation of accounts and
  price rules: single writes whose effect is an instance's choice.
* Telegram signatures, the gateway and the bot's HTTP client: pure checks, and an outside
  service, modelled by its outcomes where its outcome matters.
* Configuration, migrations, flags, the web clients.

## 7. Plan

Done, in this order: `Pricing` and `Quotes`; `RegOrders` and `SeatLedger`; `LoginLimiter`;
`OtpLogin`; `Idempotency`; `OrderLocks`; `Uploads`, `Delivery` and `Outside`; `Sessions` and
`Portal`; the proofs of all of them.

Left: `UpdateMe` and the password-hashing places, if they come to interact with
anything; the writes inside the transaction that creates an order as steps of their own, if it is
ever split into several transactions; and a run of `OtpLogin` with two phones behind one address, which the proofs cover
and TLC would need more time for.

# A TLA+ model of the Turfsy server

Turfsy sells slots of sports turfs. This directory holds TLA+ modules that model
the parts of the server where concurrency, failures and money meet, TLC
configurations that check them on small instances, and proofs for every size.
Paths below are relative to the repository root; `booking.service.ts` is
`src/modules/booking/booking.service.ts`.

Run from this directory:

    tlc -config slots_exact.cfg MCSlotReservation
    tlapm SlotReservationProofs.tla

## 1. The system

A NestJS server (several processes may run) over PostgreSQL through Prisma,
Redis, BullMQ queues and the Razorpay gateway.

| Part | State it keeps | Operations | Talks to |
|---|---|---|---|
| Slot reservation | Redis lease `lock:slot:...`, `slot_locks`, `bookings` | `createBooking`, `acquireSlotLock`, `releaseSlotLockForBooking` | payment, expiry queue, waitlist |
| Booking lifecycle | `bookings` (status, paymentStatus, refundStatus, order and payment ids) | `createRazorpayOrder`, `confirmOnlinePayment`, `failOnlinePayment`, `handleRazorpayWebhook`, `reconcilePayment`, `handleBookingExpiration`, `cancelBooking`, `approveBooking`, `rejectBooking`, check-ins, crons | Razorpay, slot locks, gamification, waitlist |
| Queues | `booking-expiry` (3 attempts), `payment-retry` (5), `waitlist-expiry` (3), notifications, email | the workers in `src/common/bullmq/workers` | the services they call |
| Waitlist | `waitlist_entries` | `joinWaitlist`, the offer after a cancellation, `waitlist-expiry.worker.ts`, the claim in `createBooking` | reservation, queues |
| Split of a booking | `booking_splits`, `booking_players` | `user-booking-splitwise.service.ts` | lifecycle, cache |
| Gamification | points, streak, last day played | `user-gamification.service.ts` | lifecycle |
| Pricing | none | `pricing.service.ts` | bookings, waitlist |
| Maintenance | `turf_maintenance` blocks | `owner-settings.service.ts` | reservation |
| Offers | `notification_logs` | `owner-crm.service.ts` | bookings, preferences, notification queue |
| Cache, rate limiter | Redis keys and an in-process map | `cache.service.ts`, `rate-limiter.service.ts` | all services |
| Login | codes, counters, MPIN, sessions and the guards' caches | `auth.service.ts`, `jwt-auth.guard.ts` | cache, limiter |
| Push devices | `fcm_devices`, a legacy token | `notifications.service.ts` | Expo, Firebase |
| Pages and reports | none | lists, dashboards, analytics in ten services | bookings, settlements |
| Ratings | `turf_ratings`, an average in the turf's row | `rateTurf` | bookings |
| Settlements | settlement rows | the two settlement services | bookings |
| Catalogue and profiles | turf and profile rows, their cached views | `turfs`, `upload`, `user-profile`, admin services | cache |
| Admin's users and owners, saved turfs, e-mail, the frame | rows, logs | single updates, I/O | |

What is hard in it:

* **Interleaving.** Every `await` lets another request, webhook, worker or cron
  run, in this process or another. Many handlers read a row, await the gateway and
  then update by id.
* **Arbitration without constraints.** No unique or exclusion constraint protects a
  slot: a Redis lease on the exact slot, a row in `slot_locks` and a query inside
  the booking transaction do.
* **Partial failure and crashes.** `createBooking` does five more things after
  its transaction commits; the refund is asked for after the commit that promises it.
* **Unreliable delivery.** Razorpay repeats and reorders events; replies get lost.
* **Time.** Leases, lock rows, jobs with delays, check-in windows, and slots that
  cross midnight while times are compared as strings of one day.

What makes each part correct: one live booking per slot, given up when it is not paid
(reservation); a booking that has ended stays ended, one refund at most, what the
row says about money is true, a game is rewarded once or refunded (lifecycle); one offer at a
time, a claim is final, nobody waits behind a dead offer (waitlist); shares add up
to the amount and a paid share stays (split); a reward is not lost, a streak is
earned (gamification); a maintenance block means no live booking (maintenance); the
price shown is the price charged, to the rupee (pricing); a view is not older than its row once
the writer has answered (cache); a code, an MPIN and a session end when the code
says they do, and not before (login); one device rings once (push); no page
contradicts another (pages).

## 2. Modules

| Module | Models | How |
|---|---|---|
| `SlotTimes` | the time arithmetic of `createBooking`: durations, opening hours, both overlap comparisons | operators, next to a reference definition on a line of minutes |
| `SlotReservation` | `createBooking` by several requests, step by step, with the expiry worker, cancellation and rejection | one action per await |
| `ExclusiveSlots` | the promise: a booking takes a slot only while nobody holds it and gives it up once | abstract specification, refined by `SlotReservation` |
| `BookingLifecycle` | everything that writes a booking row after its creation | one action per read, gateway call, write and transaction |
| `Waitlist` | the waitlist of one slot: joins, offers, expiry jobs, claims | one action per read and per write |
| `BookingSplit` | the split of one booking's amount | one action per read and per write of each call |
| `PlayerPoints` | one player's points and streak | one action per read and per write |
| `MaintenanceBlocks` | closed days against the bookings of those days | the owner's check and write, the booking's check, insert and confirmation |
| `SlotPrices` | the two computations of a price | operators over the bookings and the waitlist of a day, and what changes those |
| `Offers` | an owner's offers and their limit of two a day | count, audience, sending, log entry |
| `BookingPages` | the lists, codes and figures shown to customer, owner and administrator | operators over the bookings, the clock and the settlements |
| `TurfRatings` | ratings and the turf's average | one action per read and per write |
| `OtpLogin` | one-time codes of a phone number, for login and for a change of number | one action per key that is read or written |
| `MpinLock` | the MPIN's count and lock | read, then write |
| `Sessions` | sessions, the guard and its cache in each process | one action per step of the guard |
| `RateLimits` | the counter and the sliding limit | one action per Redis command |
| `CachedViews` | `getOrSet` against every writer of a turf and a profile | read, store, write, delete one key |
| `PushDevices` | push tokens of an account's devices | one action per query |
| `Sums` | the sum of a function over a set | an operator without recursion, for the modules that add up shares, stars and amounts |
| `MC...` | sets of slots, handlers and symmetries for TLC; `MCBookingExtras` and `MCAccounts` put modules side by side | |
| `...Proofs`, `SumFacts` | theorems and proofs; lemmas about sums | |

`SlotReservation` extends `SlotTimes` and uses its `Overlaps`, so the slot a lease
protects and the slots a query compares are the code's. `BookingLifecycle` and
`Waitlist` take a slot in one step, which is what `ExclusiveSlots` allows and the
refinement shows.

**SlotTimes.** A time is the minute of the day (the code's zero-padded `HH:MM`
strings order the same way). `Overlaps` is the condition of `acquireSlotLock` and of
the `SELECT ... FOR UPDATE`; `WithinOperatingHours` is the checks of lines 335-367.

**SlotReservation.** `ask` is what each request wants; `pc` the step it is about to
take; `lease` the Redis key of a slot; `row`, `linked` its `slot_locks` row; `mine`
the id `acquireSlotLock` works with; `status` the booking; `job`, `attempts` its
expiry job. A request creates at most one row and one booking, so its name serves
as the id of both. `Validate` covers all read-only checks and may throw. A lock row
that expired is seen as such by `Purge` and, as in the code, still found by `FindLock`
if it expired after the purge. `LinkLock` throws when the row is gone, and then
`EnqueueExpiry` never runs.

**BookingLifecycle.** `row` is the booking's columns that matter; `at[b][h]` the step
handler `h` of booking `b` is about to take; `retry` the payment-retry job; `captured`
and `refund` are Razorpay's own state; `awards`, `revived` record what happened.
Handlers that read, await and update by id (`confirmOnlinePayment`, the webhook,
`failOnlinePayment`, `handleBookingExpiration`, `approveBooking`) are two or more
actions; the row-locked transactions of `cancelBooking` and `rejectBooking` are one,
followed by the refund call and its write; check-ins are a read and an `updateMany`
on condition. `HookRead` covers `payment.captured` and `order.paid`; `RefundHook` the
three refund events, in any order and any number of times. `clock` has five marks:
earlier, the ten minutes before the slot, the slot, ten minutes after it, later.

**Waitlist.** `entry` is the status of the entry each call of `joinWaitlist` created
and `earlier` the entries that were there before it, which is all `ORDER BY createdAt`
needs; `open` the entries whose `expiresAt` lies ahead; `live` the booking that holds
the slot; `pick` the entry a handler read; `jobs`, `attempts` the delayed jobs. The
offer is written twice in the code, in `cancelBooking` and in the worker, with the
same three steps (find, update, enqueue): `OfferFind`, `OfferNotify`, `OfferEnqueue`
are both. `lost` records that a handler ended between writes that belong together.

**BookingSplit.** `player` is the table of players in the order of `createdAt`,
`call[c]` what a request has read and the step it is about to take. Every request
goes through `getOrCreateSplit` (`CreateSplit`, `AddLead`, `RefreshSplit`) with what it
found (`Given`), and most end in `recalculatePendingPlayers` (`RecalcRead`,
`RecalcWrite`). `mixed` tells whether requests have overlapped since a request
that shares the amount ran alone.

**PlayerPoints.** `stats` is the row; `game[g]` a booking that ends, or a look at the
statistics, with the row it has read. `getUserStats` lets the streak decay on every
read, which is why a completion is read, decay and count.

**MaintenanceBlocks.** A booking that was on its way when the owner's request looked
is noted in the record (`late`): what the code excludes is every other one.

**SlotPrices.** `ListedPrice` is `getSlotPricing`, `ChargedPrice` is
`calculateSlotPrice`; both read `booked` and `queue`. The rate of a day and hour is in the
code twice and so it is here (`ListRate`, `CalendarRate`). Prices are in paise, because the
base price is a float: the booking rounds it for its duration first (`BaseRupees`), and again
when it is raised; the list rounds once.

**BookingPages.** `minute` counts India's time; the server's today (`Today`) begins at
05:30 of it, as on a server in UTC. Each page is the condition of its query. `Moves`
stands for `BookingLifecycle`.

**OtpLogin, MpinLock, Sessions, RateLimits.** Each key, row or cache entry is a
variable; each request keeps what it read. `entered`, `guesses`, `unused`, `passes` and
`slides` count what happened, apart from what the code counts; `passErrors`, `slideErrors`
the requests that passed because a command failed, among them the one whose `zRem` fails
after its count was over the limit. `age` is the token's, which the guard looks at before the
session (`TokenValid`).

**CachedViews.** A row has a version, a view the version it shows. `late` marks a read that
was not stored yet when its row was written, and a view whose writer deletes nothing, died, or
failed to delete it. Which keys a writer deletes is apart from it: a key that the code forgot, or
spelled in another way, leaves a view that is old and not late.

**Offers, PushDevices, TurfRatings.** A call's steps are its queries; `Uncounted`,
`raced` and `starsMixed` name the overlaps and failures the code loses.

These modules share no state with each other. `BookingLifecycle` gives them their
occasions (a booking is paid, completed, cancelled), in any order it allows.

## 3. What the runs check

| Run | Instance | Shows |
|---|---|---|
| `slot_times` | all hours, all pairs of slots of a 24-unit day | an accepted same-day slot is open minute by minute (`SameDaySlotsAreOpen`) |
| `slots_exact` | 3 requests, 2 users, 1 slot, 2 job attempts, crashes | no two live bookings of a slot, every step one of `ExclusiveSlots` or a stutter |
| `slots_lapse` | 2 requests of one user, lapsing leases, crashes, fairness | a late request never deletes another's lease, a queued expiry job ends the unpaid booking |
| `life_payment` | 1 booking, all payment types, manual approval, 7 handlers and the refund events | one refund, PROCESSED is true, a rejected payment is owed, a promised refund is requested, a confirmed booking is paid |
| `life_visit` | 1 booking of a slot across midnight, 2 payment types, all five marks of the clock, 9 handlers, crashes | one reward, and none for a game whose price is asked back |
| `life_slot` | 2 bookings of one slot, both captured events, reconciliation, expiry | an expired booking leaves no lock on the slot that was booked again |
| `waitlist` | 3 joins of 2 customers, 2 bookings, 2 attempts, failures, fairness | order, one offer per cancellation, every offer ends, the chain goes on |
| `extras` | `BookingSplit`: 2 calls, 2 names, 3 rows; `PlayerPoints`: 3 bookings, a look, days 0 to 11; `MaintenanceBlocks`: 2 days, 2 bookings, 2 records; `SlotPrices`: 2 base prices, 3 sets of hours, 3 weekdays, an event, 5 bookings, an hour and an hour and a half; `Offers`: 2 turfs, 2 calls; `BookingPages`: 2 bookings, 3 slots, 7 instants; `TurfRatings`: 3 bookings, 2 calls | `SharesAddUp`, `PaidShareStands`, `PointsAddUp`, `StreakIsEarned`, `MaintenanceKeepsTurfFree`, `ShownPriceIsCharged`, `OffersAreLimited`, `PagesAgree`, `RatingIsCurrent` |
| `accounts` | `OtpLogin`: 2 requests, 2 codes, a limit of 2; `MpinLock`: 2 requests, a limit of 2; `Sessions`: 2 processes, 2 requests, a window of 3 days, a token of 5; `RateLimits`: 2 requests, a limit of 2 in 2 ticks, a failure of each kind; `CachedViews`: 2 processes, 2 writers, 2 versions; `PushDevices`: 2 tokens, 2 registrations, a message | `LockIsEarned`, `NewestCodeOnly`, `FiveWrongMpinsLock`, `InactivityEndsSession`, `LogoutIsFinal`, `LimitHolds`, `FreshViews`, `OneTokenPerDevice` |
| `slots_overlap`, `slots_orphan`, `life_revived` | violations | section 6 |

**Parts.** `extras` and `accounts` hold modules that share no state. A behaviour is one
of one module (`part`, chosen at the start; the others keep their first state), so
their state spaces are added, not multiplied, and nothing between them is lost.
`Parts` in the cfg names the modules to run.

**Bounds.** The races are between pairs of handlers of one row, one slot or one
entry; a third request or join shows what happens to the one behind. Three requests
are needed so that a row left behind by one is found by a second while a third
waits; three joins so that an offer can be passed on twice and a customer can be on
the list twice. `JobAttempts` 2 (3 in the code) and `RetryAttempts` 1 (5 in the code)
give a first and a last attempt, or only a last one; the proofs hold for every
number. `DayLength` 12 with durations 2 to 6 has every order of four end points, back-to-back
and nested slots, and slots across midnight; the theorems hold for every length.
`MaxJobs` 2 bounds the delayed jobs of an entry: two cancellations are the only
way to notify it twice. `LastMark` 0 keeps the time of a run before the slot where
no visit is in it. `Overnight` is TRUE where visits are: auto-complete then takes the booking
at any time, which includes what it does with a slot of one day. `awards` counts to two, which is one more than allowed.

In `extras` and `accounts` two overlapping requests are enough for every lost update:
one reads, the other writes, the first writes. `BookingSplit` allows one overlap, then
requests one at a time until the amount is shared out again, which is what its
property speaks of; three rows are a customer, a friend, and a row that comes back.
`Fees` is 3 with and without paise, so that a division has a remainder. `Days` are the
first, the next, the sixth (one past the days of grace) and the eleventh (two
periods of decay). `WrongLimit` and `MpinLimit` are 2 (5 in the code): below, at and
above the limit; the proofs hold for every limit. `IdleWindow` is 3 days (30):
the first day without an extension, one with it, the last; `TokenLife` is 5 (90), past the
window; proved for every length. `Span` is 2 ticks, so that a window holds requests of two
ages; `MaxErrors` is one failure of the counter and one of the sliding limit in a window.
`MaxVersion` 2 is a view, a write and another write, by two writers whose deletions interleave;
`Watch` has the views of a turf in one behaviour and of a profile in the other, since no row is
in both.
`Instants` lie around India's midnight, the server's midnight (05:30), and the
beginnings and ends of the slots. `HighVolume` is 1 (100). `BasePrices` are 805 and 805.50:
the first has halves to round at a rate of 1.3 and of 1.5, the second paise. `MaxBooked` 5
fills the evening's six slots far enough for both occupancy surcharges; the event's rate of 0.9
lowers the price. The requests of `extras` are symmetric: no module tells them apart, and no property is about liveness.

**Deadlock.** The runs say `CHECK_DEADLOCK FALSE`: a system whose requests have all
ended, whose jobs have run and whose clock has stopped may stop.

**Fairness.** `SlotReservation!FairSpec`: a job that is queued is run again by BullMQ until
its attempts are used up. Nothing is assumed about requests, crashes, failures, cancellations
or leases. `Waitlist!FairSpec`: jobs and the rest of a cancellation run on and the ten minutes pass; no customer has to join, book, claim
or cancel. `Sessions`' fairness (`SessionsFairness`): the database answers a request at the guard,
and the five minutes of a cache entry end; nobody has to come, to log out or to be
deleted. Only weak fairness is used. A job that fails may still fail on every
attempt, so the properties about jobs name that way out (`"failed"`, `lost`).

## 4. What is proved

All proofs are checked by TLAPS without unproved steps. They hold for every set of
requests, slots, users, bookings and handlers and every number of attempts.

* `SlotTimesProofs`: the overlap comparison is "shares a minute" for same-day slots
  of any day length; a same-day slot that is accepted is open, as a lemma about the
  operators and, as the invariant the run checks, for every choice of hours and slot
  (`SameDaySlotsOpen`); a slot across midnight never overlaps itself (the reason for the
  assumption below).
* `SlotReservationProofs`: `TypeCorrect` and `LeaseIsNotStolen` without assumptions.
  `ExactSlotsAreExclusive`, `OneRowForASlot` and `Implementation` assume `Orderly`: no
  request outlives its lease (`LeaseMayLapse = FALSE`) and no slot crosses midnight.
  Exclusion is not inductive: the check and the insert are two steps. The invariant
  adds that a request between the two Redis calls holds its lease (`HolderHasLease`)
  and that what the `SELECT` found stays true until the insert
  (`CheckedSlotIsFree`); for the rows, that a request about to create one found none
  (`FoundNoRow`). Crashes are included: a dead request keeps its lease until
  Redis drops it.
* `BookingLifecycleProofs`: `TypeCorrect`, `RewardOnce`, `RefundedOnce`,
  `ProcessedIsReal`, `PlayedOrPaidBack`. Five invariants carry them: a booking that was not
  created has no handler past its read (`Unborn`); a booking that was rewarded and not
  revived is over (`Rewarded`), so no conditional update rewards it again; one for which
  a refund was asked, or is about to be, is over, and one handler alone asked
  (`AskedByTheEnd`); none was asked for a game that was rewarded (`RewardedNotAsked`), which
  both of the former are needed for, since either end has to find the booking live; a handler told "processed" still has that refund and one before its
  call has none (`ProcessedByRazorpay`), so no call overwrites a refund that was
  processed. The lemmas go from what a handler may write (`RowStep`) to how a status may
  move (`StatusStep`), who comes to a refund call (`AskStep`) and what writes PROCESSED
  (`ProcessStep`). Crashes are included.
* `WaitlistProofs`: `TypeCorrect`; `FirstComeFirstServed`, whose invariant says that
  what `findFirst` found is still first when it is updated, because entries join
  behind it and none goes back to WAITING; `OffersArePaidFor`, whose invariant
  balances the offers that are out, and the jobs that have ended one and owe the
  next, against the cancellations that made theirs. It needs finitely many joins and
  bookings (`CallsAreFinite`).

* `BookingOutcomeProofs`: how a booking ends. `RejectedIsOwed` has no assumption; it
  needs that cash bookings are never PENDING, so that nobody orders or takes a payment
  of them (`CashIsNotPaid`), and that no refunding handler is under way in a booking that
  has neither ended nor been revived (`RefundsTheEnded`). `ConfirmedWasPaid` has none either:
  who is about to confirm has seen the money, and so has a row that is past PENDING
  (`MoneyIsThere`); such a row is never PENDING again (`NotPendingAgain`), which is what the two
  handlers that write FAILED on an earlier read have seen, so that only a revived booking has a row
  that says otherwise (`RowSaysPaid`). The other two name what the code needs to keep its word,
  and without it TLC finds the counterexamples of section 6:
  `CancelledHoldsNoSlot` that no process dies and no signature is refused (a cancelled
  booking's lock has a handler about to delete it, `LockedUntilReleased`); `PromiseIsKept`
  that no process dies (a promise has been asked for, or a handler is at its call,
  `PromisesAreAsked`).
* `AccountsProofs`, about the six modules of `accounts`:
  * `LockEarned`, `NewestCode`: every wrong code counted was entered; while requests come one
    at a time what is stored, and what a request has read, is the newest code (`OtpInv`).
  * `WrongMpinsLock`: while requests come one at a time the row a request has read is
    the row (`MpinInv`), and a count at the limit is a lock that is on or over.
  * `InactivityEnds`: between the guard's read and its update the days that were read
    are the row's, or the row was extended by another request; a remembered session was
    used within the day; what is left and what is unused make the window, or a day
    less, unless an extension failed (`SessionInv`). It is about the row: the token's own end
    only makes requests fewer.
  * `LimitIsKept`: the members of the sliding key cover what passed and what is still to
    be taken back. For the counter the invariant (`LimitInv`) splits what passed into the
    running window and what is left of earlier ones, which is older: each is within the
    limit, and so twice the limit is the bound. Requests that Redis failed are added to
    both.
  * `ViewsAreFresh`: a read that is not stored yet, and a copy that no writer is about to
    delete, are of the row's version unless marked late (`FreshFills`, `FreshCopies`). That the
    keys of the announcing writers cover every view but the list is a step of the proof.
  * `OneToken`: a registration that runs alone has switched the device's other tokens off
    before it writes its own (`OthersReplaced`).
* `BookingExtrasProofs`, about the seven modules of `extras`:
  * `FinalSharesAddUp`, `PaidStands`: a request that runs alone still knows what it read, at
    every step it may be at (`Knows` in `SplitInv`), sharing out gives equal shares that add up
    with the remainder on the last, and what the last undisturbed request left is even
    (`Kept`).
  * `MaintenanceIsKept`: the property speaks of bookings that are held and of records
    that are written; the invariant of every booking that may still be held (validated,
    unpaid, or with a payment under way: `OnItsWay`) and of every record that was checked
    and is not written yet (`ChecksCover`).
  * `ShownPrice`: the two copies of the rate are equal for every day and hour, and so are the
    prices for every base price in whole rupees from three on (`WholeStands`); below, the
    two roundings of a released slot differ. With paise the booking's two roundings are off by at
    most a half and half of the rate, which keeps the two within a rupee while the rate is one of
    the code's own, without an event (`PricesAreNear`); the event's multiplier is anything.
  * `RatingStaysCurrent`: a call that is alone has counted what is there (`RatingInv`).
  * `StreakEarned`, `PointsAreEarned`: what a handler has read is earned as well as the row is;
    streaks by the number of days played on up to the row's last one (days without a match in
    between are not seen by it), points by the matches.
  * `OffersLimited`: the offers logged for a turf and the requests that ask for it stay together
    within the bound, since a request counted before it asked (`FewTogether`).
  * `PagesDoAgree`: what was played is paid and its check-in had opened (`PagesInv`); the rest
    follows from the definitions of the lists and from the lemmas about sums by class.
  * `EachPart` shows that the specification of the run is that of every module with the others
    left alone; `TypesHold` (as in `AccountsProofs`) is its first use.
* `SumFacts`: what a sum over a finite set does when a value changes, an element goes, two
  functions are added, all values are shifted, or the set is cut into classes. `Sums`
  defines the sum by the function that adds one element after another; that this
  function exists and is the only one is proved with a least counterexample among the
  subsets (`FS_StrictSubsetOrderingWellFounded`, `WFMin`), because the induction theorems
  take an operator and cannot be instantiated here.

So every invariant the runs check is a theorem, some of them under the assumptions
named above, and so are the action properties and the refinement.

Constants are assumed to be what the code makes them: `DayAssumption`,
`ReservationAssumption`, `NoneAssumption`, `LifecycleAssumption`, `WaitlistAssumption`,
`CallsAreFinite`, `SplitAssumption`, `PointsAssumption`, `MaintenanceAssumption`,
`PricesAssumption`, `OffersAssumption`, `PagesAssumption`, `RatingsAssumption`,
`OtpAssumption`, `MpinAssumption`, `SessionsAssumption`, `LimitsAssumption`,
`ViewsAssumption`, `PushAssumption`. TLC evaluates each on the runs.

## 5. What is only model-checked

Liveness, because the prover does not do fairness: `QueuedExpiryEndsBooking`,
 `OfferEnds`, `OfferIsPassedOn`, `LogoutIsFinal`. The violations of
section 6 are runs of TLC too.

## 6. Where the code and its documents disagree

Three runs show a counterexample; PROJECT.json quotes the documents.

* `slots_overlap`: the lease key names the exact slot. Requests for 18-20 and 19-21
  hold different leases, both find no row and no booking, both insert
  (`NoDoubleBooking`; `user_booking_api_readme.md:75`).
* `slots_orphan`: a cancellation of the slot's previous booking deletes the row a
  new request has just written, because `releaseSlotLockForBooking` deletes by
  slot too; the request's update of that row throws after its booking is committed
  and the expiry job is never queued (`UnpaidBookingHasExpiryJob`; `:72`).
* `life_revived`: the webhook reads PENDING, fetches the order, the booking expires,
  and the update by id confirms it again (`EndedBookingStaysEnded`;
  `technical_architecture.md:330`).

More definitions state what a document, a comment or a message says and are
refuted by TLC with the instance named here; no run repeats them.

| Definition | Code (`booking.service.ts`) | Says | Instance |
|---|---|---|---|
| `PaidBookingWaitsForOwner` | 1219: the client's confirmation writes CONFIRMED on manual turfs too | message at 1886 | `life_payment` |
| `RefundStatusMovesForward` | 1594: a late `refund.created` takes PROCESSED back | `user_booking_api_readme.md:122` | `life_payment` |
| `RefundedMeansProcessed` | 3054: REFUNDED as soon as Razorpay accepts | `:123` | `life_payment` |
| `PromisedRefundIsRequested` with `MayCrash = TRUE` | 3039: the process dies between commit and call | `turfsy_prd.md:341` | `life_payment` |
| `FailedPaymentCanBeRetried` | 1990: a failed attempt cancels the booking | `user_booking_api_readme.md:277` | `life_visit` |
| `OnlyUnpaidBookingsExpire` | 1446: read PENDING, a payment arrives, update by id | `technical_architecture.md:289` | `life_visit` |
| `EndedBookingHoldsNoSlot` with handler `confirm` | 1161: an invalid signature cancels and keeps the lock | `turfsy_prd.md:347` | `life_slot` |
| `CompletedNotBeforeCheckIn` | 3488: the end of 22-01 is 01 of the booking date | `technical_architecture.md:288` | `life_visit` |
| `NoExactDoubleBooking` with `MidnightSlot` | 486: 23-01 does not overlap itself; theorem `CrossingSlotMissesItself` | comment at 4257, `user_booking_api_readme.md:75` | `slots_exact` |
| `AcceptedSlotsSkipTheClosedPeriod` | 353: open 05-03, slot 23-05 spans the gap | comment at 352 | `slot_times` |
| `OneActiveEntry` | 3284: two joins of one customer both find no entry | message at 3295 | `waitlist` |
| `ClaimIsFinal` | worker 37: reads NOTIFIED, the claim writes CLAIMED, the worker writes EXPIRED | | `waitlist` |

In the modules of `extras` and `accounts`:

| Definition | Code | Says | Instance |
|---|---|---|---|
| `FinalSplitKeepsItsPlayers` | `user-booking-splitwise.service.ts:341`: `removePlayer` does not ask for `isSplitDone`, and a removed customer comes back with the next call | `turfsy_prd.md:357` "no new players can be added or removed" | `extras`, `split` |
| `PlayStartsAStreak` | `user-gamification.service.ts:308`: the decay moves the last day played to today, and the match that follows counts as the day's second | `user_gamification_readme.md:105` "Streak increases by +1 when a booking is completed" | `extras`, `points` |
| `NoBookingInMaintenance` | `owner-settings.service.ts:586`: PENDING bookings are not in the way of a block and are confirmed later; the check and the write are two steps | message at 595 | `extras`, `blocks` |
| `BookedSlotIsShown` | `pricing.service.ts:264`: the slot that ends at midnight has the end 00:00, which is before every start: it is offered, not waitlisted | | `extras`, `prices` |
| `TwoOffersADay` | `owner-crm.service.ts:154`, `:305`: counted first, logged last | message at 186 | `extras`, `offers` |
| `EveryBookingIsListed` | `booking.service.ts:3814`: an unpaid or confirmed booking of today whose slot is over is neither upcoming nor past until the date changes | comment at 3847 | `extras`, `pages` |
| `FreshList` | `turfs.service.ts:132`, `:428`: `turfs:all` is deleted, the list is stored under `turfs:all:{page}:{limit}` | | `accounts`, `views` |
| `FreshAfterEveryWrite` | the writers of `owner-settings.service.ts`, the admin's services and three of the profile's delete no view | | `accounts`, `views` |
| `CounterSlides` | `redis.service.ts:264`: the window begins with a first request, so that the limit passes just before it ends and again just after; twice the limit in ten minutes | `rate-limiter.service.ts:10` "sliding window rate limiter", `:69` "3 req/phone/10min", `redis.service.ts:257` "Sliding Window Counter" | `accounts`, `limits` |
| `UsedSessionLasts` | `auth.module.ts:20`, `jwt-auth.guard.ts:49`: the token ends 90 days after login, and nothing signs another while the session's row is extended | `jwt-auth.guard.ts:81` "30 days inactivity = logout" | `accounts`, `sessions` |
| `OnePushPerDevice` | `notifications.service.ts:320`: the legacy field is added to the rows that are switched on; a native token that replaced an Expo token left the Expo token there | comment at 42 | `accounts`, `push` |
| `ShownToTheRupee` | `pricing.service.ts:112`, `:155`, `:305`: at 805.50 and a rate of 1.5 the list says 1208 for the hour, the booking charges 1209 | | `extras`, `prices` |
| `OneAccountPerToken` | `notifications.service.ts:43`: only the account's own tokens are switched off, and logout switches off none | | `accounts`, `push` |

The models show more that no document speaks of:

* Overlapping requests may write an older one-time code back, and a successful login
  clears the wrong codes of a change of number, which share the count.
* A process that dies between INCR and PEXPIRE leaves a counter that never runs out:
  from the limit on its key is refused until somebody deletes it.
* A token that was reported dead stays in the account's legacy field.
* The check-in reminder compares the slot's date with today and its start with the
  time in ten minutes: it misses slots that start before 00:10.
* The server's today is UTC's on a server in UTC. `createBooking` then accepts slots
  of today that began up to 5 h 15 min ago, and `getActiveBookingToday` lists
  yesterday's bookings until 05:30. (`BookingLifecycle` books ahead of the slot.)
* Comments speak of 30 minutes and of an hour ahead (lines 312, 800 of
  `booking.service.ts`), `MIN_ADVANCE_BOOKING_MINS` is 15.
* `markAsPaid` asks for no status. The owner's summary counts settlements that are
  PENDING as settled.
* `updateTurfStatus` lets an owner activate a turf that an administrator suspended, or
  that was removed; looking at the owner's profile turns SUSPENDED and MAINTENANCE
  into INACTIVE; `setTurfMaintenance` asks for no bookings.
* `suspendUser` sets `isBanned`, which neither login nor guard reads.

`normalizeBookingDate` sets local midnight; applied twice, as on the path from a
stored date to the waitlist, it is the identity only where the server runs in UTC.
The models take that as given.

## 7. What is left out

* Amounts of refunds: a refund is due or not. Notifications, logs, audit rows: no
  property is about them.
* In `SlotReservation` the read-only checks are one step that passes or throws, all
  requests are for one turf and one date, and a request makes one attempt.
* In `BookingLifecycle` every booking has its own customer; payment-retry jobs of
  one booking are merged into one with the attempts of the latest; the clock has
  five marks; a handler of one name runs once at a time per booking.
* In `Waitlist` one job of an entry runs at a time; an entry that was notified
  twice has jobs whose delay may end in any order with its window (`again`).
* In `BookingSplit` a booking has one split at a time and its amount does not change; shares set
  by hand are at least a rupee, as the request's validation asks.
* In `OtpLogin` keys that one statement after another deletes are deleted at once;
  the sliding limits by phone and address are `RateLimits`, apart from it. Hashes,
  tokens and messages are not modelled.
* In `Sessions` time passes by days, and a cache entry's five minutes end before a day
  does. In `RateLimits` the members of a failed MULTI are added all or not at all.
* In `SlotPrices` the base price of the day is one price and slots begin and end at the hour,
  as in the list; a booking may be charged for any number of half hours. The order of
  rounding in floating point is that of exact arithmetic for the multipliers of the code, and
  a base price has no fractions of a paisa.
* In `BookingPages` all bookings are of one customer, one turf and one amount, and the
  statuses move as `BookingLifecycle` lets them, without its overlaps.
* Not modelled: invoices, CSV and PDF exports, searches by distance, stored files,
  e-mail and the queue's messages, the inbox, saved turfs, administration of users and
  owners, the frame: formatting, I/O, single reads or unconditional single-row
  writes (PROJECT.json gives the reason for each).

## 8. Plan

1. The composition of `BookingLifecycle` with `MaintenanceBlocks`: the payment handlers there
   are the ones that confirm on a closed day here.
2. That `BookingLifecycle` and `Waitlist` take and give up a slot as `ExclusiveSlots` does, as
   refinements of their own.
3. Slots that begin at the half hour in `SlotPrices`; several customers in `BookingPages`.

# Rooko: a TLA+ development

Rooko lets a tenant book a bed in a hostel online, and lets the hostel's staff
seat tenants, take rent and see beds out. The program is a NestJS backend over
PostgreSQL (Prisma) with a Next.js web application and a payment gateway
(Razorpay Route, or an in-memory one for development). This directory holds the
TLA+ modules that model the backend and what the web application adds to it, the
TLC configurations that check them on small instances, and the TLAPS proofs of
what must hold on every instance.

Paths below are relative to the repository; `modules/` is short for
`apps/backend/src/modules/`, `web/` for `apps/web/src/`.

- [1. The system](#1-the-system)
- [2. The modules](#2-the-modules)
- [3. The runs](#3-the-runs)
- [4. The proofs](#4-the-proofs)
- [5. Where the code and the documents disagree](#5-where-the-code-and-the-documents-disagree)
- [6. What is not modelled](#6-what-is-not-modelled)
- [7. Plan](#7-plan)

## 1. The system

Behind the web application there is one kind of process, the API, of which several instances may run
against one database. Everything it does is an HTTP request, a webhook delivery
or a scheduled job. Each of these is a sequence of database round trips and
gateway calls; between two of them any other request may run, and after any of
them the process may die. What keeps the data right is therefore the database's
transactions, unique indexes and exclusion constraint, the conditions of the
updates, and the order of the steps. That is what the models keep.

The web application is a server of its own that keeps nothing: a page or a
server action calls the API with the cookies of the browser, and some pages are
built from a copy of a listing that may be old. What is hard there is between
two calls: cookies rotated by one and used by another, a press repeated after a
lost answer, a number worked out by the form and again by the API, a page that
shows what has changed since.

| Component | State | Operations | Talks to |
|---|---|---|---|
| Online booking `modules/booking` | `bookings`, `payments`, `payment_events` | create (shortlist, hold, order), webhook, approve, reject, cancel | allocation, gateway, tenancy, pass |
| Bed allocation `prisma/sql/init_constraints.sql` | `bed_allocations` | claim, sweep, make firm, end, release | written by booking and tenancy |
| Expiry job `booking-expiry.job.ts` | none of its own | every minute: release lapsed holds, reject unanswered bookings | booking |
| Tenancy `modules/tenancy` | `tenancies` | seat a walk-in, notice, check-out | allocation |
| Check-in `modules/checkin` | `checkin_tokens`, `checkin_events`, code failures per property | show pass, redeem pass, count wrong codes | booking, gateway |
| Settlement, no-show job `checkin.service.ts`, `no-show.job.ts` | `settlementStatus`, `releasedPaise`, `refundedPaise` | release on arrival, split a no-show, retry | gateway |
| Payment gateways `modules/payments` | at the gateway: orders, transfers on hold, refunds | order, release, refund, verify a webhook | Razorpay |
| Billing and rent cycles `modules/billing` | `invoices`, `payment_allocations` | raise invoices, record a payment, allocate it | tenancy |
| Booking price `booking.pricing.ts` | none | price, commission | booking |
| Authentication `modules/auth` | sessions, one-time codes | request and verify a code, refresh, log out | sms |
| Staff `modules/staff` | memberships | invite, change role, remove | auth |
| Inventory `modules/inventory` | rooms, beds | add, change, take out of service | allocation |
| Listing `modules/listing` | listings, slugs | draft, publish, pause | property, media |
| Media, storage `modules/media`, `modules/storage` | media rows, files | upload, order, delete | listing |
| Property, organisation, search, reference, iam | single rows or none | create, read, check access | |
| Web application `web/` | session cookies, cached listings, forms and pages open in a browser | sign in, refresh, every form's action, bulk rooms, edit, book, photos, desk scanner | API |

What is hard, and what makes each part correct:

- **Booking, allocation, tenancy.** The shortlist is read outside the
  transaction that holds a bed; every handler decides on a row it read before
  its transaction; `markPaid`, `approve` and `releaseBooking` write the status
  with no condition on the present one; a lapsed hold may be swept by another
  checkout, by the desk, or released by the job, in any order with the payment;
  a webhook comes late, twice, or after its recorder died. Correct means: no bed
  is sold twice; no bed is stranded; a paid booking has its bed, a pass and a
  tenancy; a closed booking stays closed; no payment is lost; nothing pends for
  ever.
- **Settlement.** Arrival commits first, the gateway is called after, the answer
  is recorded last; any of the three may be the last thing a process does.
  Correct means: the owner is paid once, and only if the tenant came or the
  grace period ended; the deposit goes back once; what the row says is what the
  gateway did; no money stays on hold for ever.
- **Billing.** Two payments read the same outstanding amounts; a period must
  have one invoice and no more; months are short. Correct means: no invoice is
  paid more than its amount, what is allocated is what was paid, and the billing
  day returns after a short month.
- **Authentication, staff, check-in codes.** Check-then-act on a token, on the
  number of owners, on a counter of failures. Correct means: one session per
  rotation and a replay closes the family, an organisation never loses its last
  owner, a lockout cannot be walked around.
- **Inventory, listing, media.** Check-then-act against claims, and files beside
  rows. Correct means: a bed out of service has no claim, a published listing
  has what publishing demands, a row names a file that exists, a new photo lands
  behind those that were there.
- **Web application.** Correct means: who did nothing wrong stays signed in; a
  thing is done once however often a button is pressed, and a failure shown is
  one; what was previewed is what is created; a save leaves alone what was left
  alone; what was offered can be booked at the price shown; three screens that
  count free beds agree; the desk is never stuck.

`PROJECT.json` lists these hazards one by one at their lines, with the
properties that cover them.

## 2. The modules

| Module | What it is |
|---|---|
| `BedClaims` | the promise about beds: an abstract specification with one variable, the claim of each claimant |
| `Booking` | online booking, allocation, expiry job, tenancy, redeeming a pass: all that reads or writes a claim |
| `Board` | what the board, the dashboard and search make of the claims of `Booking` on a day |
| `MCBooking` | instances of `Booking` and `Board` for TLC |
| `BookingProofs`, `BookingRefinement` | theorems about `Booking` and `Board`, and the refinement of `BedClaims` |
| `Settlement` | what becomes of the money of a confirmed booking: release on arrival, the no-show job, Razorpay call by call |
| `MCSettlement` | instances of `Settlement` for TLC |
| `RentCycle` | the calendar of rent: periods, billing days, shares of a month; operators only |
| `Billing` | invoices, payments and their allocation, the nightly run, the rent page |
| `MCBilling` | instances of `Billing` for TLC |
| `Guesses` | one-time codes to sign in with, six-digit codes at the desk, and their limits |
| `Access` | sessions and their rotation, the guard, the members of an organisation |
| `House` | one property: rooms, beds, claims on them, listing, search |
| `MCGuesses`, `MCAccess`, `MCHouse` | instances of these for TLC |
| `SettlementProofs`, `BillingProofs`, `GuessesProofs`, `AccessProofs`, `HouseProofs` | theorems about the machines they are named for |
| `Gallery` | photos: rows beside objects in storage |
| `PhotoOrder` | photos: their positions, and the cover |
| `WebSession` | the cookies of a browser and the sessions behind them |
| `RoomNumbers` | the form that sets up floors of rooms, and the API behind it |
| `Forms` | every form of the web application: what a second press does |
| `Details` | entering and editing a building, field by field |
| `Offer` | what a tenant is shown before booking, and what is charged |
| `Scanner` | the page at the desk: camera, typed codes, answers |
| `Web` | the last eight side by side, one of them in each behaviour |
| `MCWeb` | an instance of `Web` for TLC |
| `WebProofs` | theorems about the machines of `Web` |

Every module is on its own and talks about one part of the database. Where two
parts meet they are in one module (`Booking` holds all that claims a bed, `House`
all that a listing depends on), or one module extends the other (`Board` reads
the tables of `Booking`, `Billing` uses `RentCycle`), or one abstracts the other
(`BedClaims`; the claims in `House` and `Offer`, which come and go as the
constraint lets them; the sessions in `WebSession`, which are those of `Access`
seen from the browser).

`Booking`, `Settlement`, `Billing`, `Guesses`, `Access`, `House` and `Gallery`
each have a `TypeOK`. That of `Booking` is checked in a run; the others hold in
their runs too when they are added to the cfg, and are left out of it because the
properties listed there say more; so is `NothingIsLeftBehind` of `Gallery`. All are
proved (section 4); the other machines of
`Web` have theirs in the first lines of their inductive invariants, in `WebProofs`.

### Booking

State. `booking`, `alloc`, `tenancy`, `pass` and `payments` are the tables,
keyed by booking: a booking has at most one allocation row in its life, one
tenancy (unique index), and one pass that matters. `events` and `processed` are
`payment_events`. `req` is what the process of each request holds in memory: the
step it is at and what it has read (`op`, `b`, `seen`, `beds`, `day`, `ev`,
`lapsed`). A slot is free when `op = "idle"`.

Time is abstract. Days are numbers and serve only to order move-in and leaving
dates. A deadline (`holdExpiresAt`, `approvalExpiresAt`) is `off`, `open` or
`lapsed`, and `Lapse` takes it from open to lapsed at any moment.

Actions. Each is one database round trip together with the decisions taken
before the next one.

| Actions | Code |
|---|---|
| `CreateBooking`, `HoldBed`, `HoldBedTaken`, `HoldBedDuplicate`, `AttachOrder` | `BookingService.createBooking`, `BookingRepository.candidateBeds`, `holdBed`, `attachOrder` |
| `DeliverWebhook`, `RecordEvent`, `DuplicateEvent`, `ApplyCaptured`, `ApplyFailed`, `MarkProcessed` | `BookingService.applyWebhook`, `recordEventOnce`, `markPaid`, `releaseBooking`, `markEventProcessed` |
| `ReadForCancel`/`CancelMine`, `ReadForDecision`/`Approve`/`Reject` | `cancelMine`, `approve`, `reject`: the read with its guard, then the transaction |
| `ReadPass`, `RecordArrival`, `PassAlreadyUsed` | `CheckinService.redeem`, `recordArrival` (a conditional update of the pass) |
| `ReleaseExpiredHolds`, `SeatWalkIn`, `SeatWalkInTaken` | `TenancyRepository.releaseExpiredHolds` (commits by itself), `seatWalkIn` |
| `ReadForNotice`/`GiveNotice`/`GiveNoticeRefused`, `ReadForCheckOut`/`CheckOut` | `TenancyService` and `TenancyRepository` |
| `FindLapsed`, `ExpireLapsed` | `BookingExpiryJob.run`, `expireLapsed`: one read, then a release per row of it |
| `Lapse`, `Fail` | the clock; a process, gateway or database failure between two steps |

A transaction is one atomic action. `holdBed` locks the bed row and the others
lock the rows they update; two that meet are serialised or one of them is rolled
back, which is `Fail`. The exclusion constraint `bed_allocation_no_overlap` is
the guard `~Claimed(...)`: where it fails, the action beside it
(`HoldBedTaken`, `SeatWalkInTaken`, `GiveNoticeRefused`) models what the handler
does with the error. `HoldBed` sweeps the lapsed holds of its bed in the same
transaction, so the sweep is undone when the insert fails; the desk's sweep is
committed before the insert, so it is not.

Definitions whose comment begins with `Variant:` are plausible wrong versions of
the definition after them. No specification uses them; they serve to confirm
that each property notices the mistake it is there for.

### BedClaims

What an owner and a tenant may rely on, in terms of claims alone: a claim on a
bed runs over a range of days; two claims held on one bed share no day; a claim
that is firm, because it was paid for or is somebody's room, is never swept out
of another's way; a claim that ended never comes back. `Booking` implements it
under the refinement mapping `ClaimOf`: an `ACTIVE` row is held, it is firm once
its kind is `BOOKING` or `TENANCY`, and `RELEASED` is ended.

### Settlement

State. `row` is the status and the settlement columns of a booking, `arrived`
says that a CHECK_IN event exists (the pass is then used: one transaction writes
both), `transfer` and `refunds` are what the gateway holds, and `worker` is what
a request or a run of the job has in memory. All bookings here are confirmed,
paid online and have an order; `Booking` says how they got there.

| Actions | Code |
|---|---|
| `ReadPass`, `RecordArrival`, `PassAlreadyUsed` | `CheckinService.redeem`, `CheckinRepository.recordArrival` |
| `ReadForCancel`, `CancelMine` | `BookingService.cancelMine`, which leaves settlement alone |
| `StartSweep`, `SettleNext` | `NoShowJob.sweep`, `findUnsettledPastGrace`, `hasCheckedIn` |
| `FindRefund`, `ListHeld`, `Reverse`, `Refund` | `RazorpayGateway.refundToTenant`, one action per HTTP call |
| `ListForRelease`, `Release` | `RazorpayGateway.releaseOwnerShare`, which a split ends with too |
| `RecordSettled`, `RecordFailed` | `recordSettlement`, in `settle` and in the sweep |
| `GraceEnds`, `CallFails`, `Dies` | the clock; a call or update refused; a process that dies |

`Answered` is the answer of a call that took effect: it arrives, or it is lost
and the caller sees an error, which the code cannot tell from a refusal.

A pass is valid until the end of the day `moveInDate + graceDays` (UTC), and the
sweep takes bookings from the next day on (`moveInDate` is a date, so the
comparison is between dates). The hourly cron runs on Indian hours, half past in
UTC, so the first sweep comes half an hour after the last moment a pass can be
read. A request does not last that long, its calls time out: `GraceEnds` waits
for the requests on the booking.

### Board

No variables: `OccupancyFor` is `InventoryRepository.occupancyFor`, `StateOf` and
`TagOf` are `bed-grid.tsx`, `AvailableBeds` is `PropertyRepository.countsFor`,
`FreeBeds` is `SearchRepository.freeBedsByProperty`. `ScreensAgree` compares them
with each other and with the constraint, on every day.

### RentCycle and Billing

`RentCycle` translates `rent-cycle.ts`: a day is a month number and a day in it,
`AnchorDayIn` clamps, `NextAnchorAfter` comes back to the billing day,
`RentPeriods` is the loop, as a set, and `PeriodsInTurn` the same in order. The
loop is written as a recursive function, so that theorems can reach it.

`Billing` has the stays in `tenancy`, `invoices` keyed by tenancy and period
start (the unique index), `credit` for money captured and not allocated,
`orphans` for tenancies whose online payment names no tenancy, and a slot of
`work` for each request and each instance of the job.

| Actions | Code |
|---|---|
| `StartNightlyRun`, `NextProperty`, `SkipProperty`, `PropertyFails` | `RentInvoicingJob.run`, `generateEverywhere` |
| `GenerateForProperty`, `CreateInvoices` | the read of the tenancies, and `createInvoices` with `skipDuplicates` |
| `FindTenancyForBilling`, `ReadOpenInvoices`, `RecordPayment` | `recordPayment`: the checks, the read in the transaction, the writes |
| `MoveIn`, `GiveNotice`, `CheckOut` | tenancy, as far as billing sees it |
| `NextDay`, `Fail` | the clock; a process that dies |

`RecordPayment` allocates from what `ReadOpenInvoices` saw: there is no row lock,
and two payments may see the same outstanding amount. A stay that came of an online
booking has its move-in day for billing day (`booking.repository.ts:372`); at the desk
any day may be agreed on.

### Guesses, Access, House

Each handler is one action per round trip; a slot of `work` remembers the step
and the row. `overtaken` holds requests whose decision another write has since
undone: it is history, read by no action, and lets a property say exactly who may
do what the check should have prevented. In `Access` these are requests that have
decided to change a member, the last count behind them, and have yet to write, when
an owner goes or the member they are about becomes one (`Overtakes`). `readers` of
`Guesses` is history too: how many requests had judged a code right when it was first
consumed. The lifetime of an access token is not modelled: a request is past the guard
or it is not.

| Module | Actions | Code |
|---|---|---|
| `Guesses` | `RequestOtp`, `CreateOtpChallenge`; `VerifyOtp`, `IncrementOtpAttempts`, `ConsumeExhausted`, `ConsumeOtpChallenge`, `ConsumeOtherChallenges`, `FindOrCreateUser`, `ClaimUser`, `IssueTokens` | `AuthService.requestOtp`, `verifyOtp` |
| | `CodeLockedUntil`, `RecordCodeFailure`, `LockCodes`, `ClearCodeFailures`, `CountAttempt` | `CheckinService.redeem` by typed code |
| `Access` | `SignIn`; `Refresh`, `TryRevokeLiveSession`, `RevokeFamily`, `IssueNext`; `FindForLogout`, `RevokeSession` | `AuthService.refresh`, `logout` |
| | `IsSessionLive`, `ListMemberships` | `JwtAuthGuard` |
| | `AddMember`, `FindMember`, `AssertNotLastOwner`, `UpdateMember`, `Deactivate` | `StaffService` |
| `House` | `CreateRoomsWithBeds`, `UpdateRoom`, `CheckRemoveRoom`/`SoftDeleteRoom`, `CheckUpdateBed`/`UpdateBed`, `CheckBackInService`/`BackInService` | `InventoryService` |
| | `FindCandidate`, `FindBedForSeating`, `PlaceClaim`, `ClaimMoves` | checkout and desk, as in `Booking` |
| | `CheckPublish`, `Publish`, `ClaimSlug`, `Unpublish`; `Rename`, `CheckRemoveProperty`, `SoftDelete` | `ListingService`, `PropertyService` |

### Gallery and PhotoOrder

`Gallery` writes and deletes the objects of a photo one by one around its row; a
call may fail before or after its effect, a process may die. `PhotoOrder` has the
rows only, with the position each was given: `Uploads` reads the last position
once (`nextSortOrder`), `CreatesRow` counts on from it, `SetsPosition` and
`Removes` run between.

### WebSession

`jar` is what the browser holds, `row` the sessions of the API, one per pair of
tokens, `call` what each call of `api`, `apiUpload` or `apiFetchRaw` does. A call
works on the cookies its request came with, whatever the jar holds by then. Its
kind says whether the answer can bring cookies: a server action and a route can
set them, a page cannot (Next.js throws, which ends the call after the rotation).

### RoomNumbers

`form` is the list of sets, `Starts` and `CodesOf` are `resolveSets`, `Previewed`
the page, `Posted` and `SchemaAccepts` the action, `Plans`, `BulkAccepted` and
`CreateRoomsWithBeds` the API. A room number is what is before its digits and
the digits as a number, so `G03` and `103` come out of the arithmetic and not out
of text.

### Forms

One module for twenty forms, because they differ in a handful of ways: does the
button lock while the form is sent, what does the action do with an error
(refusals only, or all), is there a message or does the page fail, what does the
API check before it writes, what does the table refuse, and is there more to do
after the commit. `UI`, `Action` and `API` are those facts, read off each form,
action and handler; the actions `Press`, `Sends`, `Checks`, `Writes`, `GoesOn`,
`BreaksOff`, `Answers`, `Loses` and `Reload` are the same for all.

A booking is held in a transaction of its own and the order is made at the gateway
and attached after it; a payment, rooms, an edit and a decision are committed and the
rows are read again for the answer. `Writes` leaves such a request at `after`, from
which it goes on to `made`, or breaks off (`failed`) and is answered with an error.
A second request with the key of a booking is `given` the row as it is, with or
without an order (`toCheckout`). That a commit is acknowledged to nobody is left
out: to the user it is a lost answer, which `Loses` has.

### Details

`row` is the building with its amenities, meals and rules, `page` the forms that
are open on it. `Filled` and `Defaults` fill a form, `Body` leaves out blank
fields as the action does, `UpdatedRow` merges as the API does, `Resets` is what
React does to a form after its action has run. Values are made of one word or
none; telephone numbers carry their country code as a first part.

### Offer

The page is built from `copy`, which `Revalidates` replaces at any time or never;
`Fills` hands it to a form, `Shortlists` reads `CandidateBeds` and `Holds` walks
along it as `createBooking` does. `IsClaimed`, `IsReleased`, `UpdatesRoom` and
`UpdatesBed` are what others do meanwhile; `disturbed` remembers that they took a
bed or changed a rent after the copy was made.

### Scanner

`phase` is what the page believes, `running` the cameras that are on. Opening a
camera and sending a code are functions that wait (`getUserMedia`, `play`, the
server action), so the rest of each is an action of its own: `StartCamera`,
`GetsStream`, `Plays`, `CannotOpen`; `Types` or `Finds`, `Redeems`, `ShowsResult`,
`ShowsError`, `Throws`. Actions of one page go one after the other, as Next.js
queues them.

## 3. The runs

`CHECK_DEADLOCK FALSE` everywhere: ids are bounded and nobody is obliged to ask
for anything, so the model may rightly stop when every row is used.

| Run | Module | Checks | What it shows |
|---|---|---|---|
| `BedRaces` | `MCBooking` | `TypeOK`, `NoStrandedClaim`, `ConfirmedIsReady`, `RecordedEventIsHandled`, `ImplementsBedClaims`, `PaidBedGoesWithItsBooking`, `OccupancyBeginsOnce` | two slots, each a request or a job run, an online booking whose first payment fails and whose second is captured, and a walk-in who wants its bed |
| `DeskRaces` | `MCBooking` | `NoOverlap`, `ScreensAgree`, `NoticeClosesLinkedClaim` | residents who give notice, twice at once too, and checkouts for the days after, on one bed over three days; what three screens say of it |
| `OneAtATime` | `MCBooking` | `PaidBookingHasBedUnlessSwept` | one slot, so requests do not overlap, every kind of notification, one request may die between any two steps |
| `Expiry` | `MCBooking` | `NothingPendsForever` | liveness under `FairSpec` with one failure |
| `Settle` | `MCSettlement` | `RefundedOnce`, `HeldUntilDue`, `RowIsTrue`, `ArrivalIsPaid` | two bookings, two desks, one instance of the no-show job, two failures of calls or processes anywhere |
| `Rent` | `MCBilling` | `NoDayBilledTwice`, `PeriodsTileTheStay`, `PaidIsCovered`, `SomebodyToChase`, `InvoicesOnlyFillUp`, `EveryPeriodIsBilled` | a stay that begins with a part-month and crosses a short February, the job beside two requests, notice, check-out, two payments, one failure |
| `Guesses` | `MCGuesses` | `LimitsAreKept`, `CodeIsSpent`, `LockStopsGuessing` | three codes for one number, one desk, two requests at a time, one of which may die |
| `Access` | `MCAccess` | `OneLiveSessionPerFamily`, `EndedStaysEnded`, `LastOwnerIsKept` | two owners and a super admin, three tokens, two requests at a time |
| `House` | `MCHouse` | `OfferedIsBookable`, `NobodyIsStranded`, `NobodyLosesTheHouse` | a room of two beds, two numbers for it, two requests at a time, one of which may die |
| `Web` | `MCWeb` | `RowHasItsObjects`, `LandsBehind`, `SoleRefreshKeepsSession`, `PreviewIsWhatIsCreated`, `NothingIsDoneTwice`, `FailureMeansNotDone`, `UntouchedSurvives`, `OfferIsKept`, `DeskIsFreeAgain` | the modules behind the screens, one of them in each behaviour |
| `LateCapture`, `FirstMonth` | `MCBooking`, `MCBilling` | one property each | counterexamples, section 5 |

The other cfg files are run by hand; each ends with a counterexample, section 5.
`WebCounterexamples.cfg` lists nine properties, of which one is left in at a time.

`Web` puts eight small machines into one run: the initial state chooses
one, and the others rest as they start. Nothing is shared, so what is found of one
is what a run of its own would find, which `EachScreenIsItself` makes a theorem.

Bounds, in the cfg files and the MC modules. For the
runs of `MCBooking`: the number of online bookings and walk-ins
(`OnlineKeys`, `WalkIns`: two rows, three in `DeskRaces`), of beds (one, two in
`Expiry`), of days (one
to three), of slots (one or two), the set `Events`, and `MaxFailures`. Two of
each are enough for the hazards: a race is between two requests, an overlap is
between two claims, a sweep needs one lapsed hold and one taker, a stay and the
one that follows need three days. `Forever` is 9, later than every day. What
holds for two is then proved for any number (section 4) where the proof system
can do it. Symmetry is used between slots that run the same requests, never in the
liveness runs.

In `Settle` the amounts are small and chosen so that the rent covers the deposit
more than once: a split that is wrongly repeated is then not stopped by an empty
transfer. Two failures let a retry fail as well. One instance of the job is what
`docs/03_System_Architecture.md:295` promises ("Jobs are leader-guarded"); the
code has no such guard, and with two instances `RefundedOnce` fails.

In `Rent` the clock has two days, so that the second brings a period after the
part-month and, with the lookahead of a week, a third; two payments of more than
one invoice each can allocate the same one. `OtpMaxAttempts` and
`OtpMaxRequests` are 1 and `MaxCodeAttempts` is 2 where the code has 5, 5 and 10: a
limit is passed by requests that read the counter before it was reached, and two
requests show that at any limit. In `Access` three tokens make a family with a
rotation and a replay, and two changes of staff are a count and what comes between it
and its write. A member who is read as a manager and made an owner before the write
takes four changes to matter; there the theorem goes further than the run. In
`House` one room of two beds has a bed beside the one that is claimed, so a room, a bed
and a property can each go; that two rooms never share a number is left to the unique
index, as in the code.

In `Web`: two uploads of two files each against a limit of two photos, with two
failures; two calls and three pairs of tokens, one failure; up to three sets of
rooms out of 26, with floors above ten, at the ground and below it, and numbers
that cross a hundred; three presses, one reload and two answers lost or requests
broken off of each of twenty forms, with and without JavaScript; two edit pages and two saves; three
beds in two rooms with their own rents or not, and one change by others; two
cameras and two codes at the desk.

`OneAtATime` says what the handlers promise one by one: while requests do not
overlap, a sweep is the only way for a paid booking to lose its bed. The API does not
give that, and what is left of it when they do is `PaidBedGoesWithItsBooking` in
`BedRaces`. With a second notification of the same capture in `Events` (`MCEvents`),
`BedRaces` has 2.8 million states and all of its properties hold, and so does
`NoticeClosesLinkedClaim`, whose exception is then needed: a repeated capture, decided
on before the first one confirmed the booking, sets the kind of the claim back to
`BOOKING`, and the notice passes it by.

Fairness (`Fairness`, used by `Expiry`): deadlines pass; a request that was
accepted is carried to its end, as the Node process does unless it dies, which
is `Fail` and bounded by `MaxFailures`; the cron trigger of
`BookingExpiryJob` fires every minute and its run catches its errors. No
fairness is assumed for requests: no tenant has to pay, no owner has to answer,
no webhook has to arrive. In `Settlement`, likewise: days pass, cron starts the
job every hour, and what was started goes on unless it dies. In `Billing` only
the nightly job is fair: cron starts it and it goes from property to property;
its failures are bounded, no page has to be opened and nobody has to pay. The
other modules state safety only.

## 4. The proofs

Eight modules hold the theorems: one for each of `Settlement`, `Billing`, `Guesses`,
`Access`, `House` and `Web`, and two for `Booking` (its own properties with those of
`Board`, and the refinement of `BedClaims`). Each theorem holds for every number of
rows, slots, days and failures, under the assumptions its machine states.

| Theorem | Statement | For |
|---|---|---|
| `BookingProofs.TypeCorrect` | `Spec => []TypeOK` | |
| `BookingProofs.NoBedSoldTwice` | `Spec => []NoOverlap` | |
| `BookingProofs.NoBedStranded` | `Spec => []NoStrandedClaim` | |
| `BookingProofs.ConfirmedBookingIsReady` | `Spec => []ConfirmedIsReady` | |
| `BookingProofs.RecordedIsHandledUnlessSomebodyDies` | `Spec => [](failures = 0 => RecordedEventIsHandled)` | |
| `BookingProofs.PaidBedIsNotTaken` | `Spec => PaidBedGoesWithItsBooking` | |
| `BookingProofs.OneOccupancyEach` | `Spec => OccupancyBeginsOnce` | |
| `BookingProofs.NoticeReachesLinkedClaim` | `Spec => []NoticeClosesLinkedClaim` | |
| `BookingRefinement.BookingImplementsBedClaims` | `Spec => ImplementsBedClaims` | |
| `BookingProofs.ScreensAlwaysAgree` | `Spec => []ScreensAgree` | |
| `SettlementProofs.TypeCorrect` | `Spec => []TypeOK` | |
| `SettlementProofs.ShareIsHeldUntilDue` | `Spec => []HeldUntilDue` | |
| `SettlementProofs.DepositGoesBackOnce` | `Spec => []RefundedOnce` | `OneJob` |
| `SettlementProofs.RowsAreTrue` | `Spec => []RowIsTrue` | `OneJob` |
| `BillingProofs.TypeCorrect` | `Spec => []TypeOK` | |
| `BillingProofs.NoNightIsBilledTwice` | `Spec => []NoDayBilledTwice` | |
| `BillingProofs.PaidMeansPaid` | `Spec => []PaidIsCovered` | |
| `BillingProofs.InvoicesOnlyGrow` | `Spec => InvoicesOnlyFillUp` | |
| `BillingProofs.ThereIsSomebodyToChase` | `Spec => []SomebodyToChase` | |
| `BillingProofs.PeriodsLeaveNoGap` | `Spec => []PeriodsTileTheStay` | `StaysAreShort` |
| `GuessesProofs.TypeCorrect` | `Spec => []TypeOK` | |
| `GuessesProofs.LimitsAreExceededByThoseInFlight` | `Spec => []LimitsAreKept` | |
| `GuessesProofs.CodeIsOneTime` | `Spec => []CodeIsSpent` | |
| `GuessesProofs.LockHolds` | `Spec => []LockStopsGuessing` | |
| `AccessProofs.TypeCorrect` | `Spec => []TypeOK` | |
| `AccessProofs.RotationHasOneWinner` | `Spec => []OneLiveSessionPerFamily` | |
| `AccessProofs.EndedIsFinal` | `Spec => EndedStaysEnded` | |
| `AccessProofs.LastOwnerGoesOnlyOvertaken` | `Spec => LastOwnerIsKept` | |
| `HouseProofs.TypeCorrect` | `Spec => []TypeOK` | |
| `HouseProofs.SearchAgreesWithBooking` | `Spec => []OfferedIsBookable` | |
| `HouseProofs.OnlyTheOvertakenStrand` | `Spec => NobodyIsStranded` | |
| `HouseProofs.OnlyTheOvertakenEvict` | `Spec => NobodyLosesTheHouse` | |
| `WebProofs.EachScreenIsItself` | `Spec` implies the specification of each of the eight | |
| `WebProofs.RowsHaveTheirObjects` | `Spec => []RowHasItsObjects` | |
| `WebProofs.OnlyFailuresLeaveObjects` | `Spec => []NothingIsLeftBehind` | |
| `WebProofs.NewPhotosGoLast` | `Spec => LandsBehind` | |
| `WebProofs.SoleRefreshIsSafe` | `Spec => []SoleRefreshKeepsSession` | |
| `WebProofs.TwiceOnlyWhenUnheard` | `Spec => []NothingIsDoneTwice` | |
| `WebProofs.FailuresAreBelieved` | `Spec => []FailureMeansNotDone` | |
| `WebProofs.SaveLeavesTheRestAlone` | `Spec => UntouchedSurvives` | |
| `WebProofs.WhatIsOfferedIsKept` | `Spec => []OfferIsKept` | |
| `WebProofs.DeskIsFree` | `Spec => []DeskIsFreeAgain` | |
| `WebProofs.WhatIsShownIsMade` | `Spec => []PreviewIsWhatIsCreated` | |

Each inductive invariant was checked by TLC, on the instances of its runs, before
it was proved.

### Assumptions

The machines state what they assume of their constants, each under a name, and
TLC evaluates it in every run. `Booking`: an event id names one event and a
payment belongs to one order (`EventsOK`: both are the gateway's ids), days are
numbers before `Forever` (`DaysOK`), ids of different kinds differ (`RowsOK`).
`Board` and `House`: the beds are finitely many. `Settlement`: rent and
deposit are whole paise and the commission comes out of the rent (`PriceOK`), desks
are not jobs (`WorkersOK`). `Billing`: move-in dates and the days of the clock are dates of the
calendar, and the billing day of a tenant who booked is the day of moving in
(`StaysOK`); amounts are whole, tenancies finitely many. `Guesses`: limits
are positive, requests and codes finitely many. `Access`: users are finitely many, the first owners are
among them. `Web` assumes what its eight machines do: requests, calls, pages and
photo ids are finitely many, so are rooms and beds; rents, deposits, positions and
days are natural numbers, as are the rooms and beds a set is typed in with, and every
day is before `Forever`; nothing that can be
chosen, scanned or issued is `None`.

Two theorems of `SettlementProofs` and one of `BillingProofs` hold for fewer
instances, and say so. `StaysAreShort`: from the month of
move-in to the last day of the clock there are fewer months than the loop of
`rentPeriods` has turns (`index < 600`, `rent-cycle.ts:147`), which is fifty years; a
longer stay would end unbilled in the code too. `OneJob`: at most one instance runs the
no-show job. That is what one API process gives; with two, `SplitTwice.cfg` shows the deposit
refunded twice (section 5). `failures = 0` in `RecordedIsHandledUnlessSomebodyDies` is a state, not an
assumption: the theorem says that a death between two steps is the *only* way to
lose a recorded event.

### Booking

*Type correctness* is not inductive: a transaction writes what its request read
earlier, so `TypeOK'` needs to know that the row still admits it. `Core` adds
`RequestOK`, what a slot may rely on at each step (a notice still has a leaving
date after the move-in date, a decision has an existing row, the row id of a
walk-in belongs to one request only, and so on), and `RowOK`: a booking has a
bed and a move-in day, and a claim, a tenancy or a pass belongs to a booking.
`CoreInvariant` proves it; the lemmas `TypeStep`, `RequestStep` and `RowStep` have
one step per action.

*No overlap* needs in addition that only three actions can add a claim or extend
one (`WhoClaims`), and that each of the three passed the constraint against the
table as its own transaction leaves it (`HoldBedOverlaps`, `SeatWalkInOverlaps`,
`GiveNoticeOverlaps`). In every other step claims only end.

*No stranded claim, and confirmed is ready.* The handlers do not check the
status when they commit, so these hold for a subtler reason than a guard.
`Served` relates the status of a booking to its claim, tenancy, pass and
payment, together with `PaidRequest`: a request that is about to approve or to
redeem saw a booking that was paid for, one about to redeem, give notice or
check out saw its pass and its tenancy, and none of that can be undone. A closing
transaction always releases the claim with the status, and a confirming one always
finds or creates tenancy and pass, so whichever commits last leaves the row
consistent, even if the wrong one wins (which is `ClosedIsNotReopened`, section 5).
`ServedRowStep` and `PaidRequestStep` carry it over each action.

*The paid bed, the occupancy and the notice* are what the rows alone keep, however
requests overlap, so no step of a request may be relied on. `KeptRow` says what the
tables know of each other: a booking that waits for its payment has a hold and no
tenancy, and after a notice an active claim ends with the tenancy or is of kind
`BOOKING`. `StepKeeps` is the step both action properties allow: a row that
lost its bed was closed or ended before, a tenancy that was there is not begun again.
`KeptStep` carries both over each action, from `Core` and `Served` and from nothing
that requests know of each other.

*The refinement.* The mapping takes the row of `bed_allocations`, and the bed and
day of its booking, to a claim. `Traced` adds to `Core` that a row of allocations
belongs to a booking that exists, and that a notice is for a day of the calendar.
`HowClaimsMove` sorts the actions by what they do to the table: one row becomes
firm, or is given up, or the lapsed holds on a bed are swept, or, in three
transactions, a claim is placed or closed (`ClaimMaps`, `NoticeMaps`).
Each kind is shown to be a step of `BedClaims` or to change nothing there.

*The screens.* `ScreensAgree` is a fact about one state: it follows from `NoOverlap`
and `Core` alone. The dashboard counts rows and the board counts beds, which is the
same because rows that run on a day have beds of their own (a bijection, so equal
cardinalities).

### Settlement

`Core` separates the actors: a desk is at the money of a booking only while its
pass is valid, the job only afterwards (`DeskMay`, `JobMay`), so they never meet
and what one of them has read (`Knows`) nobody undoes. Jobs do meet each other, and
that is enough for `HeldUntilDue`: `MoneyOK` says that a share off hold is for a
tenant who came or follows a refund, and neither is ever taken back. It is not
enough for the sums: with a second sweep the amount one sweep has read is stale
when it reverses. `Sole` says what holds with one: what a worker was told is
current (`Current`), and a row claims what the gateway did (`BooksOK`). A lost
answer leaves money moved and nothing recorded, which both allow; a retry asks the
gateway first (`findRefund`, `listHeld`), which is how `RefundedOnce` survives it.

### Billing

Two invoices of a tenancy are for different periods because the index on
`cycleKey` turns the second away when they begin on the same day. Those that begin on
different days do not overlap because every period, drafted or raised, begins at
move-in or on the tenancy's billing day and ends no later than the next one,
whatever the leaving date was when it was drafted. That is `OnCalendar`, and it is
what the proof needs of the calendar: `NextAnchorAfter` is a later date, and no
billing day lies between a date and its next one (`NextAnchorIsLater`,
`PeriodsDoNotMeet`, `PeriodFits`). `Inv` also says that what a payment has read of an
invoice is still a lower bound of it (`SlotOK`): allocation increments, so
`InvoicesOnlyFillUp` and `PaidIsCovered` hold although two payments may settle on
one reading.

Sums and loops call for an induction, and the prover has none over data. In its
place the lemmas take a smallest counterexample: the smallest number of elements of
a set whose sum misbehaves, the fewest turns after which the list does. `SomebodyToChase`
compares the sum over all invoices with the sums tenant by tenant of those the page
lists; the invoices of a tenant it leaves out are marked PAID, and `PaidIsCovered`
makes them worth nothing to the summary. That the credit is never below zero
(`CreditInvariant`) needs more than that: what is applied to the invoices, oldest
first, adds up to no more than was paid, and for that each invoice a payment has
read must have a day of its own (`ReadingOK`). `PeriodsTileTheStay` compares the list the
loop makes with the set `RentPeriods`: the list after so many turns is the set's
periods of the first so many anchors, each from where the one before ends.

### Guesses, Access, House

`Guesses`: a handler reads a counter, compares it with the limit and increments it
in separate statements, so a counter alone says too little. `Inv` bounds each counter *together with* the
requests that have passed the check and have yet to move it, a cardinality; a step
of one request moves it from one group to another (`OneMoves`). What is left when
the requests are forgotten is `LimitsAreKept`. `CodeIsSpent` counts the sessions of a
code together with the requests that have judged it right and have yet to issue
one: once it is consumed nobody joins them. `LockStopsGuessing` counts the wrong codes of
a locked desk together with the requests that are past the check: setting the lock
begins the count at none, and nobody passes the check while it is set.

`Access`: `OneLiveSessionPerFamily` needs only that a family is older than its
sessions, since rotation is a conditional update. `LastOwnerIsKept` needs
`Counted`: a request that is about to take an owner away, and was not overtaken,
leaves another one; a write that takes an owner, or makes one of the member it is
about, marks it as overtaken, and no other write can spoil what it counted.
`EndedStaysEnded` needs that only a request that claimed a live session issues the next
one of its family.

`House`: the same idea. `Told` says what each request found when it looked, and
holds of those that were not overtaken. `OfferedIsBookable` follows from `TypeOK`,
whose part about rooms (no bed in service in a room that is gone) is the one the
search and the booking each rely on in their own way.

### The screens

`Web` chooses one machine at the start. `EachMovesAlone` and `EachStartsAlone` show that
every step of it is a step of each machine or leaves its variables alone, so each
invariant below is proved on the steps of its own machine.

`Gallery`: a request that stores or clears away a photo has it to itself and knows
what is stored of it (`PhotoIsItsOwn`, `StoredSoFar`, `ClearedSoFar`); with that the two
objects are there when the row is written, and an object without a row has somebody
at it until the first failure.

`PhotoOrder`: `CountsFromBehind` says that an upload counts on from behind everything
it saw, and it stays so because the position is read before the files and only goes up.
What moved or was removed meanwhile is no longer what it saw.

`WebSession`: whether the browser's token works depends on calls that are half way.
While no rotation was disturbed, a dead token in the jar is about to be replaced or
cleared (`DeadIsReplaced`), what a call brings works and nobody else has it
(`BroughtWorks`, `BroughtOnce`), who replaces is alone (`ReplacesAlone`), and of one
family a call that may still rotate and the browser hold the same token
(`OneOfTheFamily`). The last is what tells a replay from a rotation: without it a
sign-in in another tab could be undone by the end of an older family.

`Forms`: where the button is disabled while the form is sent, or where there is no
script and the browser drops the page it was to get, one press is under way at a time
and what it did is shown before the next (`Orderly`), unless the API broke off; nothing
can be made twice but over an answer that was not heard or an error after the write. `DoneForTwo` and `DoneOnce` say which writes the API
itself keeps apart, by key, by row or by status.

`Details`: a form that can be sent shows, in each field that was not changed, what it
would be filled with from what its page saw (`ShowsWhatItSaw`). That has to be kept
over the reset of a form after its action, over another page's save, and over the blank
fields a request leaves out; `HasItsCode` is the one conversion that matters, since a
number is stored with its country code and filled in without.

`Offer`: as long as nobody took a bed or changed a rent since the copy was made, the
copy, the form that was filled from it, the beds a booking walks along and the bill are
each right about the rows as they are now (`CopyIsRight`, `FormIsRight`, `WalkIsRight`,
`BillIsRight`). A release needs no exception: it frees a bed and takes none away.

`Scanner`: what the page believes to be under way is under way (`CameraIsAwaited`,
`AnswerIsAwaited`), however many cameras and codes overlap.

`RoomNumbers`: the invariant is the property itself, and the work is in the data. The
list that is posted has the sets with rooms, each once (`Lists`); where no two sets clash
every place has a number of its own (`CodesApart`); the rooms planned are as many as
the sum in the heading (`PlansAreRooms`, `SumCounts`); a room of so many beds has so
many labels, since the letters of a label tell the bed (`LabelsDiffer`). The four
recursive functions behind this are taken apart by a smallest counterexample, as in
`Billing`. An earlier attempt at this proof showed the property false of instances larger
than TLC's: the form lets a floor be any number and any number of sets be sent, the API
takes floors from -2 to 60 and at most twenty sets (`inventory.dto.ts:108`, `:134`), so
`Refusable` names both.

### Only model-checked

- Liveness under fairness, which is beyond the prover: `NothingPendsForever`,
  `ArrivalIsPaid`, `EveryPeriodIsBilled`.
- `PaidBookingHasBedUnlessSwept`, which holds only while requests do not overlap.
  The API gives no such thing, so it is a run and no theorem; what holds under every
  overlap is proved in its place (`PaidBedIsNotTaken`).
- The violations, which are counterexamples and concern small instances by nature.

## 5. Where the code and the documents disagree

Each of these is a cfg file that TLC ends with a counterexample, or a property in
`WebCounterexamples.cfg`: `LateCapture` and `FirstMonth` are runs of the project, the others are run by hand with the module
named in the table above for their part (`MCBooking`, `MCSettlement`, `MCGuesses`,
`MCAccess`, `MCWeb`).

- `LateCapture`: a payment captured after the hold lapsed, and after a sweep
  gave the bed away, still moves the booking forward, without a bed and without
  a refund. `docs/01_Product_Requirements.md:299` and
  `docs/04_Database_Design.md:161` want the allocation re-attempted and the
  money returned. `PaidBookingHasBedUnlessSwept` shows that this is the only way
  to lose a paid bed while requests do not overlap.
- `StaleDecision`: `markPaid` and `approve` write their status whatever became
  of the booking since it was read, so a cancelled, rejected or expired booking
  comes back; `docs/04_Database_Design.md:196` draws those states as final.
- `CancelConfirmed`: cancelling a confirmed booking leaves its tenancy active;
  `docs/01_Product_Requirements.md:104`: a cancelled booking "never becomes
  occupancy".
- `LostWebhook`: a crash between recording an event and applying it loses the
  payment, since redeliveries are duplicates; the reconciliation job of
  `docs/04_Database_Design.md:288` does not exist in the code.
- `SplitRetry`: a split whose refund was made and whose answer was lost is taken
  for complete by the next sweep, and the owner's rent stays on hold for good;
  `no-show.job.ts:13`: "Without this, money strands."
- `SplitTwice`: a split that stops between the reversal and the refund reverses
  the deposit again when it is retried; `gateway.types.ts:90`: "Both settle
  operations must be safe to call twice."
- `CaptureAfterClose`: a payment captured for a closed booking is recorded
  nowhere; `docs/01_Product_Requirements.md:481` (BR-035): "No orphan money."
- `FirstMonth`: the payment of a booking is made before there is a tenancy and
  names none, so the first month is invoiced again and no credit stands against
  it; the same BR-035, and `docs/02_Open_Questions.md:73`: "Tenant pays the real
  first month's rent through the app at booking".
- `CodeIsOnce`: two verifications that have both read a code unused both sign in, since
  `consumeOtpChallenge` updates the row without looking at it; the code is
  "single-use" in `docs/03_System_Architecture.md:331`. `CodeIsSpent` shows that
  nobody who reads the row later does.
- `LastOwner` (`LastOwnerStays`): two owners are demoted by two requests that both
  counted two; `staff.service.ts:108`: "You cannot … the last owner. Add another
  owner first."
- `RemovedIsOut`: who passed the guard before being removed still changes the members;
  `docs/03_System_Architecture.md:333`: "Staff removal kills access immediately".
- `FailureIsBelieved`: the bed is held and the order fails at the gateway
  (`booking.service.ts:155-197`), or a payment is recorded and its invoices cannot be
  read (`billing.service.ts:187`): the API answers with an error and the form says
  "Something went wrong. Please try again." (`all-exceptions.filter.ts:111`) of
  something that was done.
- `TriedAgainIsDoneOnce`: who does try again records the payment a second time, and
  without JavaScript holds a second bed, since the form comes back with a new
  key; `book-form.tsx:43`: "retrying a failed submit must not hold a second bed".
- `BookedCanBePaid`: a retry with the same key is led to the booking that broke off
  before its order, and no request makes one any more: the page has a button that does
  nothing (`toCheckout` gives an empty order id, `simulateDevPaymentAction` returns),
  until the hold lapses; `booking.service.ts:103`: "A retried request returns the
  original booking".
- `StaysSignedIn`: with nothing failing, a browser loses its session: a page
  rotates the refresh token and cannot set the cookies it got, or two calls
  present the same token and the second is taken for a replay, which ends the
  family. `web/lib/api.ts:85`: "this happens routinely rather than exceptionally."
- `ChosenIsCover`: position 0 is given to the photo that is made the cover, and
  kept by the one that had it; the older of the two is drawn first.
- `EditIsSaved`: a field of a building that is emptied is left out of the
  request and keeps its value; the charge for food is not filled in and is lost
  when the form is saved for another reason.
- `ShownIsCharged`, `CheapestIsHeld`: the page shows the lowest rent of a kind of
  room and the deposit of one of its rooms; the booking tries beds in the order
  of the room's base rent and charges those of the bed it gets.
  `web/app/(public)/pg/[slug]/book/book-form.tsx:135`: "Every figure shown before
  payment, because a surprise at the end is how a booking becomes a refund."
- `CameraIsStopped`: a refused scan, a code typed while the camera opens, or
  leaving the page meanwhile, leaves it on; `checkin/scanner.tsx:41`: "a light on
  the front of someone's phone and a flat battery by lunchtime."

Found while modelling, and in no run of their own:

- A rotation that has claimed the old token when its family is revoked, by a replay or
  by the removal of the member, still issues the next session
  (`auth.service.ts:181-199`), where "every session in the family is revoked" (`:150`);
  `EndedStaysEnded` begins when none is being issued.
- `addMember` on the last owner demotes them without counting
  (`staff.repository.ts:135`), which `LastOwnerIsKept` excepts; a publication
  that dies between its two updates leaves a live listing without an address;
  the number of a removed room can never be used again, because the unique index
  (`schema.prisma:525`) covers removed rooms and the check before it does not;
  a checkout pending when a property is removed can be confirmed into it.
- An invoice raised ahead is not shortened when the tenant leaves inside its
  period (`skipDuplicates`); nothing applies a credit to a later invoice.
- The in-memory gateway refuses every split of a no-show when commission is
  charged, since deposit and rent are then more than the share it holds
  (`dev.gateway.ts:164`); Razorpay reverses the deposit and releases what is left.
- A payment has no idempotency key (`docs/03_System_Architecture.md:281`:
  "Everything a retry can touch has a natural or supplied key"), which is why `NothingIsDoneTwice` excepts payments; a browser without
  JavaScript gets a new booking key with every answer.
- A cookie whose session has died sends the browser from the dashboard to the
  sign-in page and back, since the sign-in page looks only at whether there is a
  cookie.

## 6. What is not modelled

In `Booking`: prices and amounts (an amount matches or does not), the check-in
dates of a pass, beds going in and out of service, deletion of rows, history
rows, and the content of answers. `Booking.candidateBeds` orders its shortlist;
the model tries the beds in any order. Idempotent retries of `createBooking` are
requests that change nothing there; what they are given is in `Forms`.

In `Settlement`: bookings without a deposit (Razorpay would be asked to refund
nothing), several transfers of one order (the code creates one), the lockout of
typed codes, and the in-memory gateway, which forgets everything on a restart
and is for development only.

In `Billing`: bad debt, receipts and the wording of statements. In `Guesses` and
`Access`: hashing, signing, the text messages. In `House`: rents, descriptions,
photographs as more than present or not. In `Details`: validation beyond empty or
not. In `RoomNumbers`: the checks of rent and gender in the schemas, and who may create
rooms, so `Refusable` names only what the numbers, floors and sizes are refused for.
In `Offer`: the dates of a stay beyond the day of moving in.

Parts that stay out altogether: the signatures of webhooks and the in-memory
gateway; filters, paging and the order of search results; reference data, which
is static; SMS and image processing, which are I/O; of the web application the
layout (`components/ui.tsx`, most of each page), the pages that only show, the
legal pages and the site password; DTO classes and API types, which declare
shapes; migrations, which repeat the schema; seeds and configuration.

## 7. Plan

1. **State machines (done).** Every component that changes state has a module.
   Left, in order of what they would add: the in-memory gateway against an
   abstract promise of a held share, given once, and what of that promise
   Razorpay's calls keep; `House` with the claims of `Booking` in place of its
   own; paging and filters of search.
2. **Theorems about the backend (done).** Every safety property of its runs is a
   theorem, but for `PaidBookingHasBedUnlessSwept`, which concurrent requests break.
3. **Theorems about photos and screens (done).** Every property of `Web` is a
   theorem.
4. **Two machines as one.** That the claims of `House` are those of `BedClaims`
   seen on one day, and the sessions of `WebSession` those of `Access`: two
   refinements that would replace the words of section 2.

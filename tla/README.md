# Formal models of locator-backend

locator-backend is the server of a marketplace in which a *requester* posts a
request for a short video of a place, a nearby *creator* accepts it, records and
uploads, a *moderator* and the requester review the result, and the price held
in escrow is paid out, refunded, or split by the dispute centre.  It is an
Express/Prisma service over PostgreSQL, with Redis for locks and caches and with
in-process `setInterval` sweeps for everything that depends on time.

This directory holds TLA+ models of its services, the TLC configurations that
check them on small instances, and proofs, checked by TLAPS, of all of their
safety properties for every instance.  Paths below are relative to `src/src/` unless
they begin with `src/`.

- [1. Inventory](#1-inventory)
- [2. Plan](#2-plan)
- [3. The models](#3-the-models)
- [4. What TLC checks](#4-what-tlc-checks)
- [5. What is proved](#5-what-is-proved)
- [6. Disagreements found](#6-disagreements-found)
- [7. What is not modelled](#7-what-is-not-modelled)

## 1. Inventory

| component | state | operations | what makes it correct |
|---|---|---|---|
| **Request** (`services/requestService.ts`, `requestStateMachine.ts`) | `Request` row: status, creator, type, acceptance mode, reward, deadlines | create, update, cancel, publish, accept | status and creator agree; one creator wins; a finished request holds no money |
| **Escrow** (`escrowService.ts`, `utils/money.ts`) | `RequestEscrow` row, wallet balances, `Transaction` rows or ledger entries | reserve, release, refund, freeze, Admin release / refund / partial refund | settled at most once; nothing paid out that was not taken; rows and money agree |
| **Dispute centre** (`disputeService.ts`) | `Dispute` row with a snapshot of the escrow | raise, escalate, assign, resolve, close, reopen | money moves only by a resolution; any sequence of resolutions and reopenings lands on the last target |
| **Requester review** (`requesterReviewService.ts`, `requesterReviewAutoAcceptJob.ts`) | review fields of the row | accept, reshoot (once), reject, auto-accept after 48 h | a silent requester does not hold a payout; paid exactly when completed |
| **Recording** (`recordingService.ts`) | `RequestVideo` rows, stored assets | start, session, upload, retry, cancel, delete draft | an uploaded video reaches a reviewer; nobody is left without a call that goes on |
| **Moderation** (`moderationService.ts`) | video and request queues, toggle | approve / reject video, approve / reject request, escalate | one decision for each item; what is under review was approved; a refused request is refunded |
| **Acceptance timer** (`acceptanceTimerJob.ts`) | `acceptanceTimerExpiresAt` | sweep: republish, force-release the lock, abandonment guard | never takes a request from a creator who has started, never breaks another's acceptance |
| **Lifecycle sweep** (`requestLifecycleJob.ts`) | `scheduledAt`, `expiresAt` | publish scheduled, expire and refund | a search ends; only eligible rows are touched |
| **Matching window** (`matchingWindowService.ts`, `matchingWindowJob.ts`) | `MatchingWindowResponse` rows | respond, close, fall back | one Connect spent, by the winner, who is the best whose debit went through |
| **Creator lock** (`creatorLockService.ts`) | one key with token and TTL, in Redis or memory | acquire, release, force-release | no open request stays locked |
| **Ledger** (`ledgerService.ts`, `ledgerReconciliationJob.ts`) | three Credit buckets, Connects, `LedgerEntry` rows | credit, debit, signup and daily grants, reconciliation | never negative; balance equals the sum of the entries; a grant a day; the sweep reports exactly the lost entries |
| **Wallet** (`walletService.ts`, `adminService.ts`) | INR balance, `Transaction`, `PayoutRequest` | order, verify, webhook, reconcile, withdraw, approve, reject | every rupee explained; a repetition moves nothing |
| **Tips** (`tipService.ts`) | `Tip` row, ledger or wallet | tip | one for each request, and paid for |
| **Queries** (`queryService.ts`) | thread and messages for each creator | ask, reply, decline, close all | capped; closed when a creator is found |
| **Accounts** (`authService.ts`, `adminService.ts`, `retentionJob.ts`) | `User`, OTP rows, refresh-token families | codes, signup, login, refresh, logout, block, suspend, sweep | a closed account has no session; a replayed token ends its family; a code opens one session |
| **Reputation** (`ratingService.ts`, `verifiedCreatorService.ts`, `reportService.ts`) | `Rating`, `VerifiedCreatorStatus`, `Report` rows, flags of the user | rate, evaluate, override, report, resolve, dismiss | double-blind reveal of the rows; badge and status row agree; a threshold crossed is flagged |
| **Trust profile** (`trustScoreService.ts`) | snapshot of what was announced | fetch | a badge is announced once |
| **Settings and consent** (`settingsService.ts`, `complianceConfigService.ts`, `consentService.ts`) | rows, versions, Redis cache, consent records | get, set, preset, raise a version, accept | row, cache and trail agree; who is not asked again was shown the text |
| **Notifications, export, chat** (`notificationService.ts`, `fcmService.ts`, `dataExportService.ts`, `postSubmissionChatService.ts`) | device token, `Notification`, `DataExportRequest`, chat messages and flag | notify, register a device, export, send | reached at the last device; told what holds; flagged at the threshold |
| **Reminders** (`notificationReminderJob.ts`, `requesterReviewAutoAcceptJob.ts`) | `...SentAt` stamps | four sweeps | a decision by the clock was announced |
| **Views** (finders of the repositories, dashboards) | none | lists, queues, figures | what anybody must do is on a list of his; what is offered can be taken |
| **The rest** | profile fields, places, mail, storage, Admin users, analytics | reads, output, I/O | - |

**How they interact.**  Handlers call each other's services directly inside one
Node process; between two `await`s a handler runs alone, and at each `await` any
other handler or sweep may run.  All state is in PostgreSQL rows.  There is no
request-wide lock: three mechanisms replace it, and it differs from handler to
handler which of them is used.

1. `assertTransition(from, to)` against the table, on a status *read earlier*;
2. `updateStatusIfCurrently`, an `updateMany` whose `where` repeats the status
   (accept, window close, both sweeps);
3. the creator lock, taken by `accept` only.

Every other write of the status is unconditional (`cancel`, `startRecording`,
`completeUpload`, moderation, review).  Money moves in one `$transaction` in INR
mode and in two separate writes in Credit mode; the ledger's updates are guarded
by the columns they read, the wallet's are plain increments and decrements.

**Which behaviours are hard.**  (a) An acceptance races cancelling, expiry, the
timer sweep and other acceptances, each acting on stale reads.  (b) Handlers
write several rows one after another and may throw or die in between.  (c) Money
passes through many operations in any order: overrides, partial refunds,
disputes, reopenings.  (d) Progress rests on sweeps that each see only some of
the statuses.  (e) Balances, counters, caches, badges and tokens are read, awaited
and written by calls of one user that overlap, are retried, or are cut.  `PROJECT.json` lists the hazards line by line, with the properties
that cover each, and those that still have none.

## 2. Plan

Done, in this order (each row builds on the ones above it):

| module | what it adds |
|---|---|
| `RequestStates` | statuses and transition table |
| `RequestLifecycle` | request x escrow x dispute, every operation, serial and fault-free |
| `LifecycleFaults` | the same with handlers cut between two writes |
| `Assignment` | the abstract promise of acceptance |
| `AcceptRace` | acceptance with every interleaving, implementing `Assignment` |
| `RequestLifecycleProofs`, `AcceptRaceProofs` | the theorems of `RequestLifecycle` with `LifecycleFaults`, and of `AcceptRace` |
| `Oversight`, `Reminders` | the lists shown of a request, and the pushes time sends, over `RequestLifecycle` |
| `Ledger`, `Wallet` | the two currencies, with everybody who moves them |
| `Delivery`, `Search` | the two halves of a request's life with their own rows, interleaved and cut |
| `Accounts`, `Reputation`, `Trust`, `Settings`, `Correspondence`, `People` | users, and what is kept about them |
| `SumLemmas` | what a sum over a finite set is, for the two ledgers' proofs |
| `LedgerProofs`, `WalletProofs`, `PeopleProofs`, `DeliveryProofs`, `SearchProofs` | the theorems of these modules |

Next:

- An abstract wallet and an abstract ledger (one balance for each user and
  currency, moved whole) which the two modules implement up to the calls in
  progress.

## 3. The models

### RequestStates, RequestLifecycle

One request, from before `create` to its last status.

| variable | code |
|---|---|
| `status`, `kind`, `mode`, `reward`, `creator`, `reshootUsed` | the columns of `Request` (`status = "NONE"` before the row exists) |
| `clock` | which deadlines have passed: `scheduledAt` and `expiresAt`, `acceptanceTimerExpiresAt`, `matchingWindowClosesAt`, 48 h after `moderatorDecisionAt` |
| `moderationOn` | the `MODERATION_TOGGLE` setting |
| `escrow` | the `RequestEscrow` row: state, `amountLocked`, `commissionAmount`, `creatorEarnings`, `refundAmount` (a partial refund rewrites the commission, a resolution does not) |
| `net`, `adjust` | the sums of the money booked for this request, by `escrowService` and by `adminResolve`, and the creator last paid |
| `dispute` | the `Dispute` row: status, `escrowStateAtCreation`, the two `already...` amounts |

Each endpoint and sweep that writes one of these is an action with its name
(`Create`, `Cancel`, `Accept`, `TimerSweep`, `AdminResolve`, ...).  What it checks
before it writes has a name of its own where somebody is shown the request in order to
act (`CanCancel`, `CanAccept`, `CanReview`, `TimerDue`, ...).  What a handler
calls is part of its action: `AcceptVideo` holds the release and the three
statuses, `Create` the reservation and the publication.  A refund or release that
throws is a disjunct of its own, with whatever was written before it: an expiry
is written without its refund, `acceptVideo` stays in `ACCEPTED`, `cancel` and
`reject` do not happen.

Abstractions.  Amounts are integers in hundredths, the precision `round2` keeps,
and `round2`'s half-up rounding is exact integer arithmetic (`PercentOf`); binary
floating point is not modelled, and the commission rate and the split are whole
percentages.  The commission rate and the Credit reward are constants,
because the escrow row snapshots them; a change between two requests is another
instance of the constants.  Distance, availability, balance and location checks
can only turn a handler into an error, so an action is a handler that passed
them.  Matching-window respondents and their ranking are a choice of any creator
(a winner can be anyone) or of none; `Search` has them.  `RequestVideo` rows are left
out, a video is where the status says it is; `Delivery` has them.  `TEMPORARY_CHAT` and the other retired statuses stay in
the table, but no action reaches them, as in the code.

### LifecycleFaults

Adds to every `RequestLifecycle` step one that stops in the middle of a handler's
writes: a database error or the death of the process.  A `$transaction` is never
cut.  The cut can fall inside a Credit-mode settlement (`CreditWithoutRefund`,
`CreditWithoutRelease`: the ledger credit booked, the escrow row still
`RESERVED`), between the escrow and the status, between the two status writes of
a publication or an upload, and between the dispute row, the freeze and the
status.  Afterwards the system goes on, and users retry.  `MaxFaults` bounds the
number of cuts in one behaviour.

### AcceptRace and Assignment

One published First Accepted request and everything that can touch it at the same time.
A step is the code between two `await`s.  Each call of `accept` is an *attempt*
with a program counter (checks, lock, conditional update, debit, undo, unlock);
two attempts may be one creator's double tap.  `startRecording`, `cancel` and the two
sweeps are split at their reads, refunds and writes, so they act on what they
read earlier: `CheckStart`/`WriteStart`, `CheckCancel`/`CancelRefund`/`WriteCancel`,
`SelectLapsed`/`Republish`/`ForceRelease`, `SelectExpired`/`ExpiryRefund`/
`WriteExpired`.  The lock is one key with the token of an attempt; a TTL may
remove it once its handler has finished.

Abstractions.  `escrowService.refund` is one step (its own read and write are
`Delivery`'s subject).  An accept handler ends before the acceptance timer
that it starts has lapsed: minutes (`ACCEPTANCE_TIMER_MINUTES`) against a few
database calls.  Without this, a handler stalled for the whole timer could undo
somebody else's assignment, which is how the hazard at `requestService.ts:487`
would bite; the assumption is the guard of `Lapse` and `LockExpires`, and nowhere
else.  One server runs one instance of each sweep (`server.ts:54-56`).  The lock's
backend does not change while a key is held.  The Connect cost is 1, its default.

`Assignment` is the promise seen from outside: offered, taken by one creator,
perhaps given back, gone for good.  `AcceptRace` implements it with `phase` read
off the status and `owner` off `creatorId`.  `GoOn` may follow any phase: a request
that goes on keeps whatever creator it had, which the code's unconditional writes
make all that can be promised.

### Oversight and Reminders

`Oversight` adds no state to `RequestLifecycle`.  Each finder and presenter is a
predicate of the row, named after the code: `Discoverable`, `Available`,
`Details`, `Active`, `Accepted`, `RequestQueue`, `VideoQueue`, `DisputeList`,
`LiveMonitoring`, `EscrowSummary` and so on.  What is asked of them is whether
they agree with the checks of the handlers, which are the very guards of
`RequestLifecycle`'s actions: what follows them there is only assignment.  Paging and sorting are left out: a list is the request being on it.

`Reminders` adds the `...SentAt` stamps (`sent`), the thresholds that have passed
since a stage began (`waited`: 2 h and 42 h of a review, one of a recording and of
a completed request), and two notes for the property (`warned`, `away`).  Every
step of the request is kept, with a stage's clock set back when the status
changes (`KeepTime`).  `SweptMeanwhile` says that the sweeps, which come round every
5 or 15 minutes, are done long before the next threshold hours later, unless the
server is away (`ServerAway`).

### Ledger

| variable | code |
|---|---|
| `balance` | `bonusCredits`, `purchasedCredits`, `earnedCredits`, `creatorConnects` |
| `booked`, `entries` | `LedgerEntry`: the sum for each user and currency, the idempotency keys taken with their amounts |
| `lastGrant`, `day` | `lastDailyConnectGrantDate` and the calendar date in IST |
| `tips` | requests with a `Tip` row |
| `call` | for each handler: operation, program counter, what it has read, the day it goes by |
| `sweep`, `sums`, `report` | the reconciliation between its two queries, and what it found |

A handler is a sequence of ledger operations (`Signup`, `GetWallet`, `Hold`, `Tip`,
`AcceptSpend`, `AdjustWallet`, ...), each made of the steps between its awaits:
`ReadBuckets`, `TakeParts` (the guarded decrement with its retry), `Book`; the daily grant
takes its day from the clock (`FixToday`) before it awaits the row (`ReadGrantDate`), so
midnight and another grant may come between.  A key that has an entry answers for an operation
whatever its amount is (`Replay`), as in the code.  `Cut` may end a handler at any of
the steps.  Who calls an operation twice is another call with the same key.

### Wallet

`status` and `attempts` are a deposit's row and the payments made on its order at
Razorpay; `rows` is the sum of the other `Transaction` rows; `payout`, `tips`, `cache` and
`redis` are what they say.  Confirmations come as `verify`, as webhooks
(`captured`, `failed`) and as the Admin's `reconcile`, each with its read and its
`$transaction` apart.  `Enter`, `Replayed` and `Store` are the Idempotency-Key
middleware, which is not in force while Redis is down and stores nothing for a call
that was cut; `Expire` is the end of the 24 hours for which it keeps an answer.  What escrow,
tips and disputes pay into a wallet comes as `Award`; `TakeBack` is the debit of
`disputeService.adminResolve`, which looks at no balance.  `late`, `behind`, `raced` and
`risky` are history: they name exactly what each property excuses, `raced` the debits that
landed on less than they had checked or, without a check, on less than themselves, `risky` the keys
with a cut, an outage, two calls at once, or their 24 hours over.

### Delivery

One request from `RECORDING` to its settlement, with `rows`, `video` and `asset`
beside `status` and `escrow`.  Every handler is split at its awaits: the load of the
request (`saw`), the load of the video, the storage call, and each of the writes
that follow, in their order: `UploadSucceeded`, `ToUpload`, `ToReview`; `ModerateVideo` and
`ModerateRequest` in either order; `ToAccepted`, `ReadEscrow`, `Settle`, `WriteEscrow`,
`ToReleased`, `ToCompleted`.  `currency` is free: an INR escrow is paid and written in one
`$transaction`, a Credit one is paid on the ledger first (`booked`) and written by an await of its own, and
`halved` marks the calls cut in between.  `late` marks calls that wrote over rows changed since they read them
(two deletions of one draft, an upload begun in a request that has left `RECORDING`),
`torn` calls cut between two writes, `crossed` decisions that ran together, `aside`
calls that began to upload or withdraw a video older than the one the request shows
(section 6 says what these do).
Only the newest row of a session is looked at by `getVideo`, and `hideAssetUrls` hides what is
not approved (`Presented`).

### Search

One Credit request from its window to an assignment.  `FindDue`, `LoadWindow`,
`ReadResponses`, `DebitBest`, `Assign`, `RefundLoser`, `MarkSpent` and `ReleaseOthers`
are `closeWindow`; `Score` is the Bayesian average in exact integers, and `Ranked` the order with its
three tie breaks.  `DebitFails` is a debit that throws, for want of Connects or for any other reason:
both callers take it for one that did nothing, but when only its entry failed the Connect is
gone (`mislaid`).  `elsewhere` counts what a creator spends on other requests.  `Take`, `Pay`, `Rollback` and `CloseThreads` are `accept` without
its lock, `FindExpired` to `BarAbandoner` the acceptance timer with its guard, and the
rest the question threads.

### Accounts, Reputation, Trust, Settings, Correspondence, People

`Accounts` holds users, one-time codes and refresh tokens, and the calls.  A
behaviour has one *cast* (`Casts`): a short sequence of jobs that may be called in any order
and at the same time.  A token is named after the call that issued it.
`Reputation`, `Settings` and `Correspondence` extend it with rows and jobs of their own, and `Trust` extends
`Reputation`; `People` composes them over the same users and calls.  Beside each other they
share the account (`Authenticated`, `active`, `isVerified`) and the cut of a call, so a
suspension can come between an evaluation's reads, or a block between an export and the
notification of it.

- `Reputation`: `LoadRate`, the row, the reveal of the other one, and the notification that
  sends the ratee the stars at once (`notified`); an evaluation's reads
  and its two writes; a report with its count of those not dismissed (`Counted`), the decisions on
  it, and the trailing window passing.  `revived` notes that one Admin resolved what another had dismissed.
- `Trust`: rates and the score over the rows of `Posted` in exact hundredths, and
  the announcement between the read and the write of its snapshot.
- `Settings`: a read through the cache with its fill, a write as row, version and
  cache, a preset as its writes in order, entries that expire, Redis coming and going, a row
  changed behind the service's back; and the legal version with consent.
- `Correspondence`: a notification as preference, device, row, push and the clearing
  of a device that is gone; the export with one `try` around all of it; the chat with its
  toggle, count, flag and alert.  The flag is one column with the question threads', which
  may set it first (`FlagThread`, `asked`).


## 4. What TLC checks

| run | instance | distinct states | properties |
|---|---|---|---|
| `lifecycle_inr` | INR; 2 creators, one of them near; amounts 10.33 and 20.05, the second at the high-value threshold; commission 15 %; splits 50 % and 33 %; partial refund 5.01; the reminder sweeps | 279 566 | type invariant, five invariants, two action properties, two liveness properties |
| `faults_credit` | Credit; cost 2.00, reward 1.50; at most 2 cuts | 790 518 | two invariants |
| `accept_race` | 3 attempts by 2 creators, one of whom taps twice; Connects 2 and 1 | 306 200 | three invariants, refinement of `Assignment` |
| `ledger` | 2 users; 9 handlers, 4 sets of three at a time; 2 days | 96 296 | three invariants, two action properties |
| `wallet` | 1 user; 16 calls, 8 sets of three to five at a time | 103 244 | three invariants |
| `delivery` | both currencies; 2 upload sessions, 17 calls, 10 sets of five to seven at a time | 381 625 | three invariants |
| `search` | 2 creators; 13 calls, 5 sets of five at a time | 114 714 | three invariants |
| `people` | 4 contacts, 2 accounts; 22 casts of three to eight jobs | 388 093 | ten invariants |
| `viol_upload`, `viol_split`, `viol_expire`, `viol_deposit` | as above | - | one refuted statement each (section 6) |

What the properties say:

- `CreatorIffAssigned`: status and creator agree through acceptance, windows,
  lapses and reshoots.
- `BooksAddUp` (`EscrowMatchesMoney` and `NoOverpayment`): in INR mode the money
  booked is what the escrow row says, and is never more than was taken, through
  any number of overrides, resolutions and reopenings.  Both are stated for the cases
  `adminResolve`'s delta arithmetic was written for (`DeltaApplies`): the
  dispute did not start from a `SPLIT` escrow (`viol_split` is what happens then)
  and the request has a creator to move money to or from.
- `FinishedHoldsNothing`, `CompletedPaysItsCreator`: statuses and settlements go
  together, also when an Admin has settled by hand first.
- `DisputeGuardsMoney`: after a dispute is raised, only a resolution moves money.
- `SearchEnds`, `ReviewSettles`: the sweeps between them leave no request
  searching for ever and no payout waiting on a silent requester.
- `WarnedFirst`: a review decided by the clock was announced to its requester, but
  for a server that was away or a warning already spent before the reshoot.
- `ListsMatchWork`: a request that is not at its end, or that holds money, is on the
  list of somebody whose endpoint would take it on, or a sweep will; creators are
  offered exactly what they can take; what the Admin's figures leave out is named.
- `ClosedNeverShort`, `EachFaultPaysAtMostOnce`: the order of the writes ("refund
  before flipping status") protects the users wherever a handler is cut; what a
  cut can cost the platform is one duplicate settlement each.
- `UndoHitsOwnAssignment`, `HolderHasPaid`, `OfferIsNotLocked`, `KeepsPromise`:
  acceptance is sound although most of the writes are unconditional and the timer
  sweep deletes locks it does not own.
- `NeverNegative`, `BalanceIsBooked`, `ReportIsExact`, `TipIsBacked`, `OneGrantADay`
  (`Ledger`): no interleaving overspends a bucket; what a user holds differs from his
  entries by exactly the updates whose entry is due, was cut or refused; the
  reconciliation finds these and nothing else.  A creator's tip was debited first, the same amount
  where all tips of the request offer one amount; a grant moves its date on, but for a call held
  over midnight between the clock and the row.
- `BalanceIsBooked`, `OverdraftIsRaced`, `RetryIsNoOp` (`Wallet`): every rupee is
  explained by a row or by a confirmation that lost a race, and no deposit is settled but on
  Razorpay's word for its own order; a wallet is overdrawn only by debits that landed on less
  than they had checked and by what resolutions take back unchecked; a call that begins
  after its row was settled moves nothing, and one key makes one payout while its answer is kept.
- `SettlesOnce`, `ReviewShowsApproved`, `NobodyStuck` (`Delivery`): one settlement unless
  decisions ran together or a Credit one was cut between the ledger and the escrow row; what is under review was uploaded and approved and can be
  seen; when nothing runs, somebody can go on; the last two unless a call wrote over
  another's rows, was cut between two writes, or went on with a video that a newer one
  had replaced.
- `WinnerPaysOnce`, `BestWins`, `ThreadsCloseOnAccept` (`Search`): an assignment kept costs one
  Connect fee, one lost nothing, and a balance is short of nothing else but what was spent elsewhere or
  mislaid; nobody is passed over for a lesser creator but by a debit that threw; no thread stays open.
- `ClosedHasNoSession`, `ReplayEndsFamily`, `OneSessionACode` (`Accounts`),
  `RevealTogether` (the rating's row; the stars are no secret), `BadgeAgrees` (`Reputation`),
  `ThresholdsFlag` (`People`: reports that were not dismissed, and blocked messages), `BadgeToldOnce` (`Trust`), `SettingsAgree`, `ConsentCoversText`
  (`Settings`), `NoticesReach` (`Correspondence`: the last device registered is the one reached;
  who is told of an export can download it).

Many of these are exact: they say not only that a bad state is rare but name the
race or the cut without which it cannot come about (`late`, `raced`, `torn`, `twins`,
`escaped`, `stray`, ...).  A slip in the code makes it come about without one.

**Why the bounds suffice.**  In `RequestLifecycle` nothing is counted: the only numbers
are amounts, and both amounts and the splits are chosen so that each rounding is
inexact, so every branch of the arithmetic differs from its neighbours.  Two
creators let a lapse be followed by somebody else.  Two cuts allow a duplicated
settlement to be duplicated again or combined with a cut dispute.  Three attempts
are a winner, a second creator and a double tap; together with two sweeps and a
cancellation they give every pair of actors a third one to interfere.  `faults_credit`
has one amount, as Credit mode has, different from the reward, so that paying the
wrong one shows.

In the other modules a state is that of one user, one request or one row, and what
may go wrong is calls that meet at it.  Their constant `Together` (in `Accounts`
and the modules over it, `Casts`) bounds which calls meet in one behaviour: each set
holds the calls that write one row, with a retry or a double of the one in
question and a third that interferes, and each is explored in every order with a cut
at every await.  Balances are small enough that two debits together exceed them; the
report, chat and abandonment thresholds are low enough to be crossed and passed; the upload
limit is one less than the uploads; the two creators' ratings differ in count and in
average so that the Bayesian score and the plain one disagree.  `people` puts its modules side by side in
one instance; casts mix their jobs where they share a row.  The theorems of section 5 remove the bounds, and
`Together` with them, for every safety property.

The runs of the modules with calls (all but `RequestLifecycle` and `LifecycleFaults`) set
`CHECK_DEADLOCK FALSE`: once every call has ended, nothing is left to happen.

**Fairness.**  `ReminderFairness` assumes weak fairness of the five sweeps that change a
request, of the two that warn a requester, and of time.  (`FairSpec` of `RequestLifecycle`
states the same for that module alone.)  The sweeps are intervals started in `server.ts:54-93` for the
life of the process; each selects *all* due rows on every tick, so an action that
stays enabled is executed.  Time passing is fair because deadlines are absolute
timestamps.  Nobody else is assumed to act: no creator, requester, moderator or Admin.
`SearchEnds` needs nothing more although creators may take the request and let it
lapse for ever, because after `expiresAt` no new acceptance is possible and the
lapsed one is republished into the expiry sweep's reach.  No other module assumes fairness:
a call may always be cut.

Every property has a mutant in `PROJECT.json`: a plausible slip in one of the
modelled operations (the operators marked *Slip* in the modules), under which the
property fails in its own run.

## 5. What is proved

TLAPS checks eight modules to the last leaf: seven with theorems about the models and
`SumLemmas`.  They hold for all values of the constants, that is, for any number of
users, creators, calls, ratings, amounts and cuts.  All 38 safety properties and
refinements that the passing runs check are theorems.

**Assumptions.**  Each is a named `ASSUME` of a model, evaluated by TLC in its run, and
says what the schema or the validation guarantees: `None`, `Nobody` and `NoDate` are no
values, there are two currencies, amounts are positive integers, rates and splits are
percentages, thresholds and balances naturals, opening balances not negative, stars lie
between 1 and 5, and what a call names exists (`CastsAssumption`,
`SettingJobsAssumption`, `JobAssumption`, `ProgramAssumption`, `SearchCallsAssumption`,
`DeliveryJobsAssumption`).  Calls
are finitely many where something counts them (`Ledger`, `Wallet`, `Delivery`, `Search`).
Only `TipsPaid` has a hypothesis of its own: every call is one of the ledger's callers
(`IsHandler`), since an arbitrary sequence of operations could write a `Tip` row
without the debit.  `HandlersInOrder` shows that the services' sequences keep that order.

**`RequestLifecycleProofs`.**  `TypeCorrect`, `AssignedHasCreator`, `FinishedIsSettled`,
`CompletedIsPaid`, `BooksMatch`, `NothingOverpaid` and their conjunction `BooksBalance`,
`SettlingCloses`, `DisputeGuards` and `NothingIsOverlooked`, all from `Invariance`.  None of the properties is
inductive alone; the invariant `Inv` is `TypeOK` with three parts:

- `StatusInv`: while a dispute exists the escrow is not `RESERVED`
  (`DisputeLocksEscrow`), without which the statuses after a dispute could be settled again; the
  three status properties; and three statuses of the table are never left behind
  (`NeverWritten`), since no call takes a request on from there.
- `AmountsInv`: without a dispute nothing was adjusted, and each state of the escrow says
  what was given back (`UndisputedAmounts`); stored amounts
  stay within the locked one (`WithinLocked`), which is where
  the rounding lemmas enter; the dispute's snapshot is what the escrow row says
  has been paid and refunded (`SnapshotCurrent`), which is what makes the delta
  arithmetic right through any number of reopenings; and `EscrowMatchesMoney`.
- `CommissionStored`: the commission on the row is that of the locked amount, but for a
  partial refund and a dispute that began with one, since a resolution leaves it as it was.

`PercentOfBounds` shows that a percentage of an amount rounds into `0..amount`,
`EarningsBounds` and `TargetBounds` that no split gives away more than the whole.
Money moves in only seven ways; `MoneySteps` names them, and `AmountsStep` is proved once for
each instead of once per action.

`NothingIsOverlooked` (`ListsMatchWork`) needs no invariant of its own: `UnfinishedIsListed`
names, status by status, the list and the call or sweep that takes the request on,
`SummaryIsBooks` reads the Admin's figures off the books (the earned commission, by `CommissionStored`, as the
difference), and `GapsAreKnown` shows that
what the screens leave out is no more than the property says.

`Reminders` only tells: `RemindersOnlyTell` shows that its specification implies
`RequestLifecycle`'s, so every theorem above holds of the specification `lifecycle_inr` runs.
`DecisionsAreAnnounced` (`WarnedFirst`) rests on two facts: a stamp that is set belongs to the review at hand
or to one that ended, for good or by the one reshoot (`WarningSpent`), and the 48th hour
finds a review that was warned of (`DecisionAnnounced`).

For `LifecycleFaults`, `ClosedPaysInFull` and `FaultsPayOnce` follow from
`FaultInvariance`, for every number of cuts.  `CreditBounds` is the strengthening: as long
as the escrow is still `RESERVED`, one more settlement can follow, so what the cuts have
paid out of it must leave room for that one.  `MoneyFlow` says that a reserved escrow
gives back at least what the requester is owed, and `ClosedPaid` that a completed
request's escrow is out of everybody's reach but a resolution's.

**`AcceptRaceProofs`.**  `RaceInvariance`, `UndoIsSafe`, `OneWinner`, `PromiseKept` (the refinement of
`Assignment`), `LockInvariance`, `HoldersPaid`, `OffersAreOpen`.  `RaceInv` says that at most one attempt is past
the deciding update (`OneDecides`), that the row is its own (`UndoIsOwn`), that the timer sweep's selection implies no
handler is undoing (`SelectionIsFresh`), and that status and owner agree.  `LockInv` adds
that a holder has paid or is about to (`PaidOrPaying`) and that a key on an
offered request belongs to somebody who will release it (`KeyIsDoomed`).

**`SumLemmas`.**  Both ledgers add up amounts over sets of calls with the community
modules' fold.  The lemmas show that the fold is defined on every finite set and how a sum
changes when one summand does.  Since a theorem cannot be given an operator to
induct over, the induction is a minimal counterexample: of the subsets for
which the claim fails, `MinimalSet` takes a smallest, and removing one element from it
contradicts its choice.

**`LedgerProofs`.**  `NoNegativeBucket`, `BooksExact`, `TipsPaid`, `OneGrant` and `ReportExact` from
`LedgerInvariance`, for any sequences of operations in any number of calls.  Beside
the properties the invariant says what each position of a call means: where it may be in
which operation (`PhaseOK`), that a debit goes on only with buckets that cover it
(`ReadOK`), that a grant goes by a day that has come and has read another date (`DateOK`), that
an operation with a key that is behind has its entry (`EarlierBooked`), and that an entry of a tip has an
amount that a tip of the request has offered (`DebitsOffered`).

**`WalletProofs`.**  `DepositsBooked`, `OverdraftBounded` and `RetriesSafe` from
`WalletInvariance`.  `SawOK`: a call about to debit has read a balance that covers the debit;
`BehindOK`: a call about a settled row never gets beyond its first look at it; `KeyOK`: under one
key, unless there was an outage, a cut, two calls at once or an answer forgotten after its 24 hours, there is
one call at a time, its answer will be stored, and after a payout the key is answered from the cache.
The proof of `OverdraftBounded` needs the overdraft counted on the account that is
debited, which for the approval of a payout is not the caller's (`Debtor` in `Wallet`).

**`PeopleProofs`.**  All ten properties of `Accounts`, `Reputation`, `Trust`, `Settings` and
`Correspondence` beside each other, each from an invariant of its own rows and calls:
`SettingsAgreement`, `ConsentCovers`, `NoticesArrive`, `BadgesToldOnce`, `BadgeInSync`, `RevealedTogether`,
`ReplayedFamilyEnds`, `ClosedMeansOut`, `OneCodeOneSession`, `ThresholdsAreFlagged`.  That the others do not disturb it is said once
(`Frame`, `Exact`): a step moves calls of its own kind only, never changes a job or revives
a call that is done, and what it drops is in `torn`; `CallsInvariance` and one frame lemma
for each module give this, and each invariant has one lemma (`SettingsElsewhere`,
`RevealElsewhere`, ...) for all steps that are not its own.  What the invariants add to the
properties is who has read what: a value that nobody has overtaken is the row's (`HolderOK`), a device
on its way to a push is the last one registered or its user is `stray` (`HeldOK`), an evaluation
that runs alone carries what the row says (`StoredOK`), a hidden rating is about to be
paired (`HiddenOK`), whoever was sent stars has been rated (`NotifiedOK`), a threshold crossed
by reports not dismissed or by blocked messages has a call on its way to the flag or the alert
(`FlagDue`, `AlarmDue`), a call that will hold a token without asking again is known to be late
(`Armed`), once a login has deleted a code no row has it again, and a sign-up past its code has the
account (`CodeInv`), so two users of one code are two logins that both read it first.

**`DeliveryProofs`.**  `EscrowSettlesOnce` from `MoneyInvariance`.  `release` and `refund` read the
escrow and write it steps later, so the invariant counts who could still be
between the two: a decision that did not run together with another runs alone (`OthersAlone`) and
what it read holds (`ReadHolds`); whoever has paid and was not cut has written the row, or, in Credits, is
about to (`RowFollows`); and once a decision that ran alone has paid, nobody else is about to (`NobodyElse`).

`ReviewIsApproved` and `NobodyIsStuck` follow from `DeliveryInvariance`.  Neither is inductive:
the status of the request is written after its video, and only which call is between the
two says what the one may be while the other is something else.  As long as nothing was disturbed
(`Undisturbed`), `RowsOK` says that at most one row is being uploaded or
waits for a moderator, and that it is the newest; `CallsOK`, `PayOK` and `CallFlows` say for each place a call can
be in which row it leaves and what the status is there; `Flow` says that a request
in `UPLOAD` or `MODERATOR_REVIEW` has such a row or such a call, and one in review an approved one, or a
moderator who is about to write that.  A moderator who has written the request first, and
whose video is then withdrawn, is the case in which `Flow` breaks although nothing has been
overwritten yet (`Doomed`): he will write over another's rows whatever comes, and
`Undisturbed` ends with that write or with his cut.  The search for the invariant showed two overwrites
that `late` had not counted, the two named in section 3; TLC found both, on larger casts than the run's,
as violations of `NobodyStuck` and of `ReviewShowsApproved`.

**`SearchProofs`.**  `WindowWonByTheBest`, `WinnerPaysForEach` and `AcceptClosesThreads`.

- The ranking: the Bayesian scores are compared as fractions, which `OutscoresOrder` shows to be
  an order; with the three tie breaks every set of responses has a first
  (`RankedIsFirst`, again by a minimal counterexample).  `AverageDecides` and
  `OneRatingIsOutscored` say what not being outscored means for the ratings themselves; the first needs an
  average of at least 3.5, the prior's, as `BestWins` states.
- `WindowInv`: whom a sweep has debited is outscored by nobody left on its list
  (`PickedUnbeaten`), and stays so although responses arrive and others spend Connects; the
  winner is chosen once, marked by the sweep that chose him, and nobody else is `SPENT`.
- `AccountInv`: what a creator has paid is the cost of its assignments, plus what sweeps
  have debited and neither assigned nor refunded, less what accepts have taken and not
  paid (`PaidIsDue`), and its balance is what it opened with less what it paid, spent
  elsewhere and lost to failing debits (`Conserved`).  A step changes one call, so both counts move by one at most (`OneCallCounts`).
- `ThreadInv`: an open thread means that the search is still on, or that an accept is on its way
  to close it.

**Only model-checked.**  `SearchEnds` and `ReviewSettles`: liveness under fairness
is beyond the prover, because weak fairness is a statement about `ENABLED`.  There is no `RECURSIVE` operator in any module, so
nothing has to be left out of the proofs for it.

## 6. Disagreements found

Each is a run that TLC ends with a counterexample.

- **`viol_upload`.**  With moderation switched off, `completeUpload` asserts
  `UPLOAD -> REQUESTER_REVIEW`, which the transition table lacks: the call fails after the
  status has become `UPLOAD`.  The comment at `recordingService.ts:232-233` says that the
  video "skips straight to Requester Review".
- **`viol_split`.**  A partial refund settles an escrow as `SPLIT`; a dispute raised
  afterwards records that nothing was paid or refunded, and a resolution pays out
  the target on top.  `disputeService.ts:521-526` and `src/prisma/schema.prisma:650-652`
  assume that `SPLIT` comes from a resolution only.
- **`viol_expire`.**  The expiry sweep refunds before the conditional update that
  makes it "race-safe" (`requestRepository.ts:58`): a creator who accepts in between
  holds a request whose escrow is `REFUNDED`.
- **`viol_deposit`.**  Two confirmations of a deposit that both read `PENDING` each
  increment the balance, although re-delivered events "are safe no-ops"
  (`walletService.ts:154-156`) and retries "cannot double-credit a wallet"
  (`controllers/walletController.ts:59-61`).

Met while modelling, and visible in the modules, but without a run of their own:

- *Concurrent decisions.*  A manual accept and the auto-accept of one review, or an
  accept and a cancel, both settle the escrow (`escrowService.ts:132`; `SettlesOnce` counts
  them).  Two first daily grants pass the guard of a null date (`ledgerService.ts:260`).
  Two phone logins with one code both open a session; a refresh or a login in progress
  survives a revocation or a block.  Racing questions exceed the cap of three, and racing
  blocked messages raise two alerts.  Two ratings written at once both stay hidden for the week.
- *Money without a race.*  A tip that was cut after its debit and is tried again with another amount
  credits the one and has debited the other: the replay does not compare amounts
  (`tipService.ts:69-76`, `ledgerService.ts:34-37`).  A payment captured on an order after `payment.failed` has
  settled its row is never credited: `reconcilePayment` skips it (`walletService.ts:166-171`) and
  `verifyDeposit` finds no `PENDING` row.  `adminResolve` takes back what a creator may have
  withdrawn, below zero (`disputeService.ts:572-604`).  A key repeated after its 24 hours
  (`middlewares/idempotency.ts:7`) makes a second payout when the first has been decided.  In Credit mode a
  decision cut between the ledger and the escrow row (`escrowService.ts:146-150`, `:215-219`) leaves the
  escrow `RESERVED`, and the next pays again.  A debit of Connects that fails at its entry, after the
  decrement, costs the creator a Connect for nothing (`matchingWindowService.ts:165-168`,
  `requestService.ts:483-496`).  A daily grant held over midnight between the clock and the row
  (`ledgerService.ts:228-234`) grants for the day before and moves the date back.
- *Disclosures and flags.*  `ratingService.ts:72-78` sends the ratee the stars of a rating that stays hidden, and
  the summaries count it.  A question thread that has set `chatFlaggedForReview`
  (`queryService.ts:79-80`) keeps the later chat from raising its alert.  No decision on reports counts again: one
  that resolves what another Admin has dismissed may cross the threshold unseen.
- *Rows left behind.*  Responses to a window that fall after its sweep has read them,
  or before a fallback, stay `RESERVED`.  Threads stay closed after the timer republishes.  A
  cut between the video's `UPLOADED` and the request's `UPLOAD`, or inside `deleteDraft`,
  leaves a request nobody's call takes on.  So does a second deletion of one draft that ends
  after the next upload: it writes `RECORDING` over it (`late`).  Videos of a completed request that were never approved are never
  purged.
- *Older videos.*  A `FAILED` upload does not stand in the way of a new session
  (`recordingService.ts:99-107`), and `completeUpload` still takes it (`:134-145`): uploaded
  and approved beside a newer session, it brings the request to a review in which
  `getVideo` shows the newer, unfinished row.  `deleteDraft` (`:348-366`) takes an older,
  rejected video while a newer one awaits the moderator: the request goes back to
  `RECORDING`, where the newer row blocks a session and no moderator can decide on it.
  `aside` remembers the calls that began so.
- *Comments that do not hold.*  A second review after a reshoot gets no 42-hour warning
  (`requesterReviewAutoAcceptJob.ts` header).  `adminService.ts:21-23` calls its list every
  non-terminal status, but leaves out `PENDING_MODERATION` and `MATCHING_WINDOW`.
  `settingsService.ts:190-193` says that the promotional preset is undone by applying `BETA`, which
  contains neither of its keys.  `retentionJob.ts:163-167`: the sweep also lifts the block of
  an account whose earlier suspension has passed.
- *Figures.*  `adminSummary` leaves out split and frozen escrows, and sums commissions that a
  resolution after a partial refund has not rewritten (`disputeService.ts:619-634`); reopened cases are in
  none of the Admin's figures; no chat message is written any more, so the response rate is always zero; a
  creator's mark for letting a request lapse stays on it for his successor.
- *Escrows and people.*  After an Admin has released an escrow and the timer republished the
  request, the paid creator is no participant of it any more.
- *Correspondence.*  An export whose notification fails after the file was stored is marked
  `FAILED`, perhaps after the user was told.  A device registered while a push to the old one fails is
  cleared with it.

## 7. What is not modelled

`PROJECT.json` gives the status of each component.  Left out are:

- geometry and lookups (locations, places, GPS checks, restricted areas): floating point and
  external services; their verdict is a free choice in `create` and `accept`;
- passwords and their reset, Admin accounts and their login: credentials
  are taken to be right, since a wrong one changes nothing;
- profile fields, home figures, analytics, searches of the Admin panel, audit logs;
- templates, broadcasts, mail and SMS; the storage providers' insides;
- routing, validation and presentation, but for the idempotency middleware;
- account deletion: nothing in the services schedules it;
- the lock's change of backend while a key is held; floating-point rounding.

Cuts and interleavings come together in every module but two: `AcceptRace` has no
cuts, `LifecycleFaults` no interleavings.  Delivery and Search meet only in the
status: a request is in one of them at a time, but for the cancellation, which both have.

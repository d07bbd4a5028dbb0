------------------------- MODULE RequestLifecycle --------------------------
(***************************************************************************)
(* One Request from creation to its last status, with its escrow, its      *)
(* dispute and the money that moved because of it.  Every endpoint and     *)
(* every sweep that writes a status, a creator or an amount of one of      *)
(* these rows is an action.  A handler runs here without interleaving and  *)
(* without failing half way: AcceptRace takes the first assumption away,   *)
(* LifecycleFaults the second.                                             *)
(*                                                                         *)
(* Amounts are integers in hundredths of the currency unit, the precision  *)
(* every amount is rounded to (utils/money.ts).                            *)
(*                                                                         *)
(* What a handler checks before it writes has a name where a list shows    *)
(* the request to the one who may act (Oversight): CanAccept, CanReview;   *)
(* and TimerDue, WindowDue, ExpiryDue for what a sweep looks for.          *)
(***************************************************************************)
EXTENDS Integers, RequestStates

CONSTANTS
    Creators,      \* users who may accept the request (never its requester)
    None,          \* a null creatorId
    Currency,      \* "CREDIT" (beta) or "INR" (ENABLE_REAL_MONEY)
    Amounts,       \* reward amounts a request may be posted with
    Reward,        \* CREATOR_REWARD_CREDITS: what CREDIT mode pays a creator
    Rate,          \* COMMISSION_RATE_PERCENT
    HighValue,     \* REQUEST_HIGH_VALUE_THRESHOLD
    Percents,      \* split percentages an Admin may resolve a dispute with
    PartialRefunds \* amounts an Admin may refund in part

ASSUME NoneAssumption == None \notin Creators
ASSUME CurrencyAssumption == Currency \in {"CREDIT", "INR"}
ASSUME AmountsAssumption == Amounts \subseteq Nat \ {0}
ASSUME RewardAssumption == Reward \in Nat
ASSUME RateAssumption == Rate \in 0..100
ASSUME HighValueAssumption == HighValue \in Nat
ASSUME PercentsAssumption == Percents \subseteq 1..99
ASSUME PartialRefundsAssumption == PartialRefunds \subseteq Nat

VARIABLES
    status,        \* Request.status; "NONE" before the row exists
    kind,          \* Request.type
    mode,          \* Request.acceptanceMode
    reward,        \* Request.rewardAmount
    creator,       \* Request.creatorId
    reshootUsed,   \* Request.reshootUsed
    clock,         \* which of the row's deadlines have passed
    moderationOn,  \* the MODERATION_TOGGLE setting
    escrow,        \* the RequestEscrow row; state "NONE" before it exists
    net,           \* what escrowService moved (Transaction / LedgerEntry rows)
    adjust,        \* what disputeService.adminResolve moved
    dispute        \* the Dispute row; status "NONE" before it exists

request == <<status, kind, mode, reward, creator, reshootUsed>>
money == <<escrow, net>>
vars == <<request, clock, moderationOn, money, adjust, dispute>>

\* clock.expiry: "early" before scheduledAt, "due" from then on, "expired"
\* after expiresAt.  clock.timer: acceptanceTimerExpiresAt has passed.
\* clock.window: matchingWindowClosesAt has passed.  clock.review: hours since
\* moderatorDecisionAt, 0 for less than 48 and 1 for more.
Clocks == [expiry : {"early", "due", "expired"}, timer : BOOLEAN,
           window : BOOLEAN, review : 0..1]

EscrowStates == {"NONE", "RESERVED", "RELEASED", "REFUNDED", "FROZEN", "SPLIT"}

DisputeStatuses == {"NONE", "OPEN", "UNDER_REVIEW", "RESOLVED", "CLOSED", "REOPENED"}

Kinds == {"IMMEDIATE", "SCHEDULED"}
Modes == {"FIRST_ACCEPTED", "HIGHEST_RATED"}

\* The type invariant: the shape of every row the service writes, and that no
\* stored escrow amount is ever negative.
TypeOK ==
    /\ status \in Statuses \cup {"NONE"}
    /\ kind \in Kinds
    /\ mode \in Modes
    /\ reward \in Nat
    /\ creator \in Creators \cup {None}
    /\ reshootUsed \in BOOLEAN
    /\ clock \in Clocks
    /\ moderationOn \in BOOLEAN
    /\ escrow \in [state : EscrowStates, locked : Nat, earnings : Nat, commission : Nat,
                   refunded : Nat]
    /\ net \in [requester : Int, creators : Int, payee : Creators \cup {None}]
    /\ adjust \in [requester : Int, creator : Int]
    /\ dispute \in [status : DisputeStatuses, at : EscrowStates, released : Nat, refunded : Nat]

-----------------------------------------------------------------------------
(* Amounts: utils/money.ts, and the rate each currency snapshots.          *)

\* round2(amount * percent / 100), half a unit rounding up.
PercentOf(amount, percent) == (amount * percent + 50) \div 100

CommissionRate == IF Currency = "CREDIT" THEN 0 ELSE Rate

\* splitCommission(gross): commissionAmount and creatorEarnings.
CommissionOf(gross) == PercentOf(gross, CommissionRate)
EarningsOf(gross) == gross - CommissionOf(gross)

\* highValueReviewRequired, derived from rewardAmount at create and update.
IsHighValue(amount) == Currency = "INR" /\ amount >= HighValue

-----------------------------------------------------------------------------
Init ==
    /\ status = "NONE"
    /\ kind = "IMMEDIATE"
    /\ mode = "FIRST_ACCEPTED"
    /\ reward = 0
    /\ creator = None
    /\ reshootUsed = FALSE
    /\ clock = [expiry |-> "early", timer |-> FALSE, window |-> FALSE, review |-> 0]
    /\ moderationOn \in BOOLEAN
    /\ escrow = [state |-> "NONE", locked |-> 0, earnings |-> 0, commission |-> 0, refunded |-> 0]
    /\ net = [requester |-> 0, creators |-> 0, payee |-> None]
    /\ adjust = [requester |-> 0, creator |-> 0]
    /\ dispute = [status |-> "NONE", at |-> "NONE", released |-> 0, refunded |-> 0]

-----------------------------------------------------------------------------
(* escrowService: the effects the handlers below are built from.           *)

\* reserve: debit the requester by the whole amount and open the escrow.
Reserve(amount) ==
    /\ escrow' = [state |-> "RESERVED", locked |-> amount, refunded |-> 0,
                  earnings |-> IF Currency = "CREDIT" THEN Reward ELSE EarningsOf(amount),
                  commission |-> CommissionOf(amount)]
    /\ net' = [net EXCEPT !.requester = @ - amount]

\* release: pay the request's current creator; 409 in any state but RESERVED
\* and for a request with no creator.
CanRelease == escrow.state = "RESERVED" /\ creator # None

Release ==
    /\ CanRelease
    /\ escrow' = [escrow EXCEPT !.state = "RELEASED"]
    /\ net' = [net EXCEPT !.creators = @ + escrow.earnings, !.payee = creator]

\* refund: give the locked amount back; 409 in any state but RESERVED.
CanRefund == escrow.state = "RESERVED"

\* Slip: a second refund is taken for a harmless retry.
RefundAgain ==
    /\ escrow.state \in {"RESERVED", "REFUNDED"}
    /\ escrow' = [escrow EXCEPT !.state = "REFUNDED", !.refunded = escrow.locked]
    /\ net' = [net EXCEPT !.requester = @ + escrow.locked]

Refund ==
    /\ CanRefund
    /\ escrow' = [escrow EXCEPT !.state = "REFUNDED", !.refunded = escrow.locked]
    /\ net' = [net EXCEPT !.requester = @ + escrow.locked]

\* Slip: the dispute is opened and the escrow left as it is.
FreezeOmitted == UNCHANGED money

\* freeze: a no-op once the escrow has left RESERVED.
Freeze ==
    /\ escrow' = IF escrow.state = "RESERVED" THEN [escrow EXCEPT !.state = "FROZEN"]
                 ELSE escrow
    /\ UNCHANGED net

\* What a handler that writes only the Request row, its status included, leaves alone.
OnlyStatus == UNCHANGED <<kind, mode, reward, creator, reshootUsed>>
OnlyRequest == UNCHANGED <<moderationOn, money, adjust, dispute>>
NoDispute == UNCHANGED <<moderationOn, adjust, dispute>>

-----------------------------------------------------------------------------
(* requestService and the publish path: what the requester does.           *)

\* publishFromDraft: the searching status a request is published into.
PublishedStatus(m) == IF m = "HIGHEST_RATED" THEN "MATCHING_WINDOW" ELSE "PUBLISHED"

\* create: the row, its escrow, then moderation or publication unless the
\* request is SCHEDULED or of high value, which leaves it in DRAFT.
Create(k, m, amount) ==
    /\ status = "NONE"
    /\ kind' = k
    /\ mode' = m
    /\ reward' = amount
    /\ Reserve(amount)
    /\ clock' = [clock EXCEPT !.expiry = IF k = "SCHEDULED" THEN "early" ELSE "due"]
    /\ status' = IF k = "SCHEDULED" \/ IsHighValue(amount) THEN "DRAFT"
                 ELSE IF moderationOn THEN "PENDING_MODERATION"
                 ELSE PublishedStatus(m)
    /\ UNCHANGED <<creator, reshootUsed, moderationOn, adjust, dispute>>

\* update: only a DRAFT, only rewardAmount matters here, and the escrow
\* keeps the amount it was reserved with.
Update(amount) ==
    /\ status = "DRAFT"
    /\ Currency = "INR"
    /\ reward' = amount
    /\ UNCHANGED <<status, kind, mode, creator, reshootUsed, clock>> /\ OnlyRequest

\* Slip: a cancelled request keeps its escrow.
CancelUnrefunded ==
    /\ CanTransition(status, "CANCELLED")
    /\ status' = "CANCELLED"
    /\ OnlyStatus /\ NoDispute /\ UNCHANGED <<clock, money>>

\* cancel: refund first, and only a successful refund changes the status.
CanCancel == CanTransition(status, "CANCELLED") /\ CanRefund

Cancel ==
    /\ CanCancel
    /\ Refund
    /\ status' = "CANCELLED"
    /\ OnlyStatus /\ NoDispute /\ UNCHANGED clock

-----------------------------------------------------------------------------
(* Matching: a creator accepts, or wins a Highest Rated window.            *)

\* The row written when creator c gets the request.
AssignTo(c) ==
    /\ status' = "CREATOR_ASSIGNED"
    /\ creator' = c
    /\ clock' = [clock EXCEPT !.timer = FALSE, !.window = FALSE]
    /\ UNCHANGED <<kind, mode, reward, reshootUsed>>

CanAccept == status = "PUBLISHED" /\ clock.expiry # "expired"

Accept(c) ==
    /\ CanAccept
    /\ AssignTo(c)
    /\ OnlyRequest

WindowDue == status = "MATCHING_WINDOW" /\ clock.window

\* closeWindow with a respondent who can pay: expiresAt is not looked at.
CloseWindowWinner(c) ==
    /\ WindowDue
    /\ AssignTo(c)
    /\ OnlyRequest

\* fallbackToFirstAccepted: nobody responded, or nobody could pay.
CloseWindowFallback ==
    /\ WindowDue
    /\ status' = "PUBLISHED"
    /\ mode' = "FIRST_ACCEPTED"
    /\ clock' = [clock EXCEPT !.window = FALSE]
    /\ UNCHANGED <<kind, reward, creator, reshootUsed>> /\ OnlyRequest

TimerDue ==
    /\ status \in {"CREATOR_ASSIGNED", "TEMPORARY_CHAT"}
    /\ clock.timer
    /\ CanTransition(status, "PUBLISHED")

\* Slip: the request is offered again under its old creator.
TimerSweepKeepingCreator ==
    /\ TimerDue
    /\ status' = "PUBLISHED"
    /\ clock' = [clock EXCEPT !.timer = FALSE]
    /\ OnlyStatus /\ OnlyRequest

\* acceptanceTimerJob: the creator never started recording.
TimerSweep ==
    /\ TimerDue
    /\ status' = "PUBLISHED"
    /\ creator' = None
    /\ clock' = [clock EXCEPT !.timer = FALSE]
    /\ UNCHANGED <<kind, mode, reward, reshootUsed>> /\ OnlyRequest

-----------------------------------------------------------------------------
(* requestLifecycleJob.                                                    *)

\* publishDueScheduled: straight to PUBLISHED, whatever the moderation toggle
\* and the acceptance mode say.
PublishDueScheduled ==
    /\ status = "DRAFT"
    /\ kind = "SCHEDULED"
    /\ clock.expiry = "due"
    /\ ~IsHighValue(reward)
    /\ status' = "PUBLISHED"
    /\ OnlyStatus /\ OnlyRequest /\ UNCHANGED clock

ExpiryDue ==
    /\ status \in {"DRAFT", "PUBLISHED"}
    /\ clock.expiry = "expired"
    /\ CanTransition(status, "EXPIRED")

\* Slip: the sweep looks for drafts only.
ExpireSweepDraftsOnly ==
    /\ status = "DRAFT"
    /\ clock.expiry = "expired"
    /\ Refund \/ (~CanRefund /\ UNCHANGED money)
    /\ status' = "EXPIRED"
    /\ OnlyStatus /\ NoDispute /\ UNCHANGED clock

\* expireDueRequests: a refund that fails is logged and the row expires anyway.
ExpireSweep ==
    /\ ExpiryDue
    /\ Refund \/ (~CanRefund /\ UNCHANGED money)
    /\ status' = "EXPIRED"
    /\ OnlyStatus /\ NoDispute /\ UNCHANGED clock

-----------------------------------------------------------------------------
(* recordingService: the assigned creator.  A request in UPLOAD or         *)
(* MODERATOR_REVIEW has an uploaded video nobody has moderated yet.        *)

CanRecord ==
    status \in {"CREATOR_ASSIGNED", "TEMPORARY_CHAT"} /\ CanTransition(status, "RECORDING")

StartRecording ==
    /\ CanRecord
    /\ status' = "RECORDING"
    /\ OnlyStatus /\ OnlyRequest /\ UNCHANGED clock

\* completeUpload: UPLOAD is written, then the toggle picks the next status;
\* if the table has no such edge the handler throws and UPLOAD stays.
AfterUpload == IF moderationOn THEN "MODERATOR_REVIEW" ELSE "REQUESTER_REVIEW"

CanUpload == status = "RECORDING"

CompleteUpload ==
    /\ CanUpload
    /\ status' = IF CanTransition("UPLOAD", AfterUpload) THEN AfterUpload ELSE "UPLOAD"
    /\ clock' = IF status' = "REQUESTER_REVIEW" THEN [clock EXCEPT !.review = 0] ELSE clock
    /\ OnlyStatus /\ OnlyRequest

CanDeleteDraft ==
    status \in {"UPLOAD", "MODERATOR_REVIEW"} /\ CanTransition(status, "RECORDING")

DeleteDraft ==
    /\ CanDeleteDraft
    /\ status' = "RECORDING"
    /\ OnlyStatus /\ OnlyRequest /\ UNCHANGED clock

-----------------------------------------------------------------------------
(* moderationService: both queues.                                         *)

CanModerateVideo == status = "MODERATOR_REVIEW"
CanModerateRequest == status = "PENDING_MODERATION"

\* approve and reject stamp moderatorDecisionAt.
ApproveVideo ==
    /\ CanModerateVideo
    /\ status' = "REQUESTER_REVIEW"
    /\ clock' = [clock EXCEPT !.review = 0]
    /\ OnlyStatus /\ OnlyRequest

RejectVideo ==
    /\ CanModerateVideo
    /\ status' = "RECORDING"
    /\ clock' = [clock EXCEPT !.review = 0]
    /\ OnlyStatus /\ OnlyRequest

\* approveRequest, through publishFromDraft.
ApproveRequest ==
    /\ CanModerateRequest
    /\ status' = PublishedStatus(mode)
    /\ OnlyStatus /\ OnlyRequest /\ UNCHANGED clock

\* rejectRequest: the status first, then the refund, which throws when the
\* escrow has been settled by hand: the status stays.
RejectRequest ==
    /\ CanModerateRequest
    /\ status' = "REJECTED"
    /\ Refund \/ (~CanRefund /\ UNCHANGED money)
    /\ clock' = [clock EXCEPT !.review = 0]
    /\ OnlyStatus /\ NoDispute

ToggleModeration ==
    /\ moderationOn' = ~moderationOn
    /\ UNCHANGED <<request, clock, money, adjust, dispute>>

-----------------------------------------------------------------------------
(* requesterReviewService and its auto-accept sweep.                       *)

CanReview == status = "REQUESTER_REVIEW"

\* Slip: the request completes although its escrow could not be released.
AcceptVideoRegardless ==
    /\ CanReview
    /\ Release \/ (~CanRelease /\ UNCHANGED money)
    /\ status' = "COMPLETED"
    /\ OnlyStatus /\ NoDispute /\ UNCHANGED clock

\* acceptVideo: ACCEPTED is written before release is tried; when release
\* throws, the request stays ACCEPTED.
AcceptVideo ==
    /\ CanReview
    /\ \/ Release /\ status' = "COMPLETED"
       \/ ~CanRelease /\ status' = "ACCEPTED" /\ UNCHANGED money
    /\ OnlyStatus /\ NoDispute /\ UNCHANGED clock

\* Slip: what was done for the first upload is not done for the reshoot.
AutoAcceptFirstUpload ==
    /\ clock.review = 1
    /\ ~reshootUsed
    /\ AcceptVideo

\* runAutoAcceptSweep: the same call, 48 hours after the moderator's decision.
AutoAccept ==
    /\ clock.review = 1
    /\ AcceptVideo

RequestReshoot ==
    /\ CanReview
    /\ ~reshootUsed
    /\ status' = "RECORDING"
    /\ reshootUsed' = TRUE
    /\ UNCHANGED <<kind, mode, reward, creator, clock>> /\ OnlyRequest

\* reject: refund first; a refund that throws leaves the request in review.
Reject ==
    /\ CanReview
    /\ Refund
    /\ status' = "REJECTED"
    /\ OnlyStatus /\ NoDispute /\ UNCHANGED clock

-----------------------------------------------------------------------------
(* escrowService's manual overrides: any request status, RESERVED escrow.  *)

AdminRelease ==
    /\ Release
    /\ UNCHANGED <<request, clock>> /\ NoDispute

AdminRefund ==
    /\ Refund
    /\ UNCHANGED <<request, clock>> /\ NoDispute

\* adminPartialRefund: part to the requester, the rest less commission to
\* the creator.
AdminPartialRefund(amount) ==
    /\ CanRelease
    /\ amount > 0 /\ amount < escrow.locked
    /\ LET earned == EarningsOf(escrow.locked - amount)
       IN  /\ escrow' = [escrow EXCEPT !.state = "SPLIT", !.refunded = amount,
                                       !.earnings = earned,
                                       !.commission = CommissionOf(escrow.locked - amount)]
           /\ net' = [net EXCEPT !.requester = @ + amount,
                                 !.creators = @ + earned, !.payee = creator]
    /\ UNCHANGED <<request, clock>> /\ NoDispute

-----------------------------------------------------------------------------
(* disputeService.                                                         *)

CanDispute ==
    /\ status \in DisputeSources
    /\ dispute.status = "NONE"
    /\ escrow.state # "NONE"
    /\ CanTransition(status, "DISPUTED")

\* create and adminEscalate: snapshot the escrow, freeze it, mark the request.
OpenDispute ==
    /\ CanDispute
    /\ dispute' = [status |-> "OPEN", at |-> escrow.state,
                   released |-> IF escrow.state = "RELEASED" THEN escrow.earnings ELSE 0,
                   refunded |-> IF escrow.state = "REFUNDED" THEN escrow.locked ELSE 0]
    /\ Freeze
    /\ status' = "DISPUTED"
    /\ OnlyStatus /\ UNCHANGED <<clock, moderationOn, adjust>>

\* POST /disputes by either participant.
RaiseDispute == OpenDispute

\* A moderator escalates the video in front of them (moderationService.escalate).
EscalateVideo == status = "MODERATOR_REVIEW" /\ OpenDispute

SetDisputeStatus(s) ==
    /\ dispute' = [dispute EXCEPT !.status = s]
    /\ UNCHANGED <<request, clock, moderationOn, money, adjust>>

AdminAssign ==
    /\ dispute.status = "OPEN"
    /\ SetDisputeStatus("UNDER_REVIEW")

\* What each resolution leaves the two parties with.
Resolutions == {"REQUESTER_FAVOUR", "CREATOR_FAVOUR", "PARTIAL"}

SettledState(resolution) ==
    CASE resolution = "REQUESTER_FAVOUR" -> "REFUNDED"
      [] resolution = "CREATOR_FAVOUR" -> "RELEASED"
      [] resolution = "PARTIAL" -> "SPLIT"

RequesterTarget(resolution, pct) ==
    CASE resolution = "REQUESTER_FAVOUR" -> escrow.locked
      [] resolution = "CREATOR_FAVOUR" -> 0
      [] resolution = "PARTIAL" -> PercentOf(escrow.locked, pct)

\* Slips: the two amounts swapped; the requester's share not taken off.
CreatorTargetSwapped(resolution, pct) ==
    IF resolution = "REQUESTER_FAVOUR" THEN 0
    ELSE EarningsOf(RequesterTarget(resolution, pct) - escrow.locked)

CreatorTargetOfWhole(resolution, pct) ==
    IF resolution = "REQUESTER_FAVOUR" THEN 0 ELSE EarningsOf(escrow.locked)

CreatorTarget(resolution, pct) ==
    IF resolution = "REQUESTER_FAVOUR" THEN 0
    ELSE EarningsOf(escrow.locked - RequesterTarget(resolution, pct))

CanResolve == dispute.status \in {"OPEN", "UNDER_REVIEW", "REOPENED"}
CanReopen == dispute.status \in {"RESOLVED", "CLOSED"}

\* Slip: a resolution does not bring the snapshot up to date.
AdminResolveKeepingSnapshot(resolution, pct) ==
    /\ CanResolve
    /\ LET toRequester == RequesterTarget(resolution, pct)
           toCreator == CreatorTarget(resolution, pct)
       IN  /\ adjust' = [requester |-> adjust.requester + (toRequester - dispute.refunded),
                         creator |-> IF creator = None THEN adjust.creator
                                     ELSE adjust.creator + (toCreator - dispute.released)]
           /\ escrow' = [escrow EXCEPT !.state = SettledState(resolution),
                                       !.earnings = toCreator, !.refunded = toRequester]
    /\ dispute' = [dispute EXCEPT !.status = "RESOLVED"]
    /\ UNCHANGED <<request, clock, moderationOn, net>>

\* adminResolve: one transaction; each party gets the difference between the
\* target and what the snapshot says it already had.  commissionAmount stays.
AdminResolve(resolution, pct) ==
    /\ CanResolve
    /\ LET toRequester == RequesterTarget(resolution, pct)
           toCreator == CreatorTarget(resolution, pct)
       IN  /\ adjust' = [requester |-> adjust.requester + (toRequester - dispute.refunded),
                         creator |-> IF creator = None THEN adjust.creator
                                     ELSE adjust.creator + (toCreator - dispute.released)]
           /\ escrow' = [escrow EXCEPT !.state = SettledState(resolution),
                                       !.earnings = toCreator, !.refunded = toRequester]
           /\ dispute' = [dispute EXCEPT !.status = "RESOLVED",
                                         !.released = toCreator, !.refunded = toRequester]
    /\ UNCHANGED <<request, clock, moderationOn, net>>

\* adminClose does not ask whether the case was ever resolved.
AdminClose ==
    /\ dispute.status \notin {"NONE", "CLOSED"}
    /\ SetDisputeStatus("CLOSED")

AdminReopen ==
    /\ CanReopen
    /\ SetDisputeStatus("REOPENED")

-----------------------------------------------------------------------------
(* Time.  A deadline passes only where some handler still reads it.        *)

Searching == {"DRAFT", "PUBLISHED", "MATCHING_WINDOW", "CREATOR_ASSIGNED"}

OnlyClock == UNCHANGED <<request, moderationOn, money, adjust, dispute>>

ReachSchedule ==
    /\ status \in Searching \cup {"PENDING_MODERATION"}
    /\ clock.expiry = "early"
    /\ clock' = [clock EXCEPT !.expiry = "due"]
    /\ OnlyClock

ReachExpiry ==
    /\ status \in Searching \cup {"PENDING_MODERATION"}
    /\ clock.expiry = "due"
    /\ clock' = [clock EXCEPT !.expiry = "expired"]
    /\ OnlyClock

TimerLapses ==
    /\ status = "CREATOR_ASSIGNED"
    /\ ~clock.timer
    /\ clock' = [clock EXCEPT !.timer = TRUE]
    /\ OnlyClock

WindowLapses ==
    /\ status = "MATCHING_WINDOW"
    /\ ~clock.window
    /\ clock' = [clock EXCEPT !.window = TRUE]
    /\ OnlyClock

ReviewAges ==
    /\ status = "REQUESTER_REVIEW"
    /\ clock.review = 0
    /\ clock' = [clock EXCEPT !.review = 1]
    /\ OnlyClock

Time == ReachSchedule \/ ReachExpiry \/ TimerLapses \/ WindowLapses \/ ReviewAges

CloseWindow == CloseWindowFallback \/ \E c \in Creators : CloseWindowWinner(c)

Requester ==
    \/ \E k \in Kinds, m \in Modes, a \in Amounts : Create(k, m, a)
    \/ \E a \in Amounts : Update(a)
    \/ Cancel \/ AcceptVideo \/ RequestReshoot \/ Reject

Creator ==
    \/ \E c \in Creators : Accept(c)
    \/ StartRecording \/ CompleteUpload \/ DeleteDraft

Sweeps == TimerSweep \/ CloseWindow \/ PublishDueScheduled \/ ExpireSweep \/ AutoAccept

Staff ==
    \/ ApproveVideo \/ RejectVideo \/ EscalateVideo \/ ApproveRequest \/ RejectRequest
    \/ ToggleModeration \/ AdminRelease \/ AdminRefund
    \/ \E a \in PartialRefunds : AdminPartialRefund(a)
    \/ AdminAssign \/ AdminClose \/ AdminReopen
    \/ \E r \in Resolutions, p \in Percents : AdminResolve(r, p)

Next == Requester \/ Creator \/ RaiseDispute \/ Sweeps \/ Staff \/ Time

Spec == Init /\ [][Next]_vars

\* The sweeps are in-process intervals that run for as long as the server
\* does (server.ts) and time passes; nobody else is ever obliged to act.
Fairness ==
    /\ WF_vars(TimerSweep)
    /\ WF_vars(CloseWindow)
    /\ WF_vars(PublishDueScheduled)
    /\ WF_vars(ExpireSweep)
    /\ WF_vars(AutoAccept)
    /\ WF_vars(ReachSchedule)
    /\ WF_vars(ReachExpiry)
    /\ WF_vars(TimerLapses)
    /\ WF_vars(WindowLapses)
    /\ WF_vars(ReviewAges)

FairSpec == Spec /\ Fairness

-----------------------------------------------------------------------------
(* What the rows and the money must always say.                            *)

InHands == {"CREATOR_ASSIGNED", "TEMPORARY_CHAT", "RECORDING", "UPLOAD",
            "MODERATOR_REVIEW", "REQUESTER_REVIEW", "ACCEPTED", "COMPLETED"}

Unassigned == {"NONE", "DRAFT", "PENDING_MODERATION", "PUBLISHED", "MATCHING_WINDOW"}

\* A request somebody works on, or was paid for, names its creator, and one
\* that is offered to creators names nobody: what accept, the window and the
\* timer sweep must keep true between them (requestService.accept,
\* matchingWindowService.closeWindow, acceptanceTimerJob.runSweep).
CreatorIffAssigned ==
    /\ status \in InHands => creator \in Creators
    /\ status \in Unassigned => creator = None

\* What the escrow row claims the creator was paid.
Paid == IF escrow.state \in {"RELEASED", "SPLIT"} THEN escrow.earnings ELSE 0

RequesterTotal == net.requester + adjust.requester
CreatorTotal == net.creators + adjust.creator

\* The cases disputeService's delta arithmetic is written for: the escrow was
\* not already SPLIT when the dispute was raised, and there is a creator to
\* move money to or from.
DeltaApplies ==
    dispute.status = "NONE" \/ (dispute.at # "SPLIT" /\ creator # None)

\* In real-money mode the transactions booked against the requester and the
\* creator add up to what the escrow row says, through every override,
\* dispute, resolution and reopening (escrowService, disputeService.adminResolve).
EscrowMatchesMoney ==
    (Currency = "INR" /\ DeltaApplies) =>
        /\ RequesterTotal = escrow.refunded - escrow.locked
        /\ CreatorTotal = Paid

\* In real-money mode the platform never pays out more for a request than it
\* took from its requester: the commission split and the rounding of a partial
\* resolution cannot create money (utils/money.ts, disputeService.adminResolve).
NoOverpayment ==
    (Currency = "INR" /\ DeltaApplies) => RequesterTotal + CreatorTotal <= 0

\* The books add up, on the escrow row and in what the platform keeps:
\* EscrowMatchesMoney and NoOverpayment.
BooksAddUp == EscrowMatchesMoney /\ NoOverpayment

\* A request that ended well or badly holds nobody's money: completion,
\* rejection, cancellation and expiry all settle the escrow first or with the
\* status (requesterReviewService, requestService.cancel, requestLifecycleJob,
\* moderationService.rejectRequest).
FinishedHoldsNothing ==
    status \in {"COMPLETED", "REJECTED", "EXPIRED", "CANCELLED"} =>
        escrow.state \in {"RELEASED", "REFUNDED", "SPLIT"}

\* A completed request was paid in full, to the creator who is on the row and
\* not to one who let it lapse earlier (requesterReviewService.acceptVideo).
CompletedPaysItsCreator ==
    status = "COMPLETED" => escrow.state = "RELEASED" /\ net.payee = creator

\* Money leaves a reserved escrow only in the step that also closes the
\* request, except by an Admin's manual override: no sweep or endpoint settles
\* a request that goes on (escrowService.release and refund callers).
SettlesOnlyWhenClosing ==
    [][ escrow.state = "RESERVED" /\ escrow'.state \notin {"RESERVED", "FROZEN"}
          => \/ status' \in {"COMPLETED", "REJECTED", "EXPIRED", "CANCELLED"}
             \/ UNCHANGED request ]_vars

\* Once a dispute is open no one is paid or refunded except by its resolution,
\* and a resolved or closed case moves money again only after a reopening
\* (escrowService.freeze, disputeService.adminResolve).
DisputeGuardsMoney ==
    [][ dispute.status # "NONE" /\ <<net, adjust>>' # <<net, adjust>>
          => /\ dispute.status \in {"OPEN", "UNDER_REVIEW", "REOPENED"}
             /\ dispute'.status = "RESOLVED"
             /\ net' = net ]_vars

-----------------------------------------------------------------------------
(* What must happen although nobody acts.                                  *)

\* A request waiting for a creator does not wait for ever: it is recorded,
\* cancelled or expires, however often creators take it and let it lapse
\* (acceptanceTimerJob, matchingWindowJob, requestLifecycleJob).
SearchEnds == (status \in Searching) ~> (status \notin Searching)

\* A video in front of a silent requester is paid for after 48 hours unless
\* somebody decides otherwise (requesterReviewAutoAcceptJob).
ReviewSettles ==
    (status = "REQUESTER_REVIEW") ~>
        \/ escrow.state \in {"RELEASED", "REFUNDED", "SPLIT"}
        \/ status \in {"RECORDING", "DISPUTED"}
-----------------------------------------------------------------------------
(* Two statements of the repository that the code does not keep.           *)

\* "ON routes through the moderator queue as before; OFF skips straight to
\* Requester Review" (recordingService.completeUpload): either way an uploaded
\* video does not stay in UPLOAD.
UploadReachesReview == status # "UPLOAD"

\* "Delta-based against the dispute's creation-time snapshot so this correctly
\* handles all three cases" (disputeService.adminResolve): after any resolution
\* of a request that has a creator, no more has been paid out than was taken.
EveryResolutionBalances ==
    (Currency = "INR" /\ dispute.status = "RESOLVED" /\ creator # None) =>
        RequesterTotal + CreatorTotal <= 0
=============================================================================

----------------------- MODULE RequestLifecycleProofs -----------------------
(***************************************************************************)
(* What RequestLifecycle guarantees for every set of creators, every       *)
(* amount, commission rate, threshold and split percentage, and what is    *)
(* left of it in LifecycleFaults, where any number of handlers are cut     *)
(* between two of their writes.                                            *)
(***************************************************************************)
EXTENDS LifecycleFaults, Reminders, TLAPS

\* The checks of the handlers are read as what they are in every proof.
USE DEF CanCancel, CanAccept, WindowDue, TimerDue, ExpiryDue, CanRecord, CanUpload,
        CanDeleteDraft, CanModerateVideo, CanModerateRequest, CanReview, CanDispute,
        CanResolve, CanReopen

-----------------------------------------------------------------------------
(* The amounts.                                                            *)

\* Multiplying by a percentage stays below multiplying by a hundred.
LEMMA PercentProduct ==
    ASSUME NEW amount \in Nat, NEW percent \in 0..100
    PROVE  amount * percent \in Nat /\ amount * percent <= amount * 100
<1>1. amount * percent \in Nat
    OBVIOUS
<1>2. amount * 100 = amount * percent + amount * (100 - percent)
    OBVIOUS
<1>3. amount * (100 - percent) \in Nat
    OBVIOUS
<1>4. QED
    BY <1>1, <1>2, <1>3

\* A rounded percentage of an amount lies between nothing and the amount.
LEMMA PercentOfBounds ==
    ASSUME NEW amount \in Nat, NEW percent \in 0..100
    PROVE  PercentOf(amount, percent) \in 0..amount
<1> DEFINE product == amount * percent
<1>1. product \in Nat /\ product <= amount * 100
    BY PercentProduct
<1>2. (product + 50) \div 100 \in 0..amount
  <2> HIDE DEF product
  <2> QED
    BY <1>1
<1>3. QED
    BY <1>2 DEF PercentOf

\* Commission is never negative and never more than the whole: the creator's
\* share of any gross amount lies between nothing and the gross (splitCommission).
LEMMA EarningsBounds ==
    ASSUME NEW gross \in Nat
    PROVE  EarningsOf(gross) \in 0..gross
<1>1. CommissionRate \in 0..100
    BY RateAssumption DEF CommissionRate
<1>2. PercentOf(gross, CommissionRate) \in 0..gross
    BY <1>1, PercentOfBounds
<1>3. QED
    BY <1>2 DEF EarningsOf, CommissionOf

LEMMA CommissionBounds ==
    ASSUME NEW gross \in Nat
    PROVE  CommissionOf(gross) \in 0..gross /\ EarningsOf(gross) = gross - CommissionOf(gross)
<1>1. CommissionRate \in 0..100
    BY RateAssumption DEF CommissionRate
<1>2. QED
    BY <1>1, PercentOfBounds DEF EarningsOf, CommissionOf

\* Whatever an Admin decides, the two parties' shares are naturals that
\* together do not exceed the locked amount (disputeService.adminResolve).
LEMMA TargetBounds ==
    ASSUME escrow.locked \in Nat,
           NEW r \in Resolutions, NEW p \in Percents
    PROVE  /\ RequesterTarget(r, p) \in 0..escrow.locked
           /\ CreatorTarget(r, p) \in 0..(escrow.locked - RequesterTarget(r, p))
<1>1. p \in 0..100
    BY PercentsAssumption
<1>2. PercentOf(escrow.locked, p) \in 0..escrow.locked
    BY <1>1, PercentOfBounds
<1>3. RequesterTarget(r, p) \in 0..escrow.locked
    BY <1>2 DEF RequesterTarget, Resolutions
<1>4. escrow.locked - RequesterTarget(r, p) \in Nat
    BY <1>3
<1>5. EarningsOf(escrow.locked - RequesterTarget(r, p))
          \in 0..(escrow.locked - RequesterTarget(r, p))
    BY <1>4, EarningsBounds
<1>6. CreatorTarget(r, p) \in 0..(escrow.locked - RequesterTarget(r, p))
    BY <1>4, <1>5 DEF CreatorTarget
<1>7. QED
    BY <1>3, <1>6

-----------------------------------------------------------------------------
(* The status table.                                                       *)

\* Nothing leaves DISPUTED, and a row that does not exist has no transition.
LEMMA FinalStatuses ==
    ASSUME NEW from, NEW to, CanTransition(from, to)
    PROVE  from \notin {"NONE", "DISPUTED"}
    BY DEF CanTransition, TRANSITIONS, Statuses

\* The statuses a request can be cancelled from.
LEMMA CancelSources ==
    ASSUME NEW from, CanTransition(from, "CANCELLED")
    PROVE  from \in {"DRAFT", "PUBLISHED", "CREATOR_ASSIGNED", "TEMPORARY_CHAT", "RECORDING"}
    BY DEF CanTransition, TRANSITIONS, Statuses

-----------------------------------------------------------------------------
(* Type correctness.                                                       *)

RowType ==
    /\ status \in Statuses \cup {"NONE"}
    /\ kind \in Kinds
    /\ mode \in Modes
    /\ reward \in Nat
    /\ creator \in Creators \cup {None}
    /\ reshootUsed \in BOOLEAN

EscrowRows == [state : EscrowStates, locked : Nat, earnings : Nat, commission : Nat, refunded : Nat]

MoneyType ==
    /\ escrow \in EscrowRows
    /\ net \in [requester : Int, creators : Int, payee : Creators \cup {None}]

DisputeType ==
    /\ adjust \in [requester : Int, creator : Int]
    /\ dispute \in [status : DisputeStatuses, at : EscrowStates, released : Nat, refunded : Nat]

OtherType == clock \in Clocks /\ moderationOn \in BOOLEAN

LEMMA TypeParts == TypeOK <=> RowType /\ MoneyType /\ DisputeType /\ OtherType
    BY DEF TypeOK, RowType, MoneyType, DisputeType, OtherType, EscrowRows

\* escrowService's four effects keep the escrow row and the totals well formed.
LEMMA ReserveType ==
    ASSUME MoneyType, NEW amount \in Nat, Reserve(amount)
    PROVE  MoneyType'
<1>1. EarningsOf(amount) \in Nat /\ CommissionOf(amount) \in Nat
    BY EarningsBounds, CommissionBounds
<1>2. QED
    BY <1>1, RewardAssumption DEF MoneyType, Reserve, EscrowStates, EscrowRows

LEMMA ReleaseType ==
    ASSUME MoneyType, RowType, Release
    PROVE  MoneyType'
<1>1. /\ net.requester \in Int
      /\ net.creators + escrow.earnings \in Int
    BY DEF MoneyType, EscrowRows
<1>2. net' = [requester |-> net.requester, creators |-> net.creators + escrow.earnings,
              payee |-> creator]
    BY DEF MoneyType, Release
<1>3. net' \in [requester : Int, creators : Int, payee : Creators \cup {None}]
    BY <1>1, <1>2 DEF RowType
<1>4. escrow' \in EscrowRows
    BY DEF MoneyType, Release, EscrowStates, EscrowRows
<1>5. QED
    BY <1>3, <1>4 DEF MoneyType

LEMMA RefundType ==
    ASSUME MoneyType, Refund
    PROVE  MoneyType'
<1>1. escrow.locked \in Nat /\ net.requester + escrow.locked \in Int
    BY DEF MoneyType, EscrowRows
<1>2. net' \in [requester : Int, creators : Int, payee : Creators \cup {None}]
    BY <1>1 DEF Refund, MoneyType
<1>3. escrow' \in EscrowRows
    BY <1>1 DEF MoneyType, Refund, EscrowStates, EscrowRows
<1>4. QED
    BY <1>2, <1>3 DEF MoneyType

LEMMA FreezeType ==
    ASSUME MoneyType, Freeze
    PROVE  MoneyType'
    BY DEF MoneyType, Freeze, EscrowStates, EscrowRows

LEMMA PartialRefundType ==
    ASSUME MoneyType, RowType, NEW a \in Nat, AdminPartialRefund(a)
    PROVE  MoneyType'
<1>1. escrow.locked \in Nat /\ a < escrow.locked
    BY DEF MoneyType, EscrowRows, AdminPartialRefund
<1> DEFINE earned == EarningsOf(escrow.locked - a)
           kept == CommissionOf(escrow.locked - a)
<1>2. earned \in Nat /\ kept \in Nat
    BY <1>1, EarningsBounds, CommissionBounds
<1>3. /\ escrow' = [escrow EXCEPT !.state = "SPLIT", !.refunded = a, !.earnings = earned,
                                  !.commission = kept]
      /\ net' = [net EXCEPT !.requester = @ + a, !.creators = @ + earned, !.payee = creator]
    BY DEF AdminPartialRefund
<1> HIDE DEF earned, kept
<1>4. net.requester + a \in Int /\ net.creators + earned \in Int
    BY <1>2 DEF MoneyType
<1>5. net' = [requester |-> net.requester + a, creators |-> net.creators + earned,
              payee |-> creator]
    BY <1>3 DEF MoneyType
<1>6. net' \in [requester : Int, creators : Int, payee : Creators \cup {None}]
    BY <1>4, <1>5 DEF RowType
<1>7. escrow' \in EscrowRows
    BY <1>2, <1>3 DEF MoneyType, EscrowStates, EscrowRows
<1>8. QED
    BY <1>6, <1>7 DEF MoneyType

LEMMA ResolveType ==
    ASSUME MoneyType, DisputeType,
           NEW r \in Resolutions, NEW p \in Percents, AdminResolve(r, p)
    PROVE  MoneyType' /\ DisputeType'
<1> DEFINE toRequester == RequesterTarget(r, p)
           toCreator == CreatorTarget(r, p)
<1>1. escrow.locked \in Nat
    BY DEF MoneyType, EscrowRows
<1>2. toRequester \in Nat /\ toCreator \in Nat
    BY <1>1, TargetBounds
<1>3. SettledState(r) \in EscrowStates
    BY DEF SettledState, Resolutions, EscrowStates
<1>4. /\ adjust' = [requester |-> adjust.requester + (toRequester - dispute.refunded),
                    creator |-> IF creator = None THEN adjust.creator
                                ELSE adjust.creator + (toCreator - dispute.released)]
      /\ escrow' = [escrow EXCEPT !.state = SettledState(r),
                                  !.earnings = toCreator, !.refunded = toRequester]
      /\ dispute' = [dispute EXCEPT !.status = "RESOLVED",
                                    !.released = toCreator, !.refunded = toRequester]
      /\ net' = net
    BY DEF AdminResolve
<1> HIDE DEF toRequester, toCreator
<1>5. MoneyType'
    BY <1>2, <1>3, <1>4 DEF MoneyType, EscrowRows
<1>6. /\ adjust.requester + (toRequester - dispute.refunded) \in Int
      /\ adjust.creator + (toCreator - dispute.released) \in Int
      /\ adjust.creator \in Int
    BY <1>2 DEF DisputeType
<1>7. adjust' \in [requester : Int, creator : Int]
    BY <1>4, <1>6
<1>8. dispute' \in [status : DisputeStatuses, at : EscrowStates,
                    released : Nat, refunded : Nat]
    BY <1>2, <1>4 DEF DisputeType, DisputeStatuses
<1>9. QED
    BY <1>5, <1>7, <1>8 DEF DisputeType

\* The initial state has the types.
LEMMA InitType == Init => TypeOK
<1> SUFFICES ASSUME Init PROVE TypeOK
    OBVIOUS
<1>1. RowType
    BY DEF Init, RowType, Kinds, Modes
<1>2. MoneyType
    BY DEF Init, MoneyType, EscrowRows, EscrowStates
<1>3. DisputeType
    BY DEF Init, DisputeType, EscrowStates, DisputeStatuses
<1>4. OtherType
    BY DEF Init, OtherType, Clocks
<1>5. QED
    BY <1>1, <1>2, <1>3, <1>4, TypeParts

\* Every step keeps the types.
LEMMA TypeStep ==
    ASSUME TypeOK, Next
    PROVE  TypeOK'
<1> USE TypeParts
<1>0. RowType /\ MoneyType /\ DisputeType /\ OtherType
    OBVIOUS
<1> USE <1>0 DEF OnlyStatus, OnlyRequest, NoDispute, OnlyClock, request, money
<1>1. CASE Requester
  <2>1. ASSUME NEW k \in Kinds, NEW m \in Modes, NEW a \in Amounts, Create(k, m, a)
        PROVE  TypeOK'
    <3>1. a \in Nat
        BY AmountsAssumption
    <3>2. MoneyType'
        BY <2>1, <3>1, ReserveType DEF Create
    <3>3. RowType' /\ OtherType'
        BY <2>1, <3>1 DEF Create, RowType, OtherType, Clocks, PublishedStatus, Statuses
    <3>4. DisputeType'
        BY <2>1 DEF Create, DisputeType
    <3>5. QED
        BY <3>2, <3>3, <3>4 DEF TypeOK, RowType, MoneyType, EscrowRows, DisputeType, OtherType
  <2>2. ASSUME NEW a \in Amounts, Update(a)
        PROVE  TypeOK'
        BY <2>2, AmountsAssumption DEF Update, TypeOK
  <2>3. CASE Cancel
    <3>1. MoneyType'
        BY <2>3, RefundType DEF Cancel
    <3>2. QED
        BY <2>3, <3>1 DEF Cancel, TypeOK, MoneyType, EscrowRows, Statuses
  <2>4. CASE AcceptVideo
    <3>1. MoneyType'
        BY <2>4, ReleaseType DEF AcceptVideo, MoneyType
    <3>2. QED
        BY <2>4, <3>1 DEF AcceptVideo, TypeOK, MoneyType, EscrowRows, Statuses
  <2>5. CASE RequestReshoot
        BY <2>5 DEF RequestReshoot, TypeOK, Statuses
  <2>6. CASE Reject
    <3>1. MoneyType'
        BY <2>6, RefundType DEF Reject
    <3>2. QED
        BY <2>6, <3>1 DEF Reject, TypeOK, MoneyType, EscrowRows, Statuses
  <2>7. QED
        BY <1>1, <2>1, <2>2, <2>3, <2>4, <2>5, <2>6 DEF Requester
<1>2. CASE Creator
  <2>1. ASSUME NEW c \in Creators, Accept(c)
        PROVE  TypeOK'
        BY <2>1 DEF Accept, AssignTo, TypeOK, Clocks, Statuses
  <2>2. CASE StartRecording
        BY <2>2 DEF StartRecording, TypeOK, Statuses
  <2>3. CASE CompleteUpload
        BY <2>3 DEF CompleteUpload, AfterUpload, TypeOK, Clocks, Statuses
  <2>4. CASE DeleteDraft
        BY <2>4 DEF DeleteDraft, TypeOK, Statuses
  <2>5. QED
        BY <1>2, <2>1, <2>2, <2>3, <2>4 DEF Creator
<1>3. CASE RaiseDispute
  <2>1. MoneyType'
        BY <1>3, FreezeType DEF RaiseDispute, OpenDispute
  <2>2. DisputeType'
        BY <1>3 DEF RaiseDispute, OpenDispute, DisputeType, DisputeStatuses, MoneyType, EscrowRows
  <2>3. RowType' /\ OtherType'
        BY <1>3 DEF RaiseDispute, OpenDispute, RowType, OtherType, Statuses
  <2>4. QED
        BY <2>1, <2>2, <2>3 DEF TypeOK, RowType, MoneyType, EscrowRows, DisputeType, OtherType
<1>4. CASE Sweeps
  <2>1. CASE TimerSweep
        BY <2>1 DEF TimerSweep, TypeOK, Clocks, Statuses
  <2>2. CASE CloseWindowFallback
        BY <2>2 DEF CloseWindowFallback, TypeOK, Clocks, Statuses, Modes
  <2>3. ASSUME NEW c \in Creators, CloseWindowWinner(c)
        PROVE  TypeOK'
        BY <2>3 DEF CloseWindowWinner, AssignTo, TypeOK, Clocks, Statuses
  <2>4. CASE PublishDueScheduled
        BY <2>4 DEF PublishDueScheduled, TypeOK, Statuses
  <2>5. CASE ExpireSweep
    <3>1. MoneyType'
        BY <2>5, RefundType DEF ExpireSweep, MoneyType
    <3>2. QED
        BY <2>5, <3>1 DEF ExpireSweep, TypeOK, MoneyType, EscrowRows, Statuses
  <2>6. CASE AutoAccept
    <3>1. MoneyType'
        BY <2>6, ReleaseType DEF AutoAccept, AcceptVideo, MoneyType
    <3>2. QED
        BY <2>6, <3>1 DEF AutoAccept, AcceptVideo, TypeOK, MoneyType, EscrowRows, Statuses
  <2>7. QED
        BY <1>4, <2>1, <2>2, <2>3, <2>4, <2>5, <2>6 DEF Sweeps, CloseWindow
<1>5. CASE Staff
  <2>1. CASE ApproveVideo
        BY <2>1 DEF ApproveVideo, TypeOK, Clocks, Statuses
  <2>2. CASE RejectVideo
        BY <2>2 DEF RejectVideo, TypeOK, Clocks, Statuses
  <2>3. CASE EscalateVideo
    <3>1. MoneyType'
        BY <2>3, FreezeType DEF EscalateVideo, OpenDispute
    <3>2. DisputeType'
        BY <2>3 DEF EscalateVideo, OpenDispute, DisputeType, DisputeStatuses, MoneyType, EscrowRows
    <3>3. RowType' /\ OtherType'
        BY <2>3 DEF EscalateVideo, OpenDispute, RowType, OtherType, Statuses
    <3>4. QED
        BY <3>1, <3>2, <3>3 DEF TypeOK, RowType, MoneyType, EscrowRows, DisputeType, OtherType
  <2>4. CASE ApproveRequest
        BY <2>4 DEF ApproveRequest, PublishedStatus, TypeOK, Statuses
  <2>5. CASE RejectRequest
    <3>1. MoneyType'
        BY <2>5, RefundType DEF RejectRequest, MoneyType
    <3>2. QED
        BY <2>5, <3>1 DEF RejectRequest, TypeOK, MoneyType, EscrowRows, Clocks, Statuses
  <2>6. CASE ToggleModeration
        BY <2>6 DEF ToggleModeration, TypeOK
  <2>7. CASE AdminRelease
    <3>1. MoneyType'
        BY <2>7, ReleaseType DEF AdminRelease
    <3>2. QED
        BY <2>7, <3>1 DEF AdminRelease, TypeOK, MoneyType, EscrowRows
  <2>8. CASE AdminRefund
    <3>1. MoneyType'
        BY <2>8, RefundType DEF AdminRefund
    <3>2. QED
        BY <2>8, <3>1 DEF AdminRefund, TypeOK, MoneyType, EscrowRows
  <2>9. ASSUME NEW a \in PartialRefunds, AdminPartialRefund(a)
        PROVE  TypeOK'
    <3>1. MoneyType'
        BY <2>9, PartialRefundType, PartialRefundsAssumption
    <3>2. QED
        BY <2>9, <3>1 DEF AdminPartialRefund, TypeOK, MoneyType, EscrowRows
  <2>10. CASE AdminAssign \/ AdminClose \/ AdminReopen
        BY <2>10 DEF AdminAssign, AdminClose, AdminReopen, SetDisputeStatus,
                     TypeOK, DisputeStatuses
  <2>11. ASSUME NEW r \in Resolutions, NEW p \in Percents, AdminResolve(r, p)
         PROVE  TypeOK'
    <3>1. MoneyType' /\ DisputeType'
        BY <2>11, ResolveType
    <3>2. QED
        BY <2>11, <3>1 DEF AdminResolve, TypeOK, MoneyType, EscrowRows, DisputeType
  <2>12. QED
        BY <1>5, <2>1, <2>2, <2>3, <2>4, <2>5, <2>6, <2>7, <2>8, <2>9, <2>10, <2>11
        DEF Staff
<1>6. CASE Time
  <2>1. CASE ReachSchedule
        BY <2>1 DEF ReachSchedule, TypeOK, Clocks
  <2>2. CASE ReachExpiry
        BY <2>2 DEF ReachExpiry, TypeOK, Clocks
  <2>3. CASE TimerLapses
        BY <2>3 DEF TimerLapses, TypeOK, Clocks
  <2>4. CASE WindowLapses
        BY <2>4 DEF WindowLapses, TypeOK, Clocks
  <2>5. CASE ReviewAges
        BY <2>5 DEF ReviewAges, TypeOK, Clocks
  <2>6. QED
        BY <1>6, <2>1, <2>2, <2>3, <2>4, <2>5 DEF Time
<1>7. QED
    BY <1>1, <1>2, <1>3, <1>4, <1>5, <1>6 DEF Next

\* Every row the service writes has the shape TypeOK says, and no stored escrow
\* amount is ever negative, for all amounts and rates.
THEOREM TypeCorrect == Spec => []TypeOK
<1>1. Init => TypeOK
    BY InitType
<1>2. TypeOK /\ [Next]_vars => TypeOK'
  <2>1. TypeOK /\ UNCHANGED vars => TypeOK'
      BY DEF TypeOK, vars, request, money
  <2>2. QED
      BY <2>1, TypeStep
<1>3. QED
    BY <1>1, <1>2, PTL DEF Spec

-----------------------------------------------------------------------------
(* The inductive invariant.  Two of its parts are needed although no run   *)
(* states them: a disputed request is recognised by its status, its        *)
(* dispute and its escrow alike, which is what keeps every other handler   *)
(* away from its money; and the snapshot of a dispute still says what the  *)
(* escrow row says, which is what makes paying differences right.          *)

DisputeLocksEscrow ==
    /\ status = "NONE" <=> escrow.state = "NONE"
    /\ dispute.status # "NONE" <=> status = "DISPUTED"
    /\ dispute.status # "NONE" => escrow.state \notin {"NONE", "RESERVED"}
    /\ dispute.status \in {"NONE", "RESOLVED"} => escrow.state # "FROZEN"

\* Statuses of the table that no handler leaves behind.
NeverWritten == {"RESHOOT_REQUESTED", "PAYMENT_RELEASED", "TIPPING"}

StatusInv ==
    /\ DisputeLocksEscrow
    /\ CreatorIffAssigned
    /\ FinishedHoldsNothing
    /\ CompletedPaysItsCreator
    /\ status \notin NeverWritten

\* The amounts before any dispute, and what each state of the escrow says was
\* given back.
UndisputedAmounts ==
    /\ dispute.status = "NONE" => adjust.requester = 0 /\ adjust.creator = 0
    /\ escrow.state \in {"NONE", "RESERVED", "RELEASED"} => escrow.refunded = 0
    /\ escrow.state = "REFUNDED" => escrow.refunded = escrow.locked
    /\ escrow.state = "NONE" =>
           escrow.locked = 0 /\ net.requester = 0 /\ net.creators = 0
    /\ escrow.state = "FROZEN" => escrow.refunded = 0

WithinLocked ==
    Currency = "INR" =>
        /\ escrow.refunded + Paid <= escrow.locked
        /\ escrow.state = "RESERVED" => escrow.earnings <= escrow.locked

SnapshotCurrent ==
    dispute.status # "NONE" /\ dispute.at # "SPLIT" =>
        dispute.released = Paid /\ dispute.refunded = escrow.refunded

\* The commission on the row is that of the whole locked amount, unless a
\* partial refund has rewritten it; the earnings of a reserved or released
\* escrow are what it leaves.
CommissionStored ==
    Currency = "INR" =>
        /\ escrow.state \in {"RESERVED", "RELEASED"} => escrow.earnings = EarningsOf(escrow.locked)
        /\ \/ escrow.state = "NONE"
           \/ dispute.status = "NONE" /\ escrow.state = "SPLIT"
           \/ dispute.status # "NONE" /\ dispute.at = "SPLIT"
           \/ escrow.commission = CommissionOf(escrow.locked)

AmountsInv ==
    /\ UndisputedAmounts
    /\ WithinLocked
    /\ SnapshotCurrent
    /\ EscrowMatchesMoney

Inv == TypeOK /\ StatusInv /\ AmountsInv /\ CommissionStored

-----------------------------------------------------------------------------
(* What each effect does to the fields the invariant reads.                *)

LEMMA Fields ==
    ASSUME TypeOK
    PROVE  /\ escrow.state \in EscrowStates
           /\ escrow.locked \in Nat /\ escrow.earnings \in Nat /\ escrow.refunded \in Nat
           /\ net.requester \in Int /\ net.creators \in Int
           /\ adjust.requester \in Int /\ adjust.creator \in Int
           /\ dispute.released \in Nat /\ dispute.refunded \in Nat
    BY DEF TypeOK

LEMMA ReserveEffect ==
    ASSUME TypeOK, NEW a \in Amounts, Reserve(a)
    PROVE  /\ a \in Nat
           /\ escrow'.state = "RESERVED" /\ escrow'.locked = a /\ escrow'.refunded = 0
           /\ Currency = "INR" => escrow'.earnings <= a
           /\ net'.requester = net.requester - a /\ net'.creators = net.creators
           /\ net'.payee = net.payee
<1>1. a \in Nat
    BY AmountsAssumption
<1>2. EarningsOf(a) \in 0..a
    BY <1>1, EarningsBounds
<1>3. /\ escrow'.state = "RESERVED" /\ escrow'.locked = a /\ escrow'.refunded = 0
      /\ Currency = "INR" => escrow'.earnings = EarningsOf(a)
    BY DEF Reserve
<1>4. /\ net'.requester = net.requester - a /\ net'.creators = net.creators
      /\ net'.payee = net.payee
    BY DEF Reserve, TypeOK
<1>5. QED
    BY <1>1, <1>2, <1>3, <1>4

LEMMA ReleaseEffect ==
    ASSUME TypeOK, Release
    PROVE  /\ escrow.state = "RESERVED" /\ escrow'.state = "RELEASED"
           /\ escrow'.locked = escrow.locked /\ escrow'.refunded = escrow.refunded
           /\ escrow'.earnings = escrow.earnings
           /\ net'.requester = net.requester /\ net'.payee = creator
           /\ net'.creators = net.creators + escrow.earnings
<1>1. /\ escrow.state = "RESERVED" /\ escrow'.state = "RELEASED"
      /\ escrow'.locked = escrow.locked /\ escrow'.refunded = escrow.refunded
      /\ escrow'.earnings = escrow.earnings
    BY DEF TypeOK, Release, CanRelease
<1>2. /\ net'.requester = net.requester /\ net'.payee = creator
      /\ net'.creators = net.creators + escrow.earnings
    BY DEF TypeOK, Release
<1>3. QED
    BY <1>1, <1>2

LEMMA RefundEffect ==
    ASSUME TypeOK, Refund
    PROVE  /\ escrow.state = "RESERVED" /\ escrow'.state = "REFUNDED"
           /\ escrow'.locked = escrow.locked /\ escrow'.refunded = escrow.locked
           /\ net'.requester = net.requester + escrow.locked
           /\ net'.creators = net.creators /\ net'.payee = net.payee
<1>1. /\ escrow.state = "RESERVED" /\ escrow'.state = "REFUNDED"
      /\ escrow'.locked = escrow.locked /\ escrow'.refunded = escrow.locked
    BY DEF TypeOK, Refund, CanRefund
<1>2. /\ net'.requester = net.requester + escrow.locked
      /\ net'.creators = net.creators /\ net'.payee = net.payee
    BY DEF TypeOK, Refund
<1>3. QED
    BY <1>1, <1>2

\* A partial refund splits the locked amount without exceeding it.
LEMMA PartialRefundEffect ==
    ASSUME TypeOK, NEW a \in PartialRefunds, AdminPartialRefund(a)
    PROVE  /\ escrow.state = "RESERVED" /\ escrow'.state = "SPLIT"
           /\ escrow'.locked = escrow.locked /\ escrow'.refunded = a
           /\ a \in Nat /\ escrow'.earnings \in 0..(escrow.locked - a)
           /\ net'.requester = net.requester + a
           /\ net'.creators = net.creators + escrow'.earnings
<1> DEFINE earned == EarningsOf(escrow.locked - a)
<1>1. a \in Nat /\ a < escrow.locked /\ escrow.state = "RESERVED"
    BY PartialRefundsAssumption DEF AdminPartialRefund, CanRelease
<1>2. earned \in 0..(escrow.locked - a)
    BY <1>1, EarningsBounds, Fields
<1>3. /\ escrow' = [escrow EXCEPT !.state = "SPLIT", !.refunded = a, !.earnings = earned,
                                  !.commission = CommissionOf(escrow.locked - a)]
      /\ net' = [net EXCEPT !.requester = @ + a, !.creators = @ + earned, !.payee = creator]
    BY DEF AdminPartialRefund
<1> HIDE DEF earned
<1>4. /\ escrow'.state = "SPLIT" /\ escrow'.refunded = a /\ escrow'.earnings = earned
      /\ escrow'.locked = escrow.locked
    BY <1>3 DEF TypeOK
<1>5. net'.requester = net.requester + a /\ net'.creators = net.creators + earned
    BY <1>3 DEF TypeOK
<1>6. QED
    BY <1>1, <1>2, <1>4, <1>5

LEMMA FreezeEffect ==
    ASSUME TypeOK, Freeze
    PROVE  /\ escrow.state = "RESERVED" => escrow'.state = "FROZEN"
           /\ escrow.state # "RESERVED" => escrow'.state = escrow.state
           /\ escrow'.locked = escrow.locked /\ escrow'.refunded = escrow.refunded
           /\ escrow'.earnings = escrow.earnings
           /\ net' = net
    BY DEF TypeOK, Freeze

LEMMA OpenDisputeEffect ==
    ASSUME OpenDispute
    PROVE  /\ dispute.status = "NONE" /\ dispute'.status = "OPEN"
           /\ dispute'.at = escrow.state
           /\ dispute'.released = IF escrow.state = "RELEASED" THEN escrow.earnings ELSE 0
           /\ dispute'.refunded = IF escrow.state = "REFUNDED" THEN escrow.locked ELSE 0
           /\ escrow.state # "NONE" /\ status' = "DISPUTED" /\ status # "NONE"
           /\ creator' = creator /\ adjust' = adjust /\ Freeze
    BY DEF OpenDispute, OnlyStatus, DisputeSources

LEMMA SetDisputeStatusEffect ==
    ASSUME TypeOK, NEW s, SetDisputeStatus(s)
    PROVE  /\ dispute'.status = s /\ dispute'.at = dispute.at
           /\ dispute'.released = dispute.released /\ dispute'.refunded = dispute.refunded
           /\ UNCHANGED <<status, creator, escrow, net, adjust>>
    BY DEF TypeOK, SetDisputeStatus, request, money

\* A resolution leaves the escrow row saying what it paid out, and the
\* snapshot saying the same.
LEMMA ResolveEffect ==
    ASSUME TypeOK, NEW r \in Resolutions, NEW p \in Percents, AdminResolve(r, p)
    PROVE  /\ dispute.status # "NONE" /\ dispute'.status = "RESOLVED"
           /\ dispute'.at = dispute.at
           /\ escrow'.state \in {"REFUNDED", "RELEASED", "SPLIT"}
           /\ escrow'.locked = escrow.locked
           /\ escrow'.refunded \in 0..escrow.locked
           /\ escrow'.state = "REFUNDED" => escrow'.refunded = escrow.locked
           /\ escrow'.state = "RELEASED" => escrow'.refunded = 0
           /\ Paid' \in 0..(escrow.locked - escrow'.refunded)
           /\ dispute'.refunded = escrow'.refunded /\ dispute'.released = Paid'
           /\ net' = net /\ status' = status /\ creator' = creator
           /\ adjust'.requester = adjust.requester + (escrow'.refunded - dispute.refunded)
           /\ creator # None =>
                 adjust'.creator = adjust.creator + (Paid' - dispute.released)
<1> DEFINE toRequester == RequesterTarget(r, p)
           toCreator == CreatorTarget(r, p)
<1>1. toRequester \in 0..escrow.locked /\ toCreator \in 0..(escrow.locked - toRequester)
    BY TargetBounds, Fields
<1>2. /\ r = "REQUESTER_FAVOUR" => toCreator = 0 /\ toRequester = escrow.locked
      /\ r = "CREATOR_FAVOUR" => toRequester = 0
    BY DEF CreatorTarget, RequesterTarget
<1>3. /\ adjust' = [requester |-> adjust.requester + (toRequester - dispute.refunded),
                    creator |-> IF creator = None THEN adjust.creator
                                ELSE adjust.creator + (toCreator - dispute.released)]
      /\ escrow' = [escrow EXCEPT !.state = SettledState(r),
                                  !.earnings = toCreator, !.refunded = toRequester]
      /\ dispute' = [dispute EXCEPT !.status = "RESOLVED",
                                    !.released = toCreator, !.refunded = toRequester]
      /\ net' = net /\ UNCHANGED request
      /\ dispute.status \in {"OPEN", "UNDER_REVIEW", "REOPENED"}
    BY DEF AdminResolve
<1> HIDE DEF toRequester, toCreator
<1>4. /\ escrow'.state = SettledState(r) /\ escrow'.earnings = toCreator
      /\ escrow'.refunded = toRequester /\ escrow'.locked = escrow.locked
    BY <1>3 DEF TypeOK
<1>5. /\ dispute'.status = "RESOLVED" /\ dispute'.at = dispute.at
      /\ dispute'.released = toCreator /\ dispute'.refunded = toRequester
    BY <1>3 DEF TypeOK
<1>6. /\ SettledState(r) \in {"REFUNDED", "RELEASED", "SPLIT"}
      /\ SettledState(r) = "REFUNDED" => r = "REQUESTER_FAVOUR"
      /\ SettledState(r) = "RELEASED" => r = "CREATOR_FAVOUR"
    BY DEF SettledState, Resolutions
<1>7. Paid' = toCreator
    BY <1>2, <1>4, <1>6 DEF Paid
<1>8. status' = status /\ creator' = creator
    BY <1>3 DEF request
<1>9. QED
    BY <1>1, <1>2, <1>3, <1>4, <1>5, <1>6, <1>7, <1>8

-----------------------------------------------------------------------------
(* Every step of the service has one of seven effects on the money.        *)

EscrowOpens == status = "NONE" /\ dispute' = dispute /\ adjust' = adjust
                   /\ \E a \in Amounts : Reserve(a)

EscrowSettles == (Release \/ Refund) /\ dispute' = dispute /\ adjust' = adjust

EscrowSplits == dispute' = dispute /\ adjust' = adjust
                    /\ \E a \in PartialRefunds : AdminPartialRefund(a)

DisputeMoves == \E s : s # "NONE" /\ dispute.status # "NONE" /\ SetDisputeStatus(s)

DisputeResolves == \E r \in Resolutions, p \in Percents : AdminResolve(r, p)

MoneyRests == UNCHANGED <<escrow, net, adjust, dispute>>
                  /\ (creator' = creator \/ status # "DISPUTED")

LEMMA MoneySteps ==
    ASSUME Next
    PROVE  \/ EscrowOpens \/ EscrowSettles \/ EscrowSplits
           \/ OpenDispute \/ DisputeMoves \/ DisputeResolves \/ MoneyRests
<1> USE DEF OnlyStatus, OnlyRequest, NoDispute, OnlyClock, request, money
<1>1. CASE Requester
  <2>1. ASSUME NEW k \in Kinds, NEW m \in Modes, NEW a \in Amounts, Create(k, m, a)
        PROVE  EscrowOpens
        BY <2>1 DEF Create, EscrowOpens
  <2>2. ASSUME NEW a \in Amounts, Update(a)
        PROVE  MoneyRests
        BY <2>2 DEF Update, MoneyRests
  <2>3. CASE Cancel \/ Reject
        BY <2>3 DEF Cancel, Reject, EscrowSettles
  <2>4. CASE AcceptVideo
        BY <2>4 DEF AcceptVideo, EscrowSettles, MoneyRests
  <2>5. CASE RequestReshoot
        BY <2>5 DEF RequestReshoot, MoneyRests
  <2>6. QED
        BY <1>1, <2>1, <2>2, <2>3, <2>4, <2>5 DEF Requester
<1>2. CASE Creator
  <2>1. ASSUME NEW c \in Creators, Accept(c)
        PROVE  MoneyRests
        BY <2>1 DEF Accept, AssignTo, MoneyRests
  <2>2. CASE StartRecording \/ CompleteUpload \/ DeleteDraft
        BY <2>2 DEF StartRecording, CompleteUpload, DeleteDraft, MoneyRests
  <2>3. QED
        BY <1>2, <2>1, <2>2 DEF Creator
<1>3. CASE RaiseDispute
    BY <1>3 DEF RaiseDispute
<1>4. CASE Sweeps
  <2>1. CASE TimerSweep \/ PublishDueScheduled \/ CloseWindowFallback
        BY <2>1 DEF TimerSweep, PublishDueScheduled, CloseWindowFallback, MoneyRests
  <2>2. ASSUME NEW c \in Creators, CloseWindowWinner(c)
        PROVE  MoneyRests
        BY <2>2 DEF CloseWindowWinner, AssignTo, MoneyRests
  <2>3. CASE ExpireSweep
        BY <2>3 DEF ExpireSweep, EscrowSettles, MoneyRests
  <2>4. CASE AutoAccept
        BY <2>4 DEF AutoAccept, AcceptVideo, EscrowSettles, MoneyRests
  <2>5. QED
        BY <1>4, <2>1, <2>2, <2>3, <2>4 DEF Sweeps, CloseWindow
<1>5. CASE Staff
  <2>1. CASE ApproveVideo \/ RejectVideo \/ ApproveRequest \/ ToggleModeration
        BY <2>1 DEF ApproveVideo, RejectVideo, ApproveRequest, ToggleModeration, MoneyRests
  <2>2. CASE EscalateVideo
        BY <2>2 DEF EscalateVideo
  <2>3. CASE RejectRequest
        BY <2>3 DEF RejectRequest, EscrowSettles, MoneyRests
  <2>4. CASE AdminRelease \/ AdminRefund
        BY <2>4 DEF AdminRelease, AdminRefund, EscrowSettles
  <2>5. ASSUME NEW a \in PartialRefunds, AdminPartialRefund(a)
        PROVE  EscrowSplits
        BY <2>5 DEF AdminPartialRefund, EscrowSplits
  <2>6. CASE AdminAssign \/ AdminClose \/ AdminReopen
        BY <2>6 DEF AdminAssign, AdminClose, AdminReopen, DisputeMoves
  <2>7. ASSUME NEW r \in Resolutions, NEW p \in Percents, AdminResolve(r, p)
        PROVE  DisputeResolves
        BY <2>7 DEF DisputeResolves
  <2>8. QED
        BY <1>5, <2>1, <2>2, <2>3, <2>4, <2>5, <2>6, <2>7 DEF Staff
<1>6. CASE Time
    BY <1>6 DEF Time, ReachSchedule, ReachExpiry, TimerLapses, WindowLapses, ReviewAges,
                MoneyRests
<1>7. QED
    BY <1>1, <1>2, <1>3, <1>4, <1>5, <1>6 DEF Next

-----------------------------------------------------------------------------
(* The amounts are preserved by each of the seven effects.                 *)

LEMMA AmountsStep ==
    ASSUME Inv, Next
    PROVE  AmountsInv'
<1> USE DEF Inv
<1>0. TypeOK /\ DisputeLocksEscrow /\ AmountsInv
    BY DEF StatusInv
<1>1. CASE EscrowOpens
  <2>1. PICK a \in Amounts : Reserve(a)
        BY <1>1 DEF EscrowOpens
  <2>2. escrow.state = "NONE" /\ dispute.status = "NONE" /\ dispute' = dispute /\ adjust' = adjust
        BY <1>0, <1>1 DEF EscrowOpens, DisputeLocksEscrow
  <2>3. net.requester = 0 /\ net.creators = 0 /\ adjust.requester = 0 /\ adjust.creator = 0
        BY <1>0, <2>2 DEF AmountsInv, UndisputedAmounts
  <2>4. QED
        BY <1>0, <2>1, <2>2, <2>3, ReserveEffect
        DEF AmountsInv, UndisputedAmounts, WithinLocked, SnapshotCurrent, EscrowMatchesMoney,
            RequesterTotal, CreatorTotal, Paid
<1>2. CASE EscrowSettles
  <2>1. dispute.status = "NONE" /\ dispute' = dispute /\ adjust' = adjust
        BY <1>0, <1>2, ReleaseEffect, RefundEffect DEF EscrowSettles, DisputeLocksEscrow
  <2>2. adjust.requester = 0 /\ adjust.creator = 0
        BY <1>0, <2>1 DEF AmountsInv, UndisputedAmounts
  <2>3. CASE Release
        BY <1>0, <2>1, <2>2, <2>3, ReleaseEffect, Fields
        DEF AmountsInv, UndisputedAmounts, WithinLocked, SnapshotCurrent, EscrowMatchesMoney,
            RequesterTotal, CreatorTotal, Paid, DeltaApplies
  <2>4. CASE Refund
    <3>1. Paid = 0 /\ Paid' = 0
        BY <1>0, <2>4, RefundEffect DEF Paid
    <3>2. Currency = "INR" => net.requester = 0 - escrow.locked /\ net.creators = 0
        BY <1>0, <2>1, <2>2, <2>4, <3>1, RefundEffect, Fields
        DEF AmountsInv, UndisputedAmounts, EscrowMatchesMoney, RequesterTotal, CreatorTotal,
            DeltaApplies
    <3>3. UndisputedAmounts' /\ SnapshotCurrent'
        BY <1>0, <2>1, <2>2, <2>4, RefundEffect DEF UndisputedAmounts, SnapshotCurrent
    <3>4. WithinLocked'
        BY <1>0, <2>4, <3>1, RefundEffect, Fields DEF WithinLocked
    <3>5. EscrowMatchesMoney'
        BY <1>0, <2>1, <2>2, <2>4, <3>1, <3>2, RefundEffect, Fields
        DEF EscrowMatchesMoney, RequesterTotal, CreatorTotal
    <3>6. QED
        BY <3>3, <3>4, <3>5 DEF AmountsInv
  <2>5. QED
        BY <1>2, <2>3, <2>4 DEF EscrowSettles
<1>3. CASE EscrowSplits
  <2>1. PICK a \in PartialRefunds : AdminPartialRefund(a)
        BY <1>3 DEF EscrowSplits
  <2>2. dispute.status = "NONE" /\ dispute' = dispute /\ adjust' = adjust
        BY <1>0, <1>3, <2>1, PartialRefundEffect DEF EscrowSplits, DisputeLocksEscrow
  <2>3. adjust.requester = 0 /\ adjust.creator = 0
        BY <1>0, <2>2 DEF AmountsInv, UndisputedAmounts
  <2>4. Paid = 0 /\ Paid' = escrow'.earnings
        BY <1>0, <2>1, PartialRefundEffect DEF Paid
  <2>5. Currency = "INR" => net.requester = 0 - escrow.locked /\ net.creators = 0
        BY <1>0, <2>1, <2>2, <2>3, <2>4, PartialRefundEffect, Fields
        DEF AmountsInv, UndisputedAmounts, EscrowMatchesMoney, RequesterTotal, CreatorTotal,
            DeltaApplies
  <2>6. UndisputedAmounts' /\ SnapshotCurrent'
        BY <1>0, <2>1, <2>2, <2>3, PartialRefundEffect DEF UndisputedAmounts, SnapshotCurrent
  <2>7. WithinLocked'
        BY <1>0, <2>1, <2>4, PartialRefundEffect, Fields DEF WithinLocked
  <2>8. EscrowMatchesMoney'
        BY <1>0, <2>1, <2>2, <2>3, <2>4, <2>5, PartialRefundEffect, Fields
        DEF EscrowMatchesMoney, RequesterTotal, CreatorTotal
  <2>9. QED
        BY <2>6, <2>7, <2>8 DEF AmountsInv
<1>4. CASE OpenDispute
  <2>1. escrow.state \notin {"NONE", "FROZEN"}
        BY <1>0, <1>4, OpenDisputeEffect DEF DisputeLocksEscrow
  <2>2. Paid' = Paid
        BY <1>0, <1>4, <2>1, OpenDisputeEffect, FreezeEffect DEF Paid
  <2>3. UndisputedAmounts'
        BY <1>0, <1>4, <2>1, OpenDisputeEffect, FreezeEffect DEF AmountsInv, UndisputedAmounts
  <2>4. WithinLocked'
        BY <1>0, <1>4, <2>2, OpenDisputeEffect, FreezeEffect DEF AmountsInv, WithinLocked
  <2>5. SnapshotCurrent'
    <3>1. escrow.state = "RELEASED" => Paid = escrow.earnings /\ escrow.refunded = 0
        BY <1>0, <1>4, OpenDisputeEffect DEF AmountsInv, UndisputedAmounts, Paid
    <3>2. escrow.state = "REFUNDED" => Paid = 0 /\ escrow.refunded = escrow.locked
        BY <1>0, <1>4, OpenDisputeEffect DEF AmountsInv, UndisputedAmounts, Paid
    <3>3. escrow.state = "RESERVED" => Paid = 0 /\ escrow.refunded = 0
        BY <1>0, <1>4, OpenDisputeEffect DEF AmountsInv, UndisputedAmounts, Paid
    <3>4. escrow.state \in {"RELEASED", "REFUNDED", "RESERVED", "SPLIT"}
        BY <1>0, <2>1, Fields DEF EscrowStates
    <3>5. QED
        BY <1>0, <1>4, <2>2, <3>1, <3>2, <3>3, <3>4, OpenDisputeEffect, FreezeEffect
        DEF SnapshotCurrent
  <2>6. EscrowMatchesMoney'
        BY <1>0, <1>4, <2>2, OpenDisputeEffect, FreezeEffect
        DEF AmountsInv, EscrowMatchesMoney, RequesterTotal, CreatorTotal, DeltaApplies
  <2>7. QED
        BY <2>3, <2>4, <2>5, <2>6 DEF AmountsInv
<1>5. CASE DisputeMoves
  <2>1. PICK s : s # "NONE" /\ dispute.status # "NONE" /\ SetDisputeStatus(s)
        BY <1>5 DEF DisputeMoves
  <2>2. QED
        BY <1>0, <2>1, SetDisputeStatusEffect
        DEF AmountsInv, UndisputedAmounts, WithinLocked, SnapshotCurrent, EscrowMatchesMoney,
            RequesterTotal, CreatorTotal, Paid, DeltaApplies
<1>6. CASE DisputeResolves
  <2>1. PICK r \in Resolutions, p \in Percents : AdminResolve(r, p)
        BY <1>6 DEF DisputeResolves
  <2>2. UndisputedAmounts' /\ WithinLocked' /\ SnapshotCurrent'
        BY <1>0, <2>1, ResolveEffect, Fields
        DEF UndisputedAmounts, WithinLocked, SnapshotCurrent
  <2>3. EscrowMatchesMoney'
    <3>1. SUFFICES ASSUME Currency = "INR", DeltaApplies'
                   PROVE  RequesterTotal' = escrow'.refunded - escrow'.locked
                          /\ CreatorTotal' = Paid'
        BY DEF EscrowMatchesMoney
    <3>2. dispute.at # "SPLIT" /\ creator # None
        BY <1>0, <2>1, <3>1, ResolveEffect DEF DeltaApplies
    <3>3. /\ RequesterTotal = escrow.refunded - escrow.locked /\ CreatorTotal = Paid
          /\ dispute.released = Paid /\ dispute.refunded = escrow.refunded
        BY <1>0, <2>1, <3>1, <3>2, ResolveEffect
        DEF AmountsInv, EscrowMatchesMoney, SnapshotCurrent, DeltaApplies
    <3>4. Paid' \in Int /\ escrow'.refunded \in Int
        BY <1>0, <2>1, ResolveEffect, Fields
    <3>5. QED
        BY <1>0, <2>1, <3>2, <3>3, <3>4, ResolveEffect, Fields
        DEF RequesterTotal, CreatorTotal
  <2>4. QED
        BY <2>2, <2>3 DEF AmountsInv
<1>7. CASE MoneyRests
  <2>1. dispute.status = "NONE" \/ creator' = creator
        BY <1>0, <1>7 DEF MoneyRests, DisputeLocksEscrow
  <2>2. QED
        BY <1>0, <1>7, <2>1
        DEF MoneyRests, AmountsInv, UndisputedAmounts, WithinLocked, SnapshotCurrent,
            EscrowMatchesMoney, RequesterTotal, CreatorTotal, Paid, DeltaApplies
<1>8. QED
    BY <1>1, <1>2, <1>3, <1>4, <1>5, <1>6, <1>7, MoneySteps

\* The stored commission follows the locked amount through the seven effects.
LEMMA CommissionStep ==
    ASSUME Inv, Next
    PROVE  CommissionStored'
<1>0. TypeOK /\ DisputeLocksEscrow /\ CommissionStored
    BY DEF Inv, StatusInv
<1>1. CASE EscrowOpens
  <2>1. PICK a \in Amounts : Reserve(a)
      BY <1>1 DEF EscrowOpens
  <2>2. /\ escrow'.locked = a /\ escrow'.commission = CommissionOf(a)
        /\ Currency = "INR" => escrow'.earnings = EarningsOf(a)
      BY <2>1 DEF Reserve
  <2>3. QED
      BY <2>2 DEF CommissionStored
<1>2. CASE EscrowSettles
  <2>1. /\ escrow.state = "RESERVED" /\ escrow'.locked = escrow.locked
        /\ escrow'.earnings = escrow.earnings /\ escrow'.commission = escrow.commission
      BY <1>0, <1>2 DEF EscrowSettles, TypeOK, Release, CanRelease, Refund, CanRefund
  <2>2. dispute' = dispute /\ dispute.status = "NONE"
      BY <1>0, <1>2, <2>1 DEF EscrowSettles, DisputeLocksEscrow
  <2>3. QED
      BY <1>0, <2>1, <2>2 DEF CommissionStored
<1>3. CASE EscrowSplits
  <2>1. PICK a \in PartialRefunds : AdminPartialRefund(a)
      BY <1>3 DEF EscrowSplits
  <2>2. escrow.state = "RESERVED" /\ escrow'.state = "SPLIT" /\ dispute' = dispute
      BY <1>0, <1>3, <2>1, PartialRefundEffect DEF EscrowSplits
  <2>3. QED
      BY <1>0, <2>2 DEF DisputeLocksEscrow, CommissionStored
<1>4. CASE OpenDispute
  <2>1. /\ escrow'.locked = escrow.locked /\ escrow'.earnings = escrow.earnings
        /\ escrow'.commission = escrow.commission
        /\ escrow'.state \in {escrow.state, "FROZEN"}
      BY <1>0, <1>4, OpenDisputeEffect DEF TypeOK, Freeze
  <2>2. /\ dispute.status = "NONE" /\ dispute'.status = "OPEN" /\ dispute'.at = escrow.state
        /\ escrow.state # "NONE"
      BY <1>4, OpenDisputeEffect
  <2>3. QED
      BY <1>0, <2>1, <2>2 DEF CommissionStored
<1>5. CASE DisputeMoves
  <2>1. PICK s : s # "NONE" /\ dispute.status # "NONE" /\ SetDisputeStatus(s)
      BY <1>5 DEF DisputeMoves
  <2>2. QED
      BY <1>0, <2>1, SetDisputeStatusEffect DEF CommissionStored
<1>6. CASE DisputeResolves
  <2>1. PICK r \in Resolutions, p \in Percents : AdminResolve(r, p)
      BY <1>6 DEF DisputeResolves
  <2>2. /\ escrow' = [escrow EXCEPT !.state = SettledState(r), !.earnings = CreatorTarget(r, p),
                                    !.refunded = RequesterTarget(r, p)]
      BY <2>1 DEF AdminResolve
  <2>3. /\ escrow'.locked = escrow.locked /\ escrow'.commission = escrow.commission
        /\ escrow'.state = SettledState(r) /\ escrow'.earnings = CreatorTarget(r, p)
      BY <1>0, <2>2 DEF TypeOK
  <2>4. SettledState(r) \in {"RESERVED", "RELEASED"} => r = "CREATOR_FAVOUR"
      BY DEF SettledState, Resolutions
  <2>5. r = "CREATOR_FAVOUR" => CreatorTarget(r, p) = EarningsOf(escrow.locked)
    <3>1. escrow.locked \in Nat
        BY <1>0, Fields
    <3>2. r = "CREATOR_FAVOUR" => RequesterTarget(r, p) = 0 /\ escrow.locked - 0 = escrow.locked
        BY <3>1 DEF RequesterTarget
    <3>3. QED
        BY <3>2 DEF CreatorTarget
  <2>6. /\ dispute.status # "NONE" /\ dispute'.status # "NONE" /\ dispute'.at = dispute.at
        /\ escrow.state # "NONE"
      BY <1>0, <2>1, ResolveEffect DEF DisputeLocksEscrow
  <2>7. QED
      BY <1>0, <2>3, <2>4, <2>5, <2>6 DEF CommissionStored
<1>7. CASE MoneyRests
    BY <1>0, <1>7 DEF MoneyRests, CommissionStored
<1>8. QED
    BY <1>1, <1>2, <1>3, <1>4, <1>5, <1>6, <1>7, MoneySteps

-----------------------------------------------------------------------------
(* The status, its creator, its escrow and its dispute agree: action by    *)
(* action.                                                                 *)

LEMMA StatusStep ==
    ASSUME TypeOK, StatusInv, Next
    PROVE  StatusInv'
<1> USE DEF StatusInv, OnlyStatus, OnlyRequest, NoDispute, OnlyClock, request, money,
            DisputeLocksEscrow, CreatorIffAssigned, FinishedHoldsNothing,
            CompletedPaysItsCreator, InHands, Unassigned, NeverWritten
<1>0. escrow.state \in EscrowStates
    BY Fields
<1>1. CASE Requester
  <2>1. ASSUME NEW k \in Kinds, NEW m \in Modes, NEW a \in Amounts, Create(k, m, a)
        PROVE  StatusInv'
    <3>1. Reserve(a) /\ status = "NONE" /\ creator' = creator /\ dispute' = dispute
        BY <2>1 DEF Create
    <3>2. status' \in {"DRAFT", "PENDING_MODERATION", "PUBLISHED", "MATCHING_WINDOW"}
        BY <2>1 DEF Create, PublishedStatus
    <3>3. escrow'.state = "RESERVED"
        BY <3>1, ReserveEffect
    <3>4. QED
        BY <3>1, <3>2, <3>3
  <2>2. ASSUME NEW a \in Amounts, Update(a)
        PROVE  StatusInv'
        BY <2>2 DEF Update
  <2>3. CASE Cancel
        BY <2>3, RefundEffect, CancelSources DEF Cancel
  <2>4. CASE AcceptVideo
        BY <2>4, ReleaseEffect DEF AcceptVideo
  <2>5. CASE RequestReshoot
        BY <2>5 DEF RequestReshoot
  <2>6. CASE Reject
        BY <2>6, RefundEffect DEF Reject
  <2>7. QED
        BY <1>1, <2>1, <2>2, <2>3, <2>4, <2>5, <2>6 DEF Requester
<1>2. CASE Creator
  <2>1. ASSUME NEW c \in Creators, Accept(c)
        PROVE  StatusInv'
        BY <2>1 DEF Accept, AssignTo
  <2>2. CASE StartRecording
        BY <2>2 DEF StartRecording
  <2>3. CASE CompleteUpload
        BY <2>3 DEF CompleteUpload, AfterUpload
  <2>4. CASE DeleteDraft
        BY <2>4 DEF DeleteDraft
  <2>5. QED
        BY <1>2, <2>1, <2>2, <2>3, <2>4 DEF Creator
<1>3. ASSUME OpenDispute
      PROVE  StatusInv'
    BY <1>0, <1>3, OpenDisputeEffect, FreezeEffect
<1>4. CASE Sweeps
  <2>1. CASE TimerSweep
        BY <2>1 DEF TimerSweep
  <2>2. CASE CloseWindowFallback
        BY <2>2 DEF CloseWindowFallback
  <2>3. ASSUME NEW c \in Creators, CloseWindowWinner(c)
        PROVE  StatusInv'
        BY <2>3 DEF CloseWindowWinner, AssignTo
  <2>4. CASE PublishDueScheduled
        BY <2>4 DEF PublishDueScheduled
  <2>5. CASE ExpireSweep
    <3>1. CASE Refund
        BY <2>5, <3>1, RefundEffect DEF ExpireSweep
    <3>2. CASE ~CanRefund /\ UNCHANGED money
      <4>1. escrow.state \in {"RELEASED", "REFUNDED", "SPLIT"}
          BY <1>0, <2>5, <3>2 DEF ExpireSweep, CanRefund, EscrowStates
      <4>2. QED
          BY <2>5, <3>2, <4>1 DEF ExpireSweep
    <3>3. QED
        BY <2>5, <3>1, <3>2 DEF ExpireSweep
  <2>6. CASE AutoAccept
        BY <2>6, ReleaseEffect DEF AutoAccept, AcceptVideo
  <2>7. QED
        BY <1>4, <2>1, <2>2, <2>3, <2>4, <2>5, <2>6 DEF Sweeps, CloseWindow
<1>5. CASE Staff
  <2>1. CASE ApproveVideo
        BY <2>1 DEF ApproveVideo
  <2>2. CASE RejectVideo
        BY <2>2 DEF RejectVideo
  <2>3. CASE EscalateVideo
        BY <2>3, <1>3 DEF EscalateVideo
  <2>4. CASE ApproveRequest
        BY <2>4 DEF ApproveRequest, PublishedStatus
  <2>5. CASE RejectRequest
    <3>1. CASE Refund
        BY <2>5, <3>1, RefundEffect DEF RejectRequest
    <3>2. CASE ~CanRefund /\ UNCHANGED money
      <4>1. escrow.state \in {"RELEASED", "REFUNDED", "SPLIT"}
          BY <1>0, <2>5, <3>2 DEF RejectRequest, CanRefund, EscrowStates
      <4>2. QED
          BY <2>5, <3>2, <4>1 DEF RejectRequest
    <3>3. QED
        BY <2>5, <3>1, <3>2 DEF RejectRequest
  <2>6. CASE ToggleModeration
        BY <2>6 DEF ToggleModeration
  <2>7. CASE AdminRelease
        BY <2>7, ReleaseEffect DEF AdminRelease
  <2>8. CASE AdminRefund
        BY <2>8, RefundEffect DEF AdminRefund
  <2>9. ASSUME NEW a \in PartialRefunds, AdminPartialRefund(a)
        PROVE  StatusInv'
    <3>1. UNCHANGED <<status, creator, dispute>>
        BY <2>9 DEF AdminPartialRefund
    <3>2. QED
        BY <2>9, <3>1, PartialRefundEffect
  <2>10. CASE AdminAssign \/ AdminClose \/ AdminReopen
    <3>1. PICK s : /\ s \notin {"NONE", "RESOLVED"} /\ dispute.status # "NONE"
                   /\ SetDisputeStatus(s)
        BY <2>10 DEF AdminAssign, AdminClose, AdminReopen
    <3>2. QED
        BY <3>1, SetDisputeStatusEffect
  <2>11. ASSUME NEW r \in Resolutions, NEW p \in Percents, AdminResolve(r, p)
         PROVE  StatusInv'
        BY <2>11, ResolveEffect
  <2>12. QED
        BY <1>5, <2>1, <2>2, <2>3, <2>4, <2>5, <2>6, <2>7, <2>8, <2>9, <2>10, <2>11
        DEF Staff
<1>6. CASE Time
    BY <1>6 DEF Time, ReachSchedule, ReachExpiry, TimerLapses, WindowLapses, ReviewAges
<1>7. QED
    BY <1>1, <1>2, <1>3, <1>4, <1>5, <1>6 DEF Next, RaiseDispute

-----------------------------------------------------------------------------
(* The theorems.                                                           *)

LEMMA InitInv == Init => Inv
<1> SUFFICES ASSUME Init PROVE Inv
    OBVIOUS
<1>1. TypeOK
    BY InitType
<1>2. StatusInv
    BY NoneAssumption DEF Init, StatusInv, DisputeLocksEscrow, CreatorIffAssigned,
       FinishedHoldsNothing, CompletedPaysItsCreator, InHands, Unassigned, NeverWritten
<1>3. AmountsInv
    BY DEF Init, AmountsInv, UndisputedAmounts, WithinLocked, SnapshotCurrent,
       EscrowMatchesMoney, RequesterTotal, CreatorTotal, Paid
<1>4. CommissionStored
    BY DEF Init, CommissionStored
<1>5. QED
    BY <1>1, <1>2, <1>3, <1>4 DEF Inv

LEMMA InvStep == Inv /\ [Next]_vars => Inv'
<1> SUFFICES ASSUME Inv, [Next]_vars PROVE Inv'
    OBVIOUS
<1>1. CASE Next
    BY <1>1, TypeStep, StatusStep, AmountsStep, CommissionStep DEF Inv
<1>2. CASE UNCHANGED vars
    BY <1>2 DEF vars, request, money, Inv, TypeOK,
       StatusInv, DisputeLocksEscrow, CreatorIffAssigned, FinishedHoldsNothing,
       CompletedPaysItsCreator,
       AmountsInv, UndisputedAmounts, WithinLocked, SnapshotCurrent,
       EscrowMatchesMoney, RequesterTotal, CreatorTotal, Paid, DeltaApplies, CommissionStored
<1>3. QED
    BY <1>1, <1>2

\* The status, the creator, the escrow, the dispute and every amount agree in
\* every reachable state.
THEOREM Invariance == Spec => []Inv
    BY InitInv, InvStep, PTL DEF Spec

\* A request somebody works on names its creator and one on offer names nobody,
\* for any number of creators (requestService.accept, acceptanceTimerJob).
THEOREM AssignedHasCreator == Spec => []CreatorIffAssigned
<1>1. Inv => CreatorIffAssigned
    BY DEF Inv, StatusInv
<1>2. QED
    BY <1>1, Invariance, PTL

\* A finished request holds nobody's money (requestService.cancel,
\* requestLifecycleJob, requesterReviewService).
THEOREM FinishedIsSettled == Spec => []FinishedHoldsNothing
<1>1. Inv => FinishedHoldsNothing
    BY DEF Inv, StatusInv
<1>2. QED
    BY <1>1, Invariance, PTL

\* A completed request paid the creator on its row, through any number of
\* lapsed assignments and manual overrides (requesterReviewService.acceptVideo).
THEOREM CompletedIsPaid == Spec => []CompletedPaysItsCreator
<1>1. Inv => CompletedPaysItsCreator
    BY DEF Inv, StatusInv
<1>2. QED
    BY <1>1, Invariance, PTL

\* The books and the escrow row agree for all amounts, rates and splits,
\* through any sequence of resolutions and reopenings (disputeService.adminResolve).
THEOREM BooksMatch == Spec => []EscrowMatchesMoney
<1>1. Inv => EscrowMatchesMoney
    BY DEF Inv, AmountsInv
<1>2. QED
    BY <1>1, Invariance, PTL

\* No more is paid out for a request than was taken for it, whatever the
\* rounding of commission and split (utils/money.ts).
THEOREM NothingOverpaid == Spec => []NoOverpayment
<1>1. Inv => NoOverpayment
  <2>1. SUFFICES ASSUME Inv, Currency = "INR", DeltaApplies
                 PROVE  RequesterTotal + CreatorTotal <= 0
      BY DEF NoOverpayment
  <2>2. /\ RequesterTotal = escrow.refunded - escrow.locked /\ CreatorTotal = Paid
        /\ escrow.refunded + Paid <= escrow.locked
      BY <2>1 DEF Inv, AmountsInv, EscrowMatchesMoney, WithinLocked
  <2>3. escrow.refunded \in Nat /\ escrow.locked \in Nat /\ Paid \in Nat
      BY <2>1, Fields DEF Inv, Paid
  <2>4. QED
      BY <2>2, <2>3
<1>2. QED
    BY <1>1, Invariance, PTL

\* The books agree with the escrow row and pay out no more than was taken, the
\* two facts taken together, as the run states them (escrowService, disputeService).
THEOREM BooksBalance == Spec => []BooksAddUp
<1>1. EscrowMatchesMoney /\ NoOverpayment => BooksAddUp
    BY DEF BooksAddUp
<1>2. QED
    BY <1>1, BooksMatch, NothingOverpaid, PTL

\* Money leaves a reserved escrow only in a step that closes the request or
\* changes nothing else about it (every caller of escrowService.release and refund).
THEOREM SettlingCloses == Spec => SettlesOnlyWhenClosing
<1> DEFINE Settling ==
        escrow.state = "RESERVED" /\ escrow'.state \notin {"RESERVED", "FROZEN"}
            => \/ status' \in {"COMPLETED", "REJECTED", "EXPIRED", "CANCELLED"}
               \/ UNCHANGED request
<1>1. Inv /\ [Next]_vars => [Settling]_vars
  <2> SUFFICES ASSUME Inv, Next PROVE Settling
      OBVIOUS
  <2> USE DEF OnlyStatus, OnlyRequest, NoDispute, OnlyClock, money
  <2>0. TypeOK /\ DisputeLocksEscrow
      BY DEF Inv, StatusInv
  <2>1. CASE Requester
    <3>1. ASSUME NEW k \in Kinds, NEW m \in Modes, NEW a \in Amounts, Create(k, m, a)
          PROVE  Settling
        BY <3>1, <2>0, ReserveEffect DEF Create
    <3>2. ASSUME NEW a \in Amounts, Update(a)
          PROVE  Settling
        BY <3>2 DEF Update
    <3>3. CASE Cancel \/ AcceptVideo \/ RequestReshoot \/ Reject
        BY <3>3 DEF Cancel, AcceptVideo, RequestReshoot, Reject
    <3>4. QED
        BY <2>1, <3>1, <3>2, <3>3 DEF Requester
  <2>2. CASE Creator
        BY <2>2 DEF Creator, Accept, StartRecording, CompleteUpload, DeleteDraft
  <2>3. ASSUME OpenDispute
        PROVE  Settling
        BY <2>0, <2>3, OpenDisputeEffect, FreezeEffect
  <2>4. CASE Sweeps
        BY <2>4 DEF Sweeps, TimerSweep, CloseWindow, CloseWindowFallback, CloseWindowWinner,
                    PublishDueScheduled, ExpireSweep, AutoAccept, AcceptVideo
  <2>5. CASE Staff
        BY <2>5, <2>3 DEF Staff, ApproveVideo, RejectVideo, EscalateVideo, ApproveRequest,
           RejectRequest, ToggleModeration, AdminRelease, AdminRefund, AdminPartialRefund,
           AdminAssign, AdminClose, AdminReopen, SetDisputeStatus, AdminResolve
  <2>6. CASE Time
        BY <2>6 DEF Time, ReachSchedule, ReachExpiry, TimerLapses, WindowLapses, ReviewAges
  <2>7. QED
        BY <2>1, <2>2, <2>3, <2>4, <2>5, <2>6 DEF Next, RaiseDispute
<1>2. QED
    BY <1>1, Invariance, PTL DEF Spec, SettlesOnlyWhenClosing

\* While a dispute exists money moves only by its resolution, and only when the
\* case is open or reopened (escrowService.freeze, disputeService.adminResolve).
THEOREM DisputeGuards == Spec => DisputeGuardsMoney
<1> DEFINE Guarded ==
        dispute.status # "NONE" /\ <<net, adjust>>' # <<net, adjust>>
            => /\ dispute.status \in {"OPEN", "UNDER_REVIEW", "REOPENED"}
               /\ dispute'.status = "RESOLVED"
               /\ net' = net
<1>1. Inv /\ [Next]_vars => [Guarded]_vars
  <2> SUFFICES ASSUME Inv, Next, dispute.status # "NONE", <<net, adjust>>' # <<net, adjust>>
               PROVE  Guarded
      OBVIOUS
  <2>1. TypeOK /\ escrow.state # "RESERVED" /\ status # "NONE"
      BY DEF Inv, StatusInv, DisputeLocksEscrow
  <2>2. ~EscrowOpens /\ ~EscrowSettles
      BY <2>1 DEF EscrowOpens, EscrowSettles, Release, Refund, CanRelease, CanRefund
  <2>3. ~EscrowSplits
      BY <2>1 DEF EscrowSplits, AdminPartialRefund, CanRelease
  <2>4. ~OpenDispute
      BY DEF OpenDispute
  <2>5. ~DisputeMoves
      BY <2>1, SetDisputeStatusEffect DEF DisputeMoves
  <2>6. DisputeResolves
      BY <2>2, <2>3, <2>4, <2>5, MoneySteps DEF MoneyRests
  <2>7. PICK r \in Resolutions, p \in Percents : AdminResolve(r, p)
      BY <2>6 DEF DisputeResolves
  <2>8. QED
      BY <2>1, <2>7, ResolveEffect DEF AdminResolve
<1>2. QED
    BY <1>1, Invariance, PTL DEF Spec, DisputeGuardsMoney

-----------------------------------------------------------------------------
(* Nobody's list leaves out what somebody waits for (Oversight).           *)

\* Every unfinished status has its list and, on it, somebody who may act, or a
\* sweep that will: status by status.
LEMMA UnfinishedIsListed ==
    ASSUME Inv, status \notin TERMINAL_STATUSES \cup {"NONE"}
    PROVE  RequesterMoves \/ StaffMoves \/ SweptSometime \/ \E c \in Creators : CreatorMoves(c)
<1>1. /\ status \in Statuses /\ status \notin NeverWritten
      /\ DisputeLocksEscrow /\ CreatorIffAssigned /\ escrow.state # "NONE"
    BY DEF Inv, TypeOK, StatusInv, DisputeLocksEscrow
<1>2. clock.review \in 0..1 /\ clock.timer \in BOOLEAN /\ clock.window \in BOOLEAN
    BY DEF Inv, TypeOK, Clocks
<1>3. CASE status \in {"DRAFT", "PUBLISHED", "MATCHING_WINDOW", "CREATOR_ASSIGNED"}
  <2>1. CanTransition("DRAFT", "EXPIRED") /\ CanTransition("PUBLISHED", "EXPIRED")
        /\ CanTransition("CREATOR_ASSIGNED", "PUBLISHED")
      BY DEF CanTransition, TRANSITIONS, Statuses
  <2>2. QED
      BY <1>2, <1>3, <2>1 DEF SweptSometime, Unexpired
<1>4. CASE status \in {"TEMPORARY_CHAT", "RECORDING", "UPLOAD"}
  <2>1. CanTransition("TEMPORARY_CHAT", "RECORDING") /\ CanTransition("UPLOAD", "RECORDING")
      BY DEF CanTransition, TRANSITIONS, Statuses
  <2>2. creator \in Creators
      BY <1>1, <1>4 DEF CreatorIffAssigned, InHands
  <2>3. CreatorMoves(creator)
      BY <1>4, <2>1 DEF CreatorMoves, Dashboard, Active
  <2>4. QED
      BY <2>2, <2>3
<1>5. CASE status \in {"PENDING_MODERATION", "MODERATOR_REVIEW"}
    BY <1>5 DEF StaffMoves, RequestQueue, VideoQueue
<1>6. CASE status = "REQUESTER_REVIEW"
    BY <1>6 DEF RequesterMoves, ListMine, Exists
<1>7. CASE status = "ACCEPTED"
  <2>1. dispute.status = "NONE"
      BY <1>1, <1>7 DEF DisputeLocksEscrow
  <2>2. CanTransition("ACCEPTED", "DISPUTED")
      BY DEF CanTransition, TRANSITIONS, Statuses
  <2>3. QED
      BY <1>1, <1>7, <2>1, <2>2 DEF RequesterMoves, ListMine, Exists, DisputeSources
<1>8. QED
    BY <1>1, <1>3, <1>4, <1>5, <1>6, <1>7 DEF Statuses, TERMINAL_STATUSES, NeverWritten

\* Frozen money belongs to a case, and a case can be settled or reopened.
LEMMA FrozenIsListed ==
    ASSUME Inv, escrow.state = "FROZEN"
    PROVE  StaffMoves
<1>1. dispute.status \in DisputeStatuses \ {"NONE"}
    BY DEF Inv, TypeOK, StatusInv, DisputeLocksEscrow
<1>2. QED
    BY <1>1 DEF StaffMoves, DisputeList, Matches, DisputeStatuses

\* The figures of the summary are the users' books, state by state.
LEMMA SummaryIsBooks ==
    ASSUME Inv, Currency = "INR", DeltaApplies, escrow.state \notin {"FROZEN", "SPLIT"}
    PROVE  /\ EscrowSummary.totalLocked + EscrowSummary.totalCommissionEarned
                = -(RequesterTotal + CreatorTotal)
           /\ EscrowSummary.totalPaidToCreators = CreatorTotal
<1>1. /\ EscrowSummary.totalLocked = SumOf("RESERVED", escrow.locked)
      /\ EscrowSummary.totalCommissionEarned = SumOf("RELEASED", escrow.commission)
      /\ EscrowSummary.totalPaidToCreators = SumOf("RELEASED", escrow.earnings)
    BY DEF EscrowSummary
<1>2. /\ escrow.locked \in Nat /\ escrow.earnings \in Nat /\ escrow.refunded \in Nat
      /\ escrow.state \in {"NONE", "RESERVED", "RELEASED", "REFUNDED"}
    BY Fields DEF Inv, EscrowStates
<1>3. RequesterTotal = escrow.refunded - escrow.locked /\ CreatorTotal = Paid
    BY DEF Inv, AmountsInv, EscrowMatchesMoney
<1>4. /\ escrow.state \in {"NONE", "RESERVED", "RELEASED"} => escrow.refunded = 0
      /\ escrow.state = "REFUNDED" => escrow.refunded = escrow.locked
      /\ escrow.state = "NONE" => escrow.locked = 0
    BY DEF Inv, AmountsInv, UndisputedAmounts
<1>5. escrow.state = "RELEASED" => escrow.commission = escrow.locked - escrow.earnings
  <2>1. escrow.state = "RELEASED" =>
            escrow.earnings = EarningsOf(escrow.locked) /\ escrow.commission = CommissionOf(escrow.locked)
      BY DEF Inv, CommissionStored, DeltaApplies
  <2>2. /\ CommissionOf(escrow.locked) \in Nat
        /\ EarningsOf(escrow.locked) = escrow.locked - CommissionOf(escrow.locked)
      BY <1>2, CommissionBounds
  <2>3. QED
      BY <1>2, <2>1, <2>2
<1>6. QED
    BY <1>1, <1>2, <1>3, <1>4, <1>5 DEF SumOf, Paid

\* What the Admin's screens leave out is what MonitoringGaps allows.
LEMMA GapsAreKnown ==
    ASSUME Inv
    PROVE  MonitoringGaps
<1>1. ASSUME ActiveForAdmin, \A s \in LIVE_STATUS_ORDER : LiveMonitoring.tiles[s] = 0
      PROVE  RequestQueue \/ status = "MATCHING_WINDOW"
  <2>1. status \in Statuses \ (TERMINAL_STATUSES \cup NeverWritten)
      BY <1>1 DEF Inv, TypeOK, StatusInv, ActiveForAdmin, ActiveRequests,
                  FindManyActiveForAdmin, Exists, All
  <2>2. ASSUME status \in LIVE_STATUS_ORDER
        PROVE  FALSE
    <3>1. status \in Statuses \ TERMINAL_STATUSES
        BY <2>1
    <3>2. LiveMonitoring.tiles[status] = CountGroupedByLiveStatus[status]
        BY <2>2 DEF LiveMonitoring
    <3>3. CountGroupedByLiveStatus[status] = 1
        BY <3>1 DEF CountGroupedByLiveStatus, One
    <3>4. QED
        BY <1>1, <2>2, <3>2, <3>3
  <2>3. QED
      BY <2>1, <2>2 DEF Statuses, TERMINAL_STATUSES, NeverWritten, LIVE_STATUS_ORDER, RequestQueue
<1>2. ASSUME EscrowList("FROZEN"), DashboardKpis.disputes = 0
      PROVE  DisputeList("CLOSED") \/ DisputeList("REOPENED")
  <2>1. escrow.state = "FROZEN"
      BY <1>2, Fields DEF Inv, EscrowList, Matches, All, EscrowStates
  <2>2. dispute.status \in {"OPEN", "UNDER_REVIEW", "CLOSED", "REOPENED"}
      BY <2>1 DEF Inv, TypeOK, StatusInv, DisputeLocksEscrow, DisputeStatuses
  <2>3. DashboardKpis.disputes = One(dispute.status = "OPEN") + One(dispute.status = "UNDER_REVIEW")
      BY DEF DashboardKpis, DisputeStats, DisputeStatuses
  <2>4. dispute.status \notin {"OPEN", "UNDER_REVIEW"}
      BY <1>2, <2>3 DEF One
  <2>5. QED
      BY <2>2, <2>4 DEF DisputeList, Matches
<1>3. QED
    BY <1>1, <1>2, SummaryIsBooks DEF MonitoringGaps

\* A dispute is only ever about an escrow, so both are shown alike.
LEMMA DisputesShowEscrows ==
    ASSUME Inv
    PROVE  ParticipantsSee
    BY DEF Inv, StatusInv, DisputeLocksEscrow, ParticipantsSee, ListMyDisputes, EscrowShownTo

\* The feeds, the details page and accept read status and expiry alike.
LEMMA OffersAreAccepted ==
    ASSUME Inv
    PROVE  OffersStand
<1> SUFFICES ASSUME NEW c \in Creators
             PROVE  /\ Nearby(c) \/ Available(c) => CanAccept \/ status = "MATCHING_WINDOW"
                    /\ CanAccept => Available(c) /\ Details(c).shown
                                      /\ ~Details(c).locked /\ Details(c).open
                    /\ Details(c).locked => ~Details(c).open
                    /\ Details(c).open => creator = None
    BY DEF OffersStand
<1>1. /\ Details(c).shown = Visible /\ Details(c).locked = IsLocked
      /\ Details(c).open = IsVisibleToCreator(c)
    BY DEF Details
<1>2. status \in {"PUBLISHED", "MATCHING_WINDOW"} => creator = None
    BY DEF Inv, StatusInv, CreatorIffAssigned, Unassigned
<1>3. QED
    BY <1>1, <1>2 DEF Nearby, Discoverable, Available, Unexpired, Visible, Exists, IsLocked,
                      IsVisibleToCreator

\* The lists and the handlers agree: an unfinished request is in front of
\* somebody whose endpoint would take it on or of a sweep, whatever is offered
\* can be taken, and the Admin's figures are the users' books
\* (requestRepository's finders, adminService, escrowService.adminSummary).
THEOREM NothingIsOverlooked == Spec => []ListsMatchWork
<1>1. Inv => NoOrphan
  <2> SUFFICES ASSUME Inv PROVE NoOrphan
      OBVIOUS
  <2>1. ASSUME ActiveForAdmin \/ (Exists /\ escrow.state \in {"RESERVED", "FROZEN"})
        PROVE  RequesterMoves \/ StaffMoves \/ SweptSometime \/ \E c \in Creators : CreatorMoves(c)
    <3>1. ActiveForAdmin => status \notin TERMINAL_STATUSES \cup {"NONE"}
        BY DEF ActiveForAdmin, ActiveRequests, FindManyActiveForAdmin, Exists, All
    <3>2. Exists /\ escrow.state = "RESERVED" => status \notin TERMINAL_STATUSES \cup {"NONE"}
        BY DEF Exists, Inv, StatusInv, DisputeLocksEscrow, FinishedHoldsNothing, TERMINAL_STATUSES
    <3>3. QED
        BY <2>1, <3>1, <3>2, UnfinishedIsListed, FrozenIsListed
  <2>2. EscrowList("FROZEN") => escrow.state = "FROZEN"
      BY Fields DEF Inv, EscrowList, Matches, All, EscrowStates
  <2>3. QED
      BY <2>1, <2>2, FrozenIsListed, GapsAreKnown, DisputesShowEscrows DEF NoOrphan
<1>2. QED
    BY <1>1, OffersAreAccepted, Invariance, PTL DEF ListsMatchWork

-----------------------------------------------------------------------------
(* The pushes that time sends (Reminders): they change nothing of the      *)
(* request, and a stamp is spent once for both of its reviews.             *)

\* A review that has been warned of is the one at hand, or one that is over:
\* the row comes to another review only through its one reshoot.
WarningSpent ==
    /\ warned => status = "REQUESTER_REVIEW"
    /\ "warning" \in sent =>
           \/ warned \/ reshootUsed
           \/ status \in {"ACCEPTED", "COMPLETED", "REJECTED", "DISPUTED"}

\* The hour of decision does not come to a review before its warning was due.
DecisionAnnounced ==
    status = "REQUESTER_REVIEW" /\ clock.review = 1 =>
        warned \/ away \/ (reshootUsed /\ "warning" \in sent)

ReminderInv == TypeOK /\ WarningSpent /\ DecisionAnnounced

\* A sweep of reminders leaves the request alone, and time is RequestLifecycle's.
LEMMA ReminderStepIsStep ==
    ASSUME [ReminderNext]_reminderVars
    PROVE  [Next]_vars
<1>1. CASE ReminderSweeps \/ StageAges \/ ServerAway \/ UNCHANGED reminderVars
    BY <1>1 DEF ReminderSweeps, RemindStalledRecordings, RemindPendingReviews,
       RemindMissingRatings, RunWarningSweep, OnlyStamp, StageAges, ServerAway, reminderVars
<1>2. CASE DecisionDue \/ SearchTime
    BY <1>2 DEF DecisionDue, SearchTime, Next, Time
<1>3. QED
    BY <1>1, <1>2 DEF ReminderNext, Next

\* The steps of the request but for the hour of decision.
RequestSteps == Requester \/ Creator \/ RaiseDispute \/ Sweeps \/ Staff \/ SearchTime

\* What a step of the request does to a review: it goes on with its clock and
\* its reshoot as they were, it begins with its clock at zero, or it ends, for
\* good or for the one reshoot.
LEMMA ReviewSteps ==
    ASSUME RequestSteps, TypeOK
    PROVE  /\ reshootUsed => reshootUsed'
           /\ status' = "REQUESTER_REVIEW" =>
                  clock'.review = 0 \/ (status' = status /\ clock'.review = clock.review)
           /\ status' # status /\ status = "REQUESTER_REVIEW" =>
                  reshootUsed' \/ status' \in {"ACCEPTED", "COMPLETED", "REJECTED", "DISPUTED"}
           /\ status' # status /\ status \in {"ACCEPTED", "COMPLETED", "REJECTED", "DISPUTED"} =>
                  status' = "DISPUTED"
<1> USE DEF OnlyStatus, OnlyRequest, NoDispute, OnlyClock, request, TypeOK, Clocks
<1>1. CASE Requester
  <2>1. ASSUME NEW k \in Kinds, NEW m \in Modes, NEW a \in Amounts, Create(k, m, a)
        PROVE  status = "NONE" /\ status' # "REQUESTER_REVIEW" /\ reshootUsed' = reshootUsed
      BY <2>1 DEF Create, PublishedStatus
  <2>2. ASSUME NEW a \in Amounts, Update(a)
        PROVE  status' = status /\ clock' = clock /\ reshootUsed' = reshootUsed
      BY <2>2 DEF Update
  <2>3. CASE Cancel
      BY <2>3, CancelSources DEF Cancel
  <2>4. CASE AcceptVideo \/ RequestReshoot \/ Reject
      BY <2>4 DEF AcceptVideo, RequestReshoot, Reject
  <2>5. QED
      BY <1>1, <2>1, <2>2, <2>3, <2>4 DEF Requester
<1>2. CASE Creator
  <2>1. ASSUME NEW c \in Creators, Accept(c)
        PROVE  status = "PUBLISHED" /\ status' = "CREATOR_ASSIGNED" /\ reshootUsed' = reshootUsed
      BY <2>1 DEF Accept, AssignTo
  <2>2. CASE StartRecording \/ CompleteUpload \/ DeleteDraft
      BY <2>2 DEF StartRecording, CompleteUpload, DeleteDraft
  <2>3. QED
      BY <1>2, <2>1, <2>2 DEF Creator
<1>3. CASE OpenDispute
    BY <1>3 DEF OpenDispute
<1>4. CASE Sweeps
  <2>1. ASSUME NEW c \in Creators, CloseWindowWinner(c)
        PROVE  status = "MATCHING_WINDOW" /\ status' = "CREATOR_ASSIGNED" /\ reshootUsed' = reshootUsed
      BY <2>1 DEF CloseWindowWinner, AssignTo
  <2>2. CASE TimerSweep \/ CloseWindowFallback \/ PublishDueScheduled \/ ExpireSweep
      BY <2>2 DEF TimerSweep, CloseWindowFallback, PublishDueScheduled, ExpireSweep
  <2>3. CASE AutoAccept
      BY <2>3 DEF AutoAccept, AcceptVideo
  <2>4. QED
      BY <1>4, <2>1, <2>2, <2>3 DEF Sweeps, CloseWindow
<1>5. CASE Staff
  <2>1. CASE ApproveVideo \/ RejectVideo \/ ApproveRequest \/ RejectRequest
      BY <2>1 DEF ApproveVideo, RejectVideo, ApproveRequest, RejectRequest, PublishedStatus
  <2>2. CASE EscalateVideo
      BY <1>3, <2>2 DEF EscalateVideo
  <2>3. CASE ToggleModeration \/ AdminRelease \/ AdminRefund \/ AdminAssign \/ AdminClose \/ AdminReopen
      BY <2>3 DEF ToggleModeration, AdminRelease, AdminRefund, AdminAssign, AdminClose,
                  AdminReopen, SetDisputeStatus
  <2>4. ASSUME NEW a \in PartialRefunds, AdminPartialRefund(a)
        PROVE  UNCHANGED <<request, clock>>
      BY <2>4 DEF AdminPartialRefund
  <2>5. ASSUME NEW r \in Resolutions, NEW p \in Percents, AdminResolve(r, p)
        PROVE  UNCHANGED <<request, clock>>
      BY <2>5 DEF AdminResolve
  <2>6. QED
      BY <1>5, <2>1, <2>2, <2>3, <2>4, <2>5 DEF Staff
<1>6. CASE SearchTime
    BY <1>6 DEF SearchTime, ReachSchedule, ReachExpiry, TimerLapses, WindowLapses
<1>7. QED
    BY <1>1, <1>2, <1>3, <1>4, <1>5, <1>6 DEF RequestSteps, RaiseDispute

LEMMA ReminderStep ==
    ASSUME ReminderInv, [ReminderNext]_reminderVars
    PROVE  ReminderInv'
<1> USE DEF ReminderInv, WarningSpent, DecisionAnnounced
<1>1. TypeOK'
  <2>1. CASE Next
      BY <2>1, TypeStep
  <2>2. CASE UNCHANGED vars
      BY <2>2 DEF vars, request, money, TypeOK
  <2>3. QED
      BY <2>1, <2>2, ReminderStepIsStep
<1>2. CASE RequestSteps /\ KeepTime
    BY <1>1, <1>2, ReviewSteps DEF KeepTime, stage
<1>3. CASE DecisionDue
  <2>1. /\ status' = status /\ reshootUsed' = reshootUsed /\ status = "REQUESTER_REVIEW"
        /\ UNCHANGED <<sent, warned, away>> /\ waited = 2
      BY <1>3 DEF DecisionDue, ReviewAges, OnlyClock, request, KeepTime, stage
  <2>2. away \/ "warning" \in sent
      BY <1>3, <2>1 DEF DecisionDue, SweptMeanwhile, Unsent, AutoAcceptWarningCandidate
  <2>3. QED
      BY <1>1, <2>1, <2>2
<1>4. CASE ReminderSweeps \/ StageAges \/ ServerAway
  <2>1. UNCHANGED vars
      BY <1>4 DEF ReminderSweeps, RemindStalledRecordings, RemindPendingReviews,
         RemindMissingRatings, RunWarningSweep, OnlyStamp, StageAges, ServerAway
  <2>2. /\ sent \subseteq sent' /\ (warned => warned') /\ (away => away')
        /\ "warning" \in sent' => warned' \/ "warning" \in sent
        /\ warned' => warned \/ status = "REQUESTER_REVIEW"
      BY <1>4 DEF ReminderSweeps, RemindStalledRecordings, RemindPendingReviews,
         RemindMissingRatings, RunWarningSweep, AutoAcceptWarningCandidate, OnlyStamp,
         StageAges, ServerAway
  <2>3. QED
      BY <1>1, <2>1, <2>2 DEF vars, request
<1>5. CASE UNCHANGED reminderVars
    BY <1>1, <1>5 DEF reminderVars, stage, vars, request
<1>6. QED
    BY <1>2, <1>3, <1>4, <1>5 DEF ReminderNext, RequestSteps

\* The reminders implement RequestLifecycle: whatever holds of the request
\* without them holds with them.
THEOREM RemindersOnlyTell == ReminderSpec => Spec
<1>1. ReminderInit => Init
    BY DEF ReminderInit
<1>2. QED
    BY <1>1, ReminderStepIsStep, PTL DEF ReminderSpec, Spec

\* A review decided by the clock was announced to its requester, unless the
\* server was away or the row's one warning went to the first of two reviews
\* (requesterReviewAutoAcceptJob).
THEOREM DecisionsAreAnnounced == ReminderSpec => WarnedFirst
<1> DEFINE Announced ==
        AutoAccept => warned \/ away \/ (reshootUsed /\ "warning" \in sent)
<1>1. ReminderInit => ReminderInv
    BY InitType DEF ReminderInit, ReminderInv, WarningSpent, DecisionAnnounced, Init
<1>2. ReminderInv => Announced
    BY DEF ReminderInv, DecisionAnnounced, AutoAccept, AcceptVideo
<1>3. QED
    BY <1>1, <1>2, ReminderStep, PTL DEF ReminderSpec, WarnedFirst

-----------------------------------------------------------------------------
(* Handlers that are cut: the inductive invariant.                         *)

\* The most one settlement can pay a creator in Credit mode.
Most == IF reward > Reward THEN reward ELSE Reward

\* As long as the escrow is reserved, one more settlement may follow: what the
\* cuts have paid out of it leaves room for that.
CreditBounds ==
    Currency = "CREDIT" =>
        /\ net.requester <= faults * reward
        /\ net.creators <= (faults + 1) * Most
        /\ escrow.state = "RESERVED" =>
               /\ escrow.locked = reward /\ escrow.earnings = Reward
               /\ net.requester + reward <= faults * reward
               /\ net.creators <= faults * Most

\* Nothing has moved before the row is there, no creator ever pays, and a
\* requester owes no more than the reserved escrow will give back.
MoneyFlow ==
    /\ status = "NONE" => net.requester = 0 /\ net.creators = 0 /\ escrow.state # "RESERVED"
    /\ net.creators >= 0
    /\ escrow.state = "RESERVED" => net.requester + escrow.locked >= 0

\* ClosedNeverShort, and that a completed request's escrow is out of reach of
\* everything but a resolution.
ClosedPaid ==
    /\ status = "CANCELLED" => net.requester >= 0
    /\ status = "COMPLETED" /\ dispute.status \in {"NONE", "OPEN"} =>
           /\ escrow.state = "RELEASED"
           /\ net.creators >= escrow.earnings /\ net.payee = creator

FaultInv == TypeOK /\ faults \in Nat /\ MoneyFlow /\ CreditBounds /\ ClosedPaid

-----------------------------------------------------------------------------
(* What a step may do to the money, the status and the row.                *)

\* The row is created: with its escrow, with half of it, or without.
Opened ==
    /\ status = "NONE" /\ status' # "NONE" /\ reward' \in Amounts
    /\ \/ Reserve(reward')
       \/ net' = [net EXCEPT !.requester = @ - reward'] /\ escrow' = escrow
       \/ UNCHANGED money

Settled == (Release \/ Refund) /\ reward' = reward

SplitUp == reward' = reward /\ \E a \in PartialRefunds : AdminPartialRefund(a)

\* Half a settlement: somebody is paid and the escrow still reserved.
HalfSettled ==
    /\ Currency = "CREDIT" /\ reward' = reward /\ escrow' = escrow
    /\ \/ CreditWithoutRefund \/ CreditWithoutRelease
       \/ \E a \in PartialRefunds : PartialRefundInterrupted(a)

Rested ==
    /\ net' = net /\ (reward' = reward \/ Currency = "INR")
    /\ \/ escrow' = escrow
       \/ escrow.state = "RESERVED" /\ escrow'.state # "RESERVED"
       \/ dispute'.status = "RESOLVED" /\ escrow'.state # "RESERVED"

MoneyEffect == Opened \/ Settled \/ SplitUp \/ Rested

StatusEffect ==
    \/ status' = "CANCELLED" /\ Refund
    \/ status' = "COMPLETED" /\ Release /\ creator' = creator
    \/ status' \notin {"CANCELLED", "COMPLETED"}
    \/ /\ status' = status /\ creator' = creator
       /\ dispute'.status \in {"NONE", "OPEN"} => dispute.status \in {"NONE", "OPEN"}

\* A row never goes away.
RowStays == status' = "NONE" => status = "NONE"

LEMMA NextEffects ==
    ASSUME TypeOK, Next
    PROVE  MoneyEffect /\ StatusEffect /\ RowStays
<1> USE DEF OnlyStatus, OnlyRequest, NoDispute, OnlyClock, request, money,
            MoneyEffect, StatusEffect, RowStays
<1>1. CASE Requester
  <2>1. ASSUME NEW k \in Kinds, NEW m \in Modes, NEW a \in Amounts, Create(k, m, a)
        PROVE  MoneyEffect /\ StatusEffect /\ RowStays
        BY <2>1 DEF Create, PublishedStatus, Opened
  <2>2. ASSUME NEW a \in Amounts, Update(a)
        PROVE  MoneyEffect /\ StatusEffect /\ RowStays
        BY <2>2 DEF Update, Rested
  <2>3. CASE Cancel \/ Reject \/ AcceptVideo
        BY <2>3 DEF Cancel, Reject, AcceptVideo, Settled, Rested
  <2>4. CASE RequestReshoot
        BY <2>4 DEF RequestReshoot, Rested
  <2>5. QED
        BY <1>1, <2>1, <2>2, <2>3, <2>4 DEF Requester
<1>2. CASE Creator
  <2>1. ASSUME NEW c \in Creators, Accept(c)
        PROVE  MoneyEffect /\ StatusEffect /\ RowStays
        BY <2>1 DEF Accept, AssignTo, Rested
  <2>2. CASE StartRecording \/ CompleteUpload \/ DeleteDraft
        BY <2>2 DEF StartRecording, CompleteUpload, AfterUpload, DeleteDraft, Rested
  <2>3. QED
        BY <1>2, <2>1, <2>2 DEF Creator
<1>3. CASE RaiseDispute
    BY <1>3 DEF RaiseDispute, OpenDispute, Freeze, Rested
<1>4. CASE Sweeps
  <2>1. CASE TimerSweep \/ PublishDueScheduled \/ CloseWindowFallback
        BY <2>1 DEF TimerSweep, PublishDueScheduled, CloseWindowFallback, Rested
  <2>2. ASSUME NEW c \in Creators, CloseWindowWinner(c)
        PROVE  MoneyEffect /\ StatusEffect /\ RowStays
        BY <2>2 DEF CloseWindowWinner, AssignTo, Rested
  <2>3. CASE ExpireSweep \/ AutoAccept
        BY <2>3 DEF ExpireSweep, AutoAccept, AcceptVideo, Settled, Rested
  <2>4. QED
        BY <1>4, <2>1, <2>2, <2>3 DEF Sweeps, CloseWindow
<1>5. CASE Staff
  <2>1. CASE ApproveVideo \/ RejectVideo \/ ApproveRequest \/ ToggleModeration
        BY <2>1 DEF ApproveVideo, RejectVideo, ApproveRequest, PublishedStatus,
                    ToggleModeration, Rested
  <2>2. CASE EscalateVideo
        BY <2>2 DEF EscalateVideo, OpenDispute, Freeze, Rested
  <2>3. CASE RejectRequest
        BY <2>3 DEF RejectRequest, Settled, Rested
  <2>4. CASE AdminRelease \/ AdminRefund
        BY <2>4 DEF AdminRelease, AdminRefund, Settled
  <2>5. ASSUME NEW a \in PartialRefunds, AdminPartialRefund(a)
        PROVE  MoneyEffect /\ StatusEffect /\ RowStays
    <3>1. UNCHANGED <<request, dispute>>
        BY <2>5 DEF AdminPartialRefund
    <3>2. QED
        BY <2>5, <3>1 DEF SplitUp
  <2>6. CASE AdminAssign \/ AdminClose \/ AdminReopen
    <3>1. UNCHANGED <<request, money>> /\ dispute'.status \in {"UNDER_REVIEW", "CLOSED", "REOPENED"}
        BY <2>6 DEF AdminAssign, AdminClose, AdminReopen, SetDisputeStatus, TypeOK
    <3>2. QED
        BY <3>1 DEF Rested
  <2>7. ASSUME NEW r \in Resolutions, NEW p \in Percents, AdminResolve(r, p)
        PROVE  MoneyEffect /\ StatusEffect /\ RowStays
    <3>1. UNCHANGED request
        BY <2>7 DEF AdminResolve
    <3>2. net' = net /\ dispute'.status = "RESOLVED" /\ escrow'.state # "RESERVED"
        BY <2>7, ResolveEffect
    <3>3. QED
        BY <3>1, <3>2 DEF Rested
  <2>8. QED
        BY <1>5, <2>1, <2>2, <2>3, <2>4, <2>5, <2>6, <2>7 DEF Staff
<1>6. CASE Time
    BY <1>6 DEF Time, ReachSchedule, ReachExpiry, TimerLapses, WindowLapses, ReviewAges, Rested
<1>7. QED
    BY <1>1, <1>2, <1>3, <1>4, <1>5, <1>6 DEF Next

LEMMA CutEffects ==
    ASSUME TypeOK, Interrupted
    PROVE  (MoneyEffect \/ HalfSettled) /\ StatusEffect /\ RowStays
<1> USE DEF OnlyStatus, OnlyRequest, NoDispute, request, money,
            MoneyEffect, StatusEffect, RowStays
<1>1. ASSUME NEW k \in Kinds, NEW m \in Modes, NEW a \in Amounts, CreateInterrupted(k, m, a)
      PROVE  Opened /\ StatusEffect /\ RowStays
  <2>1. status = "NONE" /\ reward' = a /\ status' \in {"DRAFT", "PUBLISHED"}
    BY <1>1 DEF CreateInterrupted
  <2>2. \/ Reserve(a) \/ UNCHANGED money
        \/ net' = [net EXCEPT !.requester = @ - a] /\ escrow' = escrow
    BY <1>1 DEF CreateInterrupted
  <2>3. QED
    BY <2>1, <2>2 DEF Opened
<1>2. ASSUME NEW a \in PartialRefunds, PartialRefundInterrupted(a)
      PROVE  HalfSettled /\ StatusEffect /\ RowStays
  <2>1. Currency = "CREDIT" /\ UNCHANGED <<request, escrow, dispute>>
    BY <1>2 DEF PartialRefundInterrupted
  <2>2. QED
    BY <1>2, <2>1 DEF HalfSettled
<1>3. CASE CloseInterrupted \/ OverrideInterrupted
    BY <1>3 DEF CloseInterrupted, OverrideInterrupted, CreditWithoutRefund, CreditWithoutRelease,
                Settled, HalfSettled
<1>4. CASE ExpireInterrupted \/ RejectRequestInterrupted
    BY <1>4 DEF ExpireInterrupted, RejectRequestInterrupted, CreditWithoutRefund, Settled, Rested,
                HalfSettled
<1>5. CASE ApproveRequestInterrupted \/ CompleteUploadInterrupted
    BY <1>5 DEF ApproveRequestInterrupted, CompleteUploadInterrupted, Rested
<1>6. CASE AcceptVideoInterrupted
    BY <1>6 DEF AcceptVideoInterrupted, CreditWithoutRelease, Settled, Rested, HalfSettled
<1>7. CASE OpenDisputeInterrupted
  <2>1. UNCHANGED request /\ dispute.status = "NONE" /\ (Freeze \/ UNCHANGED money)
    BY <1>7 DEF OpenDisputeInterrupted
  <2>2. net' = net /\ (escrow' = escrow \/ (escrow.state = "RESERVED" /\ escrow'.state = "FROZEN"))
    BY <2>1 DEF Freeze, TypeOK
  <2>3. QED
    BY <2>1, <2>2 DEF Rested
<1>8. QED
    BY <1>1, <1>2, <1>3, <1>4, <1>5, <1>6, <1>7 DEF Interrupted

-----------------------------------------------------------------------------
(* Types.                                                                  *)

\* Half a settlement pays one party something and leaves the escrow alone.
LEMMA HalfEffect ==
    ASSUME TypeOK, HalfSettled
    PROVE  /\ Currency = "CREDIT" /\ escrow.state = "RESERVED" /\ escrow' = escrow
           /\ reward' = reward
           /\ net' \in [requester : Int, creators : Int, payee : Creators \cup {None}]
           /\ net'.requester >= net.requester /\ net'.creators >= net.creators
           /\ \/ /\ net'.requester = net.requester + escrow.locked
                 /\ net'.creators = net.creators
              \/ /\ net'.requester = net.requester
                 /\ net'.creators = net.creators + escrow.earnings
              \/ /\ net'.requester <= net.requester + escrow.locked
                 /\ net'.creators <= net.creators + escrow.locked
<1>1. Currency = "CREDIT" /\ escrow' = escrow /\ reward' = reward
  BY DEF HalfSettled
<1>2. CASE CreditWithoutRefund
  BY <1>1, <1>2 DEF CreditWithoutRefund, CanRefund, TypeOK
<1>3. CASE CreditWithoutRelease
  <2>1. escrow.state = "RESERVED"
        /\ net' = [net EXCEPT !.creators = @ + escrow.earnings, !.payee = creator]
    BY <1>3 DEF CreditWithoutRelease, CanRelease
  <2>2. net' = [requester |-> net.requester, creators |-> net.creators + escrow.earnings,
                payee |-> creator]
    BY <2>1 DEF TypeOK
  <2>3. QED
    BY <1>1, <2>1, <2>2 DEF TypeOK
<1>4. ASSUME NEW a \in PartialRefunds, PartialRefundInterrupted(a)
      PROVE  /\ escrow.state = "RESERVED"
             /\ net' \in [requester : Int, creators : Int, payee : Creators \cup {None}]
             /\ net'.requester \in net.requester .. net.requester + escrow.locked
             /\ net'.creators \in net.creators .. net.creators + escrow.locked
  <2>. DEFINE earned == EarningsOf(escrow.locked - a)
  <2>1. escrow.locked \in Nat /\ net.requester \in Int /\ net.creators \in Int
    BY DEF TypeOK
  <2>2. a \in Nat /\ a < escrow.locked /\ escrow.state = "RESERVED"
    BY <1>4, PartialRefundsAssumption DEF PartialRefundInterrupted, CanRelease
  <2>3. earned \in 0 .. escrow.locked - a
    BY <2>1, <2>2, EarningsBounds
  <2>4. \/ net' = [net EXCEPT !.requester = @ + a]
        \/ net' = [net EXCEPT !.requester = @ + a, !.payee = creator, !.creators = @ + earned]
    BY <1>4 DEF PartialRefundInterrupted
  <2>. HIDE DEF earned
  <2>5. \/ net' = [requester |-> net.requester + a, creators |-> net.creators, payee |-> net.payee]
        \/ net' = [requester |-> net.requester + a, creators |-> net.creators + earned,
                   payee |-> creator]
    BY <2>4 DEF TypeOK
  <2>6. creator \in Creators \cup {None} /\ net.payee \in Creators \cup {None}
    BY DEF TypeOK
  <2>7. QED
    BY <2>1, <2>2, <2>3, <2>5, <2>6
<1>5. CASE \E a \in PartialRefunds : PartialRefundInterrupted(a)
  <2>1. net.requester \in Int /\ net.creators \in Int /\ escrow.locked \in Nat
    BY DEF TypeOK
  <2>2. QED
    BY <1>1, <1>4, <1>5, <2>1
<1>6. QED
  BY <1>2, <1>3, <1>5 DEF HalfSettled

\* Every cut keeps the types.
LEMMA CutType ==
    ASSUME TypeOK, Interrupted
    PROVE  TypeOK'
<1> USE DEF OnlyStatus, OnlyRequest, NoDispute, request, money
<1>0. RowType /\ MoneyType /\ DisputeType /\ OtherType
    BY TypeParts
<1>1. ASSUME NEW k \in Kinds, NEW m \in Modes, NEW a \in Amounts, CreateInterrupted(k, m, a)
      PROVE  TypeOK'
  <2>1. a \in Nat
    BY AmountsAssumption
  <2>2. MoneyType'
    <3>1. CASE Reserve(a)
      BY <1>0, <2>1, <3>1, ReserveType
    <3>2. CASE net' = [net EXCEPT !.requester = @ - a] /\ escrow' = escrow
      BY <1>0, <2>1, <3>2 DEF MoneyType
    <3>3. CASE UNCHANGED money
      BY <1>0, <3>3 DEF MoneyType
    <3>4. QED
      BY <1>1, <3>1, <3>2, <3>3 DEF CreateInterrupted
  <2>3. RowType' /\ OtherType'
    BY <1>0, <1>1, <2>1 DEF CreateInterrupted, RowType, OtherType, Clocks, Statuses
  <2>4. DisputeType'
    BY <1>0, <1>1 DEF CreateInterrupted, DisputeType
  <2>5. QED
    BY <2>2, <2>3, <2>4 DEF TypeOK, RowType, MoneyType, EscrowRows, DisputeType, OtherType
<1>2. MoneyEffect \/ HalfSettled
  BY CutEffects
<1>3. HalfSettled => MoneyType'
  BY <1>0, HalfEffect DEF MoneyType
<1>4. Refund \/ Release \/ UNCHANGED money \/ Freeze => MoneyType'
  BY <1>0, RefundType, ReleaseType, FreezeType DEF MoneyType
<1>5. ASSUME MoneyType', RowType', OtherType', UNCHANGED <<adjust, dispute>>
      PROVE  TypeOK'
  BY <1>0, <1>5 DEF TypeOK, RowType, MoneyType, EscrowRows, DisputeType, OtherType
<1>6. ASSUME NEW a \in PartialRefunds, PartialRefundInterrupted(a)
      PROVE  TypeOK'
  <2>1. HalfSettled
    BY <1>6 DEF PartialRefundInterrupted, HalfSettled
  <2>2. RowType' /\ OtherType' /\ UNCHANGED <<adjust, dispute>>
    BY <1>0, <1>6 DEF PartialRefundInterrupted, RowType, OtherType
  <2>3. QED
    BY <1>3, <1>5, <2>1, <2>2
<1>7. CASE CloseInterrupted \/ OverrideInterrupted
  <2>1. Refund \/ HalfSettled
    BY <1>7 DEF CloseInterrupted, OverrideInterrupted, CreditWithoutRefund, CreditWithoutRelease,
                HalfSettled
  <2>2. RowType' /\ OtherType' /\ UNCHANGED <<adjust, dispute>>
    BY <1>0, <1>7 DEF CloseInterrupted, OverrideInterrupted, RowType, OtherType
  <2>3. QED
    BY <1>3, <1>4, <1>5, <2>1, <2>2
<1>8. CASE ExpireInterrupted \/ RejectRequestInterrupted
  <2>1. Refund \/ UNCHANGED money \/ HalfSettled
    BY <1>8 DEF ExpireInterrupted, RejectRequestInterrupted, CreditWithoutRefund, HalfSettled
  <2>2. RowType' /\ OtherType' /\ UNCHANGED <<adjust, dispute>>
    BY <1>0, <1>8 DEF ExpireInterrupted, RejectRequestInterrupted, RowType, OtherType, Statuses,
       Clocks
  <2>3. QED
    BY <1>3, <1>4, <1>5, <2>1, <2>2
<1>9. CASE ApproveRequestInterrupted \/ CompleteUploadInterrupted \/ AcceptVideoInterrupted
  <2>1. Release \/ UNCHANGED money \/ HalfSettled
    BY <1>9 DEF ApproveRequestInterrupted, CompleteUploadInterrupted, AcceptVideoInterrupted,
       CreditWithoutRelease, HalfSettled
  <2>2. RowType' /\ OtherType' /\ UNCHANGED <<adjust, dispute>>
    BY <1>0, <1>9 DEF ApproveRequestInterrupted, CompleteUploadInterrupted, AcceptVideoInterrupted,
       RowType, OtherType, Statuses
  <2>3. QED
    BY <1>3, <1>4, <1>5, <2>1, <2>2
<1>10. CASE OpenDisputeInterrupted
  <2>1. MoneyType'
    BY <1>4, <1>10 DEF OpenDisputeInterrupted
  <2>2. RowType' /\ OtherType'
    BY <1>0, <1>10 DEF OpenDisputeInterrupted, RowType, OtherType
  <2>3. DisputeType'
    BY <1>0, <1>10 DEF OpenDisputeInterrupted, DisputeType, DisputeStatuses, MoneyType, EscrowRows
  <2>4. QED
    BY <2>1, <2>2, <2>3 DEF TypeOK, RowType, MoneyType, EscrowRows, DisputeType, OtherType
<1>11. QED
  BY <1>1, <1>6, <1>7, <1>8, <1>9, <1>10 DEF Interrupted

-----------------------------------------------------------------------------
(* The money.                                                              *)

\* One more cut is worth one more amount.
LEMMA OneMore ==
    ASSUME NEW n \in Nat, NEW amount \in Nat
    PROVE  /\ n * amount \in Nat /\ (n + 1) * amount = n * amount + amount
           /\ (n + 1) * amount \in Nat
BY SMTT(30)

\* What the effects of a reservation are in either currency.
LEMMA OpenEffect ==
    ASSUME TypeOK, Opened
    PROVE  /\ reward' \in Nat
           /\ \/ escrow' = escrow
              \/ /\ escrow'.state = "RESERVED" /\ escrow'.locked = reward'
                 /\ net'.requester = net.requester - reward'
                 /\ Currency = "CREDIT" => escrow'.earnings = Reward
           /\ net'.requester \in {net.requester, net.requester - reward'}
           /\ net'.creators = net.creators
<1>1. reward' \in Nat
  BY AmountsAssumption DEF Opened
<1>2. CASE Reserve(reward')
  BY <1>1, <1>2 DEF Reserve, TypeOK
<1>3. CASE net' = [net EXCEPT !.requester = @ - reward'] /\ escrow' = escrow
  BY <1>1, <1>3 DEF TypeOK
<1>4. CASE UNCHANGED money
  BY <1>1, <1>4 DEF money
<1>5. QED
  BY <1>2, <1>3, <1>4 DEF Opened

\* What a settlement moves: the locked amount back, or the earnings out, or a
\* part of the locked amount to each.  The escrow is reserved before and never
\* after.
LEMMA SettleEffect ==
    ASSUME TypeOK, Settled \/ SplitUp
    PROVE  /\ reward' = reward
           /\ escrow.state = "RESERVED" /\ escrow'.state # "RESERVED"
           /\ \/ /\ net'.requester = net.requester + escrow.locked
                 /\ net'.creators = net.creators
              \/ /\ net'.requester = net.requester
                 /\ net'.creators = net.creators + escrow.earnings
              \/ /\ net'.requester \in net.requester .. net.requester + escrow.locked
                 /\ net'.creators \in net.creators .. net.creators + escrow.locked
<1>1. CASE Refund /\ reward' = reward
  BY <1>1 DEF Refund, CanRefund, TypeOK
<1>2. CASE Release /\ reward' = reward
  BY <1>2 DEF Release, CanRelease, TypeOK
<1>3. ASSUME NEW a \in PartialRefunds, AdminPartialRefund(a), reward' = reward
      PROVE  /\ escrow.state = "RESERVED" /\ escrow'.state # "RESERVED"
             /\ net'.requester \in net.requester .. net.requester + escrow.locked
             /\ net'.creators \in net.creators .. net.creators + escrow.locked
  <2>. DEFINE earned == EarningsOf(escrow.locked - a)
  <2>1. escrow.locked \in Nat /\ net.requester \in Int /\ net.creators \in Int
    BY DEF TypeOK
  <2>2. a \in Nat /\ a < escrow.locked /\ escrow.state = "RESERVED"
    BY <1>3, PartialRefundsAssumption DEF AdminPartialRefund, CanRelease
  <2>3. earned \in 0 .. escrow.locked - a
    BY <2>1, <2>2, EarningsBounds
  <2>4. /\ escrow' = [escrow EXCEPT !.state = "SPLIT", !.refunded = a, !.earnings = earned,
                                    !.commission = CommissionOf(escrow.locked - a)]
        /\ net' = [net EXCEPT !.requester = @ + a, !.creators = @ + earned, !.payee = creator]
    BY <1>3 DEF AdminPartialRefund
  <2>. HIDE DEF earned
  <2>5. /\ escrow'.state = "SPLIT"
        /\ net'.requester = net.requester + a /\ net'.creators = net.creators + earned
    BY <2>4 DEF TypeOK
  <2>6. QED
    BY <2>1, <2>2, <2>3, <2>5
<1>4. QED
  BY <1>1, <1>2, <1>3 DEF Settled, SplitUp

LEMMA FlowStep ==
    ASSUME FaultInv, MoneyEffect \/ HalfSettled, RowStays
    PROVE  MoneyFlow'
<1>0. /\ TypeOK /\ escrow.locked \in Nat /\ escrow.earnings \in Nat
      /\ net.requester \in Int /\ net.creators \in Int
  BY DEF FaultInv, TypeOK
<1>1. CASE Opened
  <2>1. status' # "NONE" /\ net.requester = 0 /\ net.creators = 0 /\ escrow.state # "RESERVED"
    BY <1>1 DEF Opened, FaultInv, MoneyFlow
  <2>2. QED
    BY <1>0, <1>1, <2>1, OpenEffect DEF MoneyFlow
<1>2. CASE Settled \/ SplitUp
  <2>1. escrow.state = "RESERVED" /\ escrow'.state # "RESERVED" /\ net'.creators >= net.creators
    BY <1>0, <1>2, SettleEffect
  <2>2. net'.creators \in Int
    BY <1>0, <1>2, SettleEffect
  <2>3. QED
    BY <1>0, <2>1, <2>2 DEF FaultInv, MoneyFlow, RowStays
<1>3. CASE HalfSettled
  <2>1. /\ escrow.state = "RESERVED" /\ escrow' = escrow
        /\ net'.requester \in Int /\ net'.creators \in Int
        /\ net'.requester >= net.requester /\ net'.creators >= net.creators
    BY <1>0, <1>3, HalfEffect
  <2>2. QED
    BY <1>0, <2>1 DEF FaultInv, MoneyFlow, RowStays
<1>4. CASE Rested
  BY <1>0, <1>4 DEF Rested, FaultInv, MoneyFlow, RowStays
<1>5. QED
  BY <1>1, <1>2, <1>3, <1>4 DEF MoneyEffect

LEMMA BoundsStep ==
    ASSUME FaultInv, reward' \in Nat,
           \/ MoneyEffect /\ faults' \in {faults, faults + 1}
           \/ HalfSettled /\ faults' = faults + 1
    PROVE  CreditBounds'
<1>. SUFFICES ASSUME Currency = "CREDIT"
              PROVE  CreditBounds'
  BY DEF CreditBounds
<1>0. /\ TypeOK /\ escrow.locked \in Nat /\ escrow.earnings \in Nat
      /\ net.requester \in Int /\ net.creators \in Int
      /\ faults \in Nat /\ reward \in Nat
  BY DEF FaultInv, TypeOK
<1>1. faults' \in Nat /\ faults' \in {faults, faults + 1}
  BY <1>0
<1>2. Most \in Nat /\ Most' \in Nat
  BY <1>0, RewardAssumption DEF Most
<1>3. Most >= reward /\ Most >= Reward
  BY <1>0, RewardAssumption DEF Most
<1>4. /\ faults * reward \in Nat /\ (faults + 1) * reward = faults * reward + reward
      /\ faults * Most \in Nat /\ (faults + 1) * Most = faults * Most + Most
      /\ (faults + 1 + 1) * Most = (faults + 1) * Most + Most
  BY <1>0, <1>2, OneMore
<1>5. /\ faults' * reward' \in Nat /\ faults' * Most' \in Nat /\ (faults' + 1) * Most' \in Nat
  BY <1>1, <1>2, OneMore
<1>6. /\ net.requester <= faults * reward /\ net.creators <= (faults + 1) * Most
      /\ escrow.state = "RESERVED" =>
             /\ escrow.locked = reward /\ escrow.earnings = Reward
             /\ net.requester + reward <= faults * reward
             /\ net.creators <= faults * Most
  BY DEF FaultInv, CreditBounds
<1>7. CASE Opened
  <2>1. net.requester = 0 /\ net.creators = 0 /\ escrow.state # "RESERVED"
    BY <1>7 DEF Opened, FaultInv, MoneyFlow
  <2>2. QED
    BY <1>0, <1>5, <1>7, <2>1, OpenEffect DEF CreditBounds
<1>8. ASSUME reward' = reward
      PROVE  /\ faults' * reward' \in {faults * reward, faults * reward + reward}
             /\ faults' * Most' \in {faults * Most, faults * Most + Most}
             /\ (faults' + 1) * Most' \in {faults * Most + Most, faults * Most + Most + Most}
             /\ faults' = faults + 1 => /\ faults' * reward' = faults * reward + reward
                                       /\ faults' * Most' = faults * Most + Most
                                       /\ (faults' + 1) * Most' = faults * Most + Most + Most
  <2>1. Most' = Most
    BY <1>8 DEF Most
  <2>2. QED
    BY <1>1, <1>4, <1>8, <2>1
<1>9. CASE Settled \/ SplitUp
  <2>1. reward' = reward /\ escrow.state = "RESERVED" /\ escrow'.state # "RESERVED"
    BY <1>0, <1>9, SettleEffect
  <2>2. /\ net'.requester <= faults * reward
        /\ net'.creators <= faults * Most + Most
    <3>. HIDE DEF Most
    <3>1. QED
      BY <1>0, <1>2, <1>3, <1>4, <1>6, <1>9, <2>1, SettleEffect, RewardAssumption
  <2>3. net'.requester \in Int /\ net'.creators \in Int
    BY <1>0, <1>9, SettleEffect
  <2>4. net'.requester <= faults' * reward' /\ net'.creators <= (faults' + 1) * Most'
    BY <1>0, <1>2, <1>4, <1>8, <2>1, <2>2, <2>3
  <2>5. QED
    BY <2>1, <2>4 DEF CreditBounds
<1>10. CASE HalfSettled /\ faults' = faults + 1
  <2>1. /\ escrow.state = "RESERVED" /\ escrow' = escrow /\ reward' = reward
        /\ net'.requester \in Int /\ net'.creators \in Int
    BY <1>0, <1>10, HalfEffect
  <2>2. /\ net'.requester <= net.requester + reward
        /\ net'.creators <= net.creators + Most
    <3>. HIDE DEF Most
    <3>1. QED
      BY <1>0, <1>2, <1>3, <1>6, <1>10, <2>1, HalfEffect, RewardAssumption
  <2>3. /\ net'.requester + reward <= faults' * reward'
        /\ net'.creators <= faults' * Most'
        /\ net'.creators <= (faults' + 1) * Most'
    <3>. DEFINE owed == faults * reward
                most == faults * Most
    <3>1. owed \in Nat /\ most \in Nat
      BY <1>4
    <3>2. /\ faults' * reward' = owed + reward /\ faults' * Most' = most + Most
          /\ (faults' + 1) * Most' = most + Most + Most
      BY <1>8, <1>10, <2>1
    <3>3. net.requester + reward <= owed /\ net.creators <= most
      BY <1>6, <2>1
    <3>. HIDE DEF owed, most, Most
    <3>4. /\ net'.requester + reward <= owed + reward /\ net'.creators <= most + Most
          /\ net'.creators <= most + Most + Most
      BY <1>0, <1>2, <2>1, <2>2, <3>1, <3>3
    <3>5. QED
      BY <3>2, <3>4
  <2>4. net'.requester <= faults' * reward'
    BY <1>0, <1>5, <2>1, <2>3
  <2>5. QED
    BY <1>6, <2>1, <2>3, <2>4 DEF CreditBounds
<1>11. CASE Rested
  <2>1. /\ net' = net /\ reward' = reward
        /\ escrow'.state = "RESERVED" => escrow' = escrow
    BY <1>11, CurrencyAssumption DEF Rested
  <2>2. /\ net.requester <= faults' * reward'
        /\ net.creators <= (faults' + 1) * Most'
        /\ escrow.state = "RESERVED" => /\ net.requester + reward <= faults' * reward'
                                        /\ net.creators <= faults' * Most'
    BY <1>0, <1>2, <1>4, <1>6, <1>8, <2>1
  <2>3. QED
    BY <1>6, <2>1, <2>2 DEF CreditBounds
<1>12. QED
  BY <1>7, <1>9, <1>10, <1>11 DEF MoneyEffect

\* A request that closes is paid for as it closes, and nothing takes that away.
LEMMA ClosedStep ==
    ASSUME FaultInv, MoneyEffect \/ HalfSettled, StatusEffect
    PROVE  ClosedPaid'
<1>0. /\ TypeOK /\ escrow.locked \in Nat /\ escrow.earnings \in Nat
      /\ net.requester \in Int /\ net.creators \in Int
  BY DEF FaultInv, TypeOK
<1>1. CASE status' = "CANCELLED" /\ Refund
  <2>1. escrow.state = "RESERVED" /\ net'.requester = net.requester + escrow.locked
    BY <1>0, <1>1 DEF Refund, CanRefund, TypeOK
  <2>2. QED
    BY <1>1, <2>1 DEF FaultInv, MoneyFlow, ClosedPaid
<1>2. CASE status' = "COMPLETED" /\ Release /\ creator' = creator
  <2>1. escrow' = [escrow EXCEPT !.state = "RELEASED"]
        /\ net' = [net EXCEPT !.creators = @ + escrow.earnings, !.payee = creator]
    BY <1>2 DEF Release
  <2>2. /\ escrow'.state = "RELEASED" /\ escrow'.earnings = escrow.earnings
        /\ net'.creators = net.creators + escrow.earnings /\ net'.payee = creator
    BY <1>0, <2>1 DEF TypeOK
  <2>3. net.creators >= 0
    BY DEF FaultInv, MoneyFlow
  <2>4. QED
    BY <1>0, <1>2, <2>2, <2>3 DEF ClosedPaid
<1>3. CASE status' \notin {"CANCELLED", "COMPLETED"}
  BY <1>3 DEF ClosedPaid
<1>4. CASE /\ status' = status /\ creator' = creator
           /\ dispute'.status \in {"NONE", "OPEN"} => dispute.status \in {"NONE", "OPEN"}
  <2>1. CASE Opened
    BY <1>4, <2>1 DEF Opened, ClosedPaid
  <2>2. CASE Settled \/ SplitUp
    <3>1. escrow.state = "RESERVED" /\ net'.requester \in Int /\ net'.requester >= net.requester
      BY <1>0, <2>2, SettleEffect
    <3>2. QED
      BY <1>0, <1>4, <3>1 DEF FaultInv, ClosedPaid
  <2>3. CASE HalfSettled
    <3>1. escrow.state = "RESERVED" /\ net'.requester \in Int /\ net'.requester >= net.requester
      BY <1>0, <2>3, HalfEffect
    <3>2. QED
      BY <1>0, <1>4, <3>1 DEF FaultInv, ClosedPaid
  <2>4. CASE Rested
    <3>1. escrow.state = "RELEASED" /\ dispute'.status \in {"NONE", "OPEN"} => escrow' = escrow
      BY <2>4 DEF Rested
    <3>2. QED
      BY <1>4, <2>4, <3>1 DEF FaultInv, ClosedPaid, Rested
  <2>5. QED
    BY <2>1, <2>2, <2>3, <2>4 DEF MoneyEffect
<1>5. QED
  BY <1>1, <1>2, <1>3, <1>4 DEF StatusEffect

-----------------------------------------------------------------------------
LEMMA FaultBegin ==
    ASSUME FaultInit
    PROVE  FaultInv
<1>1. TypeOK
  BY InitType DEF FaultInit
<1>2. faults = 0 /\ faults \in Nat /\ reward = 0 /\ net.requester = 0 /\ net.creators = 0
      /\ escrow.state = "NONE" /\ status = "NONE"
  BY DEF FaultInit, Init
<1>3. 0 * 0 = 0 /\ (0 + 1) * Most >= 0
  BY <1>2, RewardAssumption DEF Most
<1>4. QED
  BY <1>1, <1>2, <1>3 DEF FaultInv, MoneyFlow, CreditBounds, ClosedPaid

LEMMA FaultStep ==
    ASSUME FaultInv, [FaultNext]_faultVars
    PROVE  FaultInv'
<1>0. TypeOK /\ faults \in Nat
  BY DEF FaultInv
<1>1. CASE Next /\ UNCHANGED faults
  <2>1. TypeOK'
    BY <1>0, <1>1, TypeStep
  <2>2. MoneyEffect /\ StatusEffect /\ RowStays
    BY <1>0, <1>1, NextEffects
  <2>3. MoneyFlow' /\ ClosedPaid'
    BY <2>2, FlowStep, ClosedStep
  <2>4. CreditBounds'
    BY <1>1, <2>1, <2>2, BoundsStep DEF TypeOK
  <2>5. QED
    BY <1>0, <1>1, <2>1, <2>3, <2>4 DEF FaultInv
<1>2. CASE Cut
  <2>1. Interrupted /\ faults' = faults + 1
    BY <1>2 DEF Cut
  <2>2. TypeOK'
    BY <1>0, <2>1, CutType
  <2>3. (MoneyEffect \/ HalfSettled) /\ StatusEffect /\ RowStays
    BY <1>0, <2>1, CutEffects
  <2>4. MoneyFlow' /\ ClosedPaid'
    BY <2>3, FlowStep, ClosedStep
  <2>5. CreditBounds'
    BY <2>1, <2>2, <2>3, BoundsStep DEF TypeOK
  <2>6. QED
    BY <1>0, <2>1, <2>2, <2>4, <2>5 DEF FaultInv
<1>3. CASE UNCHANGED faultVars
  BY <1>3 DEF faultVars, vars, request, money, FaultInv, TypeOK, MoneyFlow, CreditBounds,
              ClosedPaid, Most
<1>4. QED
  BY <1>1, <1>2, <1>3 DEF FaultNext

\* However many handlers are cut between two writes, and wherever, the rows
\* stay well-formed, a reserved escrow always leaves room for the settlement
\* still to come, and a closed request stays paid for.
THEOREM FaultInvariance == FaultSpec => []FaultInv
<1>1. FaultInit => FaultInv
  BY FaultBegin
<1>2. FaultInv /\ [FaultNext]_faultVars => FaultInv'
  BY FaultStep
<1>3. QED
  BY <1>1, <1>2, PTL DEF FaultSpec

\* Refund before CANCELLED and release before PAYMENT_RELEASED: whichever
\* write a handler was cut at, and however often, a cancelled requester has
\* everything back and a completed request has paid its own creator
\* (requestService.cancel, requesterReviewService.acceptVideo).
THEOREM ClosedPaysInFull == FaultSpec => []ClosedNeverShort
<1>1. FaultInv => ClosedNeverShort
  BY DEF FaultInv, ClosedPaid, ClosedNeverShort
<1>2. QED
  BY <1>1, FaultInvariance, PTL

\* n cut handlers cost at most n duplicate payments, whatever the amounts: a
\* Credit-mode settlement cut between its ledger entry and its escrow row can
\* be repeated once per cut and no more (escrowService.release and refund).
THEOREM FaultsPayOnce == FaultSpec => []EachFaultPaysAtMostOnce
<1>1. FaultInv => EachFaultPaysAtMostOnce
  BY DEF FaultInv, CreditBounds, Most, EachFaultPaysAtMostOnce
<1>2. QED
  BY <1>1, FaultInvariance, PTL
=============================================================================

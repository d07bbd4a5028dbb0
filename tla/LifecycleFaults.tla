-------------------------- MODULE LifecycleFaults --------------------------
(***************************************************************************)
(* RequestLifecycle with handlers that stop between two of their writes: a *)
(* database error that throws, or the process dying.  Only writes grouped  *)
(* in one $transaction are all or nothing; everything else a handler does  *)
(* can be cut after any of its writes.  An Interrupted action is a proper  *)
(* prefix of a RequestLifecycle action's writes.                           *)
(***************************************************************************)
EXTENDS RequestLifecycle

CONSTANT MaxFaults    \* how many handlers may be cut in one behaviour

ASSUME MaxFaultsAssumption == MaxFaults \in Nat

VARIABLE faults       \* how many have been

faultVars == <<vars, faults>>

-----------------------------------------------------------------------------
(* The two writes of a Credit-mode settlement are separate: the ledger      *)
(* credit can be booked and the escrow row stay RESERVED.                   *)

CreditWithoutRefund ==
    /\ Currency = "CREDIT"
    /\ CanRefund
    /\ net' = [net EXCEPT !.requester = @ + escrow.locked]
    /\ UNCHANGED escrow

CreditWithoutRelease ==
    /\ Currency = "CREDIT"
    /\ CanRelease
    /\ net' = [net EXCEPT !.creators = @ + escrow.earnings, !.payee = creator]
    /\ UNCHANGED escrow

-----------------------------------------------------------------------------
\* create: the row alone; the row and a Credit debit; the row and its escrow,
\* unpublished or PUBLISHED before its window opens.
CreateInterrupted(k, m, amount) ==
    /\ status = "NONE"
    /\ kind' = k /\ mode' = m /\ reward' = amount
    /\ clock' = [clock EXCEPT !.expiry = IF k = "SCHEDULED" THEN "early" ELSE "due"]
    /\ \/ status' = "DRAFT" /\ UNCHANGED money
       \/ /\ Currency = "CREDIT"
          /\ status' = "DRAFT"
          /\ net' = [net EXCEPT !.requester = @ - amount]
          /\ UNCHANGED escrow
       \/ status' = "DRAFT" /\ Reserve(amount)
       \/ /\ k = "IMMEDIATE" /\ m = "HIGHEST_RATED"
          /\ ~IsHighValue(amount) /\ ~moderationOn
          /\ status' = "PUBLISHED" /\ Reserve(amount)
    /\ UNCHANGED <<creator, reshootUsed, moderationOn, adjust, dispute>>

\* Slip: cancel writes its status before it refunds.
CloseInterruptedStatusFirst ==
    /\ CanTransition(status, "CANCELLED")
    /\ status' = "CANCELLED"
    /\ CreditWithoutRefund \/ UNCHANGED money
    /\ OnlyStatus /\ NoDispute /\ UNCHANGED clock

\* cancel and reject: the refund, whole or half, and no status.
CloseInterrupted ==
    /\ CanTransition(status, "CANCELLED") \/ status = "REQUESTER_REVIEW"
    /\ Refund \/ CreditWithoutRefund
    /\ UNCHANGED <<request, clock>> /\ NoDispute

\* expireDueRequests: the refund and no status, or, the failure being caught,
\* the status with no refund or half of it.
ExpireInterrupted ==
    /\ status \in {"DRAFT", "PUBLISHED"}
    /\ clock.expiry = "expired"
    /\ \/ Refund /\ UNCHANGED status
       \/ CreditWithoutRefund /\ status' \in {status, "EXPIRED"}
       \/ CanRefund /\ status' = "EXPIRED" /\ UNCHANGED money
    /\ OnlyStatus /\ NoDispute /\ UNCHANGED clock

\* rejectRequest: REJECTED, with no refund or half of it.
RejectRequestInterrupted ==
    /\ status = "PENDING_MODERATION"
    /\ status' = "REJECTED"
    /\ CreditWithoutRefund \/ UNCHANGED money
    /\ clock' = [clock EXCEPT !.review = 0]
    /\ OnlyStatus /\ NoDispute

\* approveRequest: PUBLISHED, but the window is never opened.
ApproveRequestInterrupted ==
    /\ status = "PENDING_MODERATION"
    /\ mode = "HIGHEST_RATED"
    /\ status' = "PUBLISHED"
    /\ OnlyStatus /\ OnlyRequest /\ UNCHANGED clock

\* completeUpload: UPLOAD and nothing after it.
CompleteUploadInterrupted ==
    /\ status = "RECORDING"
    /\ status' = "UPLOAD"
    /\ OnlyStatus /\ OnlyRequest /\ UNCHANGED clock

\* acceptVideo: ACCEPTED with nothing, half or all of the release, or
\* PAYMENT_RELEASED.
AcceptVideoInterrupted ==
    /\ status = "REQUESTER_REVIEW"
    /\ \/ status' = "ACCEPTED" /\ UNCHANGED money
       \/ status' = "ACCEPTED" /\ CreditWithoutRelease
       \/ status' \in {"ACCEPTED", "PAYMENT_RELEASED"} /\ Release
    /\ OnlyStatus /\ NoDispute /\ UNCHANGED clock

\* adminRelease and adminRefund: half a settlement.
OverrideInterrupted ==
    /\ CreditWithoutRefund \/ CreditWithoutRelease
    /\ UNCHANGED <<request, clock>> /\ NoDispute

\* adminPartialRefund: the requester's credit, or both, and no escrow row.
PartialRefundInterrupted(amount) ==
    /\ Currency = "CREDIT"
    /\ CanRelease
    /\ amount > 0 /\ amount < escrow.locked
    /\ \/ net' = [net EXCEPT !.requester = @ + amount]
       \/ net' = [net EXCEPT !.requester = @ + amount, !.payee = creator,
                             !.creators = @ + EarningsOf(escrow.locked - amount)]
    /\ UNCHANGED <<request, clock, escrow>> /\ NoDispute

\* create and adminEscalate: the Dispute row, with or without the freeze.
OpenDisputeInterrupted ==
    /\ status \in DisputeSources
    /\ dispute.status = "NONE"
    /\ escrow.state # "NONE"
    /\ dispute' = [status |-> "OPEN", at |-> escrow.state,
                   released |-> IF escrow.state = "RELEASED" THEN escrow.earnings ELSE 0,
                   refunded |-> IF escrow.state = "REFUNDED" THEN escrow.locked ELSE 0]
    /\ Freeze \/ UNCHANGED money
    /\ UNCHANGED <<request, clock, moderationOn, adjust>>

Interrupted ==
    \/ \E k \in Kinds, m \in Modes, a \in Amounts : CreateInterrupted(k, m, a)
    \/ \E a \in PartialRefunds : PartialRefundInterrupted(a)
    \/ CloseInterrupted \/ ExpireInterrupted
    \/ RejectRequestInterrupted \/ ApproveRequestInterrupted
    \/ CompleteUploadInterrupted \/ AcceptVideoInterrupted
    \/ OverrideInterrupted \/ OpenDisputeInterrupted

FaultInit == Init /\ faults = 0

Cut ==
    /\ faults < MaxFaults
    /\ faults' = faults + 1
    /\ Interrupted

FaultNext == (Next /\ UNCHANGED faults) \/ Cut

FaultSpec == FaultInit /\ [][FaultNext]_faultVars

-----------------------------------------------------------------------------
\* The order of the writes protects the users: wherever handlers were cut, a
\* CANCELLED request has given its requester everything back and a COMPLETED
\* one has paid its creator ("refund before flipping status", requestService.cancel;
\* release before PAYMENT_RELEASED, requesterReviewService.acceptVideo), as
\* long as no dispute has been resolved over it.
ClosedNeverShort ==
    /\ status = "CANCELLED" => net.requester >= 0
    /\ status = "COMPLETED" /\ dispute.status \in {"NONE", "OPEN"} =>
           net.creators >= escrow.earnings /\ net.payee = creator

\* Every duplicate payment needs a cut of its own: with no handler cut nobody
\* is paid twice, and each further one can pay at most one settlement again
\* (escrowService.release and refund in Credit mode).
EachFaultPaysAtMostOnce ==
    Currency = "CREDIT" =>
        /\ net.requester <= faults * reward
        /\ net.creators <= (faults + 1) * (IF reward > Reward THEN reward ELSE Reward)
=============================================================================

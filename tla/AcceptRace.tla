---------------------------- MODULE AcceptRace -----------------------------
(***************************************************************************)
(* Everything that can race for one published First Accepted request: the  *)
(* accept handlers of several creators (some of them the same creator      *)
(* tapping twice), the assigned creator starting to record, the requester  *)
(* cancelling, the acceptance-timer sweep and the expiry sweep.  A step is *)
(* the code between two awaits, so every value a handler has read may be   *)
(* stale when it writes.  escrowService.refund is one step here.           *)
(***************************************************************************)
EXTENDS Naturals, FiniteSets, RequestStates

CONSTANTS
    Creators,
    None,
    Attempts,      \* calls of POST /requests/:id/accept
    Of,            \* the creator who makes each of them
    Connects       \* creatorConnects each creator starts with

ASSUME AbsentAssumption == None \notin Creators \cup Attempts
ASSUME OfAssumption == Of \in [Attempts -> Creators]
ASSUME ConnectsAssumption == Connects \in [Creators -> Nat]

VARIABLES
    row,           \* Request: status, creatorId, acceptanceTimerExpiresAt passed
    expired,       \* expiresAt has passed
    escrow,        \* RequestEscrow.state
    lock,          \* the attempt whose token the lock key holds, or None
    connects,      \* User.creatorConnects
    charged,       \* the attempts whose ACCEPT_SPEND debit was booked
    pc,            \* where each accept handler is
    recorder,      \* creators inside startRecording, past its checks
    timerSweep,    \* acceptanceTimerJob: "idle", "selected", "republished"
    canceller,     \* requestService.cancel: "idle", "checked", "refunded"
    expirySweep    \* expireDueRequests: "idle", "selected", "refunded"

vars == <<row, expired, escrow, lock, connects, charged, pc, recorder,
          timerSweep, canceller, expirySweep>>

\* ACCEPT_REQUEST_CONNECTS
AcceptCost == 1

TypeOK ==
    /\ row \in [status : Statuses, creator : Creators \cup {None}, lapsed : BOOLEAN]
    /\ expired \in BOOLEAN
    /\ escrow \in {"RESERVED", "REFUNDED"}
    /\ lock \in Attempts \cup {None}
    /\ connects \in [Creators -> Nat]
    /\ charged \subseteq Attempts
    /\ pc \in [Attempts -> {"start", "checked", "locked", "won", "broke", "losing", "done"}]
    /\ recorder \subseteq Creators
    /\ timerSweep \in {"idle", "selected", "republished"}
    /\ canceller \in {"idle", "checked", "refunded"}
    /\ expirySweep \in {"idle", "selected", "refunded"}

\* An accept handler that holds the lock and has not finished.
InAccept(a) == pc[a] \in {"locked", "won", "broke", "losing"}

Init ==
    /\ row = [status |-> "PUBLISHED", creator |-> None, lapsed |-> FALSE]
    /\ expired = FALSE
    /\ escrow = "RESERVED"
    /\ lock = None
    /\ connects = Connects
    /\ charged = {}
    /\ pc = [a \in Attempts |-> "start"]
    /\ recorder = {}
    /\ timerSweep = "idle" /\ canceller = "idle" /\ expirySweep = "idle"

Goto(a, from, to) == pc[a] = from /\ pc' = [pc EXCEPT ![a] = to]

OtherActors == UNCHANGED <<recorder, timerSweep, canceller, expirySweep>>

-----------------------------------------------------------------------------
(* requestService.accept.                                                  *)

\* The checks before the lock; an attempt that fails one of them throws, and
\* changes nothing.
Check(a) ==
    /\ Goto(a, "start", "checked")
    /\ row.status = "PUBLISHED"
    /\ ~expired
    /\ connects[Of[a]] >= AcceptCost
    /\ UNCHANGED <<row, expired, escrow, lock, connects, charged>> /\ OtherActors

\* creatorLockService.acquire: SET NX, or the in-memory map's equivalent.
AcquireLock(a) ==
    /\ \/ Goto(a, "checked", "locked") /\ lock = None /\ lock' = a
       \/ Goto(a, "checked", "done") /\ lock # None /\ UNCHANGED lock
    /\ UNCHANGED <<row, expired, escrow, connects, charged>> /\ OtherActors

\* Slip: the update relies on the lock alone.
TakeRowUnconditionally(a) ==
    /\ Goto(a, "locked", "won")
    /\ row' = [status |-> "CREATOR_ASSIGNED", creator |-> Of[a], lapsed |-> FALSE]
    /\ UNCHANGED <<expired, escrow, lock, connects, charged>> /\ OtherActors

\* updateStatusIfCurrently(PUBLISHED): the update that decides the race.
TakeRow(a) ==
    /\ \/ /\ Goto(a, "locked", "won")
          /\ row.status = "PUBLISHED"
          /\ row' = [status |-> "CREATOR_ASSIGNED", creator |-> Of[a], lapsed |-> FALSE]
       \/ /\ Goto(a, "locked", "losing")
          /\ row.status # "PUBLISHED"
          /\ UNCHANGED row
    /\ UNCHANGED <<expired, escrow, lock, connects, charged>> /\ OtherActors

\* debitConnects: guarded by the balance; the lock is kept after success.
Pay(a) ==
    LET c == Of[a]
    IN  /\ \/ /\ Goto(a, "won", "done")
              /\ connects[c] >= AcceptCost
              /\ connects' = [connects EXCEPT ![c] = @ - AcceptCost]
              /\ charged' = charged \cup {a}
           \/ /\ Goto(a, "won", "broke")
              /\ connects[c] < AcceptCost
              /\ UNCHANGED <<connects, charged>>
        /\ UNCHANGED <<row, expired, escrow, lock>> /\ OtherActors

\* Slip: the assignment outlives the debit that failed.
RollbackForgotten(a) ==
    /\ Goto(a, "broke", "losing")
    /\ UNCHANGED <<row, expired, escrow, lock, connects, charged>> /\ OtherActors

\* The debit failed: undo the assignment, if the row is still in it.
Rollback(a) ==
    /\ Goto(a, "broke", "losing")
    /\ row' = IF row.status = "CREATOR_ASSIGNED"
              THEN [status |-> "PUBLISHED", creator |-> None, lapsed |-> FALSE] ELSE row
    /\ UNCHANGED <<expired, escrow, lock, connects, charged>> /\ OtherActors

\* Slip: an attempt that lost leaves the lock to its TTL.
ReleaseLockForgotten(a) ==
    /\ Goto(a, "losing", "done")
    /\ UNCHANGED <<row, expired, escrow, lock, connects, charged>> /\ OtherActors

\* release: only if the key still holds this attempt's token.
ReleaseLock(a) ==
    /\ Goto(a, "losing", "done")
    /\ lock' = IF lock = a THEN None ELSE lock
    /\ UNCHANGED <<row, expired, escrow, connects, charged>> /\ OtherActors

\* The creator spends the Connect somewhere else (another request, a window).
SpendElsewhere(c) ==
    /\ connects[c] > 0
    /\ connects' = [connects EXCEPT ![c] = @ - 1]
    /\ UNCHANGED <<row, expired, escrow, lock, charged, pc>> /\ OtherActors

-----------------------------------------------------------------------------
(* recordingService.startRecording: reads, checks, then writes the status  *)
(* whatever the row has become.                                            *)

CheckStart(c) ==
    /\ row.status = "CREATOR_ASSIGNED"
    /\ row.creator = c
    /\ recorder' = recorder \cup {c}
    /\ UNCHANGED <<row, expired, escrow, lock, connects, charged, pc,
                   timerSweep, canceller, expirySweep>>

WriteStart(c) ==
    /\ c \in recorder
    /\ recorder' = recorder \ {c}
    /\ row' = [row EXCEPT !.status = "RECORDING"]
    /\ UNCHANGED <<expired, escrow, lock, connects, charged, pc,
                   timerSweep, canceller, expirySweep>>

-----------------------------------------------------------------------------
(* acceptanceTimerJob.runSweep.                                            *)

SelectLapsed ==
    /\ timerSweep = "idle"
    /\ row.status = "CREATOR_ASSIGNED"
    /\ row.lapsed
    /\ timerSweep' = "selected"
    /\ UNCHANGED <<row, expired, escrow, lock, connects, charged, pc, recorder,
                   canceller, expirySweep>>

\* Slip: the sweep writes the rows it selected without looking again.
RepublishUnconditionally ==
    /\ timerSweep = "selected"
    /\ row' = [status |-> "PUBLISHED", creator |-> None, lapsed |-> FALSE]
    /\ timerSweep' = "republished"
    /\ UNCHANGED <<expired, escrow, lock, connects, charged, pc, recorder,
                   canceller, expirySweep>>

\* updateStatusIfCurrently(the status the sweep selected).
Republish ==
    /\ timerSweep = "selected"
    /\ \/ /\ row.status = "CREATOR_ASSIGNED"
          /\ row' = [status |-> "PUBLISHED", creator |-> None, lapsed |-> FALSE]
          /\ timerSweep' = "republished"
       \/ /\ row.status # "CREATOR_ASSIGNED"
          /\ timerSweep' = "idle"
          /\ UNCHANGED row
    /\ UNCHANGED <<expired, escrow, lock, connects, charged, pc, recorder,
                   canceller, expirySweep>>

\* forceRelease: whoever's token the key holds by now.
ForceRelease ==
    /\ timerSweep = "republished"
    /\ timerSweep' = "idle"
    /\ lock' = None
    /\ UNCHANGED <<row, expired, escrow, connects, charged, pc, recorder,
                   canceller, expirySweep>>

-----------------------------------------------------------------------------
(* requestService.cancel: read, refund, write without a condition.         *)

CheckCancel ==
    /\ canceller = "idle"
    /\ CanTransition(row.status, "CANCELLED")
    /\ canceller' = "checked"
    /\ UNCHANGED <<row, expired, escrow, lock, connects, charged, pc, recorder,
                   timerSweep, expirySweep>>

\* A refund that throws ends the handler.
CancelRefund ==
    /\ canceller = "checked"
    /\ \/ escrow = "RESERVED" /\ escrow' = "REFUNDED" /\ canceller' = "refunded"
       \/ escrow # "RESERVED" /\ canceller' = "idle" /\ UNCHANGED escrow
    /\ UNCHANGED <<row, expired, lock, connects, charged, pc, recorder,
                   timerSweep, expirySweep>>

WriteCancel ==
    /\ canceller = "refunded"
    /\ canceller' = "idle"
    /\ row' = [row EXCEPT !.status = "CANCELLED"]
    /\ UNCHANGED <<expired, escrow, lock, connects, charged, pc, recorder,
                   timerSweep, expirySweep>>

-----------------------------------------------------------------------------
(* requestLifecycleJob.expireDueRequests.                                  *)

SelectExpired ==
    /\ expirySweep = "idle"
    /\ row.status = "PUBLISHED"
    /\ expired
    /\ expirySweep' = "selected"
    /\ UNCHANGED <<row, expired, escrow, lock, connects, charged, pc, recorder,
                   timerSweep, canceller>>

\* A refund that throws is only logged.
ExpiryRefund ==
    /\ expirySweep = "selected"
    /\ escrow' = "REFUNDED"
    /\ expirySweep' = "refunded"
    /\ UNCHANGED <<row, expired, lock, connects, charged, pc, recorder,
                   timerSweep, canceller>>

\* updateStatusIfCurrently(PUBLISHED).
WriteExpired ==
    /\ expirySweep = "refunded"
    /\ expirySweep' = "idle"
    /\ row' = IF row.status = "PUBLISHED" THEN [row EXCEPT !.status = "EXPIRED"] ELSE row
    /\ UNCHANGED <<expired, escrow, lock, connects, charged, pc, recorder,
                   timerSweep, canceller>>

-----------------------------------------------------------------------------
(* Time.  An accept handler finishes long before the acceptance timer it   *)
(* starts: ACCEPTANCE_TIMER_MINUTES against a few database calls.          *)

Lapse ==
    /\ row.status = "CREATOR_ASSIGNED"
    /\ ~row.lapsed
    /\ \A a \in Attempts : ~InAccept(a)
    /\ row' = [row EXCEPT !.lapsed = TRUE]
    /\ UNCHANGED <<expired, escrow, lock, connects, charged, pc>> /\ OtherActors

\* The key's own TTL, which starts just before the timer does.
LockExpires ==
    /\ lock # None
    /\ ~InAccept(lock)
    /\ lock' = None
    /\ UNCHANGED <<row, expired, escrow, connects, charged, pc>> /\ OtherActors

Expire ==
    /\ ~expired
    /\ expired' = TRUE
    /\ UNCHANGED <<row, escrow, lock, connects, charged, pc>> /\ OtherActors

AcceptStep(a) ==
    Check(a) \/ AcquireLock(a) \/ TakeRow(a) \/ Pay(a) \/ Rollback(a) \/ ReleaseLock(a)

CreatorStep(c) == SpendElsewhere(c) \/ CheckStart(c) \/ WriteStart(c)

TimerSweepStep == SelectLapsed \/ Republish \/ ForceRelease
CancelStep == CheckCancel \/ CancelRefund \/ WriteCancel
ExpirySweepStep == SelectExpired \/ ExpiryRefund \/ WriteExpired
Time == Lapse \/ LockExpires \/ Expire

Next ==
    \/ \E a \in Attempts : AcceptStep(a)
    \/ \E c \in Creators : CreatorStep(c)
    \/ TimerSweepStep \/ CancelStep \/ ExpirySweepStep \/ Time

Spec == Init /\ [][Next]_vars

-----------------------------------------------------------------------------
\* The abstract promise: phase is read off the status, the owner is creatorId.
Phase ==
    CASE row.status = "PUBLISHED" -> "offered"
      [] row.status = "CREATOR_ASSIGNED" -> "taken"
      [] OTHER -> "gone"

Promise == INSTANCE Assignment WITH phase <- Phase, owner <- row.creator

\* Exactly one creator wins, nobody is replaced without giving the request
\* back, and a request that has gone on is never offered again, although every
\* status write but three is unconditional (requestService.accept,
\* updateStatusIfCurrently).
KeepsPromise == Promise!Spec

\* While an accept handler may still undo its assignment, the assignment on
\* the row is its own: the undo is conditional on the status only, so nothing
\* else keeps it from throwing out somebody else (requestService.accept's catch).
UndoHitsOwnAssignment ==
    \A a \in Attempts :
        pc[a] \in {"won", "broke"} /\ row.status = "CREATOR_ASSIGNED" =>
            row.creator = Of[a]

\* No two accept handlers are past the deciding update at once, although the
\* timer sweep deletes whatever lock it finds (acceptanceTimerJob.forceRelease).
OneWinnerAtATime ==
    Cardinality({a \in Attempts : pc[a] \in {"won", "broke"}}) <= 1

\* When nothing is in progress a request on offer is not locked: no failed,
\* lapsed or undone attempt leaves a key behind that turns creators away until
\* its TTL (creatorLockService.release, forceRelease).
OfferIsNotLocked ==
    row.status = "PUBLISHED" /\ timerSweep = "idle"
        /\ (\A a \in Attempts : ~InAccept(a)) => lock = None

\* When no accept handler is running, a creator who holds the request has paid
\* for an acceptance of it (requestService.accept's debit after the update).
HolderHasPaid ==
    row.status = "CREATOR_ASSIGNED" /\ (\A a \in Attempts : ~InAccept(a)) =>
        \E a \in charged : Of[a] = row.creator

\* "only rows still eligible are touched, race-safe via updateMany"
\* (requestRepository.findExpiredCandidates): once the sweep and a cancellation
\* are through, a creator who holds the request works against a held escrow.
AssignedIsFunded ==
    row.status = "CREATOR_ASSIGNED" /\ expirySweep = "idle" /\ canceller = "idle" =>
        escrow = "RESERVED"
=============================================================================

-------------------------- MODULE AcceptRaceProofs --------------------------
(***************************************************************************)
(* AcceptRace keeps Assignment's promise for every number of creators and  *)
(* of concurrent accept calls, whatever each creator can pay.              *)
(***************************************************************************)
EXTENDS AcceptRace, TLAPS, FiniteSetTheorems

\* Attempts that have won the row and can still undo that.
Deciding(a) == pc[a] \in {"won", "broke"}

\* An attempt that can still undo its assignment owns any assignment there is,
\* and the acceptance timer of that assignment has not run out.
UndoIsOwn ==
    \A a \in Attempts : Deciding(a) =>
        /\ row.status # "PUBLISHED"
        /\ row.status = "CREATOR_ASSIGNED" => row.creator = Of[a] /\ ~row.lapsed

OneDecides == \A a, b \in Attempts : Deciding(a) /\ Deciding(b) => a = b

\* Between the timer sweep's query and its conditional update the row can have
\* gone on, but it cannot have been given back and taken anew.
SelectionIsFresh ==
    timerSweep = "selected" =>
        /\ row.status # "PUBLISHED"
        /\ row.status = "CREATOR_ASSIGNED" => row.lapsed

OwnerFollowsStatus ==
    /\ row.status = "PUBLISHED" => row.creator = None
    /\ row.status = "CREATOR_ASSIGNED" => row.creator \in Creators

RaceInv == TypeOK /\ UndoIsOwn /\ OneDecides /\ SelectionIsFresh /\ OwnerFollowsStatus

-----------------------------------------------------------------------------
\* What a Goto does to the program counters.
LEMMA GotoEffect ==
    ASSUME TypeOK, NEW a \in Attempts, NEW from, NEW to, Goto(a, from, to)
    PROVE  /\ pc[a] = from /\ pc'[a] = to
           /\ \A b \in Attempts : b # a => pc'[b] = pc[b]
    BY DEF Goto, TypeOK

LEMMA RowFields ==
    ASSUME TypeOK
    PROVE  /\ row.status \in Statuses /\ row.creator \in Creators \cup {None}
           /\ row.lapsed \in BOOLEAN
    BY DEF TypeOK

Rows == [status : Statuses, creator : Creators \cup {None}, lapsed : BOOLEAN]

\* The two rows that are written whole.
LEMMA WrittenRows ==
    /\ \A c \in Creators : [status |-> "CREATOR_ASSIGNED", creator |-> c, lapsed |-> FALSE] \in Rows
    /\ [status |-> "PUBLISHED", creator |-> None, lapsed |-> FALSE] \in Rows
    BY DEF Rows, Statuses

\* Every step keeps the types.
LEMMA RaceTypeStep ==
    ASSUME TypeOK, Next
    PROVE  TypeOK'
<1> USE DEF TypeOK, OtherActors
<1>1. ASSUME NEW a \in Attempts, AcceptStep(a)
      PROVE  TypeOK'
  <2>0. Of[a] \in Creators
      BY OfAssumption
  <2>1. CASE Check(a)
      BY <2>1 DEF Check, Goto
  <2>2. CASE AcquireLock(a)
      BY <2>2 DEF AcquireLock, Goto
  <2>3. CASE TakeRow(a)
    <3>1. row' \in Rows
        BY <2>0, <2>3, WrittenRows DEF TakeRow, Rows
    <3>2. pc' \in [Attempts -> {"start", "checked", "locked", "won", "broke", "losing", "done"}]
        BY <2>3 DEF TakeRow, Goto
    <3>3. QED
        BY <2>3, <3>1, <3>2 DEF TakeRow, Rows
  <2>4. CASE Pay(a)
    <3>1. CASE Goto(a, "won", "done") /\ connects[Of[a]] >= AcceptCost
      <4>1. connects[Of[a]] - AcceptCost \in Nat
          BY <2>0, <3>1 DEF AcceptCost
      <4>2. connects' = [connects EXCEPT ![Of[a]] = @ - AcceptCost] /\ charged' = charged \cup {a}
          BY <2>4, <3>1 DEF Pay, Goto
      <4>3. connects' \in [Creators -> Nat]
          BY <2>0, <4>1, <4>2
      <4>4. QED
          BY <2>4, <3>1, <4>2, <4>3 DEF Pay, Goto
    <3>2. CASE Goto(a, "won", "broke")
        BY <2>4, <3>2 DEF Pay, Goto
    <3>3. QED
        BY <2>4, <3>1, <3>2 DEF Pay
  <2>5. CASE Rollback(a)
    <3>1. row' \in Rows
        BY <2>5, WrittenRows DEF Rollback, Rows
    <3>2. QED
        BY <2>5, <3>1 DEF Rollback, Goto, Rows
  <2>6. CASE ReleaseLock(a)
      BY <2>6 DEF ReleaseLock, Goto
  <2>7. QED
      BY <1>1, <2>1, <2>2, <2>3, <2>4, <2>5, <2>6 DEF AcceptStep
<1>2. ASSUME NEW c \in Creators, CreatorStep(c)
      PROVE  TypeOK'
  <2>1. CASE SpendElsewhere(c)
    <3>1. connects[c] - 1 \in Nat
        BY <2>1 DEF SpendElsewhere
    <3>2. QED
        BY <2>1, <3>1 DEF SpendElsewhere
  <2>2. CASE CheckStart(c)
      BY <2>2 DEF CheckStart
  <2>3. CASE WriteStart(c)
      BY <2>3 DEF WriteStart, Statuses
  <2>4. QED
      BY <1>2, <2>1, <2>2, <2>3 DEF CreatorStep
<1>3. CASE TimerSweepStep
  <2>1. CASE SelectLapsed \/ ForceRelease
      BY <2>1 DEF SelectLapsed, ForceRelease
  <2>2. CASE Republish
    <3>1. row' \in Rows
        BY <2>2, WrittenRows DEF Republish, Rows
    <3>2. QED
        BY <2>2, <3>1 DEF Republish, Rows
  <2>3. QED
      BY <1>3, <2>1, <2>2 DEF TimerSweepStep
<1>4. CASE CancelStep
    BY <1>4 DEF CancelStep, CheckCancel, CancelRefund, WriteCancel, Statuses
<1>5. CASE ExpirySweepStep
    BY <1>5 DEF ExpirySweepStep, SelectExpired, ExpiryRefund, WriteExpired, Statuses
<1>6. CASE Time
  <2>1. CASE Lapse
      BY <2>1 DEF Lapse
  <2>2. CASE LockExpires
      BY <2>2 DEF LockExpires
  <2>3. CASE Expire
      BY <2>3 DEF Expire
  <2>4. QED
      BY <1>6, <2>1, <2>2, <2>3 DEF Time
<1>7. QED
    BY <1>1, <1>2, <1>3, <1>4, <1>5, <1>6 DEF Next

-----------------------------------------------------------------------------
\* What the steps that are not the acceptance itself do to the row: it stays,
\* goes on for good, is found lapsed, or is republished after lapsing.
RowStays == row' = row

RowGoesOn ==
    /\ row'.status \notin {"PUBLISHED", "CREATOR_ASSIGNED"}
    /\ row'.creator = row.creator

LEMMA RaceStep ==
    ASSUME RaceInv, Next
    PROVE  RaceInv'
<1> USE DEF RaceInv, Deciding, OtherActors
<1>0. TypeOK'
    BY RaceTypeStep
<1>1. ASSUME NEW a \in Attempts, AcceptStep(a)
      PROVE  RaceInv'
  <2>0. Of[a] \in Creators
      BY OfAssumption
  <2>1. CASE Check(a)
      BY <1>0, <2>1, GotoEffect
      DEF Check, UndoIsOwn, OneDecides, SelectionIsFresh, OwnerFollowsStatus
  <2>2. CASE AcquireLock(a)
      BY <1>0, <2>2, GotoEffect
      DEF AcquireLock, UndoIsOwn, OneDecides, SelectionIsFresh, OwnerFollowsStatus
  <2>3. CASE TakeRow(a)
    <3>1. CASE row.status = "PUBLISHED"
      <4>1. Goto(a, "locked", "won") /\ timerSweep' = timerSweep
            /\ row' = [status |-> "CREATOR_ASSIGNED", creator |-> Of[a], lapsed |-> FALSE]
          BY <2>3, <3>1 DEF TakeRow
      <4>2. \A b \in Attempts : ~Deciding(b)
          BY <3>1 DEF UndoIsOwn
      <4>3. timerSweep # "selected"
          BY <3>1 DEF SelectionIsFresh
      <4>4. QED
          BY <1>0, <2>0, <4>1, <4>2, <4>3, GotoEffect
          DEF UndoIsOwn, OneDecides, SelectionIsFresh, OwnerFollowsStatus
    <3>2. CASE row.status # "PUBLISHED"
        BY <1>0, <2>3, <3>2, GotoEffect
        DEF TakeRow, UndoIsOwn, OneDecides, SelectionIsFresh, OwnerFollowsStatus
    <3>3. QED
        BY <3>1, <3>2
  <2>4. CASE Pay(a)
      BY <1>0, <2>4, GotoEffect
      DEF Pay, UndoIsOwn, OneDecides, SelectionIsFresh, OwnerFollowsStatus
  <2>5. CASE Rollback(a)
    <3>1. Goto(a, "broke", "losing") /\ timerSweep' = timerSweep
        BY <2>5 DEF Rollback
    <3>2. \A b \in Attempts : ~Deciding(b)'
        BY <3>1, GotoEffect DEF OneDecides
    <3>3. CASE row.status = "CREATOR_ASSIGNED"
      <4>1. row' = [status |-> "PUBLISHED", creator |-> None, lapsed |-> FALSE]
          BY <2>5, <3>3 DEF Rollback
      <4>2. ~row.lapsed /\ timerSweep # "selected"
          BY <3>1, <3>3, GotoEffect DEF UndoIsOwn, SelectionIsFresh
      <4>3. QED
          BY <1>0, <3>1, <3>2, <4>1, <4>2
          DEF UndoIsOwn, OneDecides, SelectionIsFresh, OwnerFollowsStatus
    <3>4. CASE row.status # "CREATOR_ASSIGNED"
        BY <1>0, <2>5, <3>1, <3>2, <3>4
        DEF Rollback, UndoIsOwn, OneDecides, SelectionIsFresh, OwnerFollowsStatus
    <3>5. QED
        BY <3>3, <3>4
  <2>6. CASE ReleaseLock(a)
      BY <1>0, <2>6, GotoEffect
      DEF ReleaseLock, UndoIsOwn, OneDecides, SelectionIsFresh, OwnerFollowsStatus
  <2>7. QED
      BY <1>1, <2>1, <2>2, <2>3, <2>4, <2>5, <2>6 DEF AcceptStep
<1>2. ASSUME pc' = pc, timerSweep' \in {timerSweep, "idle", "republished"},
             RowStays \/ RowGoesOn
      PROVE  RaceInv'
    BY <1>0, <1>2
    DEF RowStays, RowGoesOn, UndoIsOwn, OneDecides, SelectionIsFresh, OwnerFollowsStatus
<1>3. ASSUME NEW c \in Creators, CreatorStep(c)
      PROVE  RaceInv'
  <2>1. CASE SpendElsewhere(c) \/ CheckStart(c)
      BY <1>2, <2>1 DEF SpendElsewhere, CheckStart, RowStays
  <2>2. CASE WriteStart(c)
    <3>1. RowGoesOn
        BY <2>2 DEF WriteStart, TypeOK, RowGoesOn
    <3>2. QED
        BY <1>2, <2>2, <3>1 DEF WriteStart
  <2>3. QED
      BY <1>3, <2>1, <2>2 DEF CreatorStep
<1>4. CASE TimerSweepStep
  <2>1. CASE SelectLapsed
      BY <1>0, <2>1
      DEF SelectLapsed, UndoIsOwn, OneDecides, SelectionIsFresh, OwnerFollowsStatus
  <2>2. CASE Republish
    <3>1. CASE row.status = "CREATOR_ASSIGNED"
      <4>1. /\ row' = [status |-> "PUBLISHED", creator |-> None, lapsed |-> FALSE]
            /\ timerSweep' = "republished" /\ pc' = pc
          BY <2>2, <3>1 DEF Republish
      <4>2. row.lapsed /\ \A b \in Attempts : ~Deciding(b)
          BY <2>2, <3>1 DEF Republish, UndoIsOwn, SelectionIsFresh
      <4>3. QED
          BY <1>0, <4>1, <4>2
          DEF UndoIsOwn, OneDecides, SelectionIsFresh, OwnerFollowsStatus
    <3>2. CASE row.status # "CREATOR_ASSIGNED"
        BY <1>2, <2>2, <3>2 DEF Republish, RowStays
    <3>3. QED
        BY <3>1, <3>2
  <2>3. CASE ForceRelease
      BY <1>2, <2>3 DEF ForceRelease, RowStays
  <2>4. QED
      BY <1>4, <2>1, <2>2, <2>3 DEF TimerSweepStep
<1>5. CASE CancelStep
  <2>1. CASE CheckCancel \/ CancelRefund
      BY <1>2, <2>1 DEF CheckCancel, CancelRefund, RowStays
  <2>2. CASE WriteCancel
    <3>1. RowGoesOn
        BY <2>2 DEF WriteCancel, TypeOK, RowGoesOn
    <3>2. QED
        BY <1>2, <2>2, <3>1 DEF WriteCancel
  <2>3. QED
      BY <1>5, <2>1, <2>2 DEF CancelStep
<1>6. CASE ExpirySweepStep
  <2>1. CASE SelectExpired \/ ExpiryRefund
      BY <1>2, <2>1 DEF SelectExpired, ExpiryRefund, RowStays
  <2>2. CASE WriteExpired
    <3>1. RowStays \/ RowGoesOn
        BY <2>2 DEF WriteExpired, TypeOK, RowStays, RowGoesOn
    <3>2. QED
        BY <1>2, <2>2, <3>1 DEF WriteExpired
  <2>3. QED
      BY <1>6, <2>1, <2>2 DEF ExpirySweepStep
<1>7. CASE Time
  <2>1. CASE Lapse
    <3>1. /\ row.status = "CREATOR_ASSIGNED" /\ \A a \in Attempts : ~Deciding(a)
          /\ pc' = pc /\ timerSweep' = timerSweep
        BY <2>1 DEF Lapse, InAccept
    <3>2. row'.status = row.status /\ row'.creator = row.creator /\ row'.lapsed
        BY <2>1 DEF Lapse, TypeOK
    <3>3. QED
        BY <1>0, <3>1, <3>2
        DEF UndoIsOwn, OneDecides, SelectionIsFresh, OwnerFollowsStatus
  <2>2. CASE LockExpires \/ Expire
      BY <1>2, <2>2 DEF LockExpires, Expire, RowStays
  <2>3. QED
      BY <1>7, <2>1, <2>2 DEF Time
<1>8. QED
    BY <1>1, <1>3, <1>4, <1>5, <1>6, <1>7 DEF Next

LEMMA RaceInit == Init => RaceInv
<1> SUFFICES ASSUME Init PROVE RaceInv
    OBVIOUS
<1>1. TypeOK
    BY WrittenRows, ConnectsAssumption DEF Init, TypeOK, Rows
<1>2. UndoIsOwn /\ OneDecides /\ SelectionIsFresh /\ OwnerFollowsStatus
    BY DEF Init, UndoIsOwn, OneDecides, SelectionIsFresh, OwnerFollowsStatus, Deciding
<1>3. QED
    BY <1>1, <1>2 DEF RaceInv

LEMMA RaceStutter ==
    ASSUME RaceInv, UNCHANGED vars
    PROVE  RaceInv'
    BY DEF vars, RaceInv, TypeOK, UndoIsOwn, OneDecides, SelectionIsFresh, OwnerFollowsStatus,
           Deciding

THEOREM RaceInvariance == Spec => []RaceInv
<1>1. RaceInv /\ [Next]_vars => RaceInv'
    BY RaceStep, RaceStutter
<1>2. QED
    BY <1>1, RaceInit, PTL DEF Spec

\* An accept handler never undoes somebody else's assignment, however many
\* handlers, sweeps and cancellations run beside it (requestService.accept).
THEOREM UndoIsSafe == Spec => []UndoHitsOwnAssignment
<1>1. RaceInv => UndoHitsOwnAssignment
    BY DEF RaceInv, UndoIsOwn, UndoHitsOwnAssignment, Deciding
<1>2. QED
    BY <1>1, RaceInvariance, PTL

\* Never are two of any number of accept handlers past the deciding update,
\* although the lock may have been deleted under one of them.
THEOREM OneWinner == Spec => []OneWinnerAtATime
<1>1. RaceInv => OneWinnerAtATime
  <2> SUFFICES ASSUME RaceInv PROVE OneWinnerAtATime
      OBVIOUS
  <2> DEFINE winners == {a \in Attempts : pc[a] \in {"won", "broke"}}
  <2>1. \A a, b \in winners : a = b
      BY DEF RaceInv, OneDecides, Deciding
  <2>2. winners = {} \/ \E a : winners = {a}
      BY <2>1
  <2> HIDE DEF winners
  <2>3. Cardinality(winners) \in {0, 1}
    <3>1. CASE winners = {}
        BY <3>1, FS_EmptySet
    <3>2. CASE \E a : winners = {a}
        BY <3>2, FS_Singleton
    <3>3. QED
        BY <2>2, <3>1, <3>2
  <2>4. QED
      BY <2>3 DEF OneWinnerAtATime, winners
<1>2. QED
    BY <1>1, RaceInvariance, PTL

-----------------------------------------------------------------------------
(* The refinement of Assignment.                                           *)

LEMMA PhaseOf ==
    /\ row.status = "PUBLISHED" => Phase = "offered"
    /\ row.status = "CREATOR_ASSIGNED" => Phase = "taken"
    /\ row.status \notin {"PUBLISHED", "CREATOR_ASSIGNED"} => Phase = "gone"
    BY DEF Phase

LEMMA PhaseOfNext ==
    /\ row'.status = "PUBLISHED" => Phase' = "offered"
    /\ row'.status = "CREATOR_ASSIGNED" => Phase' = "taken"
    /\ row'.status \notin {"PUBLISHED", "CREATOR_ASSIGNED"} => Phase' = "gone"
    BY DEF Phase

\* Every step takes the request, gives it back, lets it go on, or changes
\* nothing that Assignment speaks of.
LEMMA PromiseStep ==
    ASSUME RaceInv, Next
    PROVE  Promise!Next \/ UNCHANGED <<Phase, row.creator>>
<1> USE PhaseOf, PhaseOfNext DEF RaceInv, Deciding, OtherActors
<1>1. CASE RowStays
    BY <1>1 DEF RowStays
<1>2. CASE RowGoesOn
    BY <1>2 DEF RowGoesOn, Promise!Next, Promise!GoOn
<1>3. ASSUME NEW a \in Attempts, TakeRow(a)
      PROVE  Promise!Next \/ RowStays
  <2>1. Of[a] \in Creators
      BY OfAssumption
  <2>2. CASE row.status = "PUBLISHED"
    <3>1. row' = [status |-> "CREATOR_ASSIGNED", creator |-> Of[a], lapsed |-> FALSE]
        BY <1>3, <2>2 DEF TakeRow
    <3>2. Promise!Take(Of[a])
        BY <2>2, <3>1 DEF Promise!Take, OwnerFollowsStatus
    <3>3. QED
        BY <2>1, <3>2 DEF Promise!Next
  <2>3. CASE row.status # "PUBLISHED"
      BY <1>3, <2>3 DEF TakeRow, RowStays
  <2>4. QED
      BY <2>2, <2>3
<1>4. ASSUME row.status = "CREATOR_ASSIGNED",
             row' = [status |-> "PUBLISHED", creator |-> None, lapsed |-> FALSE]
      PROVE  Promise!Next
  <2>1. row.creator # None
      BY <1>4, AbsentAssumption DEF OwnerFollowsStatus
  <2>2. Promise!GiveBack
      BY <1>4, <2>1 DEF Promise!GiveBack
  <2>3. QED
      BY <2>2 DEF Promise!Next
<1>5. ASSUME NEW a \in Attempts, AcceptStep(a)
      PROVE  Promise!Next \/ RowStays
  <2>1. CASE Check(a) \/ AcquireLock(a) \/ Pay(a) \/ ReleaseLock(a)
      BY <2>1 DEF Check, AcquireLock, Pay, ReleaseLock, RowStays
  <2>2. CASE Rollback(a)
      BY <1>4, <2>2 DEF Rollback, RowStays
  <2>3. QED
      BY <1>3, <1>5, <2>1, <2>2 DEF AcceptStep
<1>6. ASSUME NEW c \in Creators, CreatorStep(c)
      PROVE  RowStays \/ RowGoesOn
    BY <1>6 DEF CreatorStep, SpendElsewhere, CheckStart, WriteStart, RowStays, RowGoesOn, TypeOK
<1>7. CASE TimerSweepStep
    BY <1>1, <1>4, <1>7 DEF TimerSweepStep, SelectLapsed, Republish, ForceRelease, RowStays
<1>8. CASE CancelStep
  <2>1. RowStays \/ RowGoesOn
      BY <1>8 DEF CancelStep, CheckCancel, CancelRefund, WriteCancel, RowStays, RowGoesOn, TypeOK
  <2>2. QED
      BY <1>1, <1>2, <2>1
<1>9. CASE ExpirySweepStep
  <2>1. RowStays \/ RowGoesOn
      BY <1>9 DEF ExpirySweepStep, SelectExpired, ExpiryRefund, WriteExpired, RowStays,
                  RowGoesOn, TypeOK
  <2>2. QED
      BY <1>1, <1>2, <2>1
<1>10. CASE Time
  <2>1. CASE Lapse
    <3>1. row'.status = row.status /\ row'.creator = row.creator
        BY <2>1 DEF Lapse, TypeOK
    <3>2. Phase' = Phase
        BY <3>1 DEF Phase
    <3>3. QED
        BY <3>1, <3>2
  <2>2. CASE LockExpires \/ Expire
      BY <1>1, <2>2 DEF LockExpires, Expire, RowStays
  <2>3. QED
      BY <1>10, <2>1, <2>2 DEF Time
<1>11. QED
    BY <1>1, <1>2, <1>5, <1>6, <1>7, <1>8, <1>9, <1>10 DEF Next

\* For every number of creators and concurrent calls, racing accepts look like
\* one creator at a time taking the request, giving it back, or going on with
\* it (requestService.accept, acceptanceTimerJob.runSweep, recordingService).
THEOREM PromiseKept == Spec => KeepsPromise
<1>1. Init => Promise!Init
    BY DEF Init, Promise!Init, Phase
<1>2. RaceInv /\ [Next]_vars => [Promise!Next]_<<Phase, row.creator>>
  <2>1. RaceInv /\ Next => Promise!Next \/ UNCHANGED <<Phase, row.creator>>
      BY PromiseStep
  <2>2. UNCHANGED vars => UNCHANGED <<Phase, row.creator>>
      BY DEF vars, Phase
  <2>3. QED
      BY <2>1, <2>2
<1>3. QED
    BY <1>1, <1>2, RaceInvariance, PTL DEF Spec, KeepsPromise, Promise!Spec

-----------------------------------------------------------------------------
(* Who has paid, and what becomes of the lock.                             *)

\* An assignment is paid for, or its accept handler has yet to pay.
PaidOrPaying ==
    row.status = "CREATOR_ASSIGNED" =>
        \/ \E a \in charged : Of[a] = row.creator
        \/ \E a \in Attempts : Deciding(a)

\* A finished attempt whose token the key still holds keeps others out only
\* while its assignment stands: once the request is on offer again the timer
\* sweep is just about to delete the key.
KeyIsDoomed ==
    \A a \in Attempts : lock = a =>
        /\ pc[a] \notin {"start", "checked"}
        /\ pc[a] = "done" /\ (row.status = "PUBLISHED" \/ \E b \in Attempts : Deciding(b))
              => timerSweep = "republished"

LockInv == RaceInv /\ PaidOrPaying /\ KeyIsDoomed

LEMMA PaidStep ==
    ASSUME RaceInv, PaidOrPaying, Next
    PROVE  PaidOrPaying'
<1> USE DEF RaceInv, PaidOrPaying, Deciding, OtherActors
<1>1. ASSUME NEW a \in Attempts, AcceptStep(a)
      PROVE  PaidOrPaying'
  <2>1. CASE Check(a) \/ AcquireLock(a) \/ ReleaseLock(a)
      BY <2>1, GotoEffect DEF Check, AcquireLock, ReleaseLock
  <2>2. CASE TakeRow(a)
      BY <2>2, GotoEffect DEF TakeRow
  <2>3. CASE Pay(a)
    <3>1. row' = row /\ (row.status = "CREATOR_ASSIGNED" => row.creator = Of[a])
        BY <2>3, GotoEffect DEF Pay, UndoIsOwn
    <3>2. CASE Goto(a, "won", "done") /\ charged' = charged \cup {a}
        BY <3>1, <3>2
    <3>3. CASE Goto(a, "won", "broke")
        BY <3>1, <3>3, GotoEffect
    <3>4. QED
        BY <2>3, <3>2, <3>3, GotoEffect DEF Pay
  <2>4. CASE Rollback(a)
      BY <2>4 DEF Rollback
  <2>5. QED
      BY <1>1, <2>1, <2>2, <2>3, <2>4 DEF AcceptStep
<1>2. ASSUME pc' = pc, charged' = charged,
             \/ row'.status # "CREATOR_ASSIGNED"
             \/ row'.status = row.status /\ row'.creator = row.creator
      PROVE  PaidOrPaying'
    BY <1>2
<1>3. ASSUME NEW c \in Creators, CreatorStep(c)
      PROVE  PaidOrPaying'
    BY <1>2, <1>3 DEF CreatorStep, SpendElsewhere, CheckStart, WriteStart, TypeOK
<1>4. CASE TimerSweepStep
    BY <1>2, <1>4 DEF TimerSweepStep, SelectLapsed, Republish, ForceRelease
<1>5. CASE CancelStep
    BY <1>2, <1>5 DEF CancelStep, CheckCancel, CancelRefund, WriteCancel, TypeOK
<1>6. CASE ExpirySweepStep
    BY <1>2, <1>6 DEF ExpirySweepStep, SelectExpired, ExpiryRefund, WriteExpired, TypeOK
<1>7. CASE Time
    BY <1>2, <1>7 DEF Time, Lapse, LockExpires, Expire, TypeOK
<1>8. QED
    BY <1>1, <1>3, <1>4, <1>5, <1>6, <1>7 DEF Next

LEMMA KeyStep ==
    ASSUME RaceInv, KeyIsDoomed, Next
    PROVE  KeyIsDoomed'
<1> USE DEF RaceInv, KeyIsDoomed, Deciding, OtherActors
<1>0. None \notin Attempts
    BY AbsentAssumption
<1>1. ASSUME NEW a \in Attempts, AcceptStep(a)
      PROVE  KeyIsDoomed'
  <2>1. CASE Check(a)
      BY <2>1, GotoEffect DEF Check
  <2>2. CASE AcquireLock(a)
      BY <2>2, GotoEffect DEF AcquireLock
  <2>3. CASE TakeRow(a)
    <3>1. CASE row.status = "PUBLISHED"
      <4>1. /\ Goto(a, "locked", "won")
            /\ lock' = lock /\ timerSweep' = timerSweep
          BY <2>3, <3>1 DEF TakeRow
      <4>2. QED
          BY <3>1, <4>1, GotoEffect
    <3>2. CASE row.status # "PUBLISHED"
        BY <2>3, <3>2, GotoEffect DEF TakeRow
    <3>3. QED
        BY <3>1, <3>2
  <2>4. CASE Pay(a)
    <3>1. /\ pc[a] = "won" /\ pc'[a] \in {"done", "broke"}
          /\ \A b \in Attempts : b # a => pc'[b] = pc[b]
          /\ lock' = lock /\ timerSweep' = timerSweep /\ row' = row
        BY <2>4, GotoEffect DEF Pay
    <3>2. row.status # "PUBLISHED" /\ \A b \in Attempts : b # a => ~Deciding(b)
        BY <3>1 DEF UndoIsOwn, OneDecides
    <3>3. QED
        BY <3>1, <3>2
  <2>5. CASE Rollback(a)
    <3>1. /\ pc[a] = "broke" /\ pc'[a] = "losing"
          /\ \A b \in Attempts : b # a => pc'[b] = pc[b]
          /\ lock' = lock /\ timerSweep' = timerSweep
        BY <2>5, GotoEffect DEF Rollback
    <3>2. QED
        BY <3>1
  <2>6. CASE ReleaseLock(a)
    <3>1. /\ pc[a] = "losing" /\ pc'[a] = "done"
          /\ \A b \in Attempts : b # a => pc'[b] = pc[b]
          /\ lock' = IF lock = a THEN None ELSE lock
          /\ timerSweep' = timerSweep /\ row' = row
        BY <2>6, GotoEffect DEF ReleaseLock
    <3>2. QED
        BY <1>0, <3>1
  <2>7. QED
      BY <1>1, <2>1, <2>2, <2>3, <2>4, <2>5, <2>6 DEF AcceptStep
<1>2. ASSUME pc' = pc, lock' \in {lock, None}, timerSweep' = timerSweep,
             row'.status \in {row.status, "RECORDING", "CANCELLED", "EXPIRED"}
      PROVE  KeyIsDoomed'
    BY <1>0, <1>2
<1>3. ASSUME NEW c \in Creators, CreatorStep(c)
      PROVE  KeyIsDoomed'
    BY <1>2, <1>3 DEF CreatorStep, SpendElsewhere, CheckStart, WriteStart, TypeOK
<1>4. CASE TimerSweepStep
  <2>1. CASE SelectLapsed
      BY <2>1 DEF SelectLapsed
  <2>2. CASE Republish
      BY <2>2 DEF Republish
  <2>3. CASE ForceRelease
      BY <1>0, <2>3 DEF ForceRelease
  <2>4. QED
      BY <1>4, <2>1, <2>2, <2>3 DEF TimerSweepStep
<1>5. CASE CancelStep
    BY <1>2, <1>5 DEF CancelStep, CheckCancel, CancelRefund, WriteCancel, TypeOK
<1>6. CASE ExpirySweepStep
    BY <1>2, <1>6 DEF ExpirySweepStep, SelectExpired, ExpiryRefund, WriteExpired, TypeOK
<1>7. CASE Time
    BY <1>2, <1>7 DEF Time, Lapse, LockExpires, Expire, TypeOK
<1>8. QED
    BY <1>1, <1>3, <1>4, <1>5, <1>6, <1>7 DEF Next

THEOREM LockInvariance == Spec => []LockInv
<1>1. Init => LockInv
  <2> SUFFICES ASSUME Init PROVE LockInv
      OBVIOUS
  <2>1. PaidOrPaying /\ KeyIsDoomed
      BY AbsentAssumption DEF Init, PaidOrPaying, KeyIsDoomed
  <2>2. QED
      BY <2>1, RaceInit DEF LockInv
<1>2. LockInv /\ [Next]_vars => LockInv'
  <2>1. LockInv /\ Next => LockInv'
      BY RaceStep, PaidStep, KeyStep DEF LockInv
  <2>2. LockInv /\ UNCHANGED vars => LockInv'
      BY RaceStutter DEF LockInv, vars, PaidOrPaying, KeyIsDoomed, Deciding
  <2>3. QED
      BY <2>1, <2>2
<1>3. QED
    BY <1>1, <1>2, PTL DEF Spec

\* Nobody holds a request without having paid for accepting it, once no accept
\* handler is running (requestService.accept's debit and its rollback).
THEOREM HoldersPaid == Spec => []HolderHasPaid
<1>1. LockInv => HolderHasPaid
    BY DEF LockInv, PaidOrPaying, HolderHasPaid, InAccept, Deciding
<1>2. QED
    BY <1>1, LockInvariance, PTL

\* No failed, undone or lapsed attempt leaves a key behind that keeps creators
\* away from a request on offer (creatorLockService.release, forceRelease).
THEOREM OffersAreOpen == Spec => []OfferIsNotLocked
<1>1. LockInv => OfferIsNotLocked
  <2> SUFFICES ASSUME LockInv, row.status = "PUBLISHED", timerSweep = "idle",
                      \A a \in Attempts : ~InAccept(a), lock # None
               PROVE  FALSE
      BY DEF OfferIsNotLocked
  <2>1. lock \in Attempts /\ pc[lock] \in {"start", "checked", "done"}
      BY DEF LockInv, RaceInv, TypeOK, InAccept
  <2>2. QED
      BY <2>1 DEF LockInv, KeyIsDoomed
<1>2. QED
    BY <1>1, LockInvariance, PTL
=============================================================================

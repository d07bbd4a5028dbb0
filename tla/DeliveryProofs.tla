--------------------------- MODULE DeliveryProofs ---------------------------
(***************************************************************************)
(* Delivery, for any number of calls on any number of videos.              *)
(*                                                                         *)
(* The money.  The release of an escrow and its refund read the state, pay *)
(* and write the state in steps of their own, so what bounds the payments  *)
(* is who could still be between the first and the last: a decision alone  *)
(* finds the escrow RESERVED when it pays, and once it has paid nobody     *)
(* else is about to, unless it was cut before the row.                     *)
(*                                                                         *)
(* The videos.  As long as no call has written over another's rows, at     *)
(* most one row is being uploaded or waits for the moderator, it is the    *)
(* newest, and the call that will take the request out of its status is    *)
(* named: the upload between its row and the request (UpSaved), a deletion *)
(* there (DelSaved), a moderator there (ModSaved) or one that has written  *)
(* the request first (ModAhead).  A moderator ahead of a video that is no  *)
(* longer his (Doomed) will write over another's rows, whatever comes.     *)
(***************************************************************************)
EXTENDS Delivery, FiniteSetTheorems, TLAPS

-----------------------------------------------------------------------------
(* The inductive invariant.                                                *)

Places == {"idle", "loaded", "ready", "uploading", "stored", "refused", "saved", "chained",
           "erased", "reserved", "credited", "paid", "done", "cut"}

DeliveryTypes ==
    /\ status \in Statuses
    /\ escrow \in {"RESERVED", "RELEASED", "REFUNDED"}
    /\ call \in [Calls -> [pc : Places, saw : Statuses]]
    /\ crossed \subseteq Decisions /\ booked \subseteq Decisions

\* Between the reading of the escrow and the writing of its row.
Open == {"reserved", "credited"}

OnlyDecisionsReserve == \A c \in Calls : call[c].pc \in Open => c \in Decisions

CrossedHaveStarted == \A d \in crossed : call[d].pc # "idle"

\* A decision that did not run together with another runs alone.
OthersAlone ==
    \A d \in Decisions \ crossed : Running(d) => \A e \in Decisions \ {d} : ~Running(e)

\* What such a decision read of the escrow still holds.
ReadHolds == \A d \in Decisions \ crossed : call[d].pc = "reserved" => escrow = "RESERVED"

\* Who has paid and was not cut has written the row or is about to.
RowFollows == \A d \in booked \ halved : call[d].pc = "credited" \/ escrow # "RESERVED"

\* Once a decision that ran alone has paid, nobody else is about to.
NobodyElse ==
    \A e \in (booked \ halved) \ crossed : \A d \in Decisions \ {e} : call[d].pc # "reserved"

MoneyInv ==
    /\ DeliveryTypes /\ OnlyDecisionsReserve /\ CrossedHaveStarted /\ OthersAlone
    /\ ReadHolds /\ RowFollows /\ NobodyElse /\ SettlesOnce

-----------------------------------------------------------------------------
(* The steps, by what they do to the decisions.                            *)

\* A step of c that neither loads a decision, nor reads the escrow, nor pays
\* or writes its row.
Beside(c) ==
    /\ UNCHANGED <<escrow, booked, crossed>> /\ halved \subseteq halved' /\ status' \in Statuses
    /\ \E r \in [pc : Places, saw : Statuses] :
        /\ call' = [call EXCEPT ![c] = r] /\ r.pc \notin Open
        /\ call[c].pc = "credited" => c \in halved'
        /\ c \in Decisions => Running(c) /\ r.pc # "idle"

\* Where the calls of the others are after a step of c.
LEMMA OnlyOneMoves ==
    ASSUME NEW c \in Calls, NEW r, call \in [Calls -> [pc : Places, saw : Statuses]],
           call' = [call EXCEPT ![c] = r]
    PROVE  /\ call'[c] = r
           /\ \A d \in Calls \ {c} : call'[d] = call[d]
  OBVIOUS

\* The decisions are calls.
LEMMA DecisionsCall == \A d \in Decisions : d \in Calls
  BY DEF Decisions, Of

LEMMA BesideKeeps ==
    ASSUME MoneyInv, NEW c \in Calls, Beside(c)
    PROVE  MoneyInv'
  <1>1. PICK r \in [pc : Places, saw : Statuses] :
            /\ call' = [call EXCEPT ![c] = r] /\ r.pc \notin Open
            /\ call[c].pc = "credited" => c \in halved'
            /\ c \in Decisions => Running(c) /\ r.pc # "idle"
    BY DEF Beside
  <1>2. DeliveryTypes'
    BY <1>1 DEF MoneyInv, DeliveryTypes, Beside
  <1>3. call'[c] = r /\ \A d \in Calls \ {c} : call'[d] = call[d]
    BY <1>1, OnlyOneMoves DEF MoneyInv, DeliveryTypes
  <1>4. \A d \in Decisions : (Running(d))' => Running(d)
    BY <1>1, <1>3, DecisionsCall DEF Running
  <1>5. \A d \in Calls : call'[d].pc \in Open => call'[d].pc = call[d].pc /\ d # c
    BY <1>1, <1>3
  <1>6. OnlyDecisionsReserve' /\ ReadHolds' /\ NobodyElse'
    BY <1>5, DecisionsCall DEF MoneyInv, OnlyDecisionsReserve, ReadHolds, NobodyElse, Beside, Open
  <1>7. CrossedHaveStarted'
    BY <1>1, <1>3, DecisionsCall DEF MoneyInv, CrossedHaveStarted, DeliveryTypes, Beside
  <1>8. OthersAlone'
    BY <1>4 DEF MoneyInv, OthersAlone, Beside
  <1>9. RowFollows'
    BY <1>1, <1>3, DecisionsCall DEF MoneyInv, DeliveryTypes, RowFollows, Beside
  <1>10. SettlesOnce'
    BY DEF MoneyInv, SettlesOnce, Beside
  <1> QED
    BY <1>2, <1>6, <1>7, <1>8, <1>9, <1>10 DEF MoneyInv

-----------------------------------------------------------------------------
(* The four steps that matter.                                             *)

LEMMA LoadKeeps ==
    ASSUME MoneyInv, NEW c \in Decisions, LoadRequest(c)
    PROVE  MoneyInv'
  <1> DEFINE r == [pc |-> "loaded", saw |-> status]
             others == {d \in Decisions \ {c} : Running(d)}
  <1>1. /\ call' = [call EXCEPT ![c] = r] /\ call[c].pc = "idle"
        /\ crossed' = IF others # {} THEN crossed \cup others \cup {c} ELSE crossed
        /\ UNCHANGED <<status, escrow, booked, halved>>
    BY DEF LoadRequest, MayStart, money
  <1>2. c \in Calls /\ \A d \in Decisions : d \in Calls
    BY DecisionsCall
  <1>3. DeliveryTypes'
    <2>1. r \in [pc : Places, saw : Statuses]
      BY DEF MoneyInv, DeliveryTypes, Places
    <2>2. crossed' \subseteq Decisions
      BY <1>1 DEF MoneyInv, DeliveryTypes
    <2> QED
      BY <1>1, <2>1, <2>2 DEF MoneyInv, DeliveryTypes
  <1>4. call'[c] = r /\ \A d \in Calls \ {c} : call'[d] = call[d]
    BY <1>1, <1>2, OnlyOneMoves DEF MoneyInv, DeliveryTypes
  <1>5. c \notin crossed /\ ~Running(c)
    BY <1>1 DEF MoneyInv, CrossedHaveStarted, Running
  <1>6. \A d \in Decisions \ {c} : (Running(d))' <=> Running(d)
    BY <1>2, <1>4 DEF Running
  <1>7. \A d \in Calls : call'[d].pc \in Open => call'[d].pc = call[d].pc /\ d # c
    BY <1>4 DEF Open
  <1>8. crossed \subseteq crossed'
    BY <1>1
  <1>9. OnlyDecisionsReserve' /\ ReadHolds' /\ NobodyElse'
    BY <1>1, <1>2, <1>7, <1>8 DEF MoneyInv, OnlyDecisionsReserve, ReadHolds, NobodyElse, Open
  <1>10. CrossedHaveStarted'
    <2>1. \A d \in crossed' : d \in crossed \/ d \in others \/ d = c
      BY <1>1
    <2>2. \A d \in others : d \in Calls \ {c} /\ call[d].pc # "idle"
      BY <1>2 DEF Running
    <2>3. \A d \in crossed : d \in Calls \ {c} /\ call[d].pc # "idle"
      BY <1>2, <1>5 DEF MoneyInv, DeliveryTypes, CrossedHaveStarted
    <2> QED
      BY <1>4, <2>1, <2>2, <2>3 DEF CrossedHaveStarted
  <1>11. OthersAlone'
    <2> SUFFICES ASSUME NEW d \in Decisions, d \notin crossed', (Running(d))',
                        NEW e \in Decisions, e # d, (Running(e))'
                 PROVE  FALSE
      BY DEF OthersAlone
    <2>1. CASE others # {}
      <3>1. d # c /\ d \notin others
        BY <1>1, <2>1
      <3> QED
        BY <1>6, <3>1
    <2>2. CASE others = {}
      <3>1. d = c /\ e = c
        BY <1>6, <2>2
      <3> QED
        BY <3>1
    <2> QED
      BY <2>1, <2>2
  <1>12. RowFollows'
    BY <1>1, <1>2, <1>4 DEF MoneyInv, DeliveryTypes, RowFollows
  <1>13. SettlesOnce'
    BY <1>1, <1>8 DEF MoneyInv, SettlesOnce
  <1> QED
    BY <1>3, <1>9, <1>10, <1>11, <1>12, <1>13 DEF MoneyInv

LEMMA ReadKeeps ==
    ASSUME MoneyInv, NEW c \in Calls, ReadEscrow(c)
    PROVE  MoneyInv'
  <1> DEFINE r == [call[c] EXCEPT !.pc = IF escrow = "RESERVED" THEN "reserved" ELSE "done"]
  <1>1. /\ call' = [call EXCEPT ![c] = r] /\ call[c].pc \in {"ready", "loaded"}
        /\ UNCHANGED <<status, escrow, booked, halved, crossed>>
    BY DEF ReadEscrow, At, To, Settles, money, history, MoneyInv, DeliveryTypes
  <1>2. c \in Decisions /\ \A d \in Decisions : d \in Calls
    BY DecisionsCall DEF ReadEscrow, At, Decisions, Of
  <1>3. DeliveryTypes'
    <2>1. call[c] \in [pc : Places, saw : Statuses]
      BY DEF MoneyInv, DeliveryTypes
    <2>2. r \in [pc : Places, saw : Statuses]
      BY <2>1 DEF Places
    <2> QED
      BY <1>1, <2>1, <2>2 DEF MoneyInv, DeliveryTypes
  <1>4. /\ call'[c].pc = IF escrow = "RESERVED" THEN "reserved" ELSE "done"
        /\ \A d \in Calls \ {c} : call'[d] = call[d]
    BY <1>1, OnlyOneMoves DEF MoneyInv, DeliveryTypes
  <1>5. \A d \in Decisions : (Running(d))' => Running(d)
    BY <1>1, <1>2, <1>4 DEF Running
  <1>6. \A d \in Calls : call'[d].pc \in Open =>
            call'[d].pc = call[d].pc \/ (d = c /\ call'[d].pc = "reserved" /\ escrow = "RESERVED")
    BY <1>4 DEF Open
  <1>7. OnlyDecisionsReserve' /\ ReadHolds'
    BY <1>1, <1>2, <1>6 DEF MoneyInv, OnlyDecisionsReserve, ReadHolds, Open
  <1>8. CrossedHaveStarted'
    BY <1>1, <1>2, <1>4 DEF MoneyInv, CrossedHaveStarted, DeliveryTypes
  <1>9. OthersAlone'
    BY <1>1, <1>5 DEF MoneyInv, OthersAlone
  <1>10. RowFollows' /\ SettlesOnce'
    BY <1>1, <1>2, <1>4 DEF MoneyInv, DeliveryTypes, RowFollows, SettlesOnce
  <1>11. NobodyElse'
    <2> SUFFICES ASSUME NEW e \in (booked \ halved) \ crossed, NEW d \in Decisions \ {e},
                        call'[d].pc = "reserved", call[d].pc # "reserved"
                 PROVE  FALSE
      BY <1>1 DEF MoneyInv, NobodyElse
    <2>1. d = c /\ escrow = "RESERVED" /\ e \in Decisions
      BY <1>2, <1>6 DEF MoneyInv, DeliveryTypes, Open
    <2>2. Running(e) /\ Running(c)
      BY <1>1, <2>1 DEF MoneyInv, RowFollows, Running
    <2> QED
      BY <2>1, <2>2 DEF MoneyInv, OthersAlone
  <1> QED
    BY <1>3, <1>7, <1>8, <1>9, <1>10, <1>11 DEF MoneyInv

\* The payment, with the row of an INR escrow, and the row of a Credit escrow.
LEMMA PaysKeeps ==
    ASSUME MoneyInv, NEW c \in Calls, NEW where \in {"credited", "paid"},
           To(c, where), UNCHANGED <<status, halved, crossed>>,
           \/ call[c].pc = "reserved" /\ booked' = booked \cup {c}
           \/ call[c].pc = "credited" /\ booked' = booked,
           \/ where = "credited" /\ escrow' = escrow
           \/ where = "paid" /\ escrow' \in {"RELEASED", "REFUNDED"}
    PROVE  MoneyInv'
  <1> DEFINE r == [call[c] EXCEPT !.pc = where]
  <1>1. call' = [call EXCEPT ![c] = r] /\ call[c].pc \in Open /\ Running(c)
    BY DEF To, MoneyInv, DeliveryTypes, Open, Running
  <1>2. c \in Decisions /\ \A d \in Decisions : d \in Calls
    BY <1>1, DecisionsCall DEF MoneyInv, OnlyDecisionsReserve
  <1>3. DeliveryTypes'
    <2>1. call[c] \in [pc : Places, saw : Statuses]
      BY DEF MoneyInv, DeliveryTypes
    <2>2. r \in [pc : Places, saw : Statuses]
      BY <2>1 DEF Places
    <2>3. booked' \subseteq Decisions
      BY <1>2 DEF MoneyInv, DeliveryTypes
    <2> QED
      BY <1>1, <2>2, <2>3 DEF MoneyInv, DeliveryTypes
  <1>4. call'[c].pc = where /\ \A d \in Calls \ {c} : call'[d] = call[d]
    BY <1>1, OnlyOneMoves DEF MoneyInv, DeliveryTypes
  <1>5. \A d \in Decisions : (Running(d))' => Running(d)
    BY <1>1, <1>2, <1>4 DEF Running
  <1>6. \A d \in Calls : call'[d].pc = "reserved" => call[d].pc = "reserved" /\ d # c
    BY <1>4
  <1>7. \A d \in Decisions : call[d].pc \in Open => Running(d)
    BY DEF Running, Open
  <1>8. \A d \in Decisions \ crossed : d # c => ~Running(d)
    BY <1>1, <1>2 DEF MoneyInv, OthersAlone
  <1>9. c \in crossed \/ \A d \in Decisions \ {c} : ~Running(d)
    BY <1>1, <1>2 DEF MoneyInv, OthersAlone
  <1>10. OnlyDecisionsReserve' /\ ReadHolds'
    BY <1>2, <1>4, <1>6, <1>7, <1>8 DEF MoneyInv, OnlyDecisionsReserve, ReadHolds, Open
  <1>11. CrossedHaveStarted'
    BY <1>2, <1>4 DEF MoneyInv, CrossedHaveStarted, DeliveryTypes
  <1>12. OthersAlone'
    BY <1>5 DEF MoneyInv, OthersAlone
  <1>13. RowFollows'
    BY <1>2, <1>4 DEF MoneyInv, DeliveryTypes, RowFollows
  <1>14. NobodyElse'
    <2> SUFFICES ASSUME NEW e \in (booked' \ halved) \ crossed, NEW d \in Decisions \ {e},
                        call'[d].pc = "reserved"
                 PROVE  FALSE
      BY DEF NobodyElse
    <2>1. call[d].pc = "reserved" /\ d # c /\ Running(d)
      BY <1>2, <1>6, <1>7 DEF Open
    <2>2. CASE e = c
      BY <1>9, <2>1, <2>2
    <2>3. CASE e # c
      BY <2>1, <2>3 DEF MoneyInv, NobodyElse
    <2> QED
      BY <2>2, <2>3
  <1>15. SettlesOnce'
    <2>1. CASE booked' = booked
      BY <2>1 DEF MoneyInv, SettlesOnce
    <2>2. CASE call[c].pc = "reserved" /\ booked' = booked \cup {c}
      <3>1. ASSUME NEW e \in booked \ halved, e # c
            PROVE  e \in crossed /\ c \in crossed
        <4>1. e \in Decisions /\ e \in crossed
          BY <1>2, <2>2, <3>1 DEF MoneyInv, DeliveryTypes, NobodyElse
        <4>2. CASE escrow = "RESERVED"
          <5>1. Running(e)
            BY <3>1, <4>2 DEF MoneyInv, RowFollows, Running
          <5> QED
            BY <1>9, <3>1, <4>1, <5>1
        <4>3. CASE escrow # "RESERVED"
          BY <1>2, <2>2, <4>1, <4>3 DEF MoneyInv, ReadHolds
        <4> QED
          BY <4>1, <4>2, <4>3
      <3> QED
        BY <2>2, <3>1 DEF MoneyInv, SettlesOnce
    <2> QED
      BY <2>1, <2>2
  <1> QED
    BY <1>3, <1>10, <1>11, <1>12, <1>13, <1>14, <1>15 DEF MoneyInv

LEMMA SettleKeeps ==
    ASSUME MoneyInv, NEW c \in Calls, Settle(c) \/ WriteEscrow(c)
    PROVE  MoneyInv'
  <1>1. CASE Settle(c)
    <2>1. /\ call[c].pc = "reserved" /\ booked' = booked \cup {c}
          /\ UNCHANGED <<status, halved, crossed>>
          /\ \/ To(c, "credited") /\ escrow' = escrow
             \/ To(c, "paid") /\ escrow' \in {"RELEASED", "REFUNDED"}
      BY <1>1 DEF Settle, WriteState, history
    <2> QED
      BY <2>1, PaysKeeps
  <1>2. CASE WriteEscrow(c)
    <2>1. /\ call[c].pc = "credited" /\ booked' = booked
          /\ UNCHANGED <<status, halved, crossed>>
          /\ To(c, "paid") /\ escrow' \in {"RELEASED", "REFUNDED"}
      BY <1>2 DEF WriteEscrow, WriteState, history
    <2> QED
      BY <2>1, PaysKeeps
  <1> QED
    BY <1>1, <1>2

-----------------------------------------------------------------------------
(* Every other step is beside them.                                        *)

\* A call that writes no row of the escrow.
Apart(c) == call[c].pc # "credited" /\ UNCHANGED <<escrow, booked, halved, crossed>>

\* A call goes somewhere, and keeps the status it goes by.
LEMMA MovesBeside ==
    ASSUME MoneyInv, NEW c \in Calls, NEW where \in Places, To(c, where), where \notin Open,
           Apart(c), UNCHANGED status, c \in Decisions => Running(c) /\ where # "idle"
    PROVE  Beside(c)
  <1> DEFINE r == [call[c] EXCEPT !.pc = where]
  <1>1. call[c] \in [pc : Places, saw : Statuses]
    BY DEF MoneyInv, DeliveryTypes
  <1>2. r \in [pc : Places, saw : Statuses] /\ r.pc = where
    BY <1>1
  <1>3. call' = [call EXCEPT ![c] = r]
    BY DEF To
  <1>4. status' \in Statuses
    BY DEF MoneyInv, DeliveryTypes
  <1> QED
    BY <1>2, <1>3, <1>4 DEF Beside, Apart

\* A call writes the status of the request.
LEMMA WritesBeside ==
    ASSUME MoneyInv, NEW c \in Calls, NEW where \in Places, NEW next \in Statuses,
           SetStatus(c, next, where), where \notin Open,
           Apart(c), c \in Decisions => Running(c) /\ where # "idle"
    PROVE  Beside(c)
  <1> DEFINE r == [pc |-> where, saw |-> next]
  <1>1. r \in [pc : Places, saw : Statuses] /\ r.pc = where
    OBVIOUS
  <1>2. call' = [call EXCEPT ![c] = r] /\ status' = next
    BY DEF SetStatus
  <1> QED
    BY <1>1, <1>2 DEF Beside, Apart

\* The work of the decisions, who alone come to pay.
LEMMA DecisionOps ==
    ASSUME NEW c \in Calls
    PROVE  c \in Decisions <=> Job[c].op \in {"accept", "auto", "reject", "withdraw"}
  BY DEF Decisions, Of, Payments, Refunds

LEMMA OthersApart ==
    ASSUME MoneyInv, NEW c \in Calls, c \notin Decisions, UNCHANGED <<escrow, booked, halved, crossed>>
    PROVE  Apart(c)
  BY DEF MoneyInv, OnlyDecisionsReserve, Open, Apart

\* Loading of what is no decision.
LEMMA LoadsBeside ==
    ASSUME MoneyInv, NEW c \in Calls, c \notin Decisions, LoadRequest(c) \/ LoadModeratable(c)
    PROVE  Beside(c)
  <1>1. status \in Statuses
    BY DEF MoneyInv, DeliveryTypes
  <1>2. CASE LoadRequest(c)
    <2> DEFINE r == [pc |-> "loaded", saw |-> status]
    <2>1. call' = [call EXCEPT ![c] = r] /\ Apart(c) /\ UNCHANGED status
      BY <1>2, OthersApart DEF LoadRequest, money
    <2>2. r \in [pc : Places, saw : Statuses] /\ r.pc \notin Open
      BY <1>1 DEF Places, Open
    <2> QED
      BY <1>1, <2>1, <2>2 DEF Beside, Apart
  <1>3. CASE LoadModeratable(c)
    <2> DEFINE r == [pc |-> "ready", saw |-> status]
    <2>1. call' = [call EXCEPT ![c] = r] /\ Apart(c) /\ UNCHANGED status
      BY <1>3, OthersApart DEF LoadModeratable, money, history
    <2>2. r \in [pc : Places, saw : Statuses] /\ r.pc \notin Open
      BY <1>1 DEF Places, Open
    <2> QED
      BY <1>1, <2>1, <2>2 DEF Beside, Apart
  <1> QED
    BY <1>2, <1>3

\* The calls on a video and the sweep that purges one.
LEMMA VideoCallsBeside ==
    ASSUME MoneyInv, NEW c \in Calls,
           \/ LoadVideo(c) \/ CheckSession(c) \/ CreateUploadSession(c)
           \/ StartUpload(c) \/ Upload(c) \/ UploadFailed(c) \/ UploadSucceeded(c)
           \/ RetryUpload(c) \/ CancelUpload(c) \/ EraseDraft(c) \/ CancelDraft(c)
           \/ SelectAsset(c) \/ DeleteAsset(c) \/ MarkAssetPurged(c)
    PROVE  Beside(c)
  <1>1. c \notin Decisions /\ UNCHANGED <<status, escrow, booked, halved, crossed>>
    BY DecisionOps
       DEF LoadVideo, CheckSession, CreateUploadSession, StartUpload, Upload, UploadFailed,
           UploadSucceeded, RetryUpload, CancelUpload, EraseDraft, CancelDraft,
           SelectAsset, DeleteAsset, MarkAssetPurged, At, money, videos, history
  <1>2. \E where \in {"done", "ready", "uploading", "stored", "refused", "saved", "erased"} :
            To(c, where)
    BY DEF LoadVideo, CheckSession, CreateUploadSession, StartUpload, Upload, UploadFailed,
           UploadSucceeded, RetryUpload, CancelUpload, EraseDraft, CancelDraft,
           SelectAsset, DeleteAsset, MarkAssetPurged
  <1>3. \A where \in {"done", "ready", "uploading", "stored", "refused", "saved", "erased"} :
            where \in Places /\ where \notin Open
    BY DEF Places, Open
  <1> QED
    BY <1>1, <1>2, <1>3, MovesBeside, OthersApart

\* The writes of an upload, a withdrawal and a moderator, and the re-shoot.
LEMMA RequestWritesBeside ==
    ASSUME MoneyInv, NEW c \in Calls,
           \/ ToUpload(c) \/ ToReview(c) \/ BackToRecording(c)
           \/ ModerateVideo(c) \/ ModerateRequest(c) \/ RequestReshoot(c)
    PROVE  Beside(c)
  <1>1. c \notin Decisions /\ UNCHANGED <<escrow, booked, halved, crossed>>
    BY DecisionOps
       DEF ToUpload, ToReview, BackToRecording, ModerateVideo, ModerateRequest, RequestReshoot,
           At, money, videos
  <1>2. \/ \E where \in {"saved", "done"} : To(c, where) /\ UNCHANGED status
        \/ \E where \in {"chained", "done"} : \E next \in Statuses : SetStatus(c, next, where)
    BY DEF ToUpload, ToReview, BackToRecording, ModerateVideo, ModerateRequest, RequestReshoot,
           Statuses
  <1>3. \A where \in {"saved", "chained", "done"} : where \in Places /\ where \notin Open
    BY DEF Places, Open
  <1>4. Apart(c)
    BY <1>1, OthersApart
  <1>5. CASE \E where \in {"saved", "done"} : To(c, where) /\ UNCHANGED status
    BY <1>1, <1>3, <1>4, <1>5, MovesBeside
  <1>6. CASE \E where \in {"chained", "done"} : \E next \in Statuses : SetStatus(c, next, where)
    BY <1>1, <1>3, <1>4, <1>6, WritesBeside
  <1> QED
    BY <1>2, <1>5, <1>6

\* The writes of a decision before and after it pays, and a call that is cut.
LEMMA DecisionWritesBeside ==
    ASSUME MoneyInv, NEW c \in Calls,
           ToAccepted(c) \/ ToReleased(c) \/ ToCompleted(c) \/ ToClosed(c) \/ Cut(c)
    PROVE  Beside(c)
  <1>1. CASE ToAccepted(c) \/ ToReleased(c) \/ ToCompleted(c) \/ ToClosed(c)
    <2>1. /\ call[c].pc \in {"loaded", "paid", "chained"}
          /\ UNCHANGED <<escrow, booked, halved, crossed>>
          /\ \E next \in Statuses : \E where \in {"ready", "chained", "done"} :
                SetStatus(c, next, where)
      BY <1>1 DEF ToAccepted, ToReleased, ToCompleted, ToClosed, At, money, Statuses
    <2>2. Running(c) /\ Apart(c)
      BY <2>1 DEF Running, Apart
    <2> QED
      BY <2>1, <2>2, WritesBeside DEF Places, Open
  <1>2. CASE Cut(c)
    <2> DEFINE r == [call[c] EXCEPT !.pc = "cut"]
    <2>1. /\ Running(c) /\ call' = [call EXCEPT ![c] = r]
          /\ halved' = IF call[c].pc = "credited" THEN halved \cup {c} ELSE halved
          /\ UNCHANGED <<status, escrow, booked, crossed>>
      BY <1>2 DEF Cut, To
    <2>2. r \in [pc : Places, saw : Statuses] /\ r.pc = "cut" /\ status' \in Statuses
      BY <2>1 DEF MoneyInv, DeliveryTypes, Places
    <2> HIDE DEF r
    <2> QED
      BY <2>1, <2>2 DEF Beside, Open
  <1> QED
    BY <1>1, <1>2

-----------------------------------------------------------------------------
(* The theorems.                                                           *)

LEMMA MoneyInit == Init => MoneyInv
  <1> SUFFICES ASSUME Init
               PROVE  MoneyInv
    OBVIOUS
  <1>1. "RECORDING" \in Statuses /\ [pc |-> "idle", saw |-> "RECORDING"] \in [pc : Places, saw : Statuses]
    BY DEF Places, Statuses
  <1>2. \A c \in Calls : call[c].pc = "idle"
    BY DEF Init
  <1>3. DeliveryTypes
    BY <1>1 DEF Init, DeliveryTypes
  <1>4. OnlyDecisionsReserve /\ CrossedHaveStarted /\ ReadHolds
    BY <1>2, DecisionsCall DEF Init, OnlyDecisionsReserve, CrossedHaveStarted, ReadHolds, Open
  <1>5. OthersAlone
    BY <1>2, DecisionsCall DEF OthersAlone, Running
  <1>6. RowFollows /\ NobodyElse /\ SettlesOnce
    BY DEF Init, RowFollows, NobodyElse, SettlesOnce
  <1> QED
    BY <1>3, <1>4, <1>5, <1>6 DEF MoneyInv

LEMMA MoneyStep == MoneyInv /\ [Next]_vars => MoneyInv'
  <1> SUFFICES ASSUME MoneyInv, [Next]_vars
               PROVE  MoneyInv'
    OBVIOUS
  <1>1. CASE UNCHANGED vars
    <2>1. UNCHANGED <<status, escrow, booked, halved, call, crossed>>
      BY <1>1 DEF vars
    <2>2. DeliveryTypes' /\ OnlyDecisionsReserve' /\ CrossedHaveStarted'
      BY <2>1 DEF MoneyInv, DeliveryTypes, OnlyDecisionsReserve, CrossedHaveStarted
    <2>3. OthersAlone' /\ ReadHolds' /\ RowFollows' /\ NobodyElse' /\ SettlesOnce'
      BY <2>1 DEF MoneyInv, OthersAlone, Running, ReadHolds, RowFollows, NobodyElse, SettlesOnce
    <2> QED
      BY <2>2, <2>3 DEF MoneyInv
  <1>2. ASSUME NEW c \in Calls, Step(c) \/ Cut(c)
        PROVE  MoneyInv'
    <2>1. CASE c \in Decisions /\ LoadRequest(c)
      BY <2>1, LoadKeeps
    <2>2. CASE ReadEscrow(c)
      BY <2>2, ReadKeeps
    <2>3. CASE Settle(c) \/ WriteEscrow(c)
      BY <2>3, SettleKeeps
    <2>4. CASE /\ ~(c \in Decisions /\ LoadRequest(c))
               /\ ~ReadEscrow(c) /\ ~Settle(c) /\ ~WriteEscrow(c)
      <3>1. LoadModeratable(c) => c \notin Decisions
        BY DecisionOps DEF LoadModeratable
      <3>2. Beside(c)
        BY <1>2, <2>4, <3>1, LoadsBeside, VideoCallsBeside, RequestWritesBeside,
           DecisionWritesBeside DEF Step
      <3> QED
        BY <3>2, BesideKeeps
    <2> QED
      BY <2>1, <2>2, <2>3, <2>4
  <1> QED
    BY <1>1, <1>2, DeliveryTogetherAssumption DEF Next

\* Through every interleaving of uploads, moderators, decisions and cuts, also
\* of a Credit payment and its escrow's row, the invariant of the money holds
\* (escrowService, requesterReviewService, requestService.cancel).
THEOREM MoneyInvariance == Spec => []MoneyInv
  <1> QED
    BY MoneyInit, MoneyStep, PTL DEF Spec

\* One decision pays, unless decisions ran together or one was cut between a
\* Credit payment and the escrow's row (escrowService.release and refund,
\* requesterReviewService, requestService.cancel).
THEOREM EscrowSettlesOnce == Spec => []SettlesOnce
  <1>1. MoneyInv => SettlesOnce
    BY DEF MoneyInv
  <1> QED
    BY <1>1, MoneyInvariance, PTL

-----------------------------------------------------------------------------
(* What holds as long as no call has written over another's rows, was cut  *)
(* between two writes, or went for an older video.                         *)

Live == {"RECORDING", "UPLOAD", "MODERATOR_REVIEW", "REQUESTER_REVIEW"}
Over == {"ACCEPTED", "PAYMENT_RELEASED", "COMPLETED", "REJECTED", "CANCELLED"}
Mods == {"modApprove", "modReject"}
VideoOf(c) == Job[c].video

\* The status a call goes by, wherever it still compares or writes one.
SawFine(c) ==
    /\ call[c].pc \in {"loaded", "ready"} /\ Job[c].op = "session" => call[c].saw = "RECORDING"
    /\ Job[c].op = "complete" =>
        /\ call[c].pc \in {"ready", "uploading", "stored", "refused", "saved"} => call[c].saw = "RECORDING"
        /\ call[c].pc = "chained" => call[c].saw = "UPLOAD"
    /\ Job[c].op = "delete" /\ call[c].pc \in {"ready", "erased", "saved"} =>
        call[c].saw \in {"UPLOAD", "MODERATOR_REVIEW"}
    /\ Job[c].op \in Mods /\ call[c].pc \in {"ready", "saved"} => call[c].saw = "MODERATOR_REVIEW"
    /\ Job[c].op \in {"reshoot", "accept", "auto"} /\ call[c].pc = "loaded" => call[c].saw = "REQUESTER_REVIEW"
    /\ Job[c].op \in Payments =>
        /\ call[c].pc \in {"ready", "reserved", "credited", "paid"} => call[c].saw = "ACCEPTED"
        /\ call[c].pc = "chained" => call[c].saw = "PAYMENT_RELEASED"
    /\ Job[c].op = "reject" /\ Running(c) => call[c].saw = "REQUESTER_REVIEW"
    /\ Job[c].op = "withdraw" /\ Running(c) => call[c].saw = "RECORDING"

SawOK == status \in Live \cup Over /\ \A c \in Calls : SawFine(c)

VideoCols == [status : {"none", "PENDING", "UPLOADING", "FAILED", "UPLOADED", "CANCELLED"},
              moderation : {"PENDING", "APPROVED", "REJECTED"}, attempts : Nat, url : BOOLEAN]

IsNewest(v) == Active # {} /\ Newest = v
Uploading(v) == video[v].status = "UPLOADING"
Erasing(c, v) == Job[c].op = "delete" /\ VideoOf(c) = v /\ call[c].pc \in {"erased", "saved"}

\* Only an upload that has ended is moderated; what is being uploaded or waits
\* for the moderator is the newest row; what was uploaded keeps its URL and its
\* asset until the request is over, but for a draft being deleted.
RowFine(v) ==
    /\ video[v].moderation # "PENDING" => video[v].status = "UPLOADED"
    /\ Fresh(v) \/ Uploading(v) => IsNewest(v)
    /\ video[v].status = "UPLOADED" /\ status \notin Over =>
        video[v].url /\ (asset[v] = "stored" \/ \E c \in Calls : Erasing(c, v))

RowsOK ==
    /\ rows \in Seq(Videos) /\ video \in [Videos -> VideoCols] /\ DOMAIN asset = Videos
    /\ \A v \in Videos : RowFine(v)

\* What a call has found, or written, still holds when it goes on.
CallFine(c) ==
    /\ Job[c].op = "session" /\ call[c].pc \in {"idle", "loaded", "ready"} => video[c].status = "none"
    /\ Job[c].op \in {"complete", "retry", "cancel"} /\ call[c].pc = "ready" => video[VideoOf(c)].status # "none"
    /\ At(c, "stored", {"complete"}) /\ video[VideoOf(c)].status \notin {"UPLOADED", "CANCELLED"} =>
        status \in Over \/ asset[VideoOf(c)] = "stored"
    /\ Job[c].op \in {"delete"} \cup Mods /\ call[c].pc \in {"ready", "erased", "saved", "chained"} =>
        video[VideoOf(c)].status \in {"UPLOADED", "CANCELLED"}
    /\ At(c, "saved", {"delete"}) => video[VideoOf(c)].status = "CANCELLED"
    /\ At(c, "saved", {"modApprove"}) => video[VideoOf(c)].moderation = "APPROVED"
    /\ At(c, "saved", {"modReject"}) => video[VideoOf(c)].moderation = "REJECTED"
    /\ Job[c].op = "purge" /\ call[c].pc \in {"ready", "erased"} => status \in Over

CallsOK == \A c \in Calls : CallFine(c)

\* A paid decision or one about to pay stands behind every status that owes.
Paid(c) == c \in Decisions /\ call[c].pc = "paid"
Paying(c) == call[c].pc \in {"ready", "reserved", "credited"} /\ Job[c].op \in Payments
PayOK ==
    /\ escrow # "RESERVED" /\ status \notin {"PAYMENT_RELEASED", "COMPLETED", "REJECTED", "CANCELLED"} =>
        \E c \in Calls : Paid(c)
    /\ status = "ACCEPTED" => \E c \in Calls : Paid(c) \/ Paying(c)
    /\ status = "PAYMENT_RELEASED" => \E c \in Calls : At(c, "chained", Payments)

\* Calls between two of their writes: after the row, or ("ahead") a moderator
\* whose write of the request has come first.
UpSaved(c) == At(c, "saved", {"complete"})
Erased(c) == At(c, "erased", {"delete"})
DelSaved(c) == At(c, "saved", {"delete"})
ModReady(c) == At(c, "ready", Mods)
ModSaved(c) == At(c, "saved", Mods)
ModAhead(c) == At(c, "chained", Mods)
Ahead(v) == \E c \in Calls : ModAhead(c) /\ VideoOf(c) = v

\* Such a moderator whose video is gone will write over another's rows.
Doomed == \E c \in Calls : ModAhead(c) /\ ~Fresh(VideoOf(c))

CallFlows(c) ==
    /\ UpSaved(c) => status = "RECORDING" /\ Fresh(VideoOf(c)) /\ ~Ahead(VideoOf(c))
    /\ Erased(c) /\ Fresh(VideoOf(c)) /\ ~Ahead(VideoOf(c)) => status \in {call[c].saw, "MODERATOR_REVIEW"}
    /\ DelSaved(c) => /\ status \in {call[c].saw, "MODERATOR_REVIEW"} /\ \A v \in Videos : ~Fresh(v)
                      /\ \A d \in Calls : ~ModSaved(d)
    /\ ModSaved(c) => status = "MODERATOR_REVIEW" /\ IsNewest(VideoOf(c)) /\ \A v \in Videos : ~Fresh(v)
    /\ ModAhead(c) => /\ status \notin {"UPLOAD", "MODERATOR_REVIEW"}
                      /\ Job[c].op = "modReject" => status = "RECORDING"
    /\ ModReady(c) /\ Fresh(VideoOf(c)) => status = "MODERATOR_REVIEW" \/ Ahead(VideoOf(c))

Flow ==
    /\ \A v \in Videos : Uploading(v) => status = "RECORDING"
    /\ \A v \in Videos : Fresh(v) /\ status = "RECORDING" =>
        Ahead(v) \/ \E c \in Calls : UpSaved(c) /\ VideoOf(c) = v
    /\ \A c \in Calls : CallFlows(c)
    /\ \A c, d \in Calls : c # d => /\ ~(UpSaved(c) /\ UpSaved(d)) /\ ~(DelSaved(c) /\ DelSaved(d))
                                    /\ ~(ModSaved(c) /\ ModSaved(d))
    /\ status \in {"UPLOAD", "MODERATOR_REVIEW"} =>
        \/ \E v \in Videos : Fresh(v)
        \/ \E c \in Calls : DelSaved(c) \/ (ModSaved(c) /\ status = "MODERATOR_REVIEW")
    /\ status = "REQUESTER_REVIEW" =>
        \E v \in Videos : IsNewest(v) /\ (video[v].moderation = "APPROVED" \/ (Fresh(v) /\ Ahead(v)))

Proper == SawOK /\ RowsOK /\ CallsOK /\ PayOK /\ (status \in Over \/ Doomed \/ Flow)

DeliveryInv == Undisturbed => Proper

-----------------------------------------------------------------------------
(* The steps, by what they change.                                         *)

\* Only call c has moved.
Moved(c, where, sees) ==
    /\ call'[c].pc = where /\ call'[c].saw = sees
    /\ \A d \in Calls \ {c} : call'[d] = call[d]

LEMMA ToMoves ==
    ASSUME DeliveryTypes, NEW c \in Calls, NEW where, To(c, where)
    PROVE  Moved(c, where, call[c].saw)
  <1>1. call \in [Calls -> [pc : Places, saw : Statuses]] /\ call[c] \in [pc : Places, saw : Statuses]
    BY DEF DeliveryTypes
  <1>2. call' = [call EXCEPT ![c] = [call[c] EXCEPT !.pc = where]]
    BY DEF To
  <1>3. call'[c] = [call[c] EXCEPT !.pc = where] /\ \A d \in Calls \ {c} : call'[d] = call[d]
    BY <1>1, <1>2
  <1> QED
    BY <1>1, <1>3 DEF Moved

LEMMA WriteMoves ==
    ASSUME DeliveryTypes, NEW c \in Calls, NEW next, NEW where, SetStatus(c, next, where), late' = {}
    PROVE  Moved(c, where, next) /\ status' = next /\ status = call[c].saw
  <1>1. call \in [Calls -> [pc : Places, saw : Statuses]]
    BY DEF DeliveryTypes
  <1>2. call' = [call EXCEPT ![c] = [pc |-> where, saw |-> next]] /\ status' = next
        /\ MarkLate(c, status # call[c].saw)
    BY DEF SetStatus
  <1>3. status = call[c].saw
    BY <1>2 DEF MarkLate
  <1> QED
    BY <1>1, <1>2, <1>3 DEF Moved

\* One video has changed in these columns.
Changed(v, st, decision, shown) ==
    /\ video' \in [Videos -> VideoCols]
    /\ video'[v].status = st /\ video'[v].moderation = decision /\ video'[v].url = shown
    /\ \A w \in Videos \ {v} : video'[w] = video[w]

LEMMA StatusChanges ==
    ASSUME video \in [Videos -> VideoCols], NEW c \in Calls, VideoOf(c) \in Videos,
           NEW st \in {"none", "PENDING", "UPLOADING", "FAILED", "UPLOADED", "CANCELLED"},
           SetVideo(c, [status |-> st])
    PROVE  Changed(VideoOf(c), st, video[VideoOf(c)].moderation, video[VideoOf(c)].url)
  <1> DEFINE r == video[VideoOf(c)]
             columns == [status |-> st]
             now == [k \in DOMAIN r |-> IF k \in DOMAIN columns THEN columns[k] ELSE r[k]]
  <1>1. r \in VideoCols
    OBVIOUS
  <1>2. video' = [video EXCEPT ![VideoOf(c)] = now]
    BY DEF SetVideo, VideoOf
  <1>3. now = [status |-> st, moderation |-> r.moderation, attempts |-> r.attempts, url |-> r.url]
    BY <1>1 DEF VideoCols
  <1> QED
    BY <1>1, <1>2, <1>3 DEF Changed, VideoCols

LEMMA UploadBegins ==
    ASSUME video \in [Videos -> VideoCols], NEW c \in Calls, VideoOf(c) \in Videos,
           SetVideo(c, [status |-> "UPLOADING", attempts |-> video[VideoOf(c)].attempts + 1])
    PROVE  Changed(VideoOf(c), "UPLOADING", video[VideoOf(c)].moderation, video[VideoOf(c)].url)
  <1> DEFINE r == video[VideoOf(c)]
             columns == [status |-> "UPLOADING", attempts |-> video[VideoOf(c)].attempts + 1]
             now == [k \in DOMAIN r |-> IF k \in DOMAIN columns THEN columns[k] ELSE r[k]]
  <1>1. r \in VideoCols
    OBVIOUS
  <1>2. video' = [video EXCEPT ![VideoOf(c)] = now]
    BY DEF SetVideo, VideoOf
  <1>3. now = [status |-> "UPLOADING", moderation |-> r.moderation, attempts |-> r.attempts + 1, url |-> r.url]
    BY <1>1 DEF VideoCols
  <1> QED
    BY <1>1, <1>2, <1>3 DEF Changed, VideoCols

LEMMA UploadEnds ==
    ASSUME video \in [Videos -> VideoCols], NEW c \in Calls, VideoOf(c) \in Videos,
           NEW shown \in BOOLEAN, SetVideo(c, [status |-> "UPLOADED", url |-> shown])
    PROVE  Changed(VideoOf(c), "UPLOADED", video[VideoOf(c)].moderation, shown)
  <1> DEFINE r == video[VideoOf(c)]
             columns == [status |-> "UPLOADED", url |-> shown]
             now == [k \in DOMAIN r |-> IF k \in DOMAIN columns THEN columns[k] ELSE r[k]]
  <1>1. r \in VideoCols
    OBVIOUS
  <1>2. video' = [video EXCEPT ![VideoOf(c)] = now]
    BY DEF SetVideo, VideoOf
  <1>3. now = [status |-> "UPLOADED", moderation |-> r.moderation, attempts |-> r.attempts, url |-> shown]
    BY <1>1 DEF VideoCols
  <1> QED
    BY <1>1, <1>2, <1>3 DEF Changed, VideoCols

LEMMA DecisionChanges ==
    ASSUME video \in [Videos -> VideoCols], NEW c \in Calls, VideoOf(c) \in Videos,
           NEW decision \in {"APPROVED", "REJECTED"},
           SetVideo(c, [moderation |-> decision])
    PROVE  Changed(VideoOf(c), video[VideoOf(c)].status, decision, video[VideoOf(c)].url)
  <1> DEFINE r == video[VideoOf(c)]
             columns == [moderation |-> decision]
             now == [k \in DOMAIN r |-> IF k \in DOMAIN columns THEN columns[k] ELSE r[k]]
  <1>1. r \in VideoCols
    OBVIOUS
  <1>2. video' = [video EXCEPT ![VideoOf(c)] = now]
    BY DEF SetVideo, VideoOf
  <1>3. now = [status |-> r.status, moderation |-> decision, attempts |-> r.attempts, url |-> r.url]
    BY <1>1 DEF VideoCols
  <1> QED
    BY <1>1, <1>2, <1>3 DEF Changed, VideoCols

LEMMA UrlChanges ==
    ASSUME video \in [Videos -> VideoCols], NEW c \in Calls, VideoOf(c) \in Videos,
           NEW shown \in BOOLEAN, SetVideo(c, [url |-> shown])
    PROVE  Changed(VideoOf(c), video[VideoOf(c)].status, video[VideoOf(c)].moderation, shown)
  <1> DEFINE r == video[VideoOf(c)]
             columns == [url |-> shown]
             now == [k \in DOMAIN r |-> IF k \in DOMAIN columns THEN columns[k] ELSE r[k]]
  <1>1. r \in VideoCols
    OBVIOUS
  <1>2. video' = [video EXCEPT ![VideoOf(c)] = now]
    BY DEF SetVideo, VideoOf
  <1>3. now = [status |-> r.status, moderation |-> r.moderation, attempts |-> r.attempts, url |-> shown]
    BY <1>1 DEF VideoCols
  <1> QED
    BY <1>1, <1>2, <1>3 DEF Changed, VideoCols

-----------------------------------------------------------------------------
(* The newest row.                                                         *)

LEMMA GreatestNumber ==
    ASSUME NEW n \in Nat, NEW S \in SUBSET (1..n), S # {}
    PROVE  \E i \in S : \A j \in S : j <= i
  <1> DEFINE T == {n - i : i \in S}
  <1>0. \A i \in S : i \in 1..n /\ n - i \in Nat
    OBVIOUS
  <1>1. T \in SUBSET Nat /\ T # {}
    BY <1>0
  <1> HIDE DEF T
  <1>2. PICK k \in T : \A m \in T : <<m, k>> \notin OpToRel(<, Nat)
    BY <1>1, NatLessThanWellFounded, WFMin
  <1>3. \A m \in T : ~(m < k)
    BY <1>1, <1>2 DEF OpToRel
  <1>4. PICK i \in S : k = n - i
    BY DEF T
  <1>5. ASSUME NEW j \in S PROVE j <= i
    <2>1. n - j \in T
      BY DEF T
    <2> QED
      BY <1>3, <1>4, <2>1
  <1> QED
    BY <1>5

LEMMA NewestRow ==
    ASSUME rows \in Seq(Videos), Active # {}
    PROVE  /\ \E i \in Active : Newest = rows[i] /\ \A j \in Active : j <= i
           /\ Newest \in Videos /\ video[Newest].status # "CANCELLED"
  <1>1. Len(rows) \in Nat /\ DOMAIN rows = 1..Len(rows) /\ \A i \in DOMAIN rows : rows[i] \in Videos
    OBVIOUS
  <1>2. Active \in SUBSET (1..Len(rows))
    BY <1>1 DEF Active
  <1>3. \E i \in Active : \A j \in Active : j <= i
    BY <1>1, <1>2, GreatestNumber
  <1>4. \E i \in Active : Newest = rows[i] /\ \A j \in Active : j <= i
    BY <1>3 DEF Newest
  <1> QED
    BY <1>1, <1>2, <1>4 DEF Active

\* A row stays the newest as long as it is not cancelled and none is added.
LEMMA NewestStays ==
    ASSUME rows \in Seq(Videos), rows' = rows, NEW v \in Videos, IsNewest(v), video'[v].status # "CANCELLED",
           \A w \in Videos : video[w].status = "CANCELLED" => video'[w].status = "CANCELLED"
    PROVE  IsNewest(v)'
  <1>1. Active # {} /\ Newest = v
    BY DEF IsNewest
  <1>2. PICK i \in Active : v = rows[i] /\ \A j \in Active : j <= i
    BY <1>1, NewestRow
  <1>3. \A j \in DOMAIN rows : rows[j] \in Videos /\ j \in Nat
    OBVIOUS
  <1>4. Active' \subseteq Active /\ i \in Active'
    BY <1>2, <1>3 DEF Active
  <1>5. \A k \in Active' : (\A j \in Active' : j <= k) => k = i
    BY <1>2, <1>3, <1>4 DEF Active
  <1>6. Newest' = rows[i]
    BY <1>2, <1>4, <1>5 DEF Newest
  <1> QED
    BY <1>2, <1>4, <1>6 DEF IsNewest

\* No row has been cancelled: the newest is the same.
LEMMA NewestSame ==
    ASSUME UNCHANGED rows, rows \in Seq(Videos),
           \A w \in Videos : video'[w].status = "CANCELLED" <=> video[w].status = "CANCELLED"
    PROVE  \A v \in Videos : IsNewest(v)' <=> IsNewest(v)
  <1>1. \A i \in DOMAIN rows : rows[i] \in Videos
    OBVIOUS
  <1>2. Active' = Active
    BY <1>1 DEF Active
  <1> QED
    BY <1>2 DEF IsNewest, Newest

-----------------------------------------------------------------------------
(* What a step keeps for the calls and rows it leaves alone.               *)

\* Assets are only erased of drafts, or once the request is over.
AssetsStay(c) ==
    /\ DOMAIN asset' = Videos
    /\ \A v \in Videos : asset[v] = "stored" /\ status \notin Over =>
        asset'[v] = "stored" \/ (Erasing(c, v)' /\ video[v].status \in {"UPLOADED", "CANCELLED"})

\* The jobs on a video are on one of this request.
LEMMA JobsOnVideos == \A c \in Calls : Job[c].op \in OnVideo => VideoOf(c) \in Videos
  BY DeliveryJobsAssumption DEF Of, VideoOf

LEMMA SawFrame ==
    ASSUME SawOK, NEW c \in Calls, NEW where, NEW sees, Moved(c, where, sees),
           status' \in Live \cup Over, SawFine(c)'
    PROVE  SawOK'
  <1>1. ASSUME NEW d \in Calls, d # c
        PROVE  SawFine(d)'
    <2>1. call'[d] = call[d] /\ SawFine(d)
      BY <1>1 DEF Moved, SawOK
    <2> QED
      BY <2>1 DEF SawFine, At, Running
  <1> QED
    BY <1>1 DEF SawOK

LEMMA RowsFrame ==
    ASSUME RowsOK, NEW c \in Calls, NEW where, NEW sees, Moved(c, where, sees),
           UNCHANGED <<rows, video>>, asset' = asset \/ AssetsStay(c), status \in Over => status' \in Over,
           \A v \in Videos : Erasing(c, v) => Erasing(c, v)' \/ video[v].status # "UPLOADED"
    PROVE  RowsOK'
  <1>1. ASSUME NEW v \in Videos
        PROVE  RowFine(v)'
    <2>1. RowFine(v)
      BY DEF RowsOK
    <2>2. Fresh(v)' <=> Fresh(v)
      BY DEF Fresh
    <2>3. Uploading(v)' <=> Uploading(v)
      BY DEF Uploading
    <2>4. IsNewest(v)' <=> IsNewest(v)
      BY DEF IsNewest, Active, Newest
    <2>5. \A d \in Calls : Erasing(d, v) => Erasing(d, v)' \/ video[v].status # "UPLOADED"
      BY DEF Erasing, Moved
    <2>6. asset[v] = "stored" /\ status \notin Over => asset'[v] = "stored" \/ Erasing(c, v)'
      BY DEF AssetsStay
    <2>7. UNCHANGED video
      OBVIOUS
    <2> QED
      BY <2>1, <2>2, <2>3, <2>4, <2>5, <2>6, <2>7 DEF RowFine
  <1>2. DOMAIN asset' = Videos
    BY DEF RowsOK, AssetsStay
  <1> QED
    BY <1>1, <1>2 DEF RowsOK

LEMMA CallsFrame ==
    ASSUME CallsOK, NEW c \in Calls, NEW where, NEW sees, Moved(c, where, sees),
           UNCHANGED video, asset' = asset \/ AssetsStay(c), status \in Over => status' \in Over, CallFine(c)'
    PROVE  CallsOK'
  <1>1. ASSUME NEW d \in Calls, d # c
        PROVE  CallFine(d)'
    <2>1. call'[d] = call[d] /\ CallFine(d)
      BY <1>1 DEF Moved, CallsOK
    <2>2. /\ At(d, "stored", {"complete"}) /\ video[VideoOf(d)].status \notin {"UPLOADED", "CANCELLED"}
          /\ status \notin Over /\ asset[VideoOf(d)] = "stored"
          => asset'[VideoOf(d)] = "stored"
      BY JobsOnVideos DEF AssetsStay, At, OnVideo
    <2> QED
      BY <2>1, <2>2 DEF CallFine, At, Uploading
  <1> QED
    BY <1>1 DEF CallsOK

LEMMA PayFrame ==
    ASSUME PayOK, NEW c \in Calls, NEW where, NEW sees, Moved(c, where, sees), UNCHANGED escrow,
           status' = status \/ (status \in Live /\ status' \in Live),
           ~Paid(c), ~Paying(c), ~At(c, "chained", Payments)
    PROVE  PayOK'
  <1>1. ASSUME NEW d \in Calls, d # c
        PROVE  /\ (Paid(d)' <=> Paid(d)) /\ (Paying(d)' <=> Paying(d))
               /\ (At(d, "chained", Payments)' <=> At(d, "chained", Payments))
    BY <1>1 DEF Moved, Paid, Paying, At
  <1> QED
    BY <1>1 DEF PayOK, Live

\* A moderator ahead of a video that is gone stays so.
LEMMA DoomedStays ==
    ASSUME CallsOK, NEW c \in Calls, NEW where, NEW sees, Moved(c, where, sees), Doomed,
           ModAhead(c) => Fresh(VideoOf(c)),
           \A d \in Calls : ModAhead(d) /\ Fresh(VideoOf(d))' => Fresh(VideoOf(d)) \/ Uploading(VideoOf(d))
    PROVE  Doomed'
  <1>1. PICK d \in Calls : ModAhead(d) /\ ~Fresh(VideoOf(d))
    BY DEF Doomed
  <1>2. d # c /\ ModAhead(d)'
    BY <1>1 DEF Moved, ModAhead, At
  <1>3. ~Uploading(VideoOf(d))
    BY <1>1 DEF CallsOK, CallFine, ModAhead, At, Uploading
  <1>4. ~Fresh(VideoOf(d))'
    BY <1>1, <1>3
  <1> QED
    BY <1>2, <1>4 DEF Doomed

\* The calls between two writes that matter to Flow.
Midway(c) == UpSaved(c) \/ Erased(c) \/ DelSaved(c) \/ ModSaved(c) \/ ModAhead(c)

LEMMA MidwayOthers ==
    ASSUME NEW c \in Calls, NEW where, NEW sees, Moved(c, where, sees), NEW d \in Calls, d # c
    PROVE  /\ (UpSaved(d)' <=> UpSaved(d))
           /\ (Erased(d)' <=> Erased(d))
           /\ (DelSaved(d)' <=> DelSaved(d))
           /\ (ModSaved(d)' <=> ModSaved(d))
           /\ (ModAhead(d)' <=> ModAhead(d))
           /\ (ModReady(d)' <=> ModReady(d))
           /\ call'[d].saw = call[d].saw
  BY DEF Moved, UpSaved, Erased, DelSaved, ModSaved, ModAhead, ModReady, At

LEMMA FlowFrame ==
    ASSUME Flow, NEW c \in Calls, NEW where, NEW sees, Moved(c, where, sees), UNCHANGED <<status, rows, video>>,
           ~Midway(c), ~Midway(c)', ModReady(c)' => ModReady(c) \/ status = "MODERATOR_REVIEW"
    PROVE  Flow'
  <1>1. ASSUME NEW v
        PROVE  /\ (Fresh(v)' <=> Fresh(v))
               /\ (Uploading(v)' <=> Uploading(v))
               /\ (IsNewest(v)' <=> IsNewest(v))
    BY DEF Fresh, Uploading, IsNewest, Active, Newest
  <1>2. ASSUME NEW d \in Calls
        PROVE  /\ (UpSaved(d)' <=> UpSaved(d))
               /\ (Erased(d)' <=> Erased(d))
               /\ (DelSaved(d)' <=> DelSaved(d))
               /\ (ModSaved(d)' <=> ModSaved(d))
               /\ (ModAhead(d)' <=> ModAhead(d))
               /\ ModReady(d)' => ModReady(d) \/ status = "MODERATOR_REVIEW"
               /\ Erased(d) \/ DelSaved(d) => call'[d].saw = call[d].saw
    BY MidwayOthers DEF Midway
  <1>3. ASSUME NEW v
        PROVE  Ahead(v)' <=> Ahead(v)
    BY <1>2 DEF Ahead
  <1>4. ASSUME NEW d \in Calls
        PROVE  CallFlows(d)'
    <2>1. CallFlows(d)
      BY DEF Flow
    <2> QED
      BY <1>1, <1>2, <1>3, <2>1 DEF CallFlows
  <1>5. status' = status /\ video' = video
    OBVIOUS
  <1> QED
    BY <1>1, <1>2, <1>3, <1>4, <1>5 DEF Flow

\* A call that only moves.
LEMMA MoveKeeps ==
    ASSUME Proper, NEW c \in Calls, NEW where, NEW sees, Moved(c, where, sees),
           UNCHANGED <<status, rows, video>>, asset' = asset \/ AssetsStay(c),
           ~Midway(c), ~Midway(c)', ModReady(c)' => ModReady(c) \/ status = "MODERATOR_REVIEW",
           SawFine(c)', CallFine(c)', PayOK'
    PROVE  Proper'
  <1>1. SawOK'
    BY SawFrame DEF Proper, SawOK
  <1>2. RowsOK'
    <2>1. \A v \in Videos : ~Erasing(c, v)
      BY DEF Midway, Erased, DelSaved, Erasing, At
    <2> QED
      BY <2>1, RowsFrame DEF Proper
  <1>3. CallsOK'
    BY CallsFrame DEF Proper
  <1>4. ASSUME Doomed
        PROVE  Doomed'
    BY <1>4, DoomedStays DEF Proper, Midway, Fresh
  <1>5. ASSUME Flow
        PROVE  Flow'
    BY <1>5, FlowFrame
  <1> QED
    BY <1>1, <1>2, <1>3, <1>4, <1>5 DEF Proper

-----------------------------------------------------------------------------
(* The steps that write neither a row nor the request.                     *)

LEMMA LoadsKeep ==
    ASSUME DeliveryTypes, Proper, NEW c \in Calls,
           \/ LoadRequest(c) \/ LoadVideo(c) \/ CheckSession(c)
           \/ LoadModeratable(c) \/ SelectAsset(c)
    PROVE  Proper'
  <1>1. UNCHANGED <<status, rows, video, asset, escrow>>
    BY DEF LoadRequest, LoadVideo, CheckSession, LoadModeratable, SelectAsset, money, videos
  <1>2. SawFine(c) /\ CallFine(c) /\ status \in Live \cup Over
    BY DEF Proper, SawOK, CallsOK
  <1>3. call[c].pc \in {"idle", "loaded"} /\ ~Midway(c)
    BY DEF LoadRequest, LoadVideo, CheckSession, LoadModeratable, SelectAsset, MayStart, At,
           Midway, UpSaved, Erased, DelSaved, ModSaved, ModAhead
  <1>4. PICK where \in {"loaded", "ready", "done"}, sees \in Statuses : Moved(c, where, sees)
    <2>1. ASSUME NEW w \in {"loaded", "ready", "done"}, To(c, w)
          PROVE  Moved(c, w, call[c].saw)
      BY <2>1, ToMoves
    <2>2. ASSUME NEW w, call' = [call EXCEPT ![c] = [pc |-> w, saw |-> status]]
          PROVE  Moved(c, w, status)
      BY <2>2 DEF DeliveryTypes, Moved
    <2>3. status \in Statuses /\ call[c].saw \in Statuses
      BY DEF DeliveryTypes
    <2> QED
      BY <2>1, <2>2, <2>3 DEF LoadRequest, LoadVideo, CheckSession, LoadModeratable, SelectAsset
  <1>5. ~Midway(c)'
    BY <1>4 DEF Moved, Midway, UpSaved, Erased, DelSaved, ModSaved, ModAhead, At
  <1>6. PayOK'
    <2>1. ~Paid(c) /\ ~Paying(c) /\ ~At(c, "chained", Payments)
      BY <1>3 DEF Paid, Paying, At
    <2> QED
      BY <1>1, <1>4, <2>1, PayFrame DEF Proper
  <1>7. CASE LoadRequest(c)
    <2>1. call'[c].pc = "loaded" /\ call'[c].saw = status
      BY <1>7 DEF LoadRequest, DeliveryTypes
    <2>2. SawFine(c)'
      BY <1>2, <1>7, <2>1
         DEF LoadRequest, SawFine, CanTransition, TRANSITIONS, Live, Over, Payments, Refunds, Mods, Running
    <2>3. CallFine(c)'
      BY <1>1, <1>2, <1>7, <2>1 DEF LoadRequest, MayStart, CallFine, At, Uploading
    <2>4. ~ModReady(c)'
      BY <2>1 DEF ModReady, At
    <2> QED
      BY <1>1, <1>3, <1>4, <1>5, <1>6, <2>2, <2>3, <2>4, MoveKeeps
  <1>8. CASE LoadVideo(c)
    <2>1. /\ call'[c].pc \in {"ready", "done"} /\ call'[c].saw = call[c].saw
          /\ Job[c].op \in {"complete", "delete", "retry", "cancel"}
          /\ video[VideoOf(c)].status # "none"
          /\ call'[c].pc = "ready" =>
                /\ Job[c].op = "complete" => call[c].saw = "RECORDING"
                /\ Job[c].op = "delete" => /\ video[VideoOf(c)].status = "UPLOADED"
                                           /\ call[c].saw \in {"UPLOAD", "MODERATOR_REVIEW"}
      BY <1>8 DEF LoadVideo, At, DeliveryTypes, To, VideoOf
    <2>2. SawFine(c)'
      BY <2>1 DEF SawFine, Payments, Mods
    <2>3. CallFine(c)'
      BY <1>1, <2>1 DEF CallFine, At, Mods
    <2>4. ~ModReady(c)'
      BY <2>1 DEF ModReady, At, Mods
    <2> QED
      BY <1>1, <1>3, <1>4, <1>5, <1>6, <2>2, <2>3, <2>4, MoveKeeps
  <1>9. CASE CheckSession(c)
    <2>1. call'[c].pc \in {"ready", "done"} /\ call'[c].saw = call[c].saw
          /\ Job[c].op = "session" /\ call[c].pc = "loaded"
      BY <1>9 DEF CheckSession, At, DeliveryTypes, To
    <2>2. SawFine(c)'
      BY <1>2, <2>1 DEF SawFine, Payments, Mods
    <2>3. CallFine(c)'
      BY <1>1, <1>2, <2>1 DEF CallFine, At, Mods
    <2>4. ~ModReady(c)'
      BY <2>1 DEF ModReady, At, Mods
    <2> QED
      BY <1>1, <1>3, <1>4, <1>5, <1>6, <2>2, <2>3, <2>4, MoveKeeps
  <1>10. CASE LoadModeratable(c)
    <2>1. call'[c].pc = "ready" /\ call'[c].saw = status /\ Job[c].op \in Mods
          /\ status = "MODERATOR_REVIEW" /\ video[VideoOf(c)].status = "UPLOADED"
      BY <1>10 DEF LoadModeratable, Moderatable, Fresh, Mods, VideoOf, DeliveryTypes
    <2>2. SawFine(c)'
      BY <2>1 DEF SawFine, Payments, Mods
    <2>3. CallFine(c)'
      BY <1>1, <2>1 DEF CallFine, At, Mods
    <2> QED
      BY <1>1, <1>3, <1>4, <1>5, <1>6, <2>1, <2>2, <2>3, MoveKeeps
  <1>11. CASE SelectAsset(c)
    <2>1. call'[c].pc = "ready" /\ Job[c].op = "purge" /\ status \in Over
      BY <1>2, <1>11 DEF SelectAsset, PurgeCandidate, To, DeliveryTypes, Live, Over
    <2>2. SawFine(c)'
      BY <2>1 DEF SawFine, Payments, Mods
    <2>3. CallFine(c)'
      BY <1>1, <2>1 DEF CallFine, At, Mods
    <2>4. ~ModReady(c)'
      BY <2>1 DEF ModReady, At, Mods
    <2> QED
      BY <1>1, <1>3, <1>4, <1>5, <1>6, <2>2, <2>3, <2>4, MoveKeeps
  <1> QED
    BY <1>7, <1>8, <1>9, <1>10, <1>11

LEMMA CutKeeps ==
    ASSUME DeliveryTypes, Proper, NEW c \in Calls, Cut(c), torn' = {}
    PROVE  Proper'
  <1>1. UNCHANGED <<status, rows, video, asset, escrow>> /\ ~MidWrite(c)
    BY DEF Cut, money, videos
  <1>2. Moved(c, "cut", call[c].saw)
    BY ToMoves DEF Cut
  <1>3. ~Midway(c) /\ ~Paid(c) /\ ~Paying(c) /\ ~At(c, "chained", Payments)
    BY <1>1 DEF MidWrite, Midway, UpSaved, Erased, DelSaved, ModSaved, ModAhead, Paid, Paying, At
  <1>4. call'[c].pc = "cut"
    BY <1>2 DEF Moved
  <1>5. ~Midway(c)' /\ ~ModReady(c)' /\ SawFine(c)' /\ CallFine(c)'
    BY <1>4 DEF Midway, UpSaved, Erased, DelSaved, ModSaved, ModAhead, ModReady, At, SawFine, CallFine, Running
  <1>6. PayOK'
    BY <1>1, <1>2, <1>3, PayFrame DEF Proper
  <1> QED
    BY <1>1, <1>2, <1>3, <1>5, <1>6, MoveKeeps

LEMMA ReadEscrowKeeps ==
    ASSUME DeliveryTypes, Proper, NEW c \in Calls, ReadEscrow(c)
    PROVE  Proper'
  <1> DEFINE where == IF escrow = "RESERVED" THEN "reserved" ELSE "done"
  <1>1. UNCHANGED <<status, rows, video, asset, escrow>>
    BY DEF ReadEscrow, money, videos
  <1>2. Moved(c, where, call[c].saw)
    BY ToMoves DEF ReadEscrow, Settles
  <1>3. \/ Job[c].op \in Payments /\ call[c].pc = "ready"
        \/ Job[c].op \in Refunds /\ call[c].pc = "loaded"
    BY DEF ReadEscrow, At
  <1>4. call'[c].pc \in {"reserved", "done"} /\ call'[c].saw = call[c].saw
        /\ (escrow = "RESERVED" => call'[c].pc = "reserved")
    BY <1>2 DEF Moved
  <1>5. ~Midway(c) /\ ~Midway(c)' /\ ~ModReady(c)'
    BY <1>3, <1>4 DEF Midway, UpSaved, Erased, DelSaved, ModSaved, ModAhead, ModReady, At
  <1>6. SawFine(c)'
    <2>1. SawFine(c)
      BY DEF Proper, SawOK
    <2> QED
      BY <1>3, <1>4, <2>1 DEF SawFine, Payments, Refunds, Mods, Running
  <1>7. CallFine(c)'
    BY <1>3, <1>4 DEF CallFine, Payments, Refunds, Mods, At
  <1>8. PayOK'
    <2>1. ASSUME NEW d \in Calls, d # c
          PROVE  /\ (Paid(d)' <=> Paid(d)) /\ (Paying(d)' <=> Paying(d))
                 /\ (At(d, "chained", Payments)' <=> At(d, "chained", Payments))
      BY <1>2, <2>1 DEF Moved, Paid, Paying, At
    <2>2. ~Paid(c) /\ ~At(c, "chained", Payments)
      BY <1>3 DEF Paid, At
    <2>3. CASE escrow = "RESERVED"
      <3>1. Paying(c) => Paying(c)'
        BY <1>4, <2>3 DEF Paying, At
      <3> QED
        BY <1>1, <2>1, <2>2, <2>3, <3>1 DEF Proper, PayOK
    <2>4. CASE escrow # "RESERVED"
      BY <1>1, <2>1, <2>2, <2>4 DEF Proper, PayOK
    <2> QED
      BY <2>3, <2>4
  <1> QED
    BY <1>1, <1>2, <1>5, <1>6, <1>7, <1>8, MoveKeeps

LEMMA SettleKeepsProper ==
    ASSUME DeliveryTypes, OnlyDecisionsReserve, Proper, NEW c \in Calls, Settle(c) \/ WriteEscrow(c)
    PROVE  Proper'
  <1>1. UNCHANGED <<status, rows, video, asset>> /\ call[c].pc \in {"reserved", "credited"}
    BY DEF Settle, WriteEscrow, videos
  <1>2. \/ Moved(c, "paid", call[c].saw)
        \/ /\ Moved(c, "credited", call[c].saw) /\ escrow' = escrow /\ call[c].pc = "reserved"
    BY ToMoves DEF Settle, WriteEscrow, WriteState
  <1>3. c \in Decisions /\ Job[c].op \in {"accept", "auto", "reject", "withdraw"}
    BY <1>1, DecisionOps DEF OnlyDecisionsReserve, Open
  <1>4. call'[c].pc \in {"credited", "paid"} /\ call'[c].saw = call[c].saw
    BY <1>2 DEF Moved
  <1>5. ~Midway(c) /\ ~Midway(c)' /\ ~ModReady(c)'
    BY <1>1, <1>4 DEF Midway, UpSaved, Erased, DelSaved, ModSaved, ModAhead, ModReady, At
  <1>6. SawFine(c)'
    <2>1. SawFine(c)
      BY DEF Proper, SawOK
    <2> QED
      BY <1>1, <1>3, <1>4, <2>1 DEF SawFine, Payments, Mods, Running
  <1>7. CallFine(c)'
    BY <1>4 DEF CallFine, At
  <1>8. PayOK'
    <2>1. \A d \in Calls : At(d, "chained", Payments) => At(d, "chained", Payments)'
      BY <1>1, <1>2 DEF Moved, At
    <2>2. CASE Moved(c, "paid", call[c].saw)
      <3>1. Paid(c)'
        BY <1>3, <2>2 DEF Paid, Moved
      <3> QED
        BY <1>1, <2>1, <3>1 DEF Proper, PayOK
    <2>3. CASE /\ Moved(c, "credited", call[c].saw) /\ escrow' = escrow /\ call[c].pc = "reserved"
      <3>1. \A d \in Calls : (Paid(d) => Paid(d)') /\ (Paying(d) => Paying(d)')
        BY <2>3 DEF Moved, Paid, Paying
      <3> QED
        BY <1>1, <2>1, <2>3, <3>1 DEF Proper, PayOK
    <2> QED
      BY <1>2, <2>2, <2>3
  <1> QED
    BY <1>1, <1>2, <1>5, <1>6, <1>7, <1>8, MoveKeeps

\* An upload the provider refuses, and one after which no moderator is asked.
LEMMA EndsKeep ==
    ASSUME DeliveryTypes, Proper, NEW c \in Calls, UNCHANGED <<status, rows, video, asset, escrow>>,
           \/ At(c, "uploading", {"complete"}) /\ To(c, "refused")
           \/ At(c, "chained", {"complete"}) /\ To(c, "done")
    PROVE  Proper'
  <1>1. PICK where \in {"refused", "done"} :
            /\ Moved(c, where, call[c].saw)
            /\ where = "refused" => call[c].pc = "uploading"
    BY ToMoves DEF At
  <1>2. Job[c].op = "complete" /\ call[c].pc \in {"uploading", "chained"}
    BY DEF At
  <1>3. call'[c].pc \in {"refused", "done"} /\ call'[c].saw = call[c].saw
        /\ (call'[c].pc = "refused" => call[c].pc = "uploading")
    BY <1>1 DEF Moved, At
  <1>4. ~Midway(c) /\ ~Midway(c)' /\ ~ModReady(c)'
    BY <1>2, <1>3 DEF Midway, UpSaved, Erased, DelSaved, ModSaved, ModAhead, ModReady, At, Mods
  <1>5. SawFine(c)'
    <2>1. SawFine(c)
      BY DEF Proper, SawOK
    <2> QED
      BY <1>2, <1>3, <2>1 DEF SawFine, Payments, Mods
  <1>6. CallFine(c)'
    BY <1>2, <1>3 DEF CallFine, At, Mods
  <1>7. ~Paid(c) /\ ~Paying(c) /\ ~At(c, "chained", Payments)
    BY <1>2, DecisionOps DEF Paid, Paying, At, Payments
  <1>8. PayOK'
    BY <1>1, <1>7, PayFrame DEF Proper
  <1> QED
    BY <1>1, <1>4, <1>5, <1>6, <1>8, MoveKeeps

-----------------------------------------------------------------------------
(* The steps at the storage provider.                                      *)

LEMMA UploadKeeps ==
    ASSUME DeliveryTypes, Proper, NEW c \in Calls, Upload(c)
    PROVE  Proper'
  <1>1. UNCHANGED <<status, rows, video, escrow>> /\ At(c, "uploading", {"complete"})
    BY DEF Upload, money
  <1>2. CASE asset' = asset /\ To(c, "refused")
    BY <1>1, <1>2, EndsKeep
  <1>3. CASE asset' = [asset EXCEPT ![VideoOf(c)] = "stored"] /\ To(c, "stored")
    <2>1. Moved(c, "stored", call[c].saw)
      BY <1>3, ToMoves
    <2>2. Job[c].op = "complete" /\ call[c].pc = "uploading" /\ VideoOf(c) \in Videos
      BY <1>1, JobsOnVideos DEF At, OnVideo
    <2>3. call'[c].pc = "stored" /\ call'[c].saw = call[c].saw
      BY <2>1 DEF Moved
    <2>4. AssetsStay(c) /\ asset'[VideoOf(c)] = "stored"
      BY <1>3, <2>2 DEF AssetsStay, Proper, RowsOK
    <2>5. ~Midway(c) /\ ~Midway(c)' /\ ~ModReady(c)'
      BY <2>2, <2>3 DEF Midway, UpSaved, Erased, DelSaved, ModSaved, ModAhead, ModReady, At
    <2>6. SawFine(c)'
      <3>1. SawFine(c)
        BY DEF Proper, SawOK
      <3> QED
        BY <2>2, <2>3, <3>1 DEF SawFine, Payments, Mods
    <2>7. CallFine(c)'
      BY <2>2, <2>3, <2>4 DEF CallFine, At, Mods
    <2>8. ~Paid(c) /\ ~Paying(c) /\ ~At(c, "chained", Payments)
      BY <2>2 DEF Paid, Paying, At
    <2>9. PayOK'
      BY <1>1, <2>1, <2>8, PayFrame DEF Proper
    <2> QED
      BY <1>1, <2>1, <2>4, <2>5, <2>6, <2>7, <2>9, MoveKeeps
  <1> QED
    BY <1>2, <1>3 DEF Upload, VideoOf

LEMMA DeleteAssetKeeps ==
    ASSUME DeliveryTypes, Proper, NEW c \in Calls, DeleteAsset(c)
    PROVE  Proper'
  <1>1. UNCHANGED <<status, rows, video, escrow>> /\ call[c].pc = "ready" /\ Job[c].op = "purge"
    BY DEF DeleteAsset, At, money
  <1>2. Moved(c, "erased", call[c].saw) /\ asset' = [asset EXCEPT ![VideoOf(c)] = "erased"]
    BY ToMoves DEF DeleteAsset, VideoOf
  <1>3. call'[c].pc = "erased"
    BY <1>2 DEF Moved
  <1>4. status \in Over
    BY <1>1 DEF Proper, CallsOK, CallFine
  <1>5. AssetsStay(c)
    BY <1>2, <1>4 DEF AssetsStay, Proper, RowsOK
  <1>6. ~Midway(c) /\ ~Midway(c)' /\ ~ModReady(c)'
    BY <1>1, <1>3 DEF Midway, UpSaved, Erased, DelSaved, ModSaved, ModAhead, ModReady, At
  <1>7. SawFine(c)' /\ CallFine(c)'
    BY <1>1, <1>3, <1>4 DEF SawFine, CallFine, At, Payments, Mods
  <1>8. ~Paid(c) /\ ~Paying(c) /\ ~At(c, "chained", Payments)
    BY <1>1, DecisionOps DEF Paid, Paying, At, Payments
  <1>9. PayOK'
    BY <1>1, <1>2, <1>8, PayFrame DEF Proper
  <1> QED
    BY <1>1, <1>2, <1>5, <1>6, <1>7, <1>9, MoveKeeps

LEMMA EraseDraftKeeps ==
    ASSUME DeliveryTypes, Proper, NEW c \in Calls, EraseDraft(c), late' = {}
    PROVE  Proper'
  <1>1. /\ UNCHANGED <<status, rows, video, escrow>> /\ call[c].pc = "ready" /\ Job[c].op = "delete"
        /\ status = call[c].saw
    BY DEF EraseDraft, At, MarkLate, money
  <1>2. Moved(c, "erased", call[c].saw) /\ asset' = [asset EXCEPT ![VideoOf(c)] = "erased"]
    BY ToMoves DEF EraseDraft, VideoOf
  <1>3. call'[c].pc = "erased" /\ call'[c].saw = call[c].saw
    BY <1>2 DEF Moved
  <1>4. VideoOf(c) \in Videos /\ video[VideoOf(c)].status \in {"UPLOADED", "CANCELLED"}
    BY <1>1, JobsOnVideos DEF OnVideo, Proper, CallsOK, CallFine
  <1>5. AssetsStay(c)
    BY <1>1, <1>2, <1>3, <1>4 DEF AssetsStay, Proper, RowsOK, Erasing
  <1>6. SawOK'
    <2>1. SawFine(c) /\ status \in Live \cup Over
      BY DEF Proper, SawOK
    <2>2. SawFine(c)'
      BY <1>1, <1>3, <2>1 DEF SawFine, Payments, Mods
    <2> QED
      BY <1>1, <1>2, <2>1, <2>2, SawFrame DEF Proper
  <1>7. RowsOK'
    <2>1. \A v \in Videos : ~Erasing(c, v)
      BY <1>1 DEF Erasing
    <2> QED
      BY <1>1, <1>2, <1>5, <2>1, RowsFrame DEF Proper
  <1>8. CallsOK'
    <2>1. CallFine(c)'
      BY <1>1, <1>3, <1>4 DEF CallFine, At, Mods
    <2> QED
      BY <1>1, <1>2, <1>5, <2>1, CallsFrame DEF Proper
  <1>9. PayOK'
    <2>1. ~Paid(c) /\ ~Paying(c) /\ ~At(c, "chained", Payments)
      BY <1>1, DecisionOps DEF Paid, Paying, At, Payments
    <2> QED
      BY <1>1, <1>2, <2>1, PayFrame DEF Proper
  <1>10. ASSUME Doomed
         PROVE  Doomed'
    BY <1>1, <1>2, <1>10, DoomedStays DEF Proper, Fresh, ModAhead, At
  <1>11. ASSUME Flow
         PROVE  Flow'
    <2>1. ASSUME NEW v
          PROVE  /\ (Fresh(v)' <=> Fresh(v))
                 /\ (Uploading(v)' <=> Uploading(v))
                 /\ (IsNewest(v)' <=> IsNewest(v))
      BY <1>1 DEF Fresh, Uploading, IsNewest, Active, Newest
    <2>2. ASSUME NEW d \in Calls
          PROVE  /\ (UpSaved(d)' <=> UpSaved(d)) /\ (DelSaved(d)' <=> DelSaved(d))
                 /\ (ModSaved(d)' <=> ModSaved(d)) /\ (ModAhead(d)' <=> ModAhead(d))
                 /\ (ModReady(d)' <=> ModReady(d)) /\ (Erased(d)' => Erased(d) \/ d = c)
                 /\ call'[d].saw = call[d].saw
      <3>1. ~UpSaved(c) /\ ~DelSaved(c) /\ ~ModSaved(c) /\ ~ModAhead(c) /\ ~ModReady(c)
            /\ ~UpSaved(c)' /\ ~DelSaved(c)' /\ ~ModSaved(c)' /\ ~ModAhead(c)' /\ ~ModReady(c)'
        BY <1>1, <1>3 DEF UpSaved, DelSaved, ModSaved, ModAhead, ModReady, At, Mods
      <3> QED
        BY <1>2, <1>3, <3>1, MidwayOthers
    <2>3. ASSUME NEW v
          PROVE  Ahead(v)' <=> Ahead(v)
      BY <2>2 DEF Ahead
    <2>4. ASSUME NEW d \in Calls
          PROVE  CallFlows(d)'
      <3>1. CallFlows(d)
        BY <1>11 DEF Flow
      <3> QED
        BY <1>1, <2>1, <2>2, <2>3, <3>1 DEF CallFlows
    <2> QED
      BY <1>1, <1>11, <2>1, <2>2, <2>3, <2>4 DEF Flow
  <1> QED
    BY <1>1, <1>6, <1>7, <1>8, <1>9, <1>10, <1>11 DEF Proper

-----------------------------------------------------------------------------
(* The steps that write a row.                                             *)

\* Only the row of v is written, and it goes on: an upload that has ended is
\* only cancelled, what is cancelled stays so, and a decision stands.
RowMoves(v) ==
    /\ video' \in [Videos -> VideoCols] /\ \A w \in Videos \ {v} : video'[w] = video[w]
    /\ video[v].status = "none" <=> video'[v].status = "none"
    /\ video[v].status = "UPLOADED" => video'[v].status \in {"UPLOADED", "CANCELLED"}
    /\ video[v].status = "CANCELLED" => video'[v].status = "CANCELLED"
    /\ video[v].moderation # "PENDING" => video'[v].moderation = video[v].moderation

LEMMA OthersNewest ==
    ASSUME RowsOK, UNCHANGED rows, NEW u \in Videos, RowMoves(u),
           NEW v \in Videos, IsNewest(v), v # u \/ video'[v].status # "CANCELLED"
    PROVE  IsNewest(v)'
  <1>1. video[v].status # "CANCELLED" /\ video'[v].status # "CANCELLED"
    BY NewestRow DEF RowMoves, IsNewest, RowsOK
  <1> QED
    BY <1>1, NewestStays DEF RowMoves, RowsOK

LEMMA RowsAfterWrite ==
    ASSUME RowsOK, NEW c \in Calls, NEW where, NEW sees, Moved(c, where, sees), UNCHANGED <<status, rows, asset>>,
           NEW u \in Videos, RowMoves(u), RowFine(u)',
           \A v \in Videos \ {u} : Erasing(c, v) => Erasing(c, v)'
    PROVE  RowsOK'
  <1>1. ASSUME NEW v \in Videos, v # u
        PROVE  RowFine(v)'
    <2>1. RowFine(v) /\ video'[v] = video[v]
      BY <1>1 DEF RowsOK, RowMoves
    <2>2. (Fresh(v)' <=> Fresh(v)) /\ (Uploading(v)' <=> Uploading(v))
      BY <2>1 DEF Fresh, Uploading
    <2>3. IsNewest(v) => IsNewest(v)'
      BY <1>1, OthersNewest
    <2>4. \A d \in Calls : Erasing(d, v) => Erasing(d, v)'
      BY <1>1 DEF Erasing, Moved
    <2> QED
      BY <2>1, <2>2, <2>3, <2>4 DEF RowFine
  <1> QED
    BY <1>1 DEF RowsOK, RowMoves

LEMMA CallsAfterWrite ==
    ASSUME RowsOK, CallsOK, NEW c \in Calls, NEW where, NEW sees, Moved(c, where, sees), UNCHANGED <<status, asset>>,
           NEW u \in Videos, RowMoves(u), CallFine(c)'
    PROVE  CallsOK'
  <1>1. ASSUME NEW d \in Calls, d # c
        PROVE  CallFine(d)'
    <2>1. call'[d] = call[d] /\ CallFine(d)
      BY <1>1 DEF Moved, CallsOK
    <2>2. /\ Job[d].op = "session" => d \in Videos
          /\ Job[d].op \in OnVideo => VideoOf(d) \in Videos
      BY JobsOnVideos DEF Videos, Of
    <2>3. Job[d].op = "session" /\ call[d].pc \in {"idle", "loaded", "ready"} => video'[d].status = "none"
      BY <2>1, <2>2 DEF CallFine, RowMoves
    <2>4. ASSUME Job[d].op \in OnVideo
          PROVE  CallFine(d)'
      <3> DEFINE v == VideoOf(d)
      <3>1. /\ video[v].status = "none" <=> video'[v].status = "none"
            /\ video[v].status = "UPLOADED" => video'[v].status \in {"UPLOADED", "CANCELLED"}
            /\ video[v].status = "CANCELLED" => video'[v].status = "CANCELLED"
            /\ video[v].moderation # "PENDING" => video'[v].moderation = video[v].moderation
        BY <2>2, <2>4 DEF RowMoves
      <3> QED
        BY <2>1, <2>4, <3>1 DEF CallFine, At, OnVideo, Mods
    <2> QED
      BY <2>1, <2>3, <2>4 DEF CallFine, At, OnVideo, Mods
  <1> QED
    BY <1>1 DEF CallsOK

\* A row that is not yet uploaded is written.
LEMMA EarlyWriteKeeps ==
    ASSUME Proper, NEW c \in Calls, NEW where, NEW sees, Moved(c, where, sees), UNCHANGED <<status, rows, asset>>,
           NEW u \in Videos, RowMoves(u), video[u].status # "UPLOADED", video'[u].status # "UPLOADED",
           video'[u].moderation = video[u].moderation,
           Uploading(u)' => status = "RECORDING" /\ IsNewest(u),
           ~Midway(c), ~Midway(c)', ~ModReady(c)', SawFine(c)', CallFine(c)', PayOK'
    PROVE  Proper'
  <1>1. RowsOK /\ CallsOK /\ SawOK
    BY DEF Proper
  <1>2. SawOK'
    BY <1>1, SawFrame DEF SawOK
  <1>3. ~Fresh(u) /\ ~Fresh(u)' /\ video[u].moderation = "PENDING"
    BY <1>1 DEF Fresh, RowsOK, RowFine, RowMoves, VideoCols
  <1>4. RowsOK'
    <2>1. Uploading(u)' => IsNewest(u)'
      BY <1>1, OthersNewest DEF Uploading
    <2>2. RowFine(u)'
      BY <1>3, <2>1 DEF RowFine
    <2>3. \A v \in Videos : ~Erasing(c, v)
      BY DEF Midway, Erased, DelSaved, Erasing, At
    <2> QED
      BY <1>1, <2>2, <2>3, RowsAfterWrite
  <1>5. CallsOK'
    BY <1>1, CallsAfterWrite
  <1>6. ASSUME NEW v \in Videos
        PROVE  /\ (Fresh(v)' <=> Fresh(v)) /\ video'[v].moderation = video[v].moderation
               /\ Uploading(v)' => Uploading(v) \/ status = "RECORDING"
               /\ IsNewest(v) /\ video[v].status = "UPLOADED" => IsNewest(v)'
    <2>1. CASE v = u
      BY <1>3, <2>1
    <2>2. CASE v # u
      BY <1>1, <2>2, OthersNewest DEF RowMoves, Fresh, Uploading
    <2> QED
      BY <2>1, <2>2
  <1>7. \A d \in Calls : UpSaved(d) \/ Erased(d) \/ DelSaved(d) \/ ModSaved(d) \/ ModAhead(d) \/ ModReady(d)
            => VideoOf(d) \in Videos
    BY JobsOnVideos DEF UpSaved, Erased, DelSaved, ModSaved, ModAhead, ModReady, At, OnVideo, Mods
  <1>8. ASSUME Doomed
        PROVE  Doomed'
    <2>1. ModAhead(c) => Fresh(VideoOf(c))
      BY DEF Midway
    <2> QED
      BY <1>1, <1>6, <1>7, <1>8, <2>1, DoomedStays
  <1>9. ASSUME Flow
        PROVE  Flow'
    <2>2. ASSUME NEW d \in Calls
          PROVE  /\ (UpSaved(d)' <=> UpSaved(d)) /\ (Erased(d)' <=> Erased(d))
                 /\ (DelSaved(d)' <=> DelSaved(d)) /\ (ModSaved(d)' <=> ModSaved(d))
                 /\ (ModAhead(d)' <=> ModAhead(d)) /\ (ModReady(d)' => ModReady(d))
                 /\ Erased(d) \/ DelSaved(d) => call'[d].saw = call[d].saw
      BY MidwayOthers DEF Midway
    <2>3. ASSUME NEW v
          PROVE  Ahead(v)' <=> Ahead(v)
      BY <2>2 DEF Ahead
    <2>4. ASSUME NEW d \in Calls
          PROVE  CallFlows(d)'
      <3>1. CallFlows(d)
        BY <1>9 DEF Flow
      <3>2. ModSaved(d) => video[VideoOf(d)].status = "UPLOADED"
        <4>1. ASSUME ModSaved(d)
              PROVE  video[VideoOf(d)].moderation # "PENDING"
          BY <1>1, <4>1 DEF CallsOK, CallFine, ModSaved, At, Mods
        <4> QED
          BY <1>1, <1>7, <4>1 DEF RowsOK, RowFine
      <3> QED
        BY <1>6, <1>7, <2>2, <2>3, <3>1, <3>2 DEF CallFlows
    <2>5. ASSUME status = "REQUESTER_REVIEW"
          PROVE  \E v \in Videos :
                    IsNewest(v)' /\ (video'[v].moderation = "APPROVED" \/ (Fresh(v)' /\ Ahead(v)'))
      <3>1. PICK v \in Videos : IsNewest(v) /\ (video[v].moderation = "APPROVED" \/ (Fresh(v) /\ Ahead(v)))
        BY <1>9, <2>5 DEF Flow
      <3>2. video[v].status = "UPLOADED"
        BY <1>1, <3>1 DEF RowsOK, RowFine, Fresh
      <3> QED
        BY <1>6, <2>3, <3>1, <3>2
    <2> QED
      BY <1>6, <1>9, <2>2, <2>3, <2>4, <2>5 DEF Flow
  <1> QED
    BY <1>2, <1>4, <1>5, <1>8, <1>9 DEF Proper

\* What a call finds before and after it writes a row.
LEMMA NotMidway ==
    ASSUME NEW c \in Calls, call[c].pc \in {"ready", "stored", "refused"}, call'[c].pc \in {"uploading", "done"}
    PROVE  ~Midway(c) /\ ~Midway(c)' /\ ~ModReady(c)'
  BY DEF Midway, UpSaved, Erased, DelSaved, ModSaved, ModAhead, ModReady, At

LEMMA StartUploadKeeps ==
    ASSUME DeliveryTypes, Proper, NEW c \in Calls, StartUpload(c), late' = {}, aside' = {}
    PROVE  Proper'
  <1> DEFINE u == VideoOf(c)
  <1>1. /\ UNCHANGED <<status, rows, asset, escrow>> /\ call[c].pc = "ready" /\ Job[c].op = "complete"
        /\ status = call[c].saw /\ video[u].status \notin {"UPLOADED", "CANCELLED"} /\ IsNewest(u)
    BY DEF StartUpload, At, MarkLate, MarkAside, IsNewest, VideoOf, money
  <1>2. Moved(c, "uploading", call[c].saw) /\ call'[c].pc = "uploading" /\ call'[c].saw = call[c].saw
    BY ToMoves DEF StartUpload, Moved
  <1>3. u \in Videos /\ SawFine(c) /\ CallFine(c) /\ RowFine(u) /\ video[u] \in VideoCols
    BY <1>1, JobsOnVideos DEF OnVideo, Proper, SawOK, CallsOK, RowsOK
  <1>4. Changed(u, "UPLOADING", video[u].moderation, video[u].url)
    BY <1>3, UploadBegins DEF StartUpload, VideoOf, Proper, RowsOK
  <1>5. RowMoves(u)
    BY <1>1, <1>3, <1>4 DEF Changed, RowMoves, CallFine
  <1>6. SawFine(c)' /\ CallFine(c)'
    BY <1>1, <1>2, <1>3 DEF SawFine, CallFine, At, Payments, Mods
  <1>7. status = "RECORDING"
    BY <1>1, <1>3 DEF SawFine
  <1>8. PayOK'
    <2>1. ~Paid(c) /\ ~Paying(c) /\ ~At(c, "chained", Payments)
      BY <1>1 DEF Paid, Paying, At, Payments
    <2> QED
      BY <1>1, <1>2, <2>1, PayFrame DEF Proper
  <1> HIDE DEF u
  <1> QED
    BY <1>1, <1>2, <1>3, <1>4, <1>5, <1>6, <1>7, <1>8, NotMidway, EarlyWriteKeeps DEF Changed

\* An upload that fails, a retry, and a session cancelled.
LEMMA RowEndsKeep ==
    ASSUME DeliveryTypes, Proper, NEW c \in Calls, UploadFailed(c) \/ RetryUpload(c) \/ CancelUpload(c), late' = {}
    PROVE  Proper'
  <1> DEFINE u == VideoOf(c)
  <1>1. /\ UNCHANGED <<status, rows, asset, escrow>> /\ call[c].pc \in {"ready", "refused"}
        /\ Job[c].op \in {"complete", "retry", "cancel"} /\ To(c, "done")
    BY DEF UploadFailed, RetryUpload, CancelUpload, At, money
  <1>2. Moved(c, "done", call[c].saw) /\ call'[c].pc = "done"
    BY <1>1, ToMoves DEF Moved
  <1>3. u \in Videos /\ CallFine(c) /\ RowFine(u) /\ video[u] \in VideoCols
    BY <1>1, JobsOnVideos DEF OnVideo, Proper, CallsOK, RowsOK
  <1>4. PICK st \in {"FAILED", "PENDING", "CANCELLED"} :
            /\ SetVideo(c, [status |-> st]) /\ video[u].status \notin {"none", "UPLOADED"}
            /\ video[u].status = "CANCELLED" => st = "CANCELLED"
    BY <1>3 DEF UploadFailed, RetryUpload, CancelUpload, MarkLate, VideoOf, CallFine, At
  <1>5. Changed(u, st, video[u].moderation, video[u].url)
    BY <1>3, <1>4, StatusChanges DEF Proper, RowsOK
  <1>6. RowMoves(u) /\ video'[u].status # "UPLOADED" /\ ~Uploading(u)'
    BY <1>4, <1>5 DEF Changed, RowMoves, Uploading
  <1>7. SawFine(c)' /\ CallFine(c)'
    BY <1>1, <1>2 DEF SawFine, CallFine, At, Payments, Mods
  <1>8. PayOK'
    <2>1. ~Paid(c) /\ ~Paying(c) /\ ~At(c, "chained", Payments)
      BY <1>1, DecisionOps DEF Paid, Paying, At, Payments
    <2> QED
      BY <1>1, <1>2, <2>1, PayFrame DEF Proper
  <1> HIDE DEF u
  <1> QED
    BY <1>1, <1>2, <1>3, <1>4, <1>5, <1>6, <1>7, <1>8, NotMidway, EarlyWriteKeeps DEF Changed

\* A purged row has lost its URL, of a request that is over.
LEMMA PurgeKeeps ==
    ASSUME DeliveryTypes, Proper, NEW c \in Calls, MarkAssetPurged(c)
    PROVE  Proper'
  <1> DEFINE u == VideoOf(c)
  <1>1. /\ UNCHANGED <<status, rows, asset, escrow>> /\ call[c].pc = "erased" /\ Job[c].op = "purge"
    BY DEF MarkAssetPurged, At, money
  <1>2. Moved(c, "done", call[c].saw) /\ call'[c].pc = "done"
    BY ToMoves DEF MarkAssetPurged, Moved
  <1>3. u \in Videos /\ CallFine(c) /\ RowFine(u) /\ RowsOK /\ CallsOK /\ SawOK /\ PayOK
    BY <1>1, JobsOnVideos DEF OnVideo, Proper, CallsOK, RowsOK
  <1>4. status \in Over
    BY <1>1, <1>3 DEF CallFine
  <1>5. Changed(u, video[u].status, video[u].moderation, FALSE)
    BY <1>3, UrlChanges DEF MarkAssetPurged, RowsOK
  <1>6. RowMoves(u)
    BY <1>5 DEF Changed, RowMoves
  <1>7. SawFine(c)' /\ CallFine(c)'
    BY <1>1, <1>2 DEF SawFine, CallFine, At, Payments, Mods
  <1>8. RowFine(u)'
    <2>1. (Fresh(u)' <=> Fresh(u)) /\ (Uploading(u)' <=> Uploading(u))
      BY <1>5 DEF Changed, Fresh, Uploading
    <2>2. IsNewest(u)' <=> IsNewest(u)
      <3>1. \A w \in Videos : video'[w].status = "CANCELLED" <=> video[w].status = "CANCELLED"
        BY <1>5 DEF Changed
      <3> QED
        BY <1>1, <1>3, <3>1, NewestSame DEF RowsOK
    <2> QED
      BY <1>1, <1>3, <1>4, <1>5, <2>1, <2>2 DEF RowFine, Changed
  <1> HIDE DEF u
  <1>9. RowsOK'
    <2>1. \A v \in Videos : ~Erasing(c, v)
      BY <1>1 DEF Erasing
    <2> QED
      BY <1>1, <1>2, <1>3, <1>6, <1>8, <2>1, RowsAfterWrite
  <1>10. CallsOK'
    BY <1>1, <1>2, <1>3, <1>6, <1>7, CallsAfterWrite
  <1>11. PayOK'
    <2>1. ~Paid(c) /\ ~Paying(c) /\ ~At(c, "chained", Payments)
      BY <1>1 DEF Paid, Paying, At, Payments
    <2> QED
      BY <1>1, <1>2, <1>3, <2>1, PayFrame
  <1>12. SawOK'
    BY <1>1, <1>2, <1>3, <1>7, SawFrame DEF SawOK
  <1> QED
    BY <1>1, <1>4, <1>9, <1>10, <1>11, <1>12 DEF Proper

-----------------------------------------------------------------------------
(* The writes that begin or end a wait for the moderator.                  *)

\* At most one row is being uploaded or waits for the moderator.
LEMMA OneAtATime ==
    ASSUME RowsOK, NEW v \in Videos, Fresh(v) \/ Uploading(v), NEW w \in Videos, Fresh(w) \/ Uploading(w)
    PROVE  v = w
  BY DEF RowsOK, RowFine, IsNewest

LEMMA MidwayOnVideos ==
    \A c \in Calls : Midway(c) \/ ModReady(c) => VideoOf(c) \in Videos
  BY JobsOnVideos DEF Midway, UpSaved, Erased, DelSaved, ModSaved, ModAhead, ModReady, At, OnVideo, Mods

\* What a call on a video must have found of it, at whatever point.
LEMMA MidwayRows ==
    ASSUME SawOK, RowsOK, CallsOK, NEW c \in Calls
    PROVE  /\ Erased(c) \/ ModReady(c) \/ ModAhead(c) =>
                video[VideoOf(c)].status \in {"UPLOADED", "CANCELLED"}
           /\ Erased(c) \/ DelSaved(c) => call[c].saw \in {"UPLOAD", "MODERATOR_REVIEW"}
           /\ ModSaved(c) => video[VideoOf(c)].moderation # "PENDING"
  <1>1. CallFine(c) /\ SawFine(c)
    BY DEF CallsOK, SawOK
  <1> QED
    BY <1>1 DEF CallFine, SawFine, Erased, DelSaved, ModReady, ModSaved, ModAhead, At, Mods

LEMMA UploadSucceededKeeps ==
    ASSUME DeliveryTypes, Proper, NEW c \in Calls, UploadSucceeded(c), late' = {}
    PROVE  Proper'
  <1> DEFINE u == VideoOf(c)
  <1>1. /\ UNCHANGED <<status, rows, asset, escrow>> /\ call[c].pc = "stored" /\ Job[c].op = "complete"
        /\ Uploading(u)
    BY DEF UploadSucceeded, At, MarkLate, Uploading, VideoOf, money
  <1>2. Moved(c, "saved", call[c].saw) /\ call'[c].pc = "saved" /\ call'[c].saw = call[c].saw
    BY ToMoves DEF UploadSucceeded, Moved
  <1>3. u \in Videos /\ SawFine(c) /\ CallFine(c) /\ RowFine(u) /\ RowsOK /\ CallsOK /\ SawOK /\ PayOK
    BY <1>1, JobsOnVideos DEF OnVideo, Proper, SawOK, CallsOK, RowsOK
  <1>4. Changed(u, "UPLOADED", video[u].moderation, TRUE)
    BY <1>3, UploadEnds DEF UploadSucceeded, RowsOK
  <1>5. video[u].status = "UPLOADING" /\ video[u].moderation = "PENDING" /\ IsNewest(u)
    BY <1>1, <1>3 DEF RowFine, Uploading
  <1>6. RowMoves(u)
    BY <1>4, <1>5 DEF Changed, RowMoves
  <1>7. SawFine(c)' /\ CallFine(c)'
    BY <1>1, <1>2, <1>3 DEF SawFine, CallFine, At, Payments, Mods
  <1>8. /\ Fresh(u)' /\ ~Fresh(u) /\ ~Uploading(u)'
        /\ \A v \in Videos \ {u} : /\ ~Fresh(v) /\ ~Fresh(v)' /\ ~Uploading(v) /\ ~Uploading(v)'
                                   /\ video'[v] = video[v]
    BY <1>1, <1>3, <1>4, <1>5, OneAtATime DEF Changed, Fresh, Uploading
  <1> HIDE DEF u
  <1>9. IsNewest(u)'
    BY <1>1, <1>3, <1>4, <1>5, <1>6, OthersNewest DEF Changed
  <1>10. RowFine(u)'
    <2>1. status \in Over \/ asset[u] = "stored"
      BY <1>1, <1>3, <1>5 DEF CallFine, At, u
    <2> QED
      BY <1>1, <1>4, <1>9, <2>1 DEF RowFine, Changed
  <1>11. RowsOK'
    <2>1. \A v \in Videos : ~Erasing(c, v)
      BY <1>1 DEF Erasing
    <2> QED
      BY <1>1, <1>2, <1>3, <1>6, <1>10, <2>1, RowsAfterWrite
  <1>12. CallsOK'
    BY <1>1, <1>2, <1>3, <1>6, <1>7, CallsAfterWrite
  <1>13. SawOK'
    BY <1>1, <1>2, <1>3, <1>7, SawFrame DEF SawOK
  <1>14. PayOK'
    <2>1. ~Paid(c) /\ ~Paying(c) /\ ~At(c, "chained", Payments)
      BY <1>1 DEF Paid, Paying, At
    <2> QED
      BY <1>1, <1>2, <1>3, <2>1, PayFrame
  <1>15. UpSaved(c)' /\ ~Midway(c) /\ ~ModReady(c) /\ ~ModReady(c)'
         /\ ~Erased(c)' /\ ~DelSaved(c)' /\ ~ModSaved(c)' /\ ~ModAhead(c)'
    BY <1>1, <1>2 DEF Midway, UpSaved, Erased, DelSaved, ModSaved, ModAhead, ModReady, At, Mods
  <1>16. ASSUME Doomed
         PROVE  Doomed'
    <2>1. ModAhead(c) => Fresh(VideoOf(c))
      BY <1>15 DEF Midway
    <2>2. \A d \in Calls : ModAhead(d) => VideoOf(d) \in Videos
      BY MidwayOnVideos DEF Midway
    <2> QED
      BY <1>1, <1>2, <1>3, <1>8, <1>16, <2>1, <2>2, DoomedStays
  <1>17. ASSUME Flow, ~Doomed
         PROVE  Flow'
    <2>1. status = "RECORDING"
      BY <1>1, <1>3, <1>17 DEF Flow
    <2>2. ASSUME NEW d \in Calls, d # c
          PROVE  /\ ~UpSaved(d) /\ ~DelSaved(d) /\ ~ModSaved(d) /\ ~ModAhead(d)
                 /\ (Erased(d) \/ ModReady(d) => ~Fresh(VideoOf(d))')
      <3>1. CallFlows(d)
        BY <1>17 DEF Flow
      <3>2. ~UpSaved(d) /\ ~ModAhead(d)
        BY <1>3, <1>8, <1>17, <3>1, MidwayOnVideos DEF CallFlows, Doomed, Midway
      <3>3. ~DelSaved(d) /\ ~ModSaved(d)
        BY <1>3, <2>1, <3>1, MidwayRows DEF CallFlows
      <3>4. ASSUME Erased(d) \/ ModReady(d)
            PROVE  VideoOf(d) \in Videos /\ VideoOf(d) # u
        BY <1>3, <1>5, <3>4, MidwayRows, MidwayOnVideos DEF Midway
      <3> QED
        BY <1>8, <3>2, <3>3, <3>4
    <2>3. ASSUME NEW d \in Calls, d # c
          PROVE  /\ ~UpSaved(d)' /\ ~DelSaved(d)' /\ ~ModSaved(d)' /\ ~ModAhead(d)'
                 /\ (Erased(d)' \/ ModReady(d)' => ~Fresh(VideoOf(d))')
      BY <1>2, <2>2, <2>3, MidwayOthers
    <2>4. \A v : ~Ahead(v)'
      BY <1>15, <2>3 DEF Ahead
    <2>5. \A d \in Calls : CallFlows(d)'
      BY <1>1, <1>8, <1>15, <2>1, <2>3, <2>4 DEF CallFlows, u
    <2>6. \A v \in Videos : Fresh(v)' => \E d \in Calls : UpSaved(d)' /\ VideoOf(d) = v
      BY <1>8, <1>15 DEF u
    <2> QED
      BY <1>1, <1>8, <1>15, <2>1, <2>3, <2>5, <2>6 DEF Flow
  <1> QED
    BY <1>1, <1>11, <1>12, <1>13, <1>14, <1>16, <1>17 DEF Proper

\* The draft of a row that waits for the moderator is cancelled: nothing waits.
LEMMA CancelDraftKeeps ==
    ASSUME DeliveryTypes, Proper, NEW c \in Calls, CancelDraft(c), late' = {}, aside' = {}
    PROVE  Proper'
  <1> DEFINE u == VideoOf(c)
  <1>1. /\ UNCHANGED <<status, rows, asset, escrow>> /\ call[c].pc = "erased" /\ Job[c].op = "delete"
        /\ Fresh(u)
    BY DEF CancelDraft, At, MarkLate, VideoOf, money
  <1>2. Moved(c, "saved", call[c].saw) /\ call'[c].pc = "saved" /\ call'[c].saw = call[c].saw
    BY ToMoves DEF CancelDraft, Moved
  <1>3. u \in Videos /\ SawFine(c) /\ CallFine(c) /\ RowFine(u) /\ RowsOK /\ CallsOK /\ SawOK /\ PayOK
    BY <1>1, JobsOnVideos DEF OnVideo, Proper, SawOK, CallsOK, RowsOK
  <1>4. Changed(u, "CANCELLED", video[u].moderation, video[u].url)
    BY <1>3, StatusChanges DEF CancelDraft, RowsOK
  <1>5. RowMoves(u) /\ video'[u].moderation = "PENDING"
    BY <1>1, <1>4 DEF Changed, RowMoves, Fresh
  <1>6. SawFine(c)' /\ CallFine(c)'
    BY <1>1, <1>2, <1>3, <1>4 DEF SawFine, CallFine, Changed, At, Payments, Mods
  <1>7. /\ ~Fresh(u)' /\ ~Uploading(u)' /\ ~Uploading(u)
        /\ \A v \in Videos \ {u} : ~Fresh(v) /\ ~Fresh(v)' /\ ~Uploading(v) /\ ~Uploading(v)'
    BY <1>1, <1>3, <1>4, OneAtATime DEF Changed, Fresh, Uploading
  <1>8. RowFine(u)'
    BY <1>4, <1>5, <1>7 DEF RowFine, Changed
  <1> HIDE DEF u
  <1>9. RowsOK'
    <2>1. \A v \in Videos : Erasing(c, v) => Erasing(c, v)'
      BY <1>1, <1>2 DEF Erasing
    <2> QED
      BY <1>1, <1>2, <1>3, <1>5, <1>8, <2>1, RowsAfterWrite
  <1>10. CallsOK'
    BY <1>1, <1>2, <1>3, <1>5, <1>6, CallsAfterWrite
  <1>11. SawOK'
    BY <1>1, <1>2, <1>3, <1>6, SawFrame DEF SawOK
  <1>12. PayOK'
    <2>1. ~Paid(c) /\ ~Paying(c) /\ ~At(c, "chained", Payments)
      BY <1>1 DEF Paid, Paying, At
    <2> QED
      BY <1>1, <1>2, <1>3, <2>1, PayFrame
  <1>13. /\ Erased(c) /\ ~ModReady(c)' /\ DelSaved(c)'
         /\ ~UpSaved(c)' /\ ~Erased(c)' /\ ~ModSaved(c)' /\ ~ModAhead(c)'
         /\ ~UpSaved(c) /\ ~DelSaved(c) /\ ~ModSaved(c) /\ ~ModAhead(c)
    BY <1>1, <1>2 DEF UpSaved, Erased, DelSaved, ModSaved, ModAhead, ModReady, At, Mods
  <1>14. ASSUME Doomed
         PROVE  Doomed'
    <2>1. \A d \in Calls : ModAhead(d) => VideoOf(d) \in Videos
      BY MidwayOnVideos DEF Midway
    <2> QED
      BY <1>1, <1>2, <1>3, <1>7, <1>13, <1>14, <2>1, DoomedStays
  <1>15. ASSUME Flow, ~Doomed, Ahead(u)
         PROVE  Doomed'
    <2>1. PICK d \in Calls : ModAhead(d) /\ VideoOf(d) = u
      BY <1>15 DEF Ahead
    <2>2. ModAhead(d)'
      BY <1>2, <1>13, <2>1, MidwayOthers
    <2> QED
      BY <1>7, <2>1, <2>2 DEF Doomed
  <1>16. ASSUME Flow, ~Doomed, ~Ahead(u)
         PROVE  Flow'
    <2>1. status \in {call[c].saw, "MODERATOR_REVIEW"} /\ call[c].saw \in {"UPLOAD", "MODERATOR_REVIEW"}
      BY <1>1, <1>3, <1>13, <1>16, MidwayRows DEF Flow, CallFlows, u
    <2>2. \A v \in Videos : ~Fresh(v)' /\ ~Uploading(v)'
      BY <1>7
    <2>3. ASSUME NEW d \in Calls, d # c
          PROVE  ~UpSaved(d)' /\ ~DelSaved(d)' /\ ~ModSaved(d)' /\ ~ModAhead(d)'
      <3>1. CallFlows(d)
        BY <1>16 DEF Flow
      <3>2. ~UpSaved(d)
        BY <2>1, <3>1 DEF CallFlows
      <3>3. ~DelSaved(d) /\ ~ModSaved(d)
        BY <1>1, <1>3, <3>1 DEF CallFlows
      <3>4. ~ModAhead(d)
        <4>1. ASSUME ModAhead(d)
              PROVE  FALSE
          <5>1. Fresh(VideoOf(d)) /\ VideoOf(d) \in Videos
            BY <1>16, <4>1, MidwayOnVideos DEF Doomed, Midway
          <5>2. VideoOf(d) = u
            BY <1>7, <5>1
          <5> QED
            BY <1>16, <4>1, <5>2 DEF Ahead
        <4> QED
          BY <4>1
      <3> QED
        BY <1>2, <2>3, <3>2, <3>3, <3>4, MidwayOthers
    <2>4. \A d \in Calls : Erased(d)' \/ ModReady(d)' => VideoOf(d) \in Videos
      BY JobsOnVideos DEF Erased, ModReady, At, OnVideo, Mods
    <2>5. \A d \in Calls : CallFlows(d)'
      BY <1>1, <1>2, <1>13, <2>1, <2>2, <2>3, <2>4 DEF CallFlows
    <2> QED
      BY <1>1, <1>13, <2>1, <2>2, <2>3, <2>5 DEF Flow
  <1> QED
    BY <1>1, <1>9, <1>10, <1>11, <1>12, <1>14, <1>15, <1>16 DEF Proper

\* A moderator decides: nothing waits, and one that was ahead of the same video
\* will write over the decision.
LEMMA ModerateVideoKeeps ==
    ASSUME DeliveryTypes, Proper, NEW c \in Calls, ModerateVideo(c), late' = {}
    PROVE  Proper'
  <1> DEFINE u == VideoOf(c)
             decision == IF Job[c].op = "modApprove" THEN "APPROVED" ELSE "REJECTED"
             where == IF call[c].pc = "ready" THEN "saved" ELSE "done"
  <1>1. /\ UNCHANGED <<status, rows, asset, escrow>> /\ call[c].pc \in {"ready", "chained"}
        /\ Job[c].op \in Mods /\ Fresh(u)
    BY DEF ModerateVideo, At, MarkLate, VideoOf, money, Mods
  <1>2. Moved(c, where, call[c].saw) /\ call'[c].pc = where /\ call'[c].saw = call[c].saw
    BY ToMoves DEF ModerateVideo, Moved
  <1>3. u \in Videos /\ SawFine(c) /\ CallFine(c) /\ RowFine(u) /\ RowsOK /\ CallsOK /\ SawOK /\ PayOK
    BY <1>1, JobsOnVideos DEF OnVideo, Mods, Proper, SawOK, CallsOK, RowsOK
  <1>4. Changed(u, video[u].status, decision, video[u].url)
    BY <1>3, DecisionChanges DEF ModerateVideo, RowsOK
  <1>5. video[u].status = "UPLOADED" /\ video[u].moderation = "PENDING" /\ IsNewest(u)
    BY <1>1, <1>3 DEF RowFine, Fresh
  <1>6. RowMoves(u) /\ video'[u].status = "UPLOADED" /\ video'[u].moderation = decision
    BY <1>4, <1>5 DEF Changed, RowMoves
  <1>7. SawFine(c)' /\ CallFine(c)'
    BY <1>1, <1>2, <1>3, <1>6 DEF SawFine, CallFine, At, Payments, Mods
  <1>8. /\ ~Fresh(u)' /\ ~Uploading(u)' /\ ~Uploading(u)
        /\ \A v \in Videos \ {u} : ~Fresh(v) /\ ~Fresh(v)' /\ ~Uploading(v) /\ ~Uploading(v)'
    BY <1>1, <1>3, <1>4, <1>5, OneAtATime DEF Changed, Fresh, Uploading
  <1>9. IsNewest(u)'
    BY <1>1, <1>3, <1>5, <1>6, OthersNewest
  <1>10. ~Paid(c) /\ ~Paying(c) /\ ~At(c, "chained", Payments) /\ \A v \in Videos : ~Erasing(c, v)
    BY <1>1, DecisionOps DEF Paid, Paying, At, Payments, Mods, Erasing
  <1> HIDE DEF u
  <1>11. RowsOK'
    <2>1. (\E d \in Calls : Erasing(d, u)) => \E d \in Calls : Erasing(d, u)'
      BY <1>2, <1>10, <1>3 DEF Erasing, Moved
    <2>2. RowFine(u)'
      BY <1>1, <1>3, <1>4, <1>5, <1>6, <1>8, <2>1 DEF RowFine, Changed
    <2> QED
      BY <1>1, <1>2, <1>3, <1>6, <1>10, <2>2, RowsAfterWrite
  <1>12. CallsOK'
    BY <1>1, <1>2, <1>3, <1>6, <1>7, CallsAfterWrite
  <1>13. SawOK'
    BY <1>1, <1>2, <1>3, <1>7, SawFrame DEF SawOK
  <1>14. PayOK'
    BY <1>1, <1>2, <1>3, <1>10, PayFrame
  <1>15. /\ ~UpSaved(c) /\ ~Erased(c) /\ ~DelSaved(c) /\ ~ModSaved(c) /\ (ModReady(c) \/ ModAhead(c))
         /\ ~UpSaved(c)' /\ ~Erased(c)' /\ ~DelSaved(c)' /\ ~ModAhead(c)' /\ ~ModReady(c)'
         /\ (ModSaved(c)' => ModReady(c)) /\ (ModReady(c) => ModSaved(c)')
    BY <1>1, <1>2 DEF UpSaved, Erased, DelSaved, ModSaved, ModAhead, ModReady, At, Mods
  <1>16. ASSUME Doomed
         PROVE  Doomed'
    <2>1. \A d \in Calls : ModAhead(d) => VideoOf(d) \in Videos
      BY MidwayOnVideos DEF Midway
    <2> QED
      BY <1>1, <1>2, <1>3, <1>8, <1>16, <2>1, DoomedStays DEF u
  <1>17. ASSUME NEW d \in Calls, d # c, ModAhead(d), VideoOf(d) = u
         PROVE  Doomed'
    <2>1. ModAhead(d)'
      BY <1>2, <1>17, MidwayOthers
    <2> QED
      BY <1>8, <1>17, <2>1 DEF Doomed
  <1>18. ASSUME Flow, ~Doomed, \A d \in Calls : ModAhead(d) /\ VideoOf(d) = u => d = c
         PROVE  Flow'
    <2>1. CallFlows(c)
      BY <1>18 DEF Flow
    <2>2. \A v \in Videos : ~Fresh(v)' /\ ~Uploading(v)'
      BY <1>8
    <2>3. ASSUME NEW d \in Calls, d # c
          PROVE  /\ ~DelSaved(d)' /\ ~ModSaved(d)' /\ ~ModAhead(d)' /\ ~UpSaved(d)'
      <3>1. CallFlows(d)
        BY <1>18 DEF Flow
      <3>2. ~DelSaved(d) /\ ~ModSaved(d)
        BY <1>1, <1>3, <3>1 DEF CallFlows
      <3>3. ~ModAhead(d)
        <4>1. ASSUME ModAhead(d)
              PROVE  FALSE
          <5>1. Fresh(VideoOf(d)) /\ VideoOf(d) \in Videos
            BY <1>18, <4>1, MidwayOnVideos DEF Doomed, Midway
          <5>2. VideoOf(d) = u
            BY <1>8, <5>1
          <5> QED
            BY <1>18, <2>3, <4>1, <5>2
        <4> QED
          BY <4>1
      <3>4. ASSUME UpSaved(d)
            PROVE  FALSE
        <4>1. status = "RECORDING" /\ Fresh(VideoOf(d)) /\ ~Ahead(VideoOf(d)) /\ VideoOf(d) \in Videos
          BY <3>1, <3>4, MidwayOnVideos DEF CallFlows, Midway
        <4>2. VideoOf(d) = u
          BY <1>8, <4>1
        <4>3. ~Ahead(u) /\ status # "MODERATOR_REVIEW"
          BY <4>1, <4>2
        <4> QED
          BY <1>1, <1>15, <2>1, <4>3 DEF CallFlows, Ahead, u
      <3> QED
        BY <1>2, <2>3, <3>2, <3>3, <3>4, MidwayOthers
    <2>4. \A d \in Calls : Erased(d)' \/ ModReady(d)' => VideoOf(d) \in Videos
      BY JobsOnVideos DEF Erased, ModReady, At, OnVideo, Mods
    <2>5. ModSaved(c)' => status = "MODERATOR_REVIEW"
      <3>1. ASSUME ModReady(c)
            PROVE  status = "MODERATOR_REVIEW"
        <4>1. ~Ahead(u)
          BY <1>18, <3>1 DEF Ahead, ModAhead, ModReady, At
        <4> QED
          BY <1>1, <2>1, <3>1, <4>1 DEF CallFlows, u
      <3> QED
        BY <1>15, <3>1
    <2>6. \A d \in Calls : CallFlows(d)'
      BY <1>1, <1>9, <1>15, <2>2, <2>3, <2>4, <2>5 DEF CallFlows, u
    <2>7. status \in {"UPLOAD", "MODERATOR_REVIEW"} => ModSaved(c)' /\ status = "MODERATOR_REVIEW"
      BY <1>15, <2>1, <2>5 DEF CallFlows
    <2>8. status = "REQUESTER_REVIEW" => video'[u].moderation = "APPROVED"
      <3>1. ASSUME status = "REQUESTER_REVIEW"
            PROVE  video'[u].moderation = "APPROVED"
        <4>1. ModAhead(c) /\ Job[c].op # "modReject"
          BY <1>15, <2>1, <2>5, <3>1 DEF CallFlows
        <4> QED
          BY <1>1, <1>6, <4>1 DEF Mods
      <3> QED
        BY <3>1
    <2> QED
      BY <1>1, <1>3, <1>9, <1>15, <2>2, <2>3, <2>6, <2>7, <2>8 DEF Flow
  <1> QED
    BY <1>1, <1>11, <1>12, <1>13, <1>14, <1>16, <1>17, <1>18 DEF Proper

\* A new session: nothing was being uploaded or waiting when it was created.
LEMMA CreateUploadSessionKeeps ==
    ASSUME DeliveryTypes, Proper, NEW c \in Calls, CreateUploadSession(c), late' = {}
    PROVE  Proper'
  <1>1. /\ UNCHANGED <<status, asset, escrow>> /\ call[c].pc = "ready" /\ Job[c].op = "session"
        /\ ~Blocked /\ status = call[c].saw
        /\ rows' = Append(rows, c) /\ video' = [video EXCEPT ![c].status = "PENDING"]
    BY DEF CreateUploadSession, At, MarkLate, money
  <1>2. Moved(c, "done", call[c].saw) /\ call'[c].pc = "done"
    BY ToMoves DEF CreateUploadSession, Moved
  <1>3. c \in Videos /\ SawFine(c) /\ CallFine(c) /\ RowsOK /\ CallsOK /\ SawOK /\ PayOK
    BY <1>1 DEF Videos, Of, Proper, SawOK, CallsOK
  <1>4. status = "RECORDING" /\ video[c].status = "none"
    BY <1>1, <1>3 DEF SawFine, CallFine
  <1>5. /\ video' \in [Videos -> VideoCols] /\ video'[c].status = "PENDING"
        /\ video'[c].moderation = video[c].moderation /\ \A v \in Videos \ {c} : video'[v] = video[v]
    BY <1>1, <1>3 DEF RowsOK, VideoCols
  <1>6. \A v \in Videos : /\ ~Fresh(v) /\ ~Fresh(v)' /\ ~Uploading(v) /\ ~Uploading(v)'
                          /\ video'[v].moderation = video[v].moderation
    <2>1. \A v \in Videos : ~Fresh(v) /\ ~Uploading(v)
      BY <1>1, <1>3 DEF RowsOK, RowFine, IsNewest, Blocked, Blocks, Uploading
    <2> QED
      BY <1>5, <2>1 DEF Fresh, Uploading
  <1>7. SawFine(c)' /\ CallFine(c)'
    BY <1>1, <1>2 DEF SawFine, CallFine, At, Payments, Mods
  <1>8. RowsOK'
    <2>1. rows' \in Seq(Videos)
      BY <1>1, <1>3 DEF RowsOK
    <2>2. ASSUME NEW v \in Videos
          PROVE  RowFine(v)'
      <3>1. RowFine(v) /\ (v = c => video[v].status = "none")
        BY <1>3, <1>4 DEF RowsOK
      <3>2. \A d \in Calls : Erasing(d, v) => Erasing(d, v)'
        BY <1>1, <1>2 DEF Erasing, Moved
      <3> QED
        BY <1>1, <1>5, <1>6, <3>1, <3>2 DEF RowFine
    <2> QED
      BY <1>1, <1>3, <1>5, <2>1, <2>2 DEF RowsOK
  <1>9. CallsOK'
    <2>1. ASSUME NEW d \in Calls, d # c
          PROVE  CallFine(d)'
      <3>1. call'[d] = call[d] /\ CallFine(d)
        BY <1>2, <1>3, <2>1 DEF Moved, CallsOK
      <3>2. Job[d].op = "session" => video'[d] = video[d]
        BY <1>5, <2>1 DEF Videos, Of
      <3>3. Job[d].op \in OnVideo => VideoOf(d) \in Videos
        BY JobsOnVideos
      <3>4. Job[d].op \in OnVideo /\ video[VideoOf(d)].status # "none" => video'[VideoOf(d)] = video[VideoOf(d)]
        BY <1>4, <1>5, <3>3
      <3>5. video[c].moderation = "PENDING"
        BY <1>3, <1>4 DEF RowsOK, RowFine
      <3>6. At(d, "stored", {"complete"}) /\ VideoOf(d) = c => status \in Over \/ asset[c] = "stored"
        BY <1>4, <3>1 DEF CallFine
      <3>7. CASE Job[d].op = "session"
        BY <3>1, <3>2, <3>7 DEF CallFine, At, Mods
      <3>8. CASE Job[d].op \in OnVideo
        <4>1. CASE video'[VideoOf(d)] = video[VideoOf(d)]
          BY <1>1, <3>1, <3>8, <4>1 DEF CallFine, At, OnVideo, Mods
        <4>2. CASE VideoOf(d) = c
          BY <1>1, <1>4, <1>5, <3>1, <3>5, <3>6, <3>8, <4>2 DEF CallFine, At, OnVideo, Mods
        <4> QED
          BY <1>5, <3>3, <3>8, <4>1, <4>2
      <3>9. CASE Job[d].op \notin OnVideo \cup {"session"}
        BY <3>9 DEF CallFine, At, OnVideo, Mods
      <3> QED
        BY <3>7, <3>8, <3>9
    <2> QED
      BY <1>7, <2>1 DEF CallsOK
  <1>10. SawOK'
    BY <1>1, <1>2, <1>3, <1>7, SawFrame DEF SawOK
  <1>11. PayOK'
    <2>1. ~Paid(c) /\ ~Paying(c) /\ ~At(c, "chained", Payments)
      BY <1>1 DEF Paid, Paying, At, Payments
    <2> QED
      BY <1>1, <1>2, <1>3, <2>1, PayFrame
  <1>12. ~Midway(c) /\ ~Midway(c)' /\ ~ModReady(c)'
    BY <1>1, <1>2, NotMidway
  <1>13. \A d \in Calls : Midway(d) \/ ModReady(d) => VideoOf(d) \in Videos
    BY MidwayOnVideos
  <1>14. ASSUME Doomed
         PROVE  Doomed'
    BY <1>2, <1>3, <1>6, <1>12, <1>13, <1>14, DoomedStays DEF Midway
  <1>15. ASSUME Flow, ~Doomed
         PROVE  Flow'
    <2>1. ASSUME NEW d \in Calls
          PROVE  ~UpSaved(d)' /\ ~DelSaved(d)' /\ ~ModSaved(d)' /\ ~ModAhead(d)'
      <3>1. CallFlows(d)
        BY <1>15 DEF Flow
      <3>2. ~UpSaved(d) /\ ~ModAhead(d)
        BY <1>6, <1>13, <1>15, <3>1 DEF CallFlows, Doomed, Midway
      <3>3. ~DelSaved(d) /\ ~ModSaved(d)
        BY <1>3, <1>4, <3>1, MidwayRows DEF CallFlows
      <3> QED
        BY <1>2, <1>12, <3>2, <3>3, MidwayOthers DEF Midway
    <2>2. \A d \in Calls : Erased(d)' \/ ModReady(d)' => VideoOf(d) \in Videos
      BY JobsOnVideos DEF Erased, ModReady, At, OnVideo, Mods
    <2>3. \A d \in Calls : CallFlows(d)'
      BY <1>6, <2>1, <2>2 DEF CallFlows
    <2> QED
      BY <1>1, <1>4, <1>6, <2>1, <2>3 DEF Flow
  <1> QED
    BY <1>1, <1>8, <1>9, <1>10, <1>11, <1>14, <1>15 DEF Proper

-----------------------------------------------------------------------------
(* The steps that write the request.                                       *)

LEMMA RequestWriteKeeps ==
    ASSUME Proper, NEW c \in Calls, c \notin Decisions, NEW where, NEW next \in Live, Moved(c, where, next),
           status' = next, status \in Live, UNCHANGED <<rows, video, asset, escrow>>,
           call[c].pc # "erased", SawFine(c)', CallFine(c)', ModAhead(c) => Fresh(VideoOf(c)),
           Flow /\ ~Doomed => Flow' \/ Doomed'
    PROVE  Proper'
  <1>1. SawOK /\ RowsOK /\ CallsOK /\ PayOK /\ status \notin Over
    BY DEF Proper, Live, Over
  <1>2. SawOK'
    BY <1>1, SawFrame
  <1>3. RowsOK'
    <2>1. \A v \in Videos : Erasing(c, v) => Erasing(c, v)' \/ video[v].status # "UPLOADED"
      <3>1. CallFine(c)
        BY <1>1 DEF CallsOK
      <3> QED
        BY <3>1 DEF CallFine, Erasing, At
    <2> QED
      BY <1>1, <2>1, RowsFrame
  <1>4. CallsOK'
    BY <1>1, CallsFrame
  <1>5. PayOK'
    <2>1. ~Paid(c) /\ ~Paying(c) /\ ~At(c, "chained", Payments)
      BY DecisionOps DEF Paid, Paying, At, Payments
    <2> QED
      BY <1>1, <2>1, PayFrame
  <1>6. ASSUME Doomed
        PROVE  Doomed'
    BY <1>1, <1>6, DoomedStays DEF Fresh
  <1> QED
    BY <1>1, <1>2, <1>3, <1>4, <1>5, <1>6 DEF Proper

\* Where only the request is written, the rows are what they were.
LEMMA SameRows ==
    ASSUME UNCHANGED <<rows, video>>
    PROVE  \A v : /\ (Fresh(v)' <=> Fresh(v)) /\ (Uploading(v)' <=> Uploading(v))
                  /\ (IsNewest(v)' <=> IsNewest(v))
  BY DEF Fresh, Uploading, IsNewest, Active, Newest

LEMMA ToUploadKeeps ==
    ASSUME DeliveryTypes, Proper, NEW c \in Calls, ToUpload(c), late' = {}
    PROVE  Proper'
  <1>1. /\ UNCHANGED <<rows, video, asset, escrow>> /\ call[c].pc = "saved" /\ Job[c].op = "complete"
        /\ SetStatus(c, "UPLOAD", "chained")
    BY DEF ToUpload, At, money, videos
  <1>2. Moved(c, "chained", "UPLOAD") /\ status' = "UPLOAD" /\ status = call[c].saw
        /\ call'[c].pc = "chained" /\ call'[c].saw = "UPLOAD"
    BY <1>1, WriteMoves DEF Moved
  <1>3. RowsOK /\ CallsOK /\ SawOK /\ SawFine(c)
    BY DEF Proper, SawOK
  <1>4. status = "RECORDING" /\ c \notin Decisions
    BY <1>1, <1>2, <1>3, DecisionOps DEF SawFine
  <1>5. SawFine(c)' /\ CallFine(c)'
    BY <1>1, <1>2 DEF SawFine, CallFine, At, Payments, Mods
  <1>6. /\ UpSaved(c) /\ ~ModAhead(c) /\ ~UpSaved(c)' /\ ~Erased(c)' /\ ~DelSaved(c)'
        /\ ~ModSaved(c)' /\ ~ModAhead(c)' /\ ~ModReady(c)'
    BY <1>1, <1>2 DEF UpSaved, Erased, DelSaved, ModSaved, ModAhead, ModReady, At, Mods
  <1>7. ASSUME Flow, ~Doomed
        PROVE  Flow'
    <2>1. Fresh(VideoOf(c)) /\ ~Ahead(VideoOf(c)) /\ VideoOf(c) \in Videos
      BY <1>6, <1>7, MidwayOnVideos DEF Flow, CallFlows, Midway
    <2>2. \A v \in Videos : ~Uploading(v) /\ (Fresh(v) => v = VideoOf(c))
      BY <1>3, <2>1, OneAtATime DEF Fresh, Uploading
    <2>3. ASSUME NEW d \in Calls, d # c
          PROVE  /\ ~UpSaved(d)' /\ ~DelSaved(d)' /\ ~ModSaved(d)' /\ ~ModAhead(d)'
                 /\ (Erased(d)' \/ ModReady(d)' => ~Fresh(VideoOf(d)))
      <3>1. CallFlows(d) /\ ~UpSaved(d)
        BY <1>6, <1>7, <2>3 DEF Flow
      <3>2. ~DelSaved(d) /\ ~ModSaved(d)
        BY <1>4, <3>1, <2>1 DEF CallFlows
      <3>3. ~ModAhead(d)
        BY <1>7, <2>1, <2>2, MidwayOnVideos DEF Doomed, Ahead, Midway
      <3>4. Erased(d) \/ ModReady(d) => ~Fresh(VideoOf(d))
        BY <1>3, <1>4, <2>1, <2>2, <3>1, MidwayRows, MidwayOnVideos DEF CallFlows, Midway
      <3> QED
        BY <1>2, <2>3, <3>1, <3>2, <3>3, <3>4, MidwayOthers
    <2>4. \A d \in Calls : CallFlows(d)'
      BY <1>1, <1>6, <2>3, SameRows DEF CallFlows
    <2> QED
      BY <1>1, <1>2, <1>6, <2>1, <2>2, <2>3, <2>4, SameRows DEF Flow
  <1> QED
    BY <1>1, <1>2, <1>4, <1>5, <1>6, <1>7, RequestWriteKeeps DEF Live

LEMMA ToReviewKeeps ==
    ASSUME DeliveryTypes, Proper, NEW c \in Calls, ToReview(c), late' = {}
    PROVE  Proper'
  <1>1. /\ UNCHANGED <<rows, video, asset, escrow>> /\ call[c].pc = "chained" /\ Job[c].op = "complete"
        /\ SetStatus(c, "MODERATOR_REVIEW", "done") \/ (To(c, "done") /\ UNCHANGED status)
    BY DEF ToReview, At, money, videos, CanTransition, TRANSITIONS
  <1>2. CASE To(c, "done") /\ UNCHANGED status
    BY <1>1, <1>2, EndsKeep DEF At
  <1>3. CASE SetStatus(c, "MODERATOR_REVIEW", "done")
    <2>1. Moved(c, "done", "MODERATOR_REVIEW") /\ status' = "MODERATOR_REVIEW" /\ status = call[c].saw
          /\ call'[c].pc = "done"
      BY <1>3, WriteMoves DEF Moved
    <2>2. SawFine(c)
      BY DEF Proper, SawOK
    <2>3. status = "UPLOAD" /\ c \notin Decisions
      BY <1>1, <2>1, <2>2, DecisionOps DEF SawFine
    <2>4. SawFine(c)' /\ CallFine(c)'
      BY <1>1, <2>1 DEF SawFine, CallFine, At, Payments, Mods
    <2>5. ~Midway(c) /\ ~Midway(c)' /\ ~ModReady(c)'
      BY <1>1, <2>1 DEF Midway, UpSaved, Erased, DelSaved, ModSaved, ModAhead, ModReady, At, Mods
    <2>6. ASSUME Flow
          PROVE  Flow'
      <3>1. ASSUME NEW d \in Calls
            PROVE  /\ ~UpSaved(d) /\ ~UpSaved(d)' /\ ~ModSaved(d) /\ ~ModSaved(d)' /\ ~ModAhead(d)'
                   /\ (Erased(d)' => Erased(d)) /\ (DelSaved(d)' <=> DelSaved(d))
        <4>1. CallFlows(d)
          BY <2>6 DEF Flow
        <4>2. ~UpSaved(d) /\ ~ModSaved(d) /\ ~ModAhead(d)
          BY <2>3, <4>1 DEF CallFlows
        <4> QED
          BY <2>1, <2>5, <4>2, MidwayOthers DEF Midway
      <3>2. \A v : ~Ahead(v)'
        BY <3>1 DEF Ahead
      <3>3. ASSUME NEW d \in Calls
            PROVE  CallFlows(d)'
        <4>1. CallFlows(d)
          BY <2>6 DEF Flow
        <4> QED
          BY <1>1, <2>1, <3>1, <3>2, <4>1, SameRows DEF CallFlows
      <3> QED
        BY <1>1, <2>1, <2>3, <2>6, <3>1, <3>2, <3>3, SameRows DEF Flow
    <2> QED
      BY <1>1, <2>1, <2>3, <2>4, <2>5, <2>6, RequestWriteKeeps DEF Live, Midway
  <1> QED
    BY <1>1, <1>2, <1>3

LEMMA BackToRecordingKeeps ==
    ASSUME DeliveryTypes, Proper, NEW c \in Calls, BackToRecording(c), late' = {}
    PROVE  Proper'
  <1>1. /\ UNCHANGED <<rows, video, asset, escrow>> /\ call[c].pc = "saved" /\ Job[c].op = "delete"
        /\ SetStatus(c, "RECORDING", "done")
    BY DEF BackToRecording, At, money, videos
  <1>2. Moved(c, "done", "RECORDING") /\ status' = "RECORDING" /\ status = call[c].saw /\ call'[c].pc = "done"
    BY <1>1, WriteMoves DEF Moved
  <1>3. RowsOK /\ CallsOK /\ SawOK /\ SawFine(c)
    BY DEF Proper, SawOK
  <1>4. status \in {"UPLOAD", "MODERATOR_REVIEW"} /\ c \notin Decisions
    BY <1>1, <1>2, <1>3, DecisionOps DEF SawFine
  <1>5. SawFine(c)' /\ CallFine(c)'
    BY <1>1, <1>2 DEF SawFine, CallFine, At, Payments, Mods
  <1>6. /\ DelSaved(c) /\ ~ModAhead(c) /\ ~Midway(c)' /\ ~ModReady(c)'
    BY <1>1, <1>2 DEF Midway, UpSaved, Erased, DelSaved, ModSaved, ModAhead, ModReady, At, Mods
  <1>7. ASSUME Flow, ~Doomed
        PROVE  Flow'
    <2>1. \A v \in Videos : ~Fresh(v) /\ ~Uploading(v)
      BY <1>4, <1>6, <1>7 DEF Flow, CallFlows
    <2>2. ASSUME NEW d \in Calls
          PROVE  ~UpSaved(d)' /\ ~DelSaved(d)' /\ ~ModSaved(d)' /\ ~ModAhead(d)'
      <3>1. CallFlows(d) /\ CallFlows(c) /\ (d # c => ~DelSaved(d))
        BY <1>6, <1>7 DEF Flow
      <3>2. ~UpSaved(d) /\ ~ModSaved(d)
        BY <1>4, <1>6, <3>1 DEF CallFlows
      <3>3. ~ModAhead(d)
        BY <1>7, <2>1, MidwayOnVideos DEF Doomed, Midway
      <3> QED
        BY <1>2, <1>6, <3>1, <3>2, <3>3, MidwayOthers DEF Midway
    <2>3. \A d \in Calls : Erased(d)' \/ ModReady(d)' => VideoOf(d) \in Videos
      BY JobsOnVideos DEF Erased, ModReady, At, OnVideo, Mods
    <2>4. \A d \in Calls : CallFlows(d)'
      BY <1>1, <2>1, <2>2, <2>3, SameRows DEF CallFlows
    <2> QED
      BY <1>1, <1>2, <2>1, <2>2, <2>4, SameRows DEF Flow
  <1> QED
    BY <1>1, <1>2, <1>4, <1>5, <1>6, <1>7, RequestWriteKeeps DEF Live

LEMMA RequestReshootKeeps ==
    ASSUME DeliveryTypes, Proper, NEW c \in Calls, RequestReshoot(c), late' = {}
    PROVE  Proper'
  <1>1. /\ UNCHANGED <<rows, video, asset, escrow>> /\ call[c].pc = "loaded" /\ Job[c].op = "reshoot"
        /\ SetStatus(c, "RECORDING", "done")
    BY DEF RequestReshoot, At, money, videos
  <1>2. Moved(c, "done", "RECORDING") /\ status' = "RECORDING" /\ status = call[c].saw /\ call'[c].pc = "done"
    BY <1>1, WriteMoves DEF Moved
  <1>3. RowsOK /\ CallsOK /\ SawOK /\ SawFine(c)
    BY DEF Proper, SawOK
  <1>4. status = "REQUESTER_REVIEW" /\ c \notin Decisions
    BY <1>1, <1>2, <1>3, DecisionOps DEF SawFine
  <1>5. SawFine(c)' /\ CallFine(c)'
    BY <1>1, <1>2 DEF SawFine, CallFine, At, Payments, Mods
  <1>6. ~Midway(c) /\ ~Midway(c)' /\ ~ModReady(c)'
    BY <1>1, <1>2 DEF Midway, UpSaved, Erased, DelSaved, ModSaved, ModAhead, ModReady, At, Mods
  <1>7. ASSUME Flow
        PROVE  Flow'
    <2>1. ASSUME NEW d \in Calls
          PROVE  /\ ~UpSaved(d)' /\ ~DelSaved(d)' /\ ~ModSaved(d)'
                 /\ (ModAhead(d)' <=> ModAhead(d)) /\ (ModReady(d)' => ModReady(d))
                 /\ (Erased(d)' => Erased(d))
      <3>1. CallFlows(d)
        BY <1>7 DEF Flow
      <3>2. ~UpSaved(d) /\ ~DelSaved(d) /\ ~ModSaved(d)
        BY <1>3, <1>4, <3>1, MidwayRows DEF CallFlows
      <3> QED
        BY <1>2, <1>6, <3>2, MidwayOthers DEF Midway
    <2>2. \A v : Ahead(v)' <=> Ahead(v)
      BY <2>1 DEF Ahead
    <2>3. ASSUME NEW v \in Videos, Fresh(v)
          PROVE  Ahead(v)
      <3>1. PICK w \in Videos : IsNewest(w) /\ (video[w].moderation = "APPROVED" \/ (Fresh(w) /\ Ahead(w)))
        BY <1>4, <1>7 DEF Flow
      <3>2. w = v
        BY <1>3, <2>3, <3>1 DEF RowsOK, RowFine, IsNewest
      <3> QED
        BY <2>3, <3>1, <3>2 DEF Fresh
    <2>4. ASSUME NEW d \in Calls
          PROVE  CallFlows(d)'
      <3>1. CallFlows(d)
        BY <1>7 DEF Flow
      <3>2. Erased(d) \/ ModReady(d) => VideoOf(d) \in Videos
        BY JobsOnVideos DEF Erased, ModReady, At, OnVideo, Mods
      <3> QED
        BY <1>1, <1>2, <1>4, <2>1, <2>2, <2>3, <3>1, <3>2, SameRows DEF CallFlows
    <2> QED
      BY <1>1, <1>2, <1>4, <1>7, <2>1, <2>2, <2>3, <2>4, SameRows DEF Flow
  <1> QED
    BY <1>1, <1>2, <1>4, <1>5, <1>6, <1>7, RequestWriteKeeps DEF Live, Midway

LEMMA ModerateRequestKeeps ==
    ASSUME DeliveryTypes, Proper, NEW c \in Calls, ModerateRequest(c), late' = {}
    PROVE  Proper'
  <1> DEFINE u == VideoOf(c)
             next == IF Job[c].op = "modApprove" THEN "REQUESTER_REVIEW" ELSE "RECORDING"
             where == IF call[c].pc = "ready" THEN "chained" ELSE "done"
  <1>1. /\ UNCHANGED <<rows, video, asset, escrow>> /\ call[c].pc \in {"ready", "saved"} /\ Job[c].op \in Mods
        /\ SetStatus(c, next, where)
    BY DEF ModerateRequest, At, money, videos, Mods
  <1>2. Moved(c, where, next) /\ status' = next /\ status = call[c].saw /\ call'[c].pc = where
    BY <1>1, WriteMoves DEF Moved
  <1>3. RowsOK /\ CallsOK /\ SawOK /\ SawFine(c) /\ CallFine(c)
    BY DEF Proper, SawOK, CallsOK
  <1>4. status = "MODERATOR_REVIEW" /\ c \notin Decisions /\ u \in Videos
    BY <1>1, <1>2, <1>3, DecisionOps, JobsOnVideos DEF SawFine, Mods, OnVideo
  <1>5. SawFine(c)' /\ CallFine(c)'
    BY <1>1, <1>2, <1>3 DEF SawFine, CallFine, At, Payments, Mods
  <1>6. /\ ~ModAhead(c) /\ ~UpSaved(c)' /\ ~Erased(c)' /\ ~DelSaved(c)' /\ ~ModSaved(c)' /\ ~ModReady(c)'
        /\ ~UpSaved(c) /\ ~Erased(c) /\ ~DelSaved(c)
        /\ (ModReady(c) /\ ModAhead(c)') \/ (ModSaved(c) /\ ~ModAhead(c)')
    BY <1>1, <1>2 DEF UpSaved, Erased, DelSaved, ModSaved, ModAhead, ModReady, At, Mods
  <1>7. next \in {"REQUESTER_REVIEW", "RECORDING"} /\ (Job[c].op = "modReject" => next = "RECORDING")
        /\ (next = "REQUESTER_REVIEW" => Job[c].op = "modApprove")
    OBVIOUS
  <1> HIDE DEF u, next, where
  <1>8. ASSUME Flow, ~Doomed, ModReady(c), ~Fresh(u)
        PROVE  Doomed'
    BY <1>1, <1>6, <1>8, SameRows DEF Doomed, u, ModSaved, ModReady, At
  <1>9. ASSUME Flow, ~Doomed, ModReady(c), Fresh(u)
        PROVE  Flow'
    <2>1. \A v \in Videos : ~Uploading(v) /\ (Fresh(v) => v = u)
      BY <1>3, <1>4, <1>9, OneAtATime DEF Fresh, Uploading
    <2>2. ModAhead(c)' /\ Ahead(u)'
      BY <1>6, <1>9 DEF ModSaved, ModReady, At, Ahead, u
    <2>3. ASSUME NEW d \in Calls, d # c
          PROVE  /\ ~UpSaved(d)' /\ ~DelSaved(d)' /\ ~ModSaved(d)' /\ ~ModAhead(d)'
                 /\ (Erased(d)' \/ ModReady(d)' => VideoOf(d) \in Videos)
      <3>1. CallFlows(d)
        BY <1>9 DEF Flow
      <3>2. ~UpSaved(d) /\ ~ModAhead(d)
        BY <1>4, <3>1 DEF CallFlows
      <3>3. ~DelSaved(d) /\ ~ModSaved(d)
        BY <1>4, <1>9, <3>1 DEF CallFlows
      <3> QED
        BY <1>2, <2>3, <3>2, <3>3, MidwayOthers, JobsOnVideos DEF Erased, ModReady, At, OnVideo, Mods
    <2>4. ASSUME NEW d \in Calls
          PROVE  CallFlows(d)'
      <3>1. CASE d = c
        BY <1>2, <1>6, <1>7, <3>1 DEF CallFlows
      <3>2. CASE d # c
        BY <1>1, <2>1, <2>2, <2>3, <3>2, SameRows DEF CallFlows
      <3> QED
        BY <3>1, <3>2
    <2>5. IsNewest(u)
      BY <1>3, <1>4, <1>9 DEF RowsOK, RowFine
    <2> QED
      BY <1>1, <1>2, <1>4, <1>6, <1>7, <1>9, <2>1, <2>2, <2>3, <2>4, <2>5, SameRows DEF Flow
  <1>10. ASSUME Flow, ~Doomed, ModSaved(c)
         PROVE  Flow'
    <2>1. IsNewest(u) /\ \A v \in Videos : ~Fresh(v) /\ ~Uploading(v)
      BY <1>4, <1>10 DEF Flow, CallFlows, u
    <2>2. ~ModAhead(c)'
      BY <1>6, <1>10 DEF ModSaved, ModReady, At
    <2>3. ASSUME NEW d \in Calls
          PROVE  /\ ~UpSaved(d)' /\ ~DelSaved(d)' /\ ~ModSaved(d)' /\ ~ModAhead(d)'
                 /\ (Erased(d)' \/ ModReady(d)' => VideoOf(d) \in Videos)
      <3>1. CallFlows(d) /\ (d # c => ~ModSaved(d))
        BY <1>10 DEF Flow
      <3>2. ~UpSaved(d) /\ ~ModAhead(d)
        BY <1>4, <3>1 DEF CallFlows
      <3>3. ~DelSaved(d)
        BY <1>10, <3>1 DEF CallFlows
      <3> QED
        BY <1>2, <1>6, <2>2, <3>1, <3>2, <3>3, MidwayOthers, JobsOnVideos DEF Erased, ModReady, At, OnVideo, Mods
    <2>4. \A d \in Calls : CallFlows(d)'
      BY <1>1, <2>1, <2>3, SameRows DEF CallFlows
    <2>5. next = "REQUESTER_REVIEW" => video[u].moderation = "APPROVED"
      BY <1>3, <1>7, <1>10 DEF CallFine, ModSaved, At, u
    <2> QED
      BY <1>1, <1>2, <1>4, <1>7, <2>1, <2>3, <2>4, <2>5, SameRows DEF Flow
  <1>11. ModReady(c) \/ ModSaved(c)
    BY <1>6
  <1> QED
    BY <1>1, <1>2, <1>4, <1>5, <1>6, <1>7, <1>8, <1>9, <1>10, <1>11, RequestWriteKeeps DEF Live

\* A decision: from here on the request is over.
LEMMA DecisionKeeps ==
    ASSUME DeliveryTypes, Proper, NEW c \in Calls,
           ToAccepted(c) \/ ToReleased(c) \/ ToCompleted(c) \/ ToClosed(c), late' = {}
    PROVE  Proper'
  <1>1. /\ UNCHANGED <<rows, video, asset, escrow>>
        /\ \/ Job[c].op \in Payments /\ call[c].pc = "loaded" /\ SetStatus(c, "ACCEPTED", "ready")
           \/ Job[c].op \in Payments /\ call[c].pc = "paid" /\ SetStatus(c, "PAYMENT_RELEASED", "chained")
           \/ Job[c].op \in Payments /\ call[c].pc = "chained" /\ SetStatus(c, "COMPLETED", "done")
           \/ Job[c].op \in Refunds /\ call[c].pc = "paid" /\ SetStatus(c, "REJECTED", "done")
           \/ Job[c].op \in Refunds /\ call[c].pc = "paid" /\ SetStatus(c, "CANCELLED", "done")
    BY DEF ToAccepted, ToReleased, ToCompleted, ToClosed, At, money, videos
  <1>2. PICK where \in {"ready", "chained", "done"}, next \in Over :
            /\ Moved(c, where, next) /\ status' = next /\ status = call[c].saw
            /\ call'[c].pc = where /\ call'[c].saw = next
            /\ \/ /\ Job[c].op \in Payments /\ call[c].pc = "loaded" /\ next = "ACCEPTED" /\ where = "ready"
               \/ /\ Job[c].op \in Payments /\ call[c].pc = "paid" /\ next = "PAYMENT_RELEASED" /\ where = "chained"
               \/ where = "done" /\ next \in {"COMPLETED", "REJECTED", "CANCELLED"}
    <2>1. \A n, w : SetStatus(c, n, w) => /\ Moved(c, w, n) /\ status' = n /\ status = call[c].saw
                                          /\ call'[c].pc = w /\ call'[c].saw = n
      BY WriteMoves DEF Moved
    <2> QED
      BY <1>1, <2>1 DEF Over
  <1>3. RowsOK /\ CallsOK /\ SawOK /\ PayOK /\ SawFine(c)
    BY DEF Proper, SawOK
  <1>4. Job[c].op \in Payments \cup Refunds
    BY <1>1
  <1>5. SawFine(c)' /\ CallFine(c)'
    BY <1>2, <1>4 DEF SawFine, CallFine, At, Payments, Refunds, Mods, Running
  <1>6. SawOK'
    BY <1>2, <1>3, <1>5, SawFrame
  <1>7. RowsOK'
    <2>1. \A v \in Videos : ~Erasing(c, v)
      BY <1>4 DEF Erasing, Payments, Refunds
    <2> QED
      BY <1>1, <1>2, <1>3, <2>1, RowsFrame
  <1>8. CallsOK'
    BY <1>1, <1>2, <1>3, <1>5, CallsFrame
  <1>9. PayOK'
    <2>1. CASE call[c].pc = "loaded" /\ next = "ACCEPTED" /\ where = "ready" /\ Job[c].op \in Payments
      <3>1. status = "REQUESTER_REVIEW"
        BY <1>2, <1>3, <2>1 DEF SawFine, Payments
      <3>2. Paying(c)'
        BY <1>2, <2>1 DEF Paying, At
      <3>3. \A d \in Calls : Paid(d) => Paid(d)'
        BY <1>2, <2>1 DEF Paid, Moved
      <3> QED
        BY <1>1, <1>2, <1>3, <2>1, <3>1, <3>2, <3>3 DEF PayOK
    <2>2. CASE next = "PAYMENT_RELEASED" /\ where = "chained" /\ Job[c].op \in Payments
      BY <1>2, <2>2 DEF PayOK, At
    <2>3. CASE next \in {"COMPLETED", "REJECTED", "CANCELLED"}
      BY <1>2, <2>3 DEF PayOK
    <2> QED
      BY <1>2, <2>1, <2>2, <2>3
  <1> QED
    BY <1>2, <1>6, <1>7, <1>8, <1>9 DEF Proper

-----------------------------------------------------------------------------
(* The invariant, and what follows from it.                                *)

LEMMA DeliveryInit == Init => DeliveryInv
  <1> SUFFICES ASSUME Init
               PROVE  Proper
    BY DEF DeliveryInv
  <1>1. \A c \in Calls : call[c].pc = "idle" /\ call[c].saw = "RECORDING"
    BY DEF Init
  <1>2. SawOK
    BY <1>1 DEF Init, SawOK, SawFine, Live, Running
  <1>3. /\ rows = <<>> /\ status = "RECORDING" /\ escrow = "RESERVED" /\ asset = [v \in Videos |-> "none"]
        /\ video = [v \in Videos |-> [status |-> "none", moderation |-> "PENDING", attempts |-> 0, url |-> FALSE]]
    BY DEF Init
  <1>4. \A v \in Videos : /\ video[v].status = "none" /\ video[v].moderation = "PENDING"
                          /\ ~Fresh(v) /\ ~Uploading(v)
    BY <1>3 DEF Fresh, Uploading
  <1>5. RowsOK
    <2>1. \A v \in Videos : RowFine(v)
      BY <1>4 DEF RowFine
    <2>2. video \in [Videos -> VideoCols]
      BY <1>3 DEF VideoCols
    <2> QED
      BY <1>3, <2>1, <2>2 DEF RowsOK
  <1>6. CallsOK
    <2> SUFFICES ASSUME NEW c \in Calls
                 PROVE  CallFine(c)
      BY DEF CallsOK
    <2>1. Job[c].op = "session" => video[c].status = "none"
      BY <1>4 DEF Videos, Of
    <2> QED
      BY <1>1, <2>1 DEF CallFine, At
  <1>7. PayOK
    BY <1>3 DEF PayOK
  <1>8. Flow
    <2>1. \A c \in Calls : /\ ~UpSaved(c) /\ ~Erased(c) /\ ~DelSaved(c) /\ ~ModSaved(c)
                           /\ ~ModAhead(c) /\ ~ModReady(c)
      BY <1>1 DEF UpSaved, Erased, DelSaved, ModSaved, ModAhead, ModReady, At
    <2>2. \A c \in Calls : CallFlows(c)
      BY <2>1 DEF CallFlows
    <2> QED
      BY <1>3, <1>4, <2>1, <2>2 DEF Flow
  <1> QED
    BY <1>2, <1>5, <1>6, <1>7, <1>8 DEF Proper

LEMMA DeliveryStep == MoneyInv /\ DeliveryInv /\ [Next]_vars => DeliveryInv'
  <1> SUFFICES ASSUME MoneyInv, DeliveryInv, [Next]_vars, Undisturbed'
               PROVE  Proper'
    BY DEF DeliveryInv
  <1>1. DeliveryTypes /\ OnlyDecisionsReserve
    BY DEF MoneyInv
  <1>2. CASE UNCHANGED vars
    <2>1. /\ UNCHANGED <<status, escrow, rows, video, asset, call>> /\ Undisturbed
      BY <1>2 DEF vars, Undisturbed
    <2>2. SawOK' /\ RowsOK' /\ CallsOK' /\ PayOK'
      <3>1. Proper
        BY <2>1 DEF DeliveryInv
      <3>2. SawOK'
        BY <2>1, <3>1 DEF Proper, SawOK, SawFine, Running
      <3>3. RowsOK'
        <4>1. \A v \in Videos : RowFine(v)' <=> RowFine(v)
          BY <2>1 DEF RowFine, Fresh, Uploading, Erasing, IsNewest, Active, Newest
        <4> QED
          BY <2>1, <3>1, <4>1 DEF Proper, RowsOK
      <3>4. CallsOK'
        BY <2>1, <3>1 DEF Proper, CallsOK, CallFine, At
      <3>5. PayOK'
        BY <2>1, <3>1 DEF Proper, PayOK, Paid, Paying, At
      <3> QED
        BY <3>2, <3>3, <3>4, <3>5
    <2>3. Doomed' <=> Doomed
      BY <2>1 DEF Doomed, ModAhead, At, Fresh
    <2>4. Flow' <=> Flow
      BY <2>1 DEF Flow, CallFlows, Fresh, Uploading, IsNewest, Active, Newest,
                  UpSaved, Erased, DelSaved, ModSaved, ModAhead, ModReady, Ahead, At
    <2> QED
      BY <2>1, <2>2, <2>3, <2>4 DEF DeliveryInv, Proper
  <1>3. ASSUME NEW c \in Calls, Step(c) \/ Cut(c)
        PROVE  Proper'
    <2>1. late' = {} /\ torn' = {} /\ aside' = {}
      BY DEF Undisturbed
    <2>2. late \subseteq late' /\ torn \subseteq torn' /\ aside \subseteq aside'
      BY <1>3 DEF Step, Cut, MarkLate, MarkAside, SetStatus, history,
            LoadRequest, LoadVideo, CheckSession, CreateUploadSession, StartUpload, Upload,
            UploadFailed, UploadSucceeded, ToUpload, ToReview, RetryUpload, CancelUpload,
            EraseDraft, CancelDraft, BackToRecording, LoadModeratable, ModerateVideo, ModerateRequest,
            RequestReshoot, ToAccepted, ReadEscrow, Settle, WriteEscrow, ToReleased, ToCompleted, ToClosed,
            SelectAsset, DeleteAsset, MarkAssetPurged
    <2>3. Proper
      BY <2>1, <2>2 DEF DeliveryInv, Undisturbed
    <2>4. CASE LoadRequest(c) \/ LoadVideo(c) \/ CheckSession(c) \/ LoadModeratable(c) \/ SelectAsset(c)
      BY <1>1, <2>3, <2>4, LoadsKeep
    <2>5. CASE CreateUploadSession(c) \/ StartUpload(c) \/ Upload(c) \/ UploadFailed(c) \/ UploadSucceeded(c)
      BY <1>1, <2>1, <2>3, <2>5, CreateUploadSessionKeeps, StartUploadKeeps, UploadKeeps, RowEndsKeep,
         UploadSucceededKeeps
    <2>6. CASE ToUpload(c) \/ ToReview(c) \/ RetryUpload(c) \/ CancelUpload(c)
      BY <1>1, <2>1, <2>3, <2>6, ToUploadKeeps, ToReviewKeeps, RowEndsKeep
    <2>7. CASE EraseDraft(c) \/ CancelDraft(c) \/ BackToRecording(c)
      BY <1>1, <2>1, <2>3, <2>7, EraseDraftKeeps, CancelDraftKeeps, BackToRecordingKeeps
    <2>8. CASE ModerateVideo(c) \/ ModerateRequest(c) \/ RequestReshoot(c)
      BY <1>1, <2>1, <2>3, <2>8, ModerateVideoKeeps, ModerateRequestKeeps, RequestReshootKeeps
    <2>9. CASE \/ ToAccepted(c) \/ ReadEscrow(c) \/ Settle(c) \/ WriteEscrow(c)
               \/ ToReleased(c) \/ ToCompleted(c) \/ ToClosed(c)
      BY <1>1, <2>1, <2>3, <2>9, DecisionKeeps, ReadEscrowKeeps, SettleKeepsProper
    <2>10. CASE DeleteAsset(c) \/ MarkAssetPurged(c) \/ Cut(c)
      BY <1>1, <2>1, <2>3, <2>10, DeleteAssetKeeps, PurgeKeeps, CutKeeps
    <2> QED
      BY <1>3, <2>4, <2>5, <2>6, <2>7, <2>8, <2>9, <2>10 DEF Step
  <1> QED
    BY <1>2, <1>3, DeliveryTogetherAssumption DEF Next

\* Where uploads, moderators, deletions and decisions stand to each other as long
\* as none has written over another's rows (recordingService, moderationService,
\* requesterReviewService, retentionJob).
THEOREM DeliveryInvariance == Spec => []DeliveryInv
  <1> QED
    BY DeliveryInit, DeliveryStep, MoneyInvariance, PTL DEF Spec

\* What the requester is asked to review was uploaded and approved, he sees it,
\* and its asset is there (recordingService.getVideo, moderationService).
THEOREM ReviewIsApproved == Spec => []ReviewShowsApproved
  <1>1. DeliveryInv => ReviewShowsApproved
    <2> SUFFICES ASSUME DeliveryInv, status = "REQUESTER_REVIEW", Undisturbed,
                        \A c \in Of({"delete", "modApprove", "modReject"}) : ~Running(c)
                 PROVE  /\ Active # {} /\ GetVideo("requester").url /\ asset[Newest] = "stored"
                        /\ video[Newest].status = "UPLOADED" /\ video[Newest].moderation = "APPROVED"
      BY DEF ReviewShowsApproved
    <2>1. RowsOK /\ (Doomed \/ Flow) /\ status \notin Over
      BY DEF DeliveryInv, Proper, Over
    <2>2. \A c \in Calls : ~ModAhead(c) /\ \A v : ~Erasing(c, v)
      BY DEF Of, Running, ModAhead, Erasing, At, Mods
    <2>3. PICK v \in Videos : IsNewest(v) /\ video[v].moderation = "APPROVED"
      BY <2>1, <2>2 DEF Doomed, Flow, Ahead
    <2>4. video[v].status = "UPLOADED" /\ video[v].url /\ asset[v] = "stored"
      BY <2>1, <2>2, <2>3 DEF RowsOK, RowFine
    <2> QED
      BY <2>3, <2>4 DEF IsNewest, GetVideo, Presented
  <1> QED
    BY <1>1, DeliveryInvariance, PTL

LEMMA CountOfBoth ==
    ASSUME NEW S, NEW T, IsFiniteSet(S), IsFiniteSet(T), S \cap T = {}
    PROVE  Cardinality(S \cup T) = Cardinality(S) + Cardinality(T)
  <1>1. Cardinality(S) \in Nat /\ Cardinality(T) \in Nat
    BY FS_CardinalityType
  <1>2. Cardinality(S \cap T) = 0
    BY FS_EmptySet
  <1>3. Cardinality(S \cup T) = Cardinality(S) + Cardinality(T) - Cardinality(S \cap T)
    BY FS_Union
  <1> QED
    BY <1>1, <1>2, <1>3

\* Of the decisions counted, the history shows the videos.
LEMMA HistoryIsComplete ==
    ASSUME RowsOK
    PROVE  GetModerationStats.approved + GetModerationStats.rejected = Cardinality(GetHistory)
  <1> DEFINE Decided(decision) == {v \in Videos : video[v].moderation = decision}
             approved == Decided("APPROVED")
             rejected == Decided("REJECTED")
  <1>1. IsFiniteSet(Videos)
    <2>1. Videos \subseteq Calls
      BY DEF Videos, Of
    <2> QED
      BY <2>1, DeliveryCallsAssumption, FS_Subset
  <1>2. IsFiniteSet(approved) /\ IsFiniteSet(rejected)
    BY <1>1, FS_Subset
  <1>3. approved \cap rejected = {}
    OBVIOUS
  <1>4. GetHistory = approved \cup rejected
    BY DEF RowsOK, RowFine, GetHistory, FindManyForModeration
  <1>5. GetModerationStats.approved = Cardinality(approved) /\ GetModerationStats.rejected = Cardinality(rejected)
    BY DEF GetModerationStats
  <1> HIDE DEF approved, rejected
  <1>6. Cardinality(approved \cup rejected) = Cardinality(approved) + Cardinality(rejected)
    BY <1>2, <1>3, CountOfBoth
  <1> QED
    BY <1>4, <1>5, <1>6

\* Nobody is left without a call that goes on (recordingService,
\* moderationService.getQueue, getHistory and getModerationStats,
\* requesterReviewService).
THEOREM NobodyIsStuck == Spec => []NobodyStuck
  <1>1. DeliveryInv => NobodyStuck
    <2> SUFFICES ASSUME DeliveryInv, Quiet, Undisturbed
                 PROVE  /\ status = "RECORDING" => ~Blocked \/ video[Newest].status # "UPLOADED"
                        /\ status = "MODERATOR_REVIEW" => \E v \in GetQueue : Moderatable(v)
                        /\ status = "UPLOAD" => GetQueue # {}
                        /\ status \notin {"ACCEPTED", "PAYMENT_RELEASED"}
                        /\ GetModerationStats.approved + GetModerationStats.rejected = Cardinality(GetHistory)
                        /\ \A i \in DOMAIN rows : GetVideoHistory("requester")[i].url => rows[i] \in GetHistory
      BY DEF NobodyStuck
    <2>1. RowsOK /\ PayOK /\ (status \in Over \/ Doomed \/ Flow)
      BY DEF DeliveryInv, Proper
    <2>2. \A c \in Calls : call[c].pc \in {"idle", "done", "cut"}
      BY DEF Quiet, Running
    <2>3. \A c \in Calls : /\ ~ModAhead(c) /\ ~UpSaved(c) /\ ~DelSaved(c) /\ ~ModSaved(c)
                           /\ ~Paid(c) /\ ~Paying(c) /\ ~At(c, "chained", Payments)
      BY <2>2 DEF ModAhead, UpSaved, DelSaved, ModSaved, Paid, Paying, At
    <2>4. status \in Over \/ Flow
      BY <2>1, <2>3 DEF Doomed
    <2>5. status = "RECORDING" => ~Blocked \/ video[Newest].status # "UPLOADED"
      <3>1. ASSUME status = "RECORDING", Blocked, video[Newest].status = "UPLOADED"
            PROVE  FALSE
        <4>1. Fresh(Newest) /\ Active # {}
          BY <3>1 DEF Blocked, Blocks
        <4>2. Newest \in Videos
          BY <2>1, <4>1, NewestRow DEF RowsOK
        <4> QED
          BY <2>3, <2>4, <3>1, <4>1, <4>2 DEF Flow, Ahead, Over
      <3> QED
        BY <3>1
    <2>6. status \in {"UPLOAD", "MODERATOR_REVIEW"} => \E v \in Videos : Fresh(v)
      BY <2>3, <2>4 DEF Flow, Over
    <2>7. \A v \in Videos : Fresh(v) => v \in GetQueue
      BY DEF Fresh, GetQueue, FindManyForModeration
    <2>8. status \notin {"ACCEPTED", "PAYMENT_RELEASED"}
      BY <2>1, <2>3 DEF PayOK
    <2>9. ASSUME NEW i \in DOMAIN rows, GetVideoHistory("requester")[i].url
          PROVE  rows[i] \in GetHistory
      <3>1. rows[i] \in Videos
        BY <2>1 DEF RowsOK
      <3>2. video[rows[i]].moderation = "APPROVED"
        BY <2>9 DEF GetVideoHistory, Presented
      <3> QED
        BY <2>1, <3>1, <3>2 DEF RowsOK, RowFine, GetHistory, FindManyForModeration
    <2> QED
      BY <2>1, <2>5, <2>6, <2>7, <2>8, <2>9, HistoryIsComplete DEF Moderatable
  <1> QED
    BY <1>1, DeliveryInvariance, PTL
=============================================================================

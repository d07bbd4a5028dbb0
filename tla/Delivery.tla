------------------------------ MODULE Delivery ------------------------------
(***************************************************************************)
(* The delivery of one request, from RECORDING to its settlement, with the *)
(* RequestVideo rows and the stored assets beside the Request row: upload  *)
(* sessions, uploads that fail or are retried, cancelled and deleted       *)
(* drafts, the moderator, the requester's reshoot, the auto-accept and the *)
(* retention sweeps.  Every handler loads rows, awaits, and writes by id   *)
(* alone; a step is the code between two awaits, so calls interleave, and  *)
(* any of them may be cut.                                                 *)
(***************************************************************************)
EXTENDS Integers, Sequences, FiniteSets, RequestStates

CONSTANTS
    Calls,          \* HTTP calls and sweeps
    Job,            \* what each of them does, and to which video
    MaxAttempts,    \* MAX_UPLOAD_ATTEMPTS
    Together        \* bound: the sets of calls that may start in one behaviour

ASSUME AttemptsAssumption == MaxAttempts \in Nat \ {0}
ASSUME DeliveryTogetherAssumption == Together \subseteq SUBSET Calls
ASSUME DeliveryCallsAssumption == IsFiniteSet(Calls)

\* A video is named after the session call that creates its row.
Work(op, v) == [op |-> op, video |-> v]
Of(ops) == {c \in Calls : Job[c].op \in ops}
Videos == Of({"session"})
Payments == {"accept", "auto"}
Refunds == {"reject", "withdraw"}       \* "withdraw" is requestService.cancel
Decisions == Of(Payments \cup Refunds)
OnVideo == {"complete", "delete", "retry", "cancel", "modApprove", "modReject", "purge"}

\* A call on a video names one of this request: loadOwnedVideo finds no other.
ASSUME DeliveryJobsAssumption == \A c \in Of(OnVideo) : Job[c].video \in Videos

VARIABLES
    status,         \* Request.status
    reshootUsed,    \* Request.reshootUsed
    currency,       \* RequestEscrow.currency
    escrow,         \* RequestEscrow.state
    booked,         \* the decisions that have paid the creator or refunded
    rows,           \* the RequestVideo rows, in the order of createdAt
    video,          \* their columns: status, moderationStatus, uploadAttempts,
                    \* and whether secureUrl is set
    asset,          \* at the storage provider: "none", "stored", "erased"
    call,           \* each call: where it is, and the Request.status it goes by
    late,           \* the calls that wrote over rows changed since they read them
    torn,           \* the calls cut between two of their writes
    halved,         \* those of them cut between a payment and its escrow row
    crossed,        \* the decisions that ran together with another one
    aside           \* the calls that began to upload or withdraw a video older
                    \* than the one the request shows

vars == <<status, reshootUsed, currency, escrow, booked, rows, video, asset,
          call, late, torn, halved, crossed, aside>>
money == <<currency, escrow, booked, halved>>
videos == <<rows, video, asset>>
history == <<late, torn, crossed, aside>>

Init ==
    /\ status = "RECORDING" /\ reshootUsed = FALSE
    /\ currency \in {"CREDIT", "INR"} /\ escrow = "RESERVED"
    /\ booked = {} /\ halved = {}
    /\ rows = <<>>
    /\ video = [v \in Videos |-> [status |-> "none", moderation |-> "PENDING",
                                  attempts |-> 0, url |-> FALSE]]
    /\ asset = [v \in Videos |-> "none"]
    /\ call = [c \in Calls |-> [pc |-> "idle", saw |-> "RECORDING"]]
    /\ late = {} /\ torn = {} /\ crossed = {} /\ aside = {}

Running(c) == call[c].pc \notin {"idle", "done", "cut"}
At(c, where, ops) == call[c].pc = where /\ Job[c].op \in ops
To(c, where) == call' = [call EXCEPT ![c].pc = where]
MarkLate(c, isLate) == late' = IF isLate THEN late \cup {c} ELSE late

\* requestRepository.update: by the id, whatever the status is by now.
SetStatus(c, next, where) ==
    /\ status' = next
    /\ MarkLate(c, status # call[c].saw)
    /\ call' = [call EXCEPT ![c] = [pc |-> where, saw |-> next]]

SetVideo(c, columns) ==
    video' = [video EXCEPT ![Job[c].video] =
                 [k \in DOMAIN @ |-> IF k \in DOMAIN columns THEN columns[k] ELSE @[k]]]

\* findActiveByRequestId: the newest row that is not CANCELLED.
Active == {i \in DOMAIN rows : video[rows[i]].status # "CANCELLED"}
Newest == rows[CHOOSE i \in Active : \A j \in Active : j <= i]

MarkAside(c) ==
    aside' = IF Active = {} \/ Newest # Job[c].video THEN aside \cup {c} ELSE aside

-----------------------------------------------------------------------------
(* Loading.                                                                *)

MayStart(c) == call[c].pc = "idle"

\* loadOwnedRequest, loadReviewableRequest, the guard of a cancellation, and
\* the candidates of the auto-accept (the 48 hours have passed or not).
LoadRequest(c) ==
    /\ Job[c].op \in {"session", "complete", "delete", "reshoot"} \cup Payments \cup Refunds
    /\ Job[c].op = "session" => status = "RECORDING"
    /\ Job[c].op = "withdraw" => CanTransition(status, "CANCELLED")
    /\ Job[c].op \in {"accept", "auto", "reshoot", "reject"} => status = "REQUESTER_REVIEW"
    /\ Job[c].op = "reshoot" => ~reshootUsed
    /\ MayStart(c)
    /\ call' = [call EXCEPT ![c] = [pc |-> "loaded", saw |-> status]]
    /\ crossed' = LET others == {d \in Decisions \ {c} : Running(d)}
                  IN  IF c \in Decisions /\ others # {} THEN crossed \cup others \cup {c} ELSE crossed
    /\ UNCHANGED <<status, reshootUsed, money, videos, late, torn, aside>>

\* loadOwnedVideo, with the checks of the four calls on a video.
LoadVideo(c) ==
    LET v == video[Job[c].video]
    IN  /\ \/ At(c, "loaded", {"complete", "delete"})
           \/ Job[c].op \in {"retry", "cancel"} /\ MayStart(c)
        /\ v.status # "none"
        /\ LET allowed ==
                 CASE Job[c].op = "complete" -> /\ call[c].saw = "RECORDING"
                                                /\ v.status \notin {"UPLOADED", "CANCELLED"}
                                                /\ v.attempts < MaxAttempts
                   [] Job[c].op = "delete" -> /\ v.status = "UPLOADED"
                                              /\ call[c].saw \in {"UPLOAD", "MODERATOR_REVIEW"}
                   [] Job[c].op = "retry" -> v.status = "FAILED" /\ v.attempts < MaxAttempts
                   [] Job[c].op = "cancel" -> v.status # "UPLOADED"
           IN  To(c, IF allowed THEN "ready" ELSE "done")
        /\ UNCHANGED <<status, reshootUsed, money, videos, history>>

-----------------------------------------------------------------------------
(* recordingService.                                                       *)

\* Uploaded, and waiting for the moderator.
Fresh(v) == video[v].status = "UPLOADED" /\ video[v].moderation = "PENDING"

\* Slip: any row that is not cancelled stands in the way of a new session.
BlocksAlways(v) == TRUE

\* Slip: a session whose upload has not begun does not stand in the way.
BlocksUploadedOnly(v) == Fresh(v)

\* A row still uploading, or uploaded and not yet moderated.
Blocks(v) == video[v].status \in {"PENDING", "UPLOADING"} \/ Fresh(v)

Blocked == Active # {} /\ Blocks(Newest)

CheckSession(c) ==
    /\ At(c, "loaded", {"session"})
    /\ To(c, IF Blocked THEN "done" ELSE "ready")
    /\ UNCHANGED <<status, reshootUsed, money, videos, history>>

CreateUploadSession(c) ==
    /\ At(c, "ready", {"session"})
    /\ rows' = Append(rows, c) /\ video' = [video EXCEPT ![c].status = "PENDING"]
    /\ MarkLate(c, Blocked \/ status # call[c].saw)
    /\ To(c, "done")
    /\ UNCHANGED <<status, reshootUsed, money, asset, torn, crossed, aside>>

StartUpload(c) ==
    /\ At(c, "ready", {"complete"})
    /\ SetVideo(c, [status |-> "UPLOADING", attempts |-> video[Job[c].video].attempts + 1])
    /\ MarkLate(c, video[Job[c].video].status \in {"UPLOADED", "CANCELLED"} \/ status # call[c].saw)
    /\ MarkAside(c)
    /\ To(c, "uploading")
    /\ UNCHANGED <<status, reshootUsed, money, rows, asset, torn, crossed>>

\* videoStorageProvider.uploadVideo stores the file or throws.
Upload(c) ==
    /\ At(c, "uploading", {"complete"})
    /\ \/ asset' = [asset EXCEPT ![Job[c].video] = "stored"] /\ To(c, "stored")
       \/ UNCHANGED asset /\ To(c, "refused")
    /\ UNCHANGED <<status, reshootUsed, money, rows, video, history>>

UploadFailed(c) ==
    /\ At(c, "refused", {"complete"})
    /\ SetVideo(c, [status |-> "FAILED"]) /\ To(c, "done")
    /\ MarkLate(c, video[Job[c].video].status # "UPLOADING")
    /\ UNCHANGED <<status, reshootUsed, money, rows, asset, torn, crossed, aside>>

UploadSucceeded(c) ==
    /\ At(c, "stored", {"complete"})
    /\ SetVideo(c, [status |-> "UPLOADED", url |-> TRUE]) /\ To(c, "saved")
    /\ MarkLate(c, video[Job[c].video].status # "UPLOADING")
    /\ UNCHANGED <<status, reshootUsed, money, rows, asset, torn, crossed, aside>>

ToUpload(c) ==
    /\ At(c, "saved", {"complete"})
    /\ SetStatus(c, "UPLOAD", "chained")
    /\ UNCHANGED <<reshootUsed, money, videos, torn, crossed, aside>>

\* The toggle is read here.  Off asks for UPLOAD -> REQUESTER_REVIEW, which
\* assertTransition refuses: the call throws and the request stays in UPLOAD.
ToReview(c) ==
    /\ At(c, "chained", {"complete"})
    /\ \E moderationEnabled \in BOOLEAN :
        LET next == IF moderationEnabled THEN "MODERATOR_REVIEW" ELSE "REQUESTER_REVIEW"
        IN  IF CanTransition("UPLOAD", next) THEN SetStatus(c, next, "done")
            ELSE To(c, "done") /\ UNCHANGED <<status, late>>
    /\ UNCHANGED <<reshootUsed, money, videos, torn, crossed, aside>>

RetryUpload(c) ==
    /\ At(c, "ready", {"retry"})
    /\ MarkLate(c, video[Job[c].video].status # "FAILED")
    /\ SetVideo(c, [status |-> "PENDING"]) /\ To(c, "done")
    /\ UNCHANGED <<status, reshootUsed, money, rows, asset, torn, crossed, aside>>

CancelUpload(c) ==
    /\ At(c, "ready", {"cancel"})
    /\ MarkLate(c, video[Job[c].video].status = "UPLOADED")
    /\ SetVideo(c, [status |-> "CANCELLED"]) /\ To(c, "done")
    /\ UNCHANGED <<status, reshootUsed, money, rows, asset, torn, crossed, aside>>

\* deleteDraft: the asset, then the row (which keeps its URL), then the request.
EraseDraft(c) ==
    /\ At(c, "ready", {"delete"})
    /\ asset' = [asset EXCEPT ![Job[c].video] = "erased"] /\ To(c, "erased")
    /\ MarkLate(c, status # call[c].saw) /\ MarkAside(c)
    /\ UNCHANGED <<status, reshootUsed, money, rows, video, torn, crossed>>

CancelDraft(c) ==
    /\ At(c, "erased", {"delete"})
    /\ SetVideo(c, [status |-> "CANCELLED"]) /\ To(c, "saved")
    /\ MarkLate(c, c \notin aside /\ ~Fresh(Job[c].video))
    /\ UNCHANGED <<status, reshootUsed, money, rows, asset, torn, crossed, aside>>

BackToRecording(c) ==
    /\ At(c, "saved", {"delete"})
    /\ SetStatus(c, "RECORDING", "done")
    /\ UNCHANGED <<reshootUsed, money, videos, torn, crossed, aside>>

-----------------------------------------------------------------------------
(* moderationService: one load, and two writes at once.                    *)

\* loadModeratableVideo reads the video with its request.
Moderatable(v) == Fresh(v) /\ status = "MODERATOR_REVIEW"

LoadModeratable(c) ==
    /\ Job[c].op \in {"modApprove", "modReject"} /\ Moderatable(Job[c].video) /\ MayStart(c)
    /\ call' = [call EXCEPT ![c] = [pc |-> "ready", saw |-> status]]
    /\ UNCHANGED <<status, reshootUsed, money, videos, history>>

ModerateVideo(c) ==
    /\ At(c, "ready", {"modApprove", "modReject"}) \/ At(c, "chained", {"modApprove", "modReject"})
    /\ MarkLate(c, ~Fresh(Job[c].video))
    /\ SetVideo(c, [moderation |-> IF Job[c].op = "modApprove" THEN "APPROVED" ELSE "REJECTED"])
    /\ To(c, IF call[c].pc = "ready" THEN "saved" ELSE "done")
    /\ UNCHANGED <<status, reshootUsed, money, rows, asset, torn, crossed, aside>>

ModerateRequest(c) ==
    /\ At(c, "ready", {"modApprove", "modReject"}) \/ At(c, "saved", {"modApprove", "modReject"})
    /\ SetStatus(c, IF Job[c].op = "modApprove" THEN "REQUESTER_REVIEW" ELSE "RECORDING",
                 IF call[c].pc = "ready" THEN "chained" ELSE "done")
    /\ UNCHANGED <<reshootUsed, money, videos, torn, crossed, aside>>

-----------------------------------------------------------------------------
(* requesterReviewService and its sweeps, and the requester's cancellation. *)

RequestReshoot(c) ==
    /\ At(c, "loaded", {"reshoot"})
    /\ SetStatus(c, "RECORDING", "done") /\ reshootUsed' = TRUE
    /\ UNCHANGED <<money, videos, torn, crossed, aside>>

ToAccepted(c) ==
    /\ At(c, "loaded", Payments)
    /\ SetStatus(c, "ACCEPTED", "ready")
    /\ UNCHANGED <<reshootUsed, money, videos, torn, crossed, aside>>

\* Slip: release and refund do not ask for the state.
SettlesAnyState(state) == TRUE

\* release and refund ask for a RESERVED escrow, or throw.
Settles(state) == state = "RESERVED"

ReadEscrow(c) ==
    /\ At(c, "ready", Payments) \/ At(c, "loaded", Refunds)
    /\ To(c, IF Settles(escrow) THEN "reserved" ELSE "done")
    /\ UNCHANGED <<status, reshootUsed, money, videos, history>>

WriteState(c) ==
    /\ escrow' = IF Job[c].op \in Refunds THEN "REFUNDED" ELSE "RELEASED"
    /\ To(c, "paid")

\* Then they pay: INR with the row in one $transaction, Credits on the ledger.
Settle(c) ==
    /\ call[c].pc = "reserved"
    /\ booked' = booked \cup {c}
    /\ \/ currency = "INR" /\ WriteState(c)
       \/ currency = "CREDIT" /\ UNCHANGED escrow /\ To(c, "credited")
    /\ UNCHANGED <<status, reshootUsed, currency, halved, videos, history>>

\* The row of a Credit escrow comes after the ledger, and by its id.
WriteEscrow(c) ==
    /\ call[c].pc = "credited" /\ WriteState(c)
    /\ UNCHANGED <<status, reshootUsed, currency, booked, halved, videos, history>>

ToReleased(c) ==
    /\ At(c, "paid", Payments)
    /\ SetStatus(c, "PAYMENT_RELEASED", "chained")
    /\ UNCHANGED <<reshootUsed, money, videos, torn, crossed, aside>>

ToCompleted(c) ==
    /\ At(c, "chained", Payments)
    /\ SetStatus(c, "COMPLETED", "done")
    /\ UNCHANGED <<reshootUsed, money, videos, torn, crossed, aside>>

ToClosed(c) ==
    /\ At(c, "paid", Refunds)
    /\ SetStatus(c, IF Job[c].op = "reject" THEN "REJECTED" ELSE "CANCELLED", "done")
    /\ UNCHANGED <<reshootUsed, money, videos, torn, crossed, aside>>

-----------------------------------------------------------------------------
(* retentionJob.purgeExpiredVideoAssets; the hours have passed or not.      *)

PurgeCandidate(v) ==
    /\ video[v].url
    /\ \/ video[v].moderation = "APPROVED" /\ status \in {"COMPLETED", "PAYMENT_RELEASED"}
       \/ status \in {"REJECTED", "EXPIRED", "CANCELLED", "DISPUTED"}

SelectAsset(c) ==
    /\ Job[c].op = "purge" /\ PurgeCandidate(Job[c].video) /\ MayStart(c)
    /\ To(c, "ready")
    /\ UNCHANGED <<status, reshootUsed, money, videos, history>>

DeleteAsset(c) ==
    /\ At(c, "ready", {"purge"})
    /\ asset' = [asset EXCEPT ![Job[c].video] = "erased"] /\ To(c, "erased")
    /\ UNCHANGED <<status, reshootUsed, money, rows, video, history>>

MarkAssetPurged(c) ==
    /\ At(c, "erased", {"purge"})
    /\ SetVideo(c, [url |-> FALSE]) /\ To(c, "done")
    /\ UNCHANGED <<status, reshootUsed, money, rows, asset, history>>

-----------------------------------------------------------------------------
(* What is shown of the videos: to the two parties, and to moderators.     *)

\* presentRequestVideo: the requester gets no URL before the approval.
Presented(v, user) ==
    [video |-> v, url |-> video[v].url /\ (user = "requester" => video[v].moderation = "APPROVED")]

\* getVideo, none being returned while Active is empty, and getVideoHistory.
GetVideo(user) == Presented(Newest, user)
GetVideoHistory(user) == [i \in DOMAIN rows |-> Presented(rows[i], user)]

\* findManyForModeration, behind the queue and the history of decisions.
FindManyForModeration(decisions) ==
    {v \in Videos : video[v].status = "UPLOADED" /\ video[v].moderation \in decisions}
GetQueue == FindManyForModeration({"PENDING"})
GetHistory == FindManyForModeration({"APPROVED", "REJECTED"})

\* getModerationStats counts what was decided whatever became of the upload.
GetModerationStats ==
    LET Total(decision) == Cardinality({v \in Videos : video[v].moderation = decision})
    IN  [pending |-> Cardinality(GetQueue), approved |-> Total("APPROVED"), rejected |-> Total("REJECTED")]

-----------------------------------------------------------------------------
\* Between two writes that no later call can complete or undo.
MidWrite(c) ==
    \/ call[c].pc \in {"saved", "erased", "chained", "credited", "paid"}
    \/ call[c].pc \in {"ready", "reserved"} /\ Job[c].op \in Payments

Cut(c) ==
    /\ Running(c) /\ To(c, "cut")
    /\ torn' = IF MidWrite(c) THEN torn \cup {c} ELSE torn
    /\ halved' = IF call[c].pc = "credited" THEN halved \cup {c} ELSE halved
    /\ UNCHANGED <<status, reshootUsed, currency, escrow, booked, videos, late, crossed, aside>>

Step(c) ==
    \/ LoadRequest(c) \/ LoadVideo(c)
    \/ CheckSession(c) \/ CreateUploadSession(c)
    \/ StartUpload(c) \/ Upload(c) \/ UploadFailed(c) \/ UploadSucceeded(c)
    \/ ToUpload(c) \/ ToReview(c)
    \/ RetryUpload(c) \/ CancelUpload(c)
    \/ EraseDraft(c) \/ CancelDraft(c) \/ BackToRecording(c)
    \/ LoadModeratable(c) \/ ModerateVideo(c) \/ ModerateRequest(c)
    \/ RequestReshoot(c) \/ ToAccepted(c) \/ ReadEscrow(c)
    \/ Settle(c) \/ WriteEscrow(c)
    \/ ToReleased(c) \/ ToCompleted(c) \/ ToClosed(c)
    \/ SelectAsset(c) \/ DeleteAsset(c) \/ MarkAssetPurged(c)

Next ==
    \E T \in Together :
        /\ \A d \in Calls \ T : call[d].pc = "idle"
        /\ \E c \in T : Step(c) \/ Cut(c)

Spec == Init /\ [][Next]_vars
-----------------------------------------------------------------------------
Quiet == \A c \in Calls : ~Running(c)
Undisturbed == late = {} /\ torn = {} /\ aside = {}

\* Of the decisions of the two parties and the auto-accept one alone pays,
\* through repeated calls, other cuts and uploads that revive a cancelled
\* request: a second that has paid ran at the same time as another, or one of
\* the two was cut in Credits between its ledger entry and the escrow's row,
\* which leaves the escrow RESERVED (escrowService.release and refund,
\* requesterReviewService, requestService.cancel).
SettlesOnce == \A c, d \in booked \ halved : c = d \/ {c, d} \subseteq crossed

\* What the requester is asked to review (recordingService.getVideo: the newest
\* row) has been uploaded and approved, he can see it, and its asset is there,
\* through re-shoots, retries, cancelled and deleted drafts, once moderation and
\* deletion are through and unless a call wrote over another's rows or uploaded
\* into a session that has a newer one beside it.
ReviewShowsApproved ==
    (/\ status = "REQUESTER_REVIEW" /\ Undisturbed
     /\ \A c \in Of({"delete", "modApprove", "modReject"}) : ~Running(c)) =>
        /\ Active # {} /\ GetVideo("requester").url /\ asset[Newest] = "stored"
        /\ video[Newest].status = "UPLOADED" /\ video[Newest].moderation = "APPROVED"

\* Nobody is left without a call that goes on: the creator can upload or begin
\* a new session or withdraw the draft, the moderator has on his queue a video
\* he may decide on, no accepted request waits for its payment, and of every
\* decision counted the history shows the video.  Only a call that wrote over
\* another's rows, was cut between two writes, or withdrew an older video than
\* the one on the queue can leave a request stuck.
NobodyStuck ==
    Quiet /\ Undisturbed =>
        /\ status = "RECORDING" => ~Blocked \/ video[Newest].status # "UPLOADED"
        /\ status = "MODERATOR_REVIEW" => \E v \in GetQueue : Moderatable(v)
        /\ status = "UPLOAD" => GetQueue # {}
        /\ status \notin {"ACCEPTED", "PAYMENT_RELEASED"}
        /\ GetModerationStats.approved + GetModerationStats.rejected = Cardinality(GetHistory)
        /\ \A i \in DOMAIN rows : GetVideoHistory("requester")[i].url => rows[i] \in GetHistory
=============================================================================

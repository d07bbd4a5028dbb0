----------------------------- MODULE Reminders ------------------------------
(***************************************************************************)
(* RequestLifecycle with the pushes that time sends about a request        *)
(* (notificationReminderJob, requesterReviewAutoAcceptJob): the reminders  *)
(* to record, to review and to rate, each sent once by its stamp on the    *)
(* row, and the warning that a review will be decided without its          *)
(* requester.  A sweep comes round long before the next threshold, unless  *)
(* the server is away.                                                     *)
(***************************************************************************)
EXTENDS Oversight

Stamps == {"recording", "review", "warning", "rating"}

VARIABLES
    sent,       \* the ...SentAt columns of the row that are set
    waited,     \* thresholds passed since the stage began: 2 h and 42 h of a review, one elsewhere
    warned,     \* the requester was warned in the review at hand
    away        \* the server was away when that warning was due

stage == <<waited, warned, away>>
reminderVars == <<vars, sent, stage>>

ReminderInit == Init /\ sent = {} /\ waited = 0 /\ warned = FALSE /\ away = FALSE

-----------------------------------------------------------------------------
(* What each sweep finds.  A reshoot clears recordingStartedAt for good,   *)
(* and no stamp is ever cleared.                                           *)

RecordingReminderCandidate ==
    status = "RECORDING" /\ ~reshootUsed /\ waited >= 1 /\ "recording" \notin sent

ReviewReminderCandidate == status = "REQUESTER_REVIEW" /\ waited >= 1 /\ "review" \notin sent

\* Slip: a first review only is thought to need a warning.
AutoAcceptWarningCandidateOnce ==
    status = "REQUESTER_REVIEW" /\ waited >= 2 /\ "warning" \notin sent /\ ~reshootUsed

AutoAcceptWarningCandidate == status = "REQUESTER_REVIEW" /\ waited >= 2 /\ "warning" \notin sent

RatingReminderCandidate == status = "COMPLETED" /\ waited >= 1 /\ "rating" \notin sent

-----------------------------------------------------------------------------
(* The sweeps.                                                             *)

OnlyStamp(s) == sent' = sent \cup {s} /\ UNCHANGED <<vars, waited, away>>

RemindStalledRecordings ==
    /\ RecordingReminderCandidate /\ creator # None
    /\ OnlyStamp("recording") /\ UNCHANGED warned

RemindPendingReviews == ReviewReminderCandidate /\ OnlyStamp("review") /\ UNCHANGED warned

\* The stamp is written whether a rating was missing or not.
RemindMissingRatings == RatingReminderCandidate /\ OnlyStamp("rating") /\ UNCHANGED warned

RunWarningSweep == AutoAcceptWarningCandidate /\ OnlyStamp("warning") /\ warned' = TRUE

\* notificationReminderJob.runSweep and the warnings of the other job.
ReminderSweeps ==
    RemindStalledRecordings \/ RemindPendingReviews \/ RemindMissingRatings \/ RunWarningSweep

-----------------------------------------------------------------------------
(* The request's own steps, and time.                                      *)

\* A stage begins with its clock at zero.
KeepTime ==
    /\ UNCHANGED sent
    /\ IF status' = status THEN UNCHANGED stage
       ELSE waited' = 0 /\ warned' = FALSE /\ away' = FALSE

\* What some sweep would still send.
Unsent ==
    \/ RecordingReminderCandidate /\ creator # None
    \/ ReviewReminderCandidate \/ RatingReminderCandidate \/ AutoAcceptWarningCandidate

\* Nothing due is left unsent for hours while the server is up.
SweptMeanwhile == away \/ ~Unsent

StageAges ==
    /\ SweptMeanwhile
    /\ \/ status \in {"RECORDING", "COMPLETED"} /\ waited = 0
       \/ status = "REQUESTER_REVIEW" /\ waited < 2
    /\ waited' = waited + 1
    /\ UNCHANGED <<vars, sent, warned, away>>

\* The server is down from before the 42nd hour to after the 48th.
ServerAway ==
    /\ AutoAcceptWarningCandidate /\ ~away
    /\ away' = TRUE
    /\ UNCHANGED <<vars, sent, waited, warned>>

\* The 48th hour of a review comes after the 42nd.
DecisionDue == ReviewAges /\ waited = 2 /\ SweptMeanwhile /\ KeepTime

SearchTime == ReachSchedule \/ ReachExpiry \/ TimerLapses \/ WindowLapses

ReminderNext ==
    \/ Requester /\ KeepTime
    \/ Creator /\ KeepTime
    \/ RaiseDispute /\ KeepTime
    \/ Sweeps /\ KeepTime
    \/ Staff /\ KeepTime
    \/ SearchTime /\ KeepTime
    \/ ReminderSweeps \/ StageAges \/ ServerAway \/ DecisionDue

\* As in RequestLifecycle, with these sweeps and these thresholds too.
ReminderFairness ==
    /\ WF_vars(TimerSweep) /\ WF_vars(CloseWindow) /\ WF_vars(PublishDueScheduled)
    /\ WF_vars(ExpireSweep) /\ WF_vars(AutoAccept)
    /\ WF_vars(ReachSchedule) /\ WF_vars(ReachExpiry) /\ WF_vars(TimerLapses) /\ WF_vars(WindowLapses)
    /\ WF_reminderVars(RemindPendingReviews) /\ WF_reminderVars(RunWarningSweep)
    /\ WF_reminderVars(StageAges) /\ WF_reminderVars(DecisionDue)

ReminderSpec == ReminderInit /\ [][ReminderNext]_reminderVars /\ ReminderFairness

-----------------------------------------------------------------------------
\* A review that is decided by the clock was announced to its requester
\* (requesterReviewAutoAcceptJob: "with a 42h warning push first"), unless the
\* server was away when the warning was due or the one warning the row allows
\* was spent on the review before the reshoot.
WarnedFirst ==
    [][ AutoAccept => warned \/ away \/ (reshootUsed /\ "warning" \in sent) ]_vars
=============================================================================

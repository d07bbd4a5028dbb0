------------------------------- MODULE People -------------------------------
(***************************************************************************)
(* Trust, Settings and Correspondence beside each other, over the same     *)
(* accounts and calls.  They share no other row; a call is cut in any.     *)
(***************************************************************************)
EXTENDS Trust, Settings, Correspondence

Init == TrustInit /\ SettingsInit /\ CorrespondenceInit

profiles == <<ratings, badge, complaints, trust>>
configuration == <<settings, consent>>

Next ==
    \/ TrustStep /\ Meanwhile /\ UNCHANGED correspondence
    \/ SettingsStep /\ UNCHANGED <<profiles, correspondence>>
    \/ CorrespondenceStep /\ UNCHANGED <<profiles, configuration>>

vars == <<reputationVars, trust, configuration, correspondence>>

Spec == Init /\ [][Next]_vars

-----------------------------------------------------------------------------
\* What crosses a threshold is flagged: a user by reports that were not
\* dismissed (reportService.create), a chat by blocked messages
\* (postSubmissionChatService.send): FlaggedAtThreshold and ChatFlagged, with
\* the races and the shared flag each of them names.
ThresholdsFlag == FlaggedAtThreshold /\ ChatFlagged
=============================================================================

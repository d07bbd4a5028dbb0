----------------------------- MODULE Reputation -----------------------------
(***************************************************************************)
(* What people think of each other, beside their accounts: the double-     *)
(* blind ratings of one completed request, the Verified Creator badge that *)
(* ratings, completions and the account's state decide, and reports with   *)
(* the flag they raise.  The calls are Accounts' calls, with more jobs:    *)
(* ref is the stars of a rating, the request of a report, the verdict of   *)
(* an Admin (1 for verified).                                              *)
(***************************************************************************)
EXTENDS Accounts

CONSTANTS
    Requester, Creator,     \* of the completed request, both Contacts
    Known,                  \* stars the creator has had for earlier requests
    Completed,              \* requests he has completed
    Threshold,              \* VERIFIED_CREATOR_THRESHOLD
    MinRating,              \* VERIFIED_CREATOR_MIN_RATING
    Window,                 \* VERIFIED_CREATOR_RATING_WINDOW
    ReportThreshold         \* REPORT_AUTO_SUSPEND_THRESHOLD

ASSUME ReputationAssumption ==
    /\ {Requester, Creator} \subseteq Registered /\ Requester # Creator
    /\ Known \in Seq(1..5) /\ Completed \in Nat /\ Threshold \in Nat /\ MinRating \in Nat
    /\ Window \in Nat \ {0} /\ ReportThreshold \in Nat \ {0}

\* rate refuses whoever is neither.
ASSUME RatersAssumption ==
    \A cast \in Casts : \A k \in DOMAIN cast : cast[k].op = "rate" => cast[k].who \in {Requester, Creator}

VARIABLES
    rating,         \* the Rating row of each side: "none", or its visibleAt: "ahead", "paired", "aged"
    stars,          \* all stars the creator was given, oldest first
    completed,      \* his requests in COMPLETED
    isVerified,     \* User.isVerified
    status,         \* his VerifiedCreatorStatus row: "none", "verified" or "revoked"
    reports,        \* Report rows against him, one a request: "none", or their status
    old,            \* those from before the trailing window
    isSuspicious,   \* User.isSuspicious
    crossed,        \* a rating was written on a look at the other side that was out of date
    notified,       \* sides that were sent the stars they were given
    alone,          \* evaluations that nothing else has overlapped
    drift,          \* since the last evaluation that ran alone the badge was touched
    cleared,        \* an Admin took the flag away
    revived         \* a report was resolved by an Admin after another had dismissed it

ratings == <<rating, stars, crossed, notified>>
badge == <<completed, isVerified, status, alone, drift>>
complaints == <<reports, old, isSuspicious, cleared, revived>>
reputationVars == <<accountVars, ratings, badge, complaints>>
rest == <<users, otps, tokens, trail>>

ReputationInit ==
    /\ AccountsInit
    /\ rating = [s \in {Requester, Creator} |-> "none"] /\ stars = Known /\ crossed = FALSE
    /\ notified = {}
    /\ completed = Completed /\ isVerified = FALSE /\ status = "none"
    /\ alone = {} /\ drift = FALSE
    /\ reports = [r \in Calls |-> "none"] /\ old = {} /\ isSuspicious = FALSE
    /\ cleared = FALSE /\ revived = FALSE

Other(s) == IF s = Requester THEN Creator ELSE Requester
Keep(k, where, value) == call' = [call EXCEPT ![k].pc = where, ![k].row = value]

-----------------------------------------------------------------------------
(* ratingService.rate.                                                     *)

LoadRate(k) ==
    /\ MayStart(k, {"rate"}) /\ Authenticated(k) /\ rating[Who(k)] = "none"
    /\ To(k, "loaded")
    /\ UNCHANGED <<rest, ratings, badge, complaints>>

ReadOther(k) ==
    /\ At(k, "loaded", {"rate"})
    /\ call' = [call EXCEPT ![k].pc = "looked", ![k].saw = rating[Other(Who(k))] # "none"]
    /\ UNCHANGED <<rest, ratings, badge, complaints>>

\* One rating a side and request, by the unique key.
CreateRating(k) ==
    LET me == Who(k)
    IN  /\ At(k, "looked", {"rate"})
        /\ IF rating[me] # "none" THEN Finish(k) /\ UNCHANGED ratings
           ELSE /\ rating' = [rating EXCEPT ![me] = IF call[k].saw THEN "paired" ELSE "ahead"]
                /\ stars' = IF me = Requester THEN Append(stars, Job(k).ref) ELSE stars
                /\ crossed' = (crossed \/ (~call[k].saw /\ rating[Other(me)] # "none"))
                /\ To(k, IF call[k].saw THEN "pairing" ELSE "rated")
                /\ UNCHANGED notified
        /\ UNCHANGED <<rest, badge, complaints>>

\* Slip: the rating just written is the one that is revealed.
RevealedOwn(k) == Who(k)

Revealed(k) == Other(Who(k))

RevealOther(k) ==
    /\ At(k, "pairing", {"rate"}) /\ To(k, "rated")
    /\ rating' = [rating EXCEPT ![Revealed(k)] = IF @ = "aged" THEN @ ELSE "paired"]
    /\ UNCHANGED <<rest, stars, crossed, notified, badge, complaints>>

\* The other side is sent the stars, hidden or not, unless he has turned such
\* notices off; only the requester's rating feeds the badge.
AfterRating(k) ==
    /\ At(k, "rated", {"rate"})
    /\ notified' \in {notified, notified \cup {Other(Who(k))}}
    /\ IF Who(k) = Requester THEN To(k, "evaluate") ELSE Finish(k)
    /\ UNCHANGED <<rest, rating, stars, crossed, badge, complaints>>

\* DOUBLE_BLIND_WINDOW_DAYS have gone by.
WeekPasses ==
    /\ \E s \in DOMAIN rating : rating[s] = "ahead"
    /\ rating' = [s \in DOMAIN rating |-> IF rating[s] = "ahead" THEN "aged" ELSE rating[s]]
    /\ UNCHANGED <<rest, call, stars, crossed, notified, badge, complaints>>

-----------------------------------------------------------------------------
(* verifiedCreatorService.evaluate, its other caller, and the override.    *)

Evaluators == {"rate", "complete"}

\* acceptVideo of another request of the creator's.
Complete(k) ==
    /\ MayStart(k, {"complete"}) /\ To(k, "evaluate")
    /\ completed' = completed + 1
    /\ UNCHANGED <<rest, ratings, isVerified, status, alone, drift, complaints>>

\* The reads of Promise.all, in one step.
ReadStats(k) ==
    LET others == {l \in Calls \ {k} : At(l, "stats", Evaluators) \/ At(l, "judged", Evaluators)
                                       \/ At(l, "stored", Evaluators)}
    IN  /\ At(k, "evaluate", Evaluators)
        /\ Keep(k, "stats", [active |-> active[Creator], verified |-> isVerified, completed |-> completed])
        /\ alone' = IF others = {} THEN {k} ELSE {}
        /\ drift' = TRUE
        /\ UNCHANGED <<rest, ratings, completed, isVerified, status, complaints>>

\* A full window of recent ratings below the minimum.
RatingGateFails ==
    LET recent == SubSeq(stars, Len(stars) - Window + 1, Len(stars))
    IN  Len(stars) >= Window /\ FoldSeq(+, 0, recent) < MinRating * Window

ReadRatings(k) ==
    /\ At(k, "stats", Evaluators)
    /\ Keep(k, "judged", [call[k].row EXCEPT !.active = @ /\ ~RatingGateFails])
    /\ UNCHANGED <<rest, ratings, badge, complaints>>

\* Slip: what the status row says is what the user's badge is held to be.
IsChangeOfRow(k, next) == next # (status = "verified")

IsChange(k, next) == next # call[k].row.verified

\* After a suspension and the rating gate, the number of completions decides.
StoreStatus(k) ==
    LET row == call[k].row
        next == row.active /\ row.completed >= Threshold
    IN  /\ At(k, "judged", Evaluators)
        /\ status' = IF next THEN "verified" ELSE "revoked"
        /\ IF IsChange(k, next)
           THEN call' = [call EXCEPT ![k].pc = "stored", ![k].saw = next] /\ UNCHANGED drift
           ELSE Finish(k) /\ drift' = (k \notin alone)
        /\ UNCHANGED <<rest, ratings, completed, isVerified, alone, complaints>>

SyncUser(k) ==
    /\ At(k, "stored", Evaluators) /\ Finish(k)
    /\ isVerified' = call[k].saw /\ drift' = (k \notin alone)
    /\ UNCHANGED <<rest, ratings, completed, status, alone, complaints>>

\* trustScoreService.adminSetVerified writes the user's column only.
AdminSetVerified(k) ==
    /\ MayStart(k, {"verdict"}) /\ Finish(k)
    /\ isVerified' = (Job(k).ref = 1) /\ alone' = {} /\ drift' = TRUE
    /\ UNCHANGED <<rest, ratings, completed, status, complaints>>

-----------------------------------------------------------------------------
(* reportService and adminService.toggleSuspicious.                        *)

LoadReport(k) ==
    /\ MayStart(k, {"report"}) /\ Authenticated(k) /\ reports[Job(k).ref] = "none"
    /\ To(k, "loaded")
    /\ UNCHANGED <<rest, ratings, badge, complaints>>

CreateReport(k) ==
    /\ At(k, "loaded", {"report"})
    /\ IF reports[Job(k).ref] # "none" THEN Finish(k) /\ UNCHANGED reports
       ELSE reports' = [reports EXCEPT ![Job(k).ref] = "PENDING"] /\ To(k, "reported")
    /\ UNCHANGED <<rest, ratings, badge, old, isSuspicious, cleared, revived>>

Recent == {r \in DOMAIN reports : reports[r] # "none" /\ r \notin old}

\* Slip: only what nobody has decided yet is counted.
CountedPending == {r \in Recent : reports[r] = "PENDING"}

\* countAgainstUserSince.
Counted == {r \in Recent : reports[r] \in {"PENDING", "RESOLVED"}}

SuspendRecommended == Cardinality(Counted) >= ReportThreshold

CountReports(k) ==
    /\ At(k, "reported", {"report"})
    /\ IF SuspendRecommended THEN To(k, "many") ELSE Finish(k)
    /\ UNCHANGED <<rest, ratings, badge, complaints>>

ReadSuspect(k) ==
    /\ At(k, "many", {"report"})
    /\ IF isSuspicious THEN Finish(k) ELSE To(k, "unflagged")
    /\ UNCHANGED <<rest, ratings, badge, complaints>>

Flag(k) ==
    /\ At(k, "unflagged", {"report"}) /\ Finish(k)
    /\ isSuspicious' = TRUE
    /\ UNCHANGED <<rest, ratings, badge, reports, old, cleared, revived>>

\* Both read the status, then write theirs whatever it is by then.
LoadDecision(k, op) ==
    /\ MayStart(k, {op}) /\ reports[Job(k).ref] = "PENDING"
    /\ To(k, "loaded")
    /\ UNCHANGED <<rest, ratings, badge, complaints>>

Decide(k, op, as) ==
    /\ At(k, "loaded", {op}) /\ Finish(k)
    /\ reports' = [reports EXCEPT ![Job(k).ref] = as]
    /\ revived' = (revived \/ (as = "RESOLVED" /\ reports[Job(k).ref] = "DISMISSED"))
    /\ UNCHANGED <<rest, ratings, badge, old, isSuspicious, cleared>>

Resolve(k) == LoadDecision(k, "resolve") \/ Decide(k, "resolve", "RESOLVED")
Dismiss(k) == LoadDecision(k, "dismiss") \/ Decide(k, "dismiss", "DISMISSED")

LoadToggle(k) ==
    /\ MayStart(k, {"toggle"})
    /\ call' = [call EXCEPT ![k].pc = "loaded", ![k].saw = isSuspicious]
    /\ UNCHANGED <<rest, ratings, badge, complaints>>

ToggleSuspicious(k) ==
    /\ At(k, "loaded", {"toggle"}) /\ Finish(k)
    /\ isSuspicious' = ~call[k].saw /\ cleared' = (cleared \/ call[k].saw)
    /\ UNCHANGED <<rest, ratings, badge, reports, old, revived>>

\* REPORT_AUTO_SUSPEND_WINDOW_DAYS have gone by.
WindowPasses ==
    LET filed == {r \in DOMAIN reports : reports[r] # "none"}
    IN  /\ ~ filed \subseteq old /\ old' = old \cup filed
        /\ UNCHANGED <<rest, call, ratings, badge, reports, isSuspicious, cleared, revived>>

-----------------------------------------------------------------------------
ReputationStep ==
    \/ AccountsStep /\ UNCHANGED <<ratings, badge, complaints>>
    \/ \E k \in Calls :
        \/ LoadRate(k) \/ ReadOther(k) \/ CreateRating(k) \/ RevealOther(k) \/ AfterRating(k)
        \/ Complete(k) \/ ReadStats(k) \/ ReadRatings(k) \/ StoreStatus(k) \/ SyncUser(k)
        \/ AdminSetVerified(k)
        \/ LoadReport(k) \/ CreateReport(k) \/ CountReports(k) \/ ReadSuspect(k) \/ Flag(k)
        \/ Resolve(k) \/ Dismiss(k) \/ LoadToggle(k) \/ ToggleSuspicious(k)
    \/ WeekPasses
    \/ WindowPasses

-----------------------------------------------------------------------------
(* Properties.                                                             *)

\* The double-blind reveal of a rating's row, the words with the stars
\* (ratingService.rate, getForRequest): it is shown to the other side before a
\* week only if he has rated too; and once both have rated, with no rating in
\* progress or cut, each is shown unless the two were written at once, each on
\* a look that did not find the other.  The stars alone are no secret: rate
\* sends them to the ratee at once (AfterRating), never before the rating is
\* written, and the summaries count hidden ratings too.
RevealTogether ==
    /\ \A s \in DOMAIN rating : rating[s] = "paired" => rating[Other(s)] # "none"
    /\ \A s \in notified : rating[Other(s)] # "none"
    /\ (/\ \A s \in DOMAIN rating : rating[s] # "none"
        /\ ~crossed /\ torn = {} /\ \A k \in Calls : Running(k) => Job(k).op # "rate")
       => \A s \in DOMAIN rating : rating[s] # "ahead"

\* User.isVerified is kept in sync with VerifiedCreatorStatus
\* (verifiedCreatorService, lines 9-19): after an evaluation that nothing
\* overlapped the two agree, also when an Admin had overridden the badge or
\* an earlier evaluation was cut, until the next override or evaluation.
BadgeAgrees ==
    ~drift /\ status # "none" => isVerified = (status = "verified")

\* A user who has crossed the threshold by reports of the window that were not
\* dismissed is flagged for review (maybeFlagForSuspensionReview), whatever
\* order reports and decisions on them come in, unless a report was cut before
\* its count, an Admin took the flag away, or one resolved what another had
\* dismissed meanwhile: no decision counts again.
FlaggedAtThreshold ==
    (/\ Cardinality({r \in Recent : reports[r] # "DISMISSED"}) >= ReportThreshold
     /\ ~cleared /\ ~revived /\ torn = {}
     /\ \A k \in Calls : Running(k) => Job(k).op # "report")
    => isSuspicious
=============================================================================

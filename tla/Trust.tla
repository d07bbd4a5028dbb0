------------------------------- MODULE Trust --------------------------------
(***************************************************************************)
(* The trust profile of one user, in both his roles: rates and a score     *)
(* computed on demand from the rows of his requests, his ratings, his      *)
(* badge and the reports against him, and the announcement of badges he    *)
(* has newly earned, which is kept in a snapshot read and written without  *)
(* a transaction.  The user is Reputation's Creator; the calls are its     *)
(* calls, with more jobs: ref is the request of an event, and 1 for a      *)
(* profile fetched as a creator.  Rates and scores are in hundredths.      *)
(***************************************************************************)
EXTENDS Reputation

CONSTANTS
    Posted,                 \* the Request rows at the start, a sequence
    MinSample,              \* BADGE_MIN_SAMPLE_SIZE
    TopSuccessful,          \* TOP_CREATOR_MIN_SUCCESSFUL and TRUSTED_REQUESTER_MIN_SUCCESSFUL
    Nobody                  \* a null lastAssignedCreatorId

Roles == {"creator", "requester"}
BadgeNames == {"verified", "topCreator", "trustedRequester", "lowCancellation", "fastResponse"}
Keys == Roles \X BadgeNames
Unknown == -1               \* a null lastNotifiedTrustScore

ASSUME TrustAssumption ==
    /\ MinSample \in Nat \ {0} /\ TopSuccessful \in Nat
    /\ Nobody \notin Contacts
    /\ \A r \in DOMAIN Posted : Posted[r].by \in Registered /\ Posted[r].last \in Registered \cup {Nobody}

VARIABLES
    row,            \* by: requesterId, last: lastAssignedCreatorId, status, reshot:
                    \* reshootUsed, lapsed: creatorTimedOut, wrote: chatted on it
    told,           \* lastNotifiedTrustBadges
    lastScore,      \* lastNotifiedTrustScore
    news,           \* how often each badge was announced
    muddled         \* a fetch read the snapshot while another was about to write it

trust == <<row, told, lastScore, news, muddled>>

TrustInit ==
    /\ ReputationInit
    /\ row = Posted /\ told = {} /\ lastScore = Unknown
    /\ news = [b \in Keys |-> 0] /\ muddled = FALSE

Others == <<rest, ratings, badge, complaints>>

-----------------------------------------------------------------------------
(* What happens to the requests meanwhile; RequestLifecycle has the whole. *)

\* accept, also of a request another creator let lapse: his mark stays on it.
TakeRequest(k) ==
    LET r == Job(k).ref
    IN  /\ MayStart(k, {"take"}) /\ Finish(k)
        /\ row[r].status = "PUBLISHED" /\ row[r].by # Who(k)
        /\ row' = [row EXCEPT ![r].status = "RECORDING", ![r].last = Who(k)]
        /\ UNCHANGED <<Others, told, lastScore, news, muddled>>

\* acceptanceTimerJob.
LetLapse(k) ==
    LET r == Job(k).ref
    IN  /\ MayStart(k, {"lapse"}) /\ Finish(k)
        /\ row[r].status = "RECORDING" /\ row[r].last = Who(k)
        /\ row' = [row EXCEPT ![r].status = "PUBLISHED", ![r].lapsed = TRUE]
        /\ UNCHANGED <<Others, told, lastScore, news, muddled>>

AskReshoot(k) ==
    LET r == Job(k).ref
    IN  /\ MayStart(k, {"reshoot"}) /\ Finish(k)
        /\ row[r].status = "RECORDING" /\ ~row[r].reshot
        /\ row' = [row EXCEPT ![r].reshot = TRUE]
        /\ UNCHANGED <<Others, told, lastScore, news, muddled>>

EndRequest(k) ==
    LET r == Job(k).ref
    IN  /\ MayStart(k, {"finish", "withdraw"}) /\ Finish(k)
        /\ row[r].status = IF Job(k).op = "finish" THEN "RECORDING" ELSE "PUBLISHED"
        /\ row' = [row EXCEPT ![r].status = IF Job(k).op = "finish" THEN "COMPLETED" ELSE "CANCELLED"]
        /\ UNCHANGED <<Others, told, lastScore, news, muddled>>

-----------------------------------------------------------------------------
(* trustScoreService: the rates, the score and the badges.                 *)

\* The rows that count for a role: those he posted, or was last assigned to.
Mine(role) == {r \in DOMAIN row : IF role = "creator" THEN row[r].last = Creator ELSE row[r].by = Creator}

\* pct: n of d in hundredths of a percent, half up; fallback when there is nothing yet.
Pct(n, d, fallback) == IF d <= 0 THEN fallback * 100 ELSE (2 * n * 10000 + d) \div (2 * d)

Terminal == {"COMPLETED", "CANCELLED", "REJECTED", "EXPIRED", "DISPUTED"}

\* The rows that got as far as the chat, and those of them he wrote in.
Reached(role) == {r \in Mine(role) : row[r].status \notin {"DRAFT", "PUBLISHED"}}
Responded(role) == {r \in Reached(role) : row[r].wrote}

\* computeRoleMetrics.
RoleMetrics(role) ==
    LET total == Cardinality(Mine(role))
        ended == Cardinality({r \in Mine(role) : row[r].status \in Terminal})
        lost == {r \in Mine(role) : IF role = "creator" THEN row[r].lapsed ELSE row[r].status = "CANCELLED"}
    IN  [total |-> total, ended |-> ended,
         good |-> Cardinality({r \in Mine(role) : row[r].status = "COMPLETED"}),
         cancellation |-> Pct(Cardinality(lost), IF role = "creator" THEN total ELSE ended, 0),
         reshoot |-> Pct(Cardinality({r \in Mine(role) : row[r].reshot}), ended, 0),
         response |-> Pct(Cardinality(Responded(role)), Cardinality(Reached(role)), 100)]

Stars == FoldSeq(+, 0, stars)

\* aggregateForUser, of all he was given: an average to two places, if any.
AverageRating == IF stars = <<>> THEN Unknown ELSE (200 * Stars + Len(stars)) \div (2 * Len(stars))

Pending == Cardinality({q \in DOMAIN reports : reports[q] = "PENDING"})

Least(a, b) == IF a < b THEN a ELSE b
Most(a, b) == IF a > b THEN a ELSE b

\* computeTrustScore, with TRUST_SCORE_WEIGHTS and the neutral values.
TrustScore(m, user) ==
    LET weighted ==
            30 * Pct(m.good, m.ended, 100)
            + 25 * (IF AverageRating = Unknown THEN 7000 ELSE 20 * AverageRating)
            + 20 * (IF m.total > 0 THEN 10000 - m.cancellation ELSE 10000)
            + 15 * m.response
            + 10 * (IF m.ended > 0 THEN 10000 - m.reshoot ELSE 10000)
        full == weighted + (IF user.verified THEN 50000 ELSE 0) - Least(Pending * 50000, 200000)
        capped == IF user.suspicious THEN Least(full, 400000) ELSE full
    IN  Most(0, Least(100, (capped + 5000) \div 10000))

\* computeBadges.
Earned(role, m, user) ==
    LET clean == ~user.suspicious /\ (m.ended >= MinSample \/ m.total >= MinSample)
        holds == [verified |-> user.verified,
                  topCreator |-> /\ role = "creator" /\ clean /\ m.good >= TopSuccessful
                                 /\ AverageRating >= 450,
                  trustedRequester |-> /\ role = "requester" /\ clean /\ m.good >= TopSuccessful
                                       /\ m.cancellation <= 1000,
                  lowCancellation |-> clean /\ m.cancellation <= 500,
                  fastResponse |-> clean /\ m.response >= 9000]
    IN  {<<role, b>> : b \in {x \in BadgeNames : holds[x]}}

-----------------------------------------------------------------------------
(* GET /trust-profile/me: buildTrustProfile, then checkAndNotifyChanges.   *)

Role(k) == IF Job(k).ref = 1 THEN "creator" ELSE "requester"
Fetches == {"profile"}

LoadProfile(k) ==
    /\ MayStart(k, Fetches) /\ Authenticated(k)
    /\ Keep(k, "user", [verified |-> isVerified, suspicious |-> isSuspicious])
    /\ UNCHANGED <<Others, trust>>

BuildProfile(k) ==
    LET m == RoleMetrics(Role(k))
    IN  /\ At(k, "user", Fetches)
        /\ Keep(k, "built", [score |-> TrustScore(m, call[k].row), earned |-> Earned(Role(k), m, call[k].row)])
        /\ UNCHANGED <<Others, trust>>

ReadSnapshot(k) ==
    LET p == call[k].row
        others == {l \in Calls \ {k} : At(l, "read", Fetches) \/ At(l, "announced", Fetches)}
    IN  /\ At(k, "built", Fetches)
        /\ Keep(k, "read", [score |-> p.score, earned |-> p.earned, told |-> told, last |-> lastScore])
        /\ muddled' = (muddled \/ others # {})
        /\ UNCHANGED <<Others, row, told, lastScore, news>>

NewlyEarned(k) == call[k].row.earned \ call[k].row.told

Announce(k) ==
    /\ At(k, "read", Fetches) /\ To(k, "announced")
    /\ news' = [b \in Keys |-> IF b \in NewlyEarned(k) THEN news[b] + 1 ELSE news[b]]
    /\ UNCHANGED <<Others, row, told, lastScore, muddled>>

\* Slip: the snapshot is what this profile shows, without what the other role's did.
MergedAsShown(k) == call[k].row.earned

Merged(k) == call[k].row.told \cup call[k].row.earned

\* Written when a badge is new, the score has changed or was never taken.
RememberTold(k) ==
    LET p == call[k].row
    IN  /\ At(k, "announced", Fetches) /\ Finish(k)
        /\ IF NewlyEarned(k) # {} \/ p.last # p.score
           THEN told' = Merged(k) /\ lastScore' = p.score
           ELSE UNCHANGED <<told, lastScore>>
        /\ UNCHANGED <<Others, row, news, muddled>>

-----------------------------------------------------------------------------
TrustStep ==
    \/ ReputationStep /\ UNCHANGED trust
    \/ \E k \in Calls :
        \/ TakeRequest(k) \/ LetLapse(k) \/ AskReshoot(k) \/ EndRequest(k)
        \/ LoadProfile(k) \/ BuildProfile(k) \/ ReadSnapshot(k) \/ Announce(k) \/ RememberTold(k)

-----------------------------------------------------------------------------
(* Properties.                                                             *)

\* "repeat fetches of an unchanged profile don't re-notify"
\* (trustScoreService.checkAndNotifyChanges): however badges come and go and
\* whichever role is asked for, each is announced once, and what is remembered
\* is what was announced, unless two fetches overlapped or one was cut.
BadgeToldOnce ==
    ~muddled /\ torn = {} =>
        /\ \A b \in Keys : news[b] <= 1
        /\ (\A k \in Calls : ~ At(k, "announced", Fetches)) => told = {b \in Keys : news[b] = 1}
=============================================================================

------------------------------- MODULE Search -------------------------------
(***************************************************************************)
(* The search for a creator of one Credit request: responses to a Highest  *)
(* Rated window and the sweep that ranks them, debits a Connect and        *)
(* assigns, the fallback to First Accepted, accept, the acceptance timer   *)
(* with its abandonment guard, and the pre-acceptance questions beside     *)
(* them.  A step is the code between two awaits; any call may be cut.  The *)
(* lock accept takes is AcceptRace's: here its conditional update decides. *)
(***************************************************************************)
EXTENDS Integers, Sequences, FiniteSetsExt, RequestStates

CONSTANTS
    Creators,
    Calls,          \* HTTP calls and sweeps
    Job,            \* what each of them does, and for which creator
    Ratings,        \* number of ratings and sum of stars of each creator
    Distance,       \* of each creator, within the radius
    Opening,        \* creatorConnects at the start
    Cost,           \* ACCEPT_REQUEST_CONNECTS
    MaxExchanges,   \* MAX_CREATOR_EXCHANGES
    FlagAt,         \* QUERY_MODERATION_FLAG_THRESHOLD
    AbandonAt,      \* ABANDONMENT_THRESHOLD
    Nobody,         \* a null creatorId
    Together        \* bound: the sets of calls that may start in one behaviour

ASSUME SearchAssumption ==
    /\ Cost \in Nat \ {0} /\ MaxExchanges \in Nat /\ FlagAt \in Nat /\ AbandonAt \in Nat
    /\ Ratings \in [Creators -> [count : Nat, sum : Nat]]
    /\ Distance \in [Creators -> Nat] /\ Opening \in [Creators -> Nat]
    /\ Nobody \notin Creators
    /\ \A c \in Creators : Ratings[c].sum \in Ratings[c].count..(5 * Ratings[c].count)
ASSUME SearchCallsAssumption ==
    /\ IsFiniteSet(Calls) /\ \A k \in Calls : Job[k].creator \in Creators
    /\ Together \subseteq SUBSET Calls

Work(op, c) == [op |-> op, creator |-> c]

VARIABLES
    status,         \* Request.status
    creator,        \* Request.creatorId
    open,           \* matchingWindowClosesAt lies ahead
    responses,      \* MatchingWindowResponse rows, in the order of respondedAt
    reservation,    \* their connectReservationStatus
    connects,       \* User.creatorConnects
    paid,           \* ACCEPT_SPEND less ACCEPT_REFUND entries of this request
    mislaid,        \* Connects a debit took before it failed, with no entry
    elsewhere,      \* Connects spent on other requests
    assigned,       \* how often each creator was assigned and not rolled back
    thread,         \* PreAcceptanceQuery.status, or "none"
    exchanges,      \* its exchangeCount
    blockedMsgs,    \* its blocked messages
    flagged,        \* Request.chatFlaggedForReview
    abandoned,      \* AbandonmentEvents of each creator
    barred,         \* acceptanceBlockedUntil lies ahead
    call,           \* each call: where it is, and its locals
    chosen,         \* the window's winner, and whom it was chosen over
    late,           \* an ask created its thread after the search had ended
    torn            \* a call was cut, a refund lost, a rollback found another row

vars == <<status, creator, open, responses, reservation, connects, paid, mislaid, elsewhere,
          assigned, thread, exchanges, blockedMsgs, flagged, abandoned, barred, call, chosen,
          late, torn>>
request == <<status, creator, open>>
window == <<responses, reservation, chosen>>
balances == <<connects, paid, mislaid, elsewhere>>
purse == <<balances, assigned>>
threads == <<thread, exchanges, blockedMsgs, flagged>>
guard == <<abandoned, barred>>
history == <<late, torn>>

Start == [pc |-> "idle", read |-> {}, todo |-> {}, saw |-> Nobody]

Init ==
    /\ status \in {"MATCHING_WINDOW", "PUBLISHED"} /\ open = (status = "MATCHING_WINDOW")
    /\ creator = Nobody
    /\ responses = <<>> /\ reservation = [c \in Creators |-> "none"]
    /\ connects = Opening
    /\ mislaid = [c \in Creators |-> 0] /\ elsewhere = [c \in Creators |-> 0]
    /\ paid = [c \in Creators |-> 0] /\ assigned = [c \in Creators |-> 0]
    /\ thread = [c \in Creators |-> "none"]
    /\ exchanges = [c \in Creators |-> 0] /\ blockedMsgs = [c \in Creators |-> 0]
    /\ flagged = FALSE
    /\ abandoned = [c \in Creators |-> 0] /\ barred = {}
    /\ call = [k \in Calls |-> Start]
    /\ chosen = [winner |-> Nobody, over |-> {}]
    /\ late = FALSE /\ torn = FALSE

Running(k) == call[k].pc \notin {"idle", "done"}
At(k, where, ops) == call[k].pc = where /\ Job[k].op \in ops
To(k, where) == call' = [call EXCEPT ![k].pc = where]
Finish(k) == call' = [call EXCEPT ![k] = [Start EXCEPT !.pc = "done"]]
MayStart(k, op) ==
    /\ Job[k].op = op /\ call[k].pc = "idle"
    /\ \E T \in Together : k \in T /\ \A d \in Calls \ T : call[d].pc = "idle"

\* ledgerService.debitConnects: an update guarded by the balance, then the
\* ledger entry, in no transaction.
CanPay(c) == connects[c] >= Cost

Debit(c) ==
    /\ connects' = [connects EXCEPT ![c] = @ - Cost] /\ paid' = [paid EXCEPT ![c] = @ + Cost]
    /\ UNCHANGED <<mislaid, elsewhere>>

\* It throws: the balance is too low, a query fails, or the entry does after
\* the update.
DebitFails(c) ==
    /\ \/ UNCHANGED <<connects, mislaid>>
       \/ /\ CanPay(c) /\ connects' = [connects EXCEPT ![c] = @ - Cost]
          /\ mislaid' = [mislaid EXCEPT ![c] = @ + Cost]
    /\ UNCHANGED <<paid, elsewhere>>

-----------------------------------------------------------------------------
(* Responding to the window.                                               *)

\* The window ends by the clock; nothing else writes matchingWindowClosesAt.
Lapse ==
    /\ open /\ open' = FALSE
    /\ UNCHANGED <<status, creator, window, purse, threads, guard, call, history>>

LoadRespond(k) ==
    /\ MayStart(k, "respond") /\ status = "MATCHING_WINDOW" /\ open
    /\ Job[k].creator \notin barred /\ CanPay(Job[k].creator)
    /\ To(k, "loaded")
    /\ UNCHANGED <<request, window, purse, threads, guard, history>>

\* A second response of the creator meets the unique key: a no-op.
Respond(k) ==
    LET c == Job[k].creator
    IN  /\ At(k, "loaded", {"respond"}) /\ Finish(k)
        /\ IF reservation[c] = "none"
           THEN /\ responses' = Append(responses, c)
                /\ reservation' = [reservation EXCEPT ![c] = "RESERVED"]
           ELSE UNCHANGED <<responses, reservation>>
        /\ UNCHANGED <<request, chosen, purse, threads, guard, history>>

-----------------------------------------------------------------------------
(* matchingWindowJob.runSweep and closeWindow.                             *)

\* bayesianScore, over a common denominator: three ratings of 3.5 are added.
Score(c) == [num |-> 21 + 2 * Ratings[c].sum, den |-> 2 * (3 + Ratings[c].count)]

\* Slip: the average as it is.
OutscoresByAverage(a, b) ==
    Ratings[a].sum * Ratings[b].count > Ratings[b].sum * Ratings[a].count

Outscores(a, b) == Score(a).num * Score(b).den > Score(b).num * Score(a).den

RespondedBefore(a, b) ==
    \E i, j \in DOMAIN responses : i < j /\ responses[i] = a /\ responses[j] = b

\* The comparator of closeWindow's sort.
Before(a, b) ==
    \/ Outscores(a, b)
    \/ /\ ~Outscores(b, a)
       /\ \/ Ratings[a].count > Ratings[b].count
          \/ /\ Ratings[a].count = Ratings[b].count
             /\ \/ Distance[a] < Distance[b]
                \/ Distance[a] = Distance[b] /\ RespondedBefore(a, b)

Ranked(S) == CHOOSE a \in S : \A b \in S \ {a} : Before(a, b)

\* findMatchingWindowDue, then closeWindow's own reload of the request.
FindDue(k) ==
    /\ MayStart(k, "close") /\ status = "MATCHING_WINDOW" /\ ~open
    /\ To(k, "due")
    /\ UNCHANGED <<request, window, purse, threads, guard, history>>

LoadWindow(k) ==
    /\ At(k, "due", {"close"})
    /\ To(k, IF status = "MATCHING_WINDOW" THEN "loaded" ELSE "done")
    /\ UNCHANGED <<request, window, purse, threads, guard, history>>

ReadResponses(k) ==
    LET all == {responses[i] : i \in DOMAIN responses}
    IN  /\ At(k, "loaded", {"close"})
        /\ call' = [call EXCEPT ![k].pc = "ranked", ![k].read = all, ![k].todo = all]
        /\ UNCHANGED <<request, window, purse, threads, guard, history>>

\* The best candidate left pays, or is passed over whatever made its debit
\* throw: it no longer can pay, or an error, also one after its Connect is gone.
DebitBest(k) ==
    /\ At(k, "ranked", {"close"}) /\ call[k].todo # {}
    /\ LET c == Ranked(call[k].todo)
       IN  \/ /\ CanPay(c) /\ Debit(c)
              /\ call' = [call EXCEPT ![k].pc = "debited", ![k].saw = c]
           \/ DebitFails(c) /\ call' = [call EXCEPT ![k].todo = @ \ {c}]
    /\ UNCHANGED <<request, window, assigned, threads, guard, history>>

\* Slip: the update goes by the id alone.
TakeRowUnconditionally(k) == TRUE

\* updateStatusIfCurrently(id, MATCHING_WINDOW, ...).
TakeRow(k) == status = "MATCHING_WINDOW"

Assign(k) ==
    LET c == call[k].saw
    IN  /\ At(k, "debited", {"close"})
        /\ IF TakeRow(k)
           THEN /\ status' = "CREATOR_ASSIGNED" /\ creator' = c /\ open' = FALSE
                /\ assigned' = [assigned EXCEPT ![c] = @ + 1]
                /\ chosen' = [winner |-> c, over |-> call[k].todo \ {c}]
                /\ To(k, "won")
           ELSE To(k, "lost") /\ UNCHANGED <<request, assigned, chosen>>
        /\ UNCHANGED <<responses, reservation, balances, threads, guard, history>>

\* The refund's own failure is swallowed.
RefundLoser(k) ==
    LET c == call[k].saw
    IN  /\ At(k, "lost", {"close"}) /\ Finish(k)
        /\ \/ /\ connects' = [connects EXCEPT ![c] = @ + Cost]
              /\ paid' = [paid EXCEPT ![c] = @ - Cost] /\ UNCHANGED torn
           \/ torn' = TRUE /\ UNCHANGED <<connects, paid>>
        /\ UNCHANGED <<request, window, mislaid, elsewhere, assigned, threads, guard, late>>

MarkSpent(k) ==
    /\ At(k, "won", {"close"}) /\ To(k, "spent")
    /\ reservation' = [reservation EXCEPT ![call[k].saw] = "SPENT"]
    /\ UNCHANGED <<request, responses, chosen, purse, threads, guard, history>>

\* One awaited update a response; nothing else writes these rows.
ReleaseOthers(k) ==
    /\ At(k, "spent", {"close"}) /\ Finish(k)
    /\ reservation' = [c \in Creators |-> IF c \in call[k].read \ {call[k].saw}
                                          THEN "RELEASED" ELSE reservation[c]]
    /\ UNCHANGED <<request, responses, chosen, purse, threads, guard, history>>

\* Nobody responded, or nobody left could pay.
FallbackToFirstAccepted(k) ==
    /\ At(k, "ranked", {"close"}) /\ call[k].todo = {} /\ Finish(k)
    /\ IF status = "MATCHING_WINDOW" THEN status' = "PUBLISHED" /\ open' = FALSE
       ELSE UNCHANGED <<status, open>>
    /\ UNCHANGED <<creator, window, purse, threads, guard, history>>

-----------------------------------------------------------------------------
(* requestService.accept and cancel, and Connects spent on other requests. *)

LoadAccept(k) ==
    /\ MayStart(k, "accept") /\ status = "PUBLISHED"
    /\ Job[k].creator \notin barred /\ CanPay(Job[k].creator)
    /\ To(k, "loaded")
    /\ UNCHANGED <<request, window, purse, threads, guard, history>>

Take(k) ==
    LET c == Job[k].creator
    IN  /\ At(k, "loaded", {"accept"})
        /\ IF status = "PUBLISHED"
           THEN /\ status' = "CREATOR_ASSIGNED" /\ creator' = c
                /\ assigned' = [assigned EXCEPT ![c] = @ + 1] /\ To(k, "taken")
           ELSE Finish(k) /\ UNCHANGED <<status, creator, assigned>>
        /\ UNCHANGED <<open, window, balances, threads, guard, history>>

Pay(k) ==
    /\ At(k, "taken", {"accept"})
    /\ \/ CanPay(Job[k].creator) /\ Debit(Job[k].creator) /\ To(k, "paid")
       \/ DebitFails(Job[k].creator) /\ To(k, "refused")
    /\ UNCHANGED <<request, window, assigned, threads, guard, history>>

\* updateStatusIfCurrently(id, CREATOR_ASSIGNED, ...), whoever is assigned.
Rollback(k) ==
    LET own == status = "CREATOR_ASSIGNED" /\ creator = Job[k].creator
    IN  /\ At(k, "refused", {"accept"}) /\ Finish(k)
        /\ IF status = "CREATOR_ASSIGNED" THEN status' = "PUBLISHED" /\ creator' = Nobody
           ELSE UNCHANGED <<status, creator>>
        /\ assigned' = IF own THEN [assigned EXCEPT ![creator] = @ - 1] ELSE assigned
        /\ torn' = (torn \/ ~own)
        /\ UNCHANGED <<open, window, balances, threads, guard, late>>

\* Slip: only the winner's thread is closed.
CloseAllWinnerOnly(k) ==
    [c \in Creators |-> IF thread[c] = "OPEN" /\ c = Job[k].creator THEN "CLOSED_ACCEPTED"
                        ELSE thread[c]]

\* queryService.closeAllForRequest.
CloseAll(k) == [c \in Creators |-> IF thread[c] = "OPEN" THEN "CLOSED_ACCEPTED" ELSE thread[c]]

CloseThreads(k) ==
    /\ At(k, "paid", {"accept"}) /\ thread' = CloseAll(k) /\ Finish(k)
    /\ UNCHANGED <<request, window, purse, exchanges, blockedMsgs, flagged, guard, history>>

\* The accept of another request, which also ends up in debitConnects.
SpendElsewhere(k) ==
    /\ MayStart(k, "spend") /\ CanPay(Job[k].creator)
    /\ connects' = [connects EXCEPT ![Job[k].creator] = @ - Cost]
    /\ elsewhere' = [elsewhere EXCEPT ![Job[k].creator] = @ + Cost] /\ Finish(k)
    /\ UNCHANGED <<request, window, paid, mislaid, assigned, threads, guard, history>>

LoadCancel(k) ==
    /\ MayStart(k, "cancel") /\ CanTransition(status, "CANCELLED") /\ To(k, "loaded")
    /\ UNCHANGED <<request, window, purse, threads, guard, history>>

\* The refund of the escrow lies between; the write goes by the id.
Cancel(k) ==
    /\ At(k, "loaded", {"cancel"}) /\ status' = "CANCELLED" /\ Finish(k)
    /\ UNCHANGED <<creator, open, window, purse, threads, guard, history>>

-----------------------------------------------------------------------------
(* acceptanceTimerJob.                                                     *)

\* acceptanceTimerExpiresAt has passed, or has not.
FindExpired(k) ==
    /\ MayStart(k, "timer") /\ status = "CREATOR_ASSIGNED"
    /\ call' = [call EXCEPT ![k].pc = "loaded", ![k].saw = creator]
    /\ UNCHANGED <<request, window, purse, threads, guard, history>>

Republish(k) ==
    /\ At(k, "loaded", {"timer"})
    /\ IF status = "CREATOR_ASSIGNED" THEN status' = "PUBLISHED" /\ creator' = Nobody /\ To(k, "won")
       ELSE Finish(k) /\ UNCHANGED <<status, creator>>
    /\ UNCHANGED <<open, window, purse, threads, guard, history>>

\* evaluateAbandonmentGuard: the event, then the count and the block.
RecordAbandonment(k) ==
    /\ At(k, "won", {"timer"}) /\ To(k, "recorded")
    /\ abandoned' = [abandoned EXCEPT ![call[k].saw] = @ + 1]
    /\ UNCHANGED <<request, window, purse, threads, barred, history>>

BarAbandoner(k) ==
    /\ At(k, "recorded", {"timer"}) /\ Finish(k)
    /\ barred' = IF abandoned[call[k].saw] >= AbandonAt THEN barred \cup {call[k].saw} ELSE barred
    /\ UNCHANGED <<request, window, purse, threads, abandoned, history>>

-----------------------------------------------------------------------------
(* queryService.                                                           *)

\* loadOpenRequestForQuery.
LoadOpenRequest(k) ==
    /\ MayStart(k, "ask") /\ status = "PUBLISHED" /\ To(k, "loaded")
    /\ UNCHANGED <<request, window, purse, threads, guard, history>>

\* The thread is found or created, and must be open and below the cap.
FindOrCreateThread(k) ==
    LET c == Job[k].creator
    IN  /\ At(k, "loaded", {"ask"})
        /\ thread' = IF thread[c] = "none" THEN [thread EXCEPT ![c] = "OPEN"] ELSE thread
        /\ late' = (late \/ (thread[c] = "none" /\ status # "PUBLISHED"))
        /\ To(k, IF thread[c] \in {"none", "OPEN"} /\ exchanges[c] < MaxExchanges
                 THEN "open" ELSE "done")
        /\ UNCHANGED <<request, window, purse, exchanges, blockedMsgs, flagged, guard, torn>>

AddMessage(k) ==
    /\ At(k, "open", {"ask"})
    /\ \/ To(k, "asked") /\ UNCHANGED blockedMsgs
       \/ To(k, "blocked") /\ blockedMsgs' = [blockedMsgs EXCEPT ![Job[k].creator] = @ + 1]
    /\ UNCHANGED <<request, window, purse, thread, exchanges, flagged, guard, history>>

FlagForReview(k) ==
    /\ At(k, "blocked", {"ask"}) /\ Finish(k)
    /\ flagged' = (flagged \/ blockedMsgs[Job[k].creator] >= FlagAt)
    /\ UNCHANGED <<request, window, purse, thread, exchanges, blockedMsgs, guard, history>>

IncrementExchangeCount(k) ==
    /\ At(k, "asked", {"ask"}) /\ Finish(k)
    /\ exchanges' = [exchanges EXCEPT ![Job[k].creator] = @ + 1]
    /\ UNCHANGED <<request, window, purse, thread, blockedMsgs, flagged, guard, history>>

LoadThread(k) ==
    /\ MayStart(k, "decline") /\ thread[Job[k].creator] = "OPEN" /\ To(k, "loaded")
    /\ UNCHANGED <<request, window, purse, threads, guard, history>>

Decline(k) ==
    /\ At(k, "loaded", {"decline"}) /\ Finish(k)
    /\ thread' = [thread EXCEPT ![Job[k].creator] = "CLOSED_DECLINED"]
    /\ UNCHANGED <<request, window, purse, exchanges, blockedMsgs, flagged, guard, history>>

-----------------------------------------------------------------------------
Cut(k) ==
    /\ Running(k) /\ Finish(k)
    /\ torn' = (torn \/ call[k].pc \in {"debited", "lost", "won", "spent", "taken", "refused", "paid"})
    /\ UNCHANGED <<request, window, purse, threads, guard, late>>

Step(k) ==
    \/ LoadRespond(k) \/ Respond(k)
    \/ FindDue(k) \/ LoadWindow(k) \/ ReadResponses(k) \/ DebitBest(k) \/ Assign(k)
    \/ RefundLoser(k) \/ MarkSpent(k) \/ ReleaseOthers(k) \/ FallbackToFirstAccepted(k)
    \/ LoadAccept(k) \/ Take(k) \/ Pay(k) \/ Rollback(k) \/ CloseThreads(k)
    \/ SpendElsewhere(k) \/ LoadCancel(k) \/ Cancel(k)
    \/ FindExpired(k) \/ Republish(k) \/ RecordAbandonment(k) \/ BarAbandoner(k)
    \/ LoadOpenRequest(k) \/ FindOrCreateThread(k) \/ AddMessage(k)
    \/ FlagForReview(k) \/ IncrementExchangeCount(k)
    \/ LoadThread(k) \/ Decline(k)
    \/ Cut(k)

Next == Lapse \/ \E k \in Calls : Step(k)

Spec == Init /\ [][Next]_vars
-----------------------------------------------------------------------------
Quiet == \A k \in Calls : ~Running(k)

\* A creator is charged one Connect for each time it was assigned and nothing
\* for a window or a race it lost, and the response marked SPENT is the window
\* winner's alone: through overlapping sweeps, cancellations and Connects spent
\* elsewhere (closeWindow debits first and refunds the loser, accept takes first
\* and rolls back).  Its balance is short of nothing but that, what it spent
\* elsewhere, and what a debit took before it threw, which both callers take for
\* a debit that did nothing.  A cut, a lost refund or a rollback of another's
\* assignment breaks the charge.
WinnerPaysOnce ==
    Quiet /\ ~torn =>
        \A c \in Creators :
            /\ paid[c] = Cost * assigned[c]
            /\ connects[c] = Opening[c] - Cost * assigned[c] - elsewhere[c] - mislaid[c]
            /\ reservation[c] = "SPENT" <=> chosen.winner = c
            /\ connects[c] >= 0

\* The winner of a window is never preferred to a respondent the sweep had read,
\* and whose debit had not thrown, with at least as many ratings of a better
\* average that is 3.5 or more: below, the prior favours him of fewer ratings.
\* Nor does a single rating outweigh three or more that average 4.5 (the comment
\* on PRIOR_WEIGHT, matchingWindowService.ts:18-21).
BestWins ==
    \A d \in chosen.over :
        LET w == chosen.winner
        IN  /\ ~ /\ Ratings[d].count >= Ratings[w].count
                 /\ 2 * Ratings[d].sum >= 7 * Ratings[d].count
                 /\ Ratings[d].sum * Ratings[w].count > Ratings[w].sum * Ratings[d].count
            /\ ~ /\ Ratings[w].count = 1 /\ Ratings[d].count >= 3
                 /\ 2 * Ratings[d].sum >= 9 * Ratings[d].count

\* Once a creator is assigned no question thread stays open, whoever asked and
\* whoever declined meanwhile (queryService.ts:181-188), unless a question
\* created its thread after the search had ended or the accept was cut.
ThreadsCloseOnAccept ==
    Quiet /\ ~late /\ ~torn /\ status = "CREATOR_ASSIGNED" =>
        \A c \in Creators : thread[c] # "OPEN"
=============================================================================

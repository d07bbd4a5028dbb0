------------------------------- MODULE Wallet -------------------------------
(***************************************************************************)
(* The real-money wallet: deposits confirmed by the client, by Razorpay's  *)
(* webhooks and by the Admin's reconciliation, all of them at once; the    *)
(* withdrawals with the payout queue; tips and escrow holds in INR; and    *)
(* the Idempotency-Key middleware in front of the client's calls; what     *)
(* escrow and disputes move by themselves comes as single calls.  A step   *)
(* is the code between two awaits; any call may be cut at any await.       *)
(***************************************************************************)
EXTENDS Integers, FiniteSetsExt

CONSTANTS
    Users,
    Calls,          \* HTTP calls
    Job,            \* what each of them asks for
    Opening,        \* User.walletBalance at the start
    NoKey,          \* no Idempotency-Key header
    Together        \* bound: the sets of calls that may start in one behaviour

ASSUME OpeningAssumption == Opening \in [Users -> Nat]
ASSUME TogetherAssumption == Together \subseteq SUBSET Calls
ASSUME CallsAssumption == IsFiniteSet(Calls)

\* "on" is the deposit (named after the createOrder call that made it), the
\* payout (named after its withdraw call) or the tipped request.
Work(op, u, on, n, key) == [op |-> op, user |-> u, on |-> on, amount |-> n, key |-> key]

Of(ops) == {c \in Calls : Job[c].op \in ops}
Deposits == Of({"order"})
Payouts == Of({"withdraw"})
Keys == {Job[c].key : c \in Calls} \ {NoKey}
DepositStatuses == {"none", "PENDING", "SUCCESS", "FAILED"}
PayoutStatuses == {"none", "PENDING", "APPROVED", "REJECTED"}
Outcomes == {"captured", "failed"}
Confirming == {"verify", "captured", "failed", "reconcile"}
Deciding == {"approve", "reject"}

\* A confirmation is about a deposit, a decision about a payout: both are looked
\* up by their id before anything else.
ASSUME JobAssumption ==
    \A c \in Calls :
        /\ Job[c].op \in {"order", "withdraw", "tip", "hold", "award", "takeBack"}
                             \cup Confirming \cup Deciding
        /\ Job[c].user \in Users /\ Job[c].amount \in Nat
        /\ Job[c].op \in Confirming => Job[c].on \in Deposits
        /\ Job[c].op \in Deciding => Job[c].on \in Payouts

VARIABLES
    balance,        \* User.walletBalance
    rows,           \* SUCCESS Transaction rows other than deposits: credits - debits
    status,         \* Transaction.status of each deposit
    attempts,       \* at Razorpay: the payments made on its order
    payout,         \* PayoutRequest.status
    tips,           \* the requests with a Tip row
    cache,          \* the keys Redis has a response for
    redis,          \* "up" or "down"
    call,           \* each call: where it is, the balance it read, whether its
                    \* response will be stored, and the outcome it acts on
    late,           \* the calls that moved money on a row already settled
    behind,         \* the calls that began when their row was already settled
    raced,          \* the calls that debited a balance lower than the one they read,
                    \* or, reading none, than the debit
    risky           \* the keys with a crash, an outage, two calls at once or their
                    \* 24 hours over

vars == <<balance, rows, status, attempts, payout, tips, cache, redis, call,
          late, behind, raced, risky>>
tables == <<balance, rows, status, payout, tips>>
middleware == <<cache, redis, behind, risky>>

CallStates ==
    [pc : {"idle", "begin", "asked", "checked", "read", "paid", "answered", "done", "cut"},
     saw : Int, stored : BOOLEAN, outcome : Outcomes]

TypeOK ==
    /\ balance \in [Users -> Int] /\ rows \in [Users -> Int]
    /\ status \in [Deposits -> DepositStatuses] /\ payout \in [Payouts -> PayoutStatuses]
    /\ attempts \in [Deposits -> SUBSET Outcomes]
    /\ tips \subseteq {Job[c].on : c \in Of({"tip"})}
    /\ cache \subseteq Keys /\ risky \subseteq Keys /\ redis \in {"up", "down"}
    /\ call \in [Calls -> CallStates]
    /\ late \subseteq Calls /\ behind \subseteq Calls /\ raced \subseteq Calls

Init ==
    /\ balance = Opening /\ rows = [u \in Users |-> 0]
    /\ status = [d \in Deposits |-> "none"]
    /\ attempts = [d \in Deposits |-> {}]
    /\ payout = [p \in Payouts |-> "none"]
    /\ tips = {} /\ cache = {} /\ redis = "up"
    /\ call = [c \in Calls |-> [pc |-> "idle", saw |-> 0, stored |-> FALSE,
                  outcome |-> IF Job[c].op = "failed" THEN "failed" ELSE "captured"]]
    /\ late = {} /\ behind = {} /\ raced = {} /\ risky = {}

At(c, where, ops) == call[c].pc = where /\ Job[c].op \in ops
To(c, where) == call' = [call EXCEPT ![c].pc = where]

\* The handler answers; with a key, res.json is wrapped and stores the answer.
Answered(c) == IF call[c].stored THEN "answered" ELSE "done"
Answer(c) == To(c, Answered(c))

\* The row a call is about has reached its final state.
Settled(c) ==
    CASE Job[c].op \in Confirming ->
             status[Job[c].on] \in {"SUCCESS", "FAILED"}
      [] Job[c].op \in Deciding -> payout[Job[c].on] \in {"APPROVED", "REJECTED"}
      [] Job[c].op = "tip" -> Job[c].on \in tips
      [] OTHER -> FALSE

Debit(u, n) == balance' = [balance EXCEPT ![u] = @ - n] /\ rows' = [rows EXCEPT ![u] = @ - n]
\* What a call debits, and whose wallet: a decision the payout's.
Debited(c) == IF Job[c].op = "approve" THEN Job[Job[c].on].amount ELSE Job[c].amount
Debtor(c) == IF Job[c].op = "approve" THEN Job[Job[c].on].user ELSE Job[c].user

MarkRaced(c) == raced' = IF balance[Debtor(c)] < call[c].saw THEN raced \cup {c} ELSE raced
MarkLate(c, isLate) == late' = IF isLate THEN late \cup {c} ELSE late

-----------------------------------------------------------------------------
(* middlewares/idempotency.ts                                              *)

\* What has to be true outside before a call can be made at all: a signature of
\* verify-payment or an event of the webhook needs the payment.
MayBeCalled(c) ==
    /\ Job[c].op = "verify" => "captured" \in attempts[Job[c].on]
    /\ Job[c].op \in {"captured", "failed"} => Job[c].op \in attempts[Job[c].on]
    /\ Job[c].op = "reconcile" => status[Job[c].on] # "none"
    /\ Job[c].op \in Deciding => payout[Job[c].on] # "none"
    /\ \E T \in Together : c \in T /\ \A d \in Calls \ T : call[d].pc = "idle"

Running(k) == {c \in Calls : Job[c].key = k /\ call[c].pc \notin {"idle", "done", "cut"}}

\* Slip: the stored response is not looked up.
ReplayedNever(c) == FALSE

\* The stored response answers, and the handler does not run.
Replayed(c) == redis = "up" /\ Job[c].key \in cache

\* Only a call with the header, and with Redis there, has its answer stored.
WillStore(c) == Job[c].key # NoKey /\ redis = "up"

Enter(c) ==
    LET k == Job[c].key
    IN  /\ call[c].pc = "idle" /\ MayBeCalled(c)
        /\ behind' = IF Settled(c) THEN behind \cup {c} ELSE behind
        /\ IF Replayed(c)
           THEN To(c, "done") /\ UNCHANGED risky
           ELSE /\ call' = [call EXCEPT ![c].pc = "begin", ![c].stored = WillStore(c)]
                /\ risky' = IF k # NoKey /\ (redis = "down" \/ Running(k) # {})
                            THEN risky \cup {k} ELSE risky
        /\ UNCHANGED <<tables, attempts, cache, redis, late, raced>>

\* redis.set is not awaited: the answer is out, its copy stored later, or never.
Store(c) ==
    /\ call[c].pc = "answered"
    /\ To(c, "done")
    /\ \/ redis = "up" /\ cache' = cache \cup {Job[c].key} /\ UNCHANGED risky
       \/ redis = "down" /\ risky' = risky \cup {Job[c].key} /\ UNCHANGED cache
    /\ UNCHANGED <<tables, attempts, redis, late, behind, raced>>

\* IDEMPOTENCY_TTL_SECONDS: a day later the answer is gone.
Expire(k) ==
    /\ redis = "up" /\ k \in cache
    /\ cache' = cache \ {k} /\ risky' = risky \cup {k}
    /\ UNCHANGED <<tables, attempts, redis, call, late, behind, raced>>

RedisFails ==
    /\ redis = "up" /\ redis' = "down"
    /\ UNCHANGED <<tables, attempts, cache, call, late, behind, raced, risky>>

\* The process dies, or a call of the handler throws: a 500 is never stored.
Cut(c) ==
    /\ call[c].pc \notin {"idle", "done", "cut"}
    /\ To(c, "cut")
    /\ risky' = IF Job[c].key = NoKey THEN risky ELSE risky \cup {Job[c].key}
    /\ UNCHANGED <<tables, attempts, cache, redis, late, behind, raced>>

-----------------------------------------------------------------------------
(* Deposits.                                                               *)

\* createOrder: the Razorpay order, then its PENDING row; an order without its
\* row is unknown to everybody.
CreateOrder(c) ==
    /\ At(c, "begin", {"order"})
    /\ status' = [status EXCEPT ![c] = "PENDING"] /\ Answer(c)
    /\ UNCHANGED <<balance, rows, payout, tips, attempts, late, raced, middleware>>

\* Razorpay: attempts on an order fail until one is captured.
Pay(d, outcome) ==
    /\ status[d] # "none" /\ outcome \notin attempts[d] /\ "captured" \notin attempts[d]
    /\ attempts' = [attempts EXCEPT ![d] = @ \cup {outcome}]
    /\ UNCHANGED <<tables, call, late, raced, middleware>>

\* Slip: the deposit is found whatever its status.
VerifyReadAnyStatus(c) ==
    /\ At(c, "begin", {"verify"}) /\ To(c, "read")
    /\ UNCHANGED <<tables, attempts, late, raced, middleware>>

\* verifyPayment looks for the deposit among the PENDING ones, or answers 404.
VerifyRead(c) ==
    /\ At(c, "begin", {"verify"})
    /\ IF status[Job[c].on] = "PENDING" THEN To(c, "read") ELSE Answer(c)
    /\ UNCHANGED <<tables, attempts, late, raced, middleware>>

Deposited(c) == balance' = [balance EXCEPT ![Job[Job[c].on].user] = @ + Job[Job[c].on].amount]

\* It writes SUCCESS and increments the balance, whatever the row has become.
VerifyWrite(c) ==
    /\ At(c, "read", {"verify"})
    /\ status' = [status EXCEPT ![Job[c].on] = "SUCCESS"] /\ Deposited(c)
    /\ MarkLate(c, status[Job[c].on] = "SUCCESS")
    /\ Answer(c)
    /\ UNCHANGED <<rows, payout, tips, attempts, raced, middleware>>

\* reconcileStalePendingTransactions takes the PENDING rows (older than half an
\* hour: any row may be) and asks Razorpay; a captured payment counts for more
\* than a failed one, and without either the row stays.
AskRazorpay(c) ==
    /\ At(c, "begin", {"reconcile"})
    /\ IF status[Job[c].on] = "PENDING" THEN To(c, "asked") ELSE Answer(c)
    /\ UNCHANGED <<tables, attempts, late, raced, middleware>>

RazorpayAnswers(c) ==
    LET made == attempts[Job[c].on]
    IN  /\ At(c, "asked", {"reconcile"})
        /\ IF made = {} THEN Answer(c)
           ELSE call' = [call EXCEPT ![c].pc = "checked",
                             ![c].outcome = IF "captured" \in made THEN "captured" ELSE "failed"]
        /\ UNCHANGED <<tables, attempts, late, raced, middleware>>

\* reconcilePayment, for both webhooks and for the reconciliation.
ReconcileRead(c) ==
    /\ At(c, "begin", {"captured", "failed"}) \/ At(c, "checked", {"reconcile"})
    /\ IF status[Job[c].on] = "PENDING" THEN To(c, "read") ELSE Answer(c)
    /\ UNCHANGED <<tables, attempts, late, raced, middleware>>

\* Slip: the increment is outside of the transaction, and lost.
ReconcileWriteRowOnly(c) ==
    LET d == Job[c].on
    IN  /\ At(c, "read", {"captured", "failed", "reconcile"})
        /\ \/ status[d] # "PENDING" /\ UNCHANGED status
           \/ /\ status[d] = "PENDING"
              /\ status' = [status EXCEPT ![d] =
                               IF call[c].outcome = "captured" THEN "SUCCESS" ELSE "FAILED"]
        /\ MarkLate(c, status[d] # "PENDING" /\ call[c].outcome = "captured")
        /\ Answer(c)
        /\ UNCHANGED <<balance, rows, payout, tips, attempts, raced, middleware>>

\* The row is updated if it is still PENDING; the balance is incremented anyway.
ReconcileWrite(c) ==
    LET d == Job[c].on
    IN  /\ At(c, "read", {"captured", "failed", "reconcile"})
        /\ \/ status[d] # "PENDING" /\ UNCHANGED status
           \/ /\ status[d] = "PENDING"
              /\ status' = [status EXCEPT ![d] =
                               IF call[c].outcome = "captured" THEN "SUCCESS" ELSE "FAILED"]
        /\ \/ call[c].outcome = "captured" /\ Deposited(c)
           \/ call[c].outcome = "failed" /\ UNCHANGED balance
        /\ MarkLate(c, status[d] # "PENDING" /\ call[c].outcome = "captured")
        /\ Answer(c)
        /\ UNCHANGED <<rows, payout, tips, attempts, raced, middleware>>

-----------------------------------------------------------------------------
(* Withdrawals and payouts.                                                *)

\* Slip: the balance is not compared with the amount.
ReadBalanceUnchecked(c) ==
    /\ \/ At(c, "begin", {"withdraw", "hold"})
       \/ At(c, "checked", {"tip"})
    /\ call' = [call EXCEPT ![c].pc = "read", ![c].saw = balance[Job[c].user]]
    /\ UNCHANGED <<tables, attempts, late, raced, middleware>>

\* withdraw, the INR branch of a tip and the creation of an INR request read
\* the balance and compare it with the amount.
ReadBalance(c) ==
    /\ \/ At(c, "begin", {"withdraw", "hold"})
       \/ At(c, "checked", {"tip"})
    /\ IF balance[Job[c].user] < Job[c].amount THEN Answer(c)
       ELSE call' = [call EXCEPT ![c].pc = "read", ![c].saw = balance[Job[c].user]]
    /\ UNCHANGED <<tables, attempts, late, raced, middleware>>

\* withdraw: one pending payout of a user at a time, by the rows it can see.
CheckPayouts(c) ==
    /\ At(c, "read", {"withdraw"})
    /\ IF \E p \in Payouts : Job[p].user = Job[c].user /\ payout[p] = "PENDING"
       THEN Answer(c) ELSE To(c, "checked")
    /\ UNCHANGED <<tables, attempts, late, raced, middleware>>

CreatePayout(c) ==
    /\ At(c, "checked", {"withdraw"})
    /\ payout' = [payout EXCEPT ![c] = "PENDING"] /\ To(c, "asked")
    /\ UNCHANGED <<balance, rows, status, tips, attempts, late, raced, middleware>>

\* The payout p is approved by call c, as its row stands or not.
PayOut(c, p) ==
    /\ payout' = [payout EXCEPT ![p] = "APPROVED"]
    /\ Debit(Job[p].user, Job[p].amount)
    /\ MarkLate(c, payout[p] # "PENDING") /\ MarkRaced(c)
    /\ Answer(c)

\* With the Auto-Payout toggle the payout is approved at once, by the balance
\* read at the start; without it the queue keeps it.
AutoPayout(c) ==
    /\ At(c, "asked", {"withdraw"})
    /\ \/ PayOut(c, c)
       \/ Answer(c) /\ UNCHANGED <<payout, balance, rows, late, raced>>
    /\ UNCHANGED <<status, tips, attempts, middleware>>

\* processPayout reads the payout with its user.
ReadPayout(c) ==
    LET p == Job[c].on
    IN  /\ At(c, "begin", Deciding)
        /\ IF payout[p] = "PENDING" /\ (Job[c].op = "approve" => balance[Job[p].user] >= Job[p].amount)
           THEN call' = [call EXCEPT ![c].pc = "read", ![c].saw = balance[Job[p].user]]
           ELSE Answer(c)
        /\ UNCHANGED <<tables, attempts, late, raced, middleware>>

\* And writes the decision by the id alone.
ApprovePayout(c) ==
    /\ At(c, "read", {"approve"})
    /\ PayOut(c, Job[c].on)
    /\ UNCHANGED <<status, tips, attempts, middleware>>

RejectPayout(c) ==
    /\ At(c, "read", {"reject"})
    /\ payout' = [payout EXCEPT ![Job[c].on] = "REJECTED"] /\ Answer(c)
    /\ UNCHANGED <<balance, rows, status, tips, attempts, late, raced, middleware>>

-----------------------------------------------------------------------------
(* Spending elsewhere.                                                     *)

CheckTip(c) ==
    /\ At(c, "begin", {"tip"})
    /\ IF Job[c].on \in tips THEN Answer(c) ELSE To(c, "checked")
    /\ UNCHANGED <<tables, attempts, late, raced, middleware>>

\* The requester's debit; the creator's credit is another wallet's.
PayTip(c) ==
    /\ At(c, "read", {"tip"})
    /\ Debit(Job[c].user, Job[c].amount)
    /\ MarkRaced(c) /\ MarkLate(c, Job[c].on \in tips)
    /\ To(c, "paid")
    /\ UNCHANGED <<status, payout, tips, attempts, middleware>>

\* The Tip row is unique: the second of two tips has paid, and throws here.
WriteTip(c) ==
    /\ At(c, "paid", {"tip"})
    /\ IF Job[c].on \in tips THEN To(c, "cut") ELSE Answer(c)
    /\ tips' = tips \cup {Job[c].on}
    /\ UNCHANGED <<balance, rows, status, payout, attempts, late, raced, middleware>>

\* escrowService.reserve of an INR request.
Hold(c) ==
    /\ At(c, "read", {"hold"})
    /\ Debit(Job[c].user, Job[c].amount) /\ MarkRaced(c)
    /\ Answer(c)
    /\ UNCHANGED <<status, payout, tips, attempts, late, middleware>>

\* What comes back to a wallet: the release or refund of an escrow, the other
\* side of a tip, a dispute resolved in its user's favour.
Award(c) ==
    /\ At(c, "begin", {"award"})
    /\ balance' = [balance EXCEPT ![Job[c].user] = @ + Job[c].amount]
    /\ rows' = [rows EXCEPT ![Job[c].user] = @ + Job[c].amount]
    /\ Answer(c)
    /\ UNCHANGED <<status, payout, tips, attempts, late, raced, middleware>>

\* disputeService.adminResolve takes back what the other side had been paid,
\* from a balance that nobody looks at.
TakeBack(c) ==
    /\ At(c, "begin", {"takeBack"})
    /\ Debit(Job[c].user, Job[c].amount)
    /\ raced' = IF balance[Job[c].user] < Job[c].amount THEN raced \cup {c} ELSE raced
    /\ Answer(c)
    /\ UNCHANGED <<status, payout, tips, attempts, late, middleware>>

-----------------------------------------------------------------------------
Step(c) ==
    \/ CreateOrder(c) \/ VerifyRead(c) \/ VerifyWrite(c)
    \/ AskRazorpay(c) \/ RazorpayAnswers(c) \/ ReconcileRead(c) \/ ReconcileWrite(c)
    \/ ReadBalance(c) \/ CheckPayouts(c) \/ CreatePayout(c) \/ AutoPayout(c)
    \/ ReadPayout(c) \/ ApprovePayout(c) \/ RejectPayout(c)
    \/ CheckTip(c) \/ PayTip(c) \/ WriteTip(c) \/ Hold(c) \/ Award(c) \/ TakeBack(c)

Next ==
    \/ \E c \in Calls : Enter(c) \/ Step(c) \/ Store(c) \/ Cut(c)
    \/ \E d \in Deposits, outcome \in Outcomes : Pay(d, outcome)
    \/ \E k \in Keys : Expire(k)
    \/ RedisFails

Spec == Init /\ [][Next]_vars

-----------------------------------------------------------------------------
Confirmations(d) == {c \in Of({"verify", "captured", "reconcile"}) : Job[c].on = d}

\* How often the balance was incremented for a deposit, by its rows: once for a
\* SUCCESS row, and once more for every confirmation that came too late for it.
Increments(d) ==
    (IF status[d] = "SUCCESS" THEN 1 ELSE 0) + Cardinality(late \cap Confirmations(d))

Explained(u) ==
    balance[u] = Opening[u] + rows[u] +
        SumFunctionOnSet([d \in Deposits |-> Job[d].amount * Increments(d)],
                         {d \in Deposits : Job[d].user = u})

\* No deposit is settled but on Razorpay's word for a payment of its own order.
Confirmed(d) ==
    /\ status[d] = "SUCCESS" => "captured" \in attempts[d]
    /\ status[d] = "FAILED" => "failed" \in attempts[d]

\* Every rupee of a balance is explained by a Transaction row or by exactly the
\* deposit confirmations that lost a race, and no deposit is invented, whatever
\* verify, webhooks, reconciliation and cuts do at once (walletService,
\* adminService.processPayout).  One may be lost: when payment.failed has
\* settled the row before a later attempt on the order is captured, nothing
\* books that payment, unless a verify had read the row before.
BalanceIsBooked ==
    (\A u \in Users : Explained(u)) /\ \A d \in Deposits : Confirmed(d)

\* A wallet is overdrawn by no more than the debits it did not cover where they
\* landed: those that had checked a balance which others lowered meanwhile, and
\* what disputeService.adminResolve takes back unchecked.  A payout approved
\* twice, or a hold racing a withdrawal, costs itself only, and without a race
\* or a resolution nothing overdraws a wallet.
OverdraftIsRaced ==
    \A u \in Users :
        balance[u] + SumFunctionOnSet([c \in Calls |-> Debited(c)],
                                      {c \in raced : Debtor(c) = u}) >= 0

\* "Re-delivered events for an already-resolved transaction are safe no-ops"
\* (reconcilePayment), and so are a second verify, a second decision on a payout
\* and a second tip: a call that begins after the row is settled moves no money.
RedeliveryIsNoOp == late \cap behind = {}

\* A client that repeats a withdrawal under its key within the 24 hours that
\* the answer is kept gets one payout, as long as no two of its calls run at
\* once, none is cut, and Redis is there: the pending check alone does not see a
\* payout that was approved or rejected in between, and neither does a retry
\* after those hours.
OnePayoutAKey ==
    \A k \in Keys \ risky :
        Cardinality({p \in Payouts : Job[p].key = k /\ payout[p] # "none"}) <= 1

\* Neither repeats anything: RedeliveryIsNoOp and OnePayoutAKey.
RetryIsNoOp == RedeliveryIsNoOp /\ OnePayoutAKey

\* "Razorpay's automatic retries on non-2xx responses cannot double-credit a
\* wallet" (walletController.webhook).
DepositCreditedOnce == \A d \in Deposits : Increments(d) <= 1
=============================================================================

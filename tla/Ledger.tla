------------------------------- MODULE Ledger -------------------------------
(***************************************************************************)
(* The Credits and Connects ledger: the three Credit buckets and the       *)
(* Connects on the User row, the append-only LedgerEntry table, and every  *)
(* caller of ledgerService: signup, the daily grant, escrow holds, rewards *)
(* and refunds, tips, Admin adjustments.  A call is a handler that runs    *)
(* ledger operations one after the other; a step is the code between two   *)
(* awaits, so calls of several users and retries of one call interleave,   *)
(* and a process may die between any two steps.                            *)
(***************************************************************************)
EXTENDS Integers, Sequences, FiniteSetsExt

CONSTANTS
    Users,
    Calls,          \* handler invocations
    Program,        \* the ledger operations of each, in order
    Opening,        \* the balance columns each user starts with
    FirstDate,      \* lastDailyConnectGrantDate each user starts with
    NoDate,         \* a null date
    DailyBonus,     \* DAILY_CONNECT_BONUS
    DailyCap,       \* DAILY_CONNECT_BONUS_CAP
    MaxAttempts,    \* MAX_ATTEMPTS of debitCredits
    Together,       \* bound: the sets of calls that may start in one behaviour
    MaxDay          \* bound: the last calendar day

Buckets == {"bonus", "purchased", "earned"}
Columns == Buckets \cup {"connects"}
Currencies == {"CREDIT", "CONNECT"}
NoKey == <<>>

ASSUME BoundsAssumption == /\ DailyBonus \in Nat /\ DailyCap \in Nat
                           /\ MaxAttempts \in Nat \ {0} /\ MaxDay \in Nat
ASSUME TogetherAssumption == Together \subseteq SUBSET Calls
ASSUME OpeningAssumption == Opening \in [Users -> [Columns -> Nat]]
ASSUME DateAssumption == /\ NoDate \notin Nat /\ MaxDay >= 1
                         /\ FirstDate \in [Users -> {0, 1, NoDate}]    \* day 1 or earlier
ASSUME CallsAssumption == IsFiniteSet(Calls)

\* The service refuses an amount that is not positive before it does anything;
\* Connects are spent, and the bonus granted, without a key.
IsOperation(o) ==
    /\ o.op \in {"credit", "debit", "spend", "daily", "tipCheck", "tipRow"}
    /\ o.user \in Users
    /\ o.op \in {"credit", "debit", "spend"} => o.amount \in Nat \ {0}
    /\ o.op = "credit" => o.column \in Columns
    /\ o.op = "debit" => o.column = "bonus"
    /\ o.op \in {"spend", "daily"} => o.column = "connects" /\ o.key = NoKey
    /\ o.op \in {"tipCheck", "tipRow"} => o.key # NoKey

ASSUME ProgramAssumption ==
    \A c \in Calls :
        /\ Len(Program[c]) \in Nat \ {0} /\ DOMAIN Program[c] = 1 .. Len(Program[c])
        /\ \A i \in 1 .. Len(Program[c]) : IsOperation(Program[c][i])

VARIABLES
    balance,        \* User: bonusCredits, purchasedCredits, earnedCredits, creatorConnects
    lastGrant,      \* User.lastDailyConnectGrantDate
    booked,         \* LedgerEntry: SUM(credits) - SUM(debits) by user and currency
    entries,        \* LedgerEntry.idempotencyKey and amount of every entry that has a key
    tips,           \* the requests with a Tip row
    day,            \* the IST calendar date
    call,           \* each call: where it is in which operation, and its locals
    sweep,          \* ledgerReconciliationJob: "due", "summed", "done"
    sums,           \* the sums of the entries it has read
    report          \* the users and currencies it has reported

vars == <<balance, lastGrant, booked, entries, tips, day, call, sweep, sums, report>>
sweepVars == <<sweep, sums, report>>

keys == {e[1] : e \in entries}

-----------------------------------------------------------------------------
(* The operations, and the callers as sequences of them.                   *)

Credit(u, n, column, key) ==
    [op |-> "credit", user |-> u, amount |-> n, column |-> column, key |-> key]

Debit(u, n, key) ==
    [op |-> "debit", user |-> u, amount |-> n, column |-> "bonus", key |-> key]

Spend(u, n) ==
    [op |-> "spend", user |-> u, amount |-> n, column |-> "connects", key |-> NoKey]

GrantDaily(u) ==
    [op |-> "daily", user |-> u, amount |-> 0, column |-> "connects", key |-> NoKey]

TipRow(op, u, r) ==
    [op |-> op, user |-> u, amount |-> 0, column |-> "bonus", key |-> <<"tip", r>>]

Signup(u, credits, connects) ==
    << Credit(u, credits, "bonus", <<"signup_bonus_credits", u>>),
       Credit(u, connects, "connects", <<"signup_bonus_connects", u>>) >>

Hold(u, n) == << Debit(u, n, NoKey) >>
Reward(u, n) == << Credit(u, n, "earned", NoKey) >>
HoldRefund(u, n) == << Credit(u, n, "bonus", NoKey) >>
AcceptSpend(u, n) == << Spend(u, n) >>
GetWallet(u) == << GrantDaily(u) >>

AdjustWallet(u, n, column) ==
    IF n > 0 THEN << Credit(u, n, column, NoKey) >>
    ELSE IF column = "connects" THEN << Spend(u, -n) >> ELSE << Debit(u, -n, NoKey) >>

\* Slip: the creator is credited before the requester has paid.
TipCreditFirst(from, to, r, n) ==
    << TipRow("tipCheck", from, r),
       Credit(to, n, "earned", <<"tip_credit", r>>),
       Debit(from, n, <<"tip_debit", r>>),
       TipRow("tipRow", from, r) >>

\* tipService.tip of a CREDIT request: look for a tip, debit, credit, row.
Tip(from, to, r, n) ==
    << TipRow("tipCheck", from, r),
       Debit(from, n, <<"tip_debit", r>>),
       Credit(to, n, "earned", <<"tip_credit", r>>),
       TipRow("tipRow", from, r) >>

Op(c) == Program[c][call[c].at]
CurrencyOf(column) == IF column = "connects" THEN "CONNECT" ELSE "CREDIT"
Total(b) == b.bonus + b.purchased + b.earned

\* A call at the start of operation i, with nothing read; "columns", "date" and
\* "today" are what it reads, "tries" the lost races of the debit loop.
Fresh(where, i) ==
    [pc |-> where, at |-> i, columns |-> [x \in Columns |-> 0], date |-> NoDate,
     today |-> 0, tries |-> 0]

-----------------------------------------------------------------------------
CallStates ==
    [pc : {"idle", "next", "free", "dated", "read", "moved", "lost", "failed", "done"}, at : Nat,
     columns : [Columns -> Int], date : 0 .. MaxDay \cup {NoDate}, today : 0 .. MaxDay,
     tries : 0 .. MaxAttempts - 1]

TypeOK ==
    /\ balance \in [Users -> [Columns -> Int]]
    /\ lastGrant \in [Users -> 0 .. MaxDay \cup {NoDate}]
    /\ booked \in [Users -> [Currencies -> Int]]
    /\ \A e \in entries : e = <<e[1], e[2]>> /\ e[1] # NoKey /\ e[2] \in Nat
    /\ day \in 0 .. MaxDay
    /\ call \in [Calls -> CallStates]
    /\ \A c \in Calls : call[c].at \in DOMAIN Program[c]
    /\ sweep \in {"due", "summed", "done"}
    /\ sums \in [Users -> [Currencies -> Int]]
    /\ report \subseteq Users \X Currencies

Init ==
    /\ balance = Opening
    /\ lastGrant = FirstDate
    /\ booked = [u \in Users |-> [m \in Currencies |->
                    IF m = "CREDIT" THEN Total(Opening[u]) ELSE Opening[u].connects]]
    /\ entries = {}
    /\ tips = {}
    /\ day = 1
    /\ call = [c \in Calls |-> Fresh("idle", 1)]
    /\ sweep = "due" /\ sums = [u \in Users |-> [m \in Currencies |-> 0]] /\ report = {}

\* The call goes on inside its operation.
To(c, where) == call' = [call EXCEPT ![c].pc = where]

\* It throws, and nothing of it is left.
Fail(c) == call' = [call EXCEPT ![c] = Fresh("failed", 1)]

\* The operation is over: the next one, or the end of the call.
Advance(c) ==
    call' = [call EXCEPT ![c] = IF @.at < Len(Program[c]) THEN Fresh("next", @.at + 1)
                                ELSE Fresh("done", 1)]

Add(u, column, n) == balance' = [balance EXCEPT ![u][column] = @ + n]
BookEntry(u, currency, n) == booked' = [booked EXCEPT ![u][currency] = @ + n]
UseKey(k, n) == entries' = IF k = NoKey THEN entries ELSE entries \cup {<<k, n>>}

-----------------------------------------------------------------------------
Start(c) ==
    /\ call[c].pc = "idle"
    /\ \E T \in Together : c \in T /\ \A d \in Calls \ T : call[d].pc = "idle"
    /\ To(c, "next")
    /\ UNCHANGED <<balance, lastGrant, booked, entries, tips, day, sweepVars>>

\* An operation without a key is not looked up.
Ready(c) == call[c].pc = "free" \/ (call[c].pc = "next" /\ Op(c).key = NoKey)

\* idempotentReplay: an entry with this key answers for the operation, whatever
\* its amount was.
Replay(c) ==
    /\ call[c].pc = "next" /\ Op(c).op \in {"credit", "debit"} /\ Op(c).key # NoKey
    /\ IF Op(c).key \in keys THEN Advance(c) ELSE To(c, "free")
    /\ UNCHANGED <<balance, lastGrant, booked, entries, tips, day, sweepVars>>

\* Slip: the increment is not in one transaction with the entry.
ApplyCreditSplit(c) ==
    /\ Op(c).op = "credit" /\ Ready(c)
    /\ Add(Op(c).user, Op(c).column, Op(c).amount)
    /\ \/ /\ Op(c).key \in keys
          /\ Fail(c) /\ UNCHANGED <<booked, entries>>
       \/ /\ Op(c).key \notin keys
          /\ BookEntry(Op(c).user, CurrencyOf(Op(c).column), Op(c).amount)
          /\ UseKey(Op(c).key, Op(c).amount) /\ Advance(c)
    /\ UNCHANGED <<lastGrant, tips, day, sweepVars>>

\* creditCredits, creditConnects: increment and entry in one transaction, which
\* the unique key rolls back.
ApplyCredit(c) ==
    /\ Op(c).op = "credit" /\ Ready(c)
    /\ \/ /\ Op(c).key \in keys
          /\ Fail(c) /\ UNCHANGED <<balance, booked, entries>>
       \/ /\ Op(c).key \notin keys
          /\ Add(Op(c).user, Op(c).column, Op(c).amount)
          /\ BookEntry(Op(c).user, CurrencyOf(Op(c).column), Op(c).amount)
          /\ UseKey(Op(c).key, Op(c).amount) /\ Advance(c)
    /\ UNCHANGED <<lastGrant, tips, day, sweepVars>>

\* debitCredits reads the three buckets; too little in all of them is a 402.
ReadBuckets(c) ==
    /\ Op(c).op = "debit" /\ Ready(c)
    /\ \/ Total(balance[Op(c).user]) < Op(c).amount /\ Fail(c)
       \/ /\ Total(balance[Op(c).user]) >= Op(c).amount
          /\ call' = [call EXCEPT ![c].pc = "read", ![c].columns = balance[Op(c).user]]
    /\ UNCHANGED <<balance, lastGrant, booked, entries, tips, day, sweepVars>>

Least(a, b) == IF a < b THEN a ELSE b

\* What each bucket gives: bonus first, then purchased, earned last.
Parts(n, b) ==
    LET fromBonus == Least(n, b.bonus)
        fromPurchased == Least(n - fromBonus, b.purchased)
        fromEarned == Least(n - fromBonus - fromPurchased, b.earned)
    IN  [x \in Columns |-> CASE x = "bonus" -> fromBonus
                             [] x = "purchased" -> fromPurchased
                             [] x = "earned" -> fromEarned
                             [] OTHER -> 0]

\* Slip: the update is guarded by the sum, not by each bucket.
CoveredInSum(b, parts) == Total(b) >= Total(parts)

Covered(b, parts) == \A x \in Buckets : b[x] >= parts[x]

\* The guarded update; a lost race reads again, MAX_ATTEMPTS times in all.
TakeParts(c) ==
    LET u == Op(c).user
        parts == Parts(Op(c).amount, call[c].columns)
    IN  /\ call[c].pc = "read" /\ Op(c).op = "debit"
        /\ \/ /\ Covered(balance[u], parts)
              /\ balance' = [balance EXCEPT ![u] = [x \in Columns |-> @[x] - parts[x]]]
              /\ To(c, "moved")
           \/ /\ ~Covered(balance[u], parts)
              /\ IF call[c].tries + 1 = MaxAttempts THEN Fail(c)
                 ELSE call' = [call EXCEPT ![c].pc = "free", ![c].tries = @ + 1]
              /\ UNCHANGED balance
        /\ UNCHANGED <<lastGrant, booked, entries, tips, day, sweepVars>>

\* debitConnects: one guarded update.
SpendConnects(c) ==
    /\ Op(c).op = "spend" /\ Ready(c)
    /\ \/ /\ balance[Op(c).user].connects >= Op(c).amount
          /\ Add(Op(c).user, "connects", -Op(c).amount) /\ To(c, "moved")
       \/ /\ balance[Op(c).user].connects < Op(c).amount
          /\ Fail(c) /\ UNCHANGED balance
    /\ UNCHANGED <<lastGrant, booked, entries, tips, day, sweepVars>>

\* The entry of a debit is a write of its own: a second debit under the same
\* key is refused here, after it has taken the money.
Book(c) ==
    /\ call[c].pc = "moved" /\ Op(c).op \in {"debit", "spend"}
    /\ \/ /\ Op(c).key \in keys
          /\ To(c, "lost") /\ UNCHANGED <<booked, entries>>
       \/ /\ Op(c).key \notin keys
          /\ BookEntry(Op(c).user, CurrencyOf(Op(c).column), -Op(c).amount)
          /\ UseKey(Op(c).key, Op(c).amount) /\ Advance(c)
    /\ UNCHANGED <<balance, lastGrant, tips, day, sweepVars>>

-----------------------------------------------------------------------------
(* grantDailyConnectBonusIfDue.                                            *)

\* todayIst is taken from the clock before the row is asked for.
FixToday(c) ==
    /\ call[c].pc = "next" /\ Op(c).op = "daily"
    /\ call' = [call EXCEPT ![c].pc = "dated", ![c].today = day]
    /\ UNCHANGED <<balance, lastGrant, booked, entries, tips, day, sweepVars>>

ReadGrantDate(c) ==
    LET u == Op(c).user
    IN  /\ call[c].pc = "dated"
        /\ \/ lastGrant[u] = call[c].today /\ Advance(c)
           \/ /\ lastGrant[u] # call[c].today
              /\ call' = [call EXCEPT ![c].pc = "read", ![c].columns = balance[u],
                                       ![c].date = lastGrant[u]]
        /\ UNCHANGED <<balance, lastGrant, booked, entries, tips, day, sweepVars>>

GrantAmount(c) == Least(DailyBonus, DailyCap - call[c].columns.connects)

\* Slip: the update names the user only.
DateUnchanged(c, date) == TRUE

\* where: {lastDailyConnectGrantDate: date ?? undefined}: a null date asks nothing.
DateAsRead(c, date) == call[c].date = NoDate \/ date = call[c].date

StampOrGrant(c) ==
    LET u == Op(c).user
    IN  /\ call[c].pc = "read" /\ Op(c).op = "daily"
        /\ \/ /\ ~DateAsRead(c, lastGrant[u])
              /\ Advance(c) /\ UNCHANGED <<balance, lastGrant>>
           \/ /\ DateAsRead(c, lastGrant[u])
              /\ lastGrant' = [lastGrant EXCEPT ![u] = call[c].today]
              /\ \/ /\ call[c].columns.connects >= DailyCap
                    /\ Advance(c) /\ UNCHANGED balance
                 \/ /\ call[c].columns.connects < DailyCap
                    /\ Add(u, "connects", GrantAmount(c)) /\ To(c, "moved")
        /\ UNCHANGED <<booked, entries, tips, day, sweepVars>>

BookGrant(c) ==
    /\ call[c].pc = "moved" /\ Op(c).op = "daily"
    /\ BookEntry(Op(c).user, "CONNECT", GrantAmount(c))
    /\ Advance(c)
    /\ UNCHANGED <<balance, lastGrant, entries, tips, day, sweepVars>>

-----------------------------------------------------------------------------
(* The Tip row: looked for at the start, unique on the request.            *)

CheckTip(c) ==
    /\ call[c].pc = "next" /\ Op(c).op = "tipCheck"
    /\ IF Op(c).key \in tips THEN Fail(c) ELSE Advance(c)
    /\ UNCHANGED <<balance, lastGrant, booked, entries, tips, day, sweepVars>>

WriteTip(c) ==
    /\ call[c].pc = "next" /\ Op(c).op = "tipRow"
    /\ \/ Op(c).key \in tips /\ Fail(c) /\ UNCHANGED tips
       \/ Op(c).key \notin tips /\ tips' = tips \cup {Op(c).key} /\ Advance(c)
    /\ UNCHANGED <<balance, lastGrant, booked, entries, day, sweepVars>>

\* The process dies, or the database refuses the next write.
Cut(c) ==
    /\ call[c].pc \in {"next", "free", "dated", "read", "moved"}
    /\ IF call[c].pc = "moved" THEN To(c, "lost") ELSE Fail(c)
    /\ UNCHANGED <<balance, lastGrant, booked, entries, tips, day, sweepVars>>

Midnight ==
    /\ day < MaxDay
    /\ day' = day + 1
    /\ UNCHANGED <<balance, lastGrant, booked, entries, tips, call, sweepVars>>

-----------------------------------------------------------------------------
(* ledgerReconciliationJob.runSweep: the sums first, then the users.  Every *)
(* user has entries, from signup on.                                        *)

Held(u, currency) ==
    IF currency = "CREDIT" THEN Total(balance[u]) ELSE balance[u].connects

SumEntries ==
    /\ sweep = "due"
    /\ sweep' = "summed" /\ sums' = booked
    /\ UNCHANGED <<balance, lastGrant, booked, entries, tips, day, call, report>>

\* Slip: purchased Credits are left out of the balance.
VariancesUnpurchased(derived) ==
    {v \in Users \X Currencies :
        derived[v[1]][v[2]] # IF v[2] = "CREDIT" THEN balance[v[1]].earned + balance[v[1]].bonus
                              ELSE balance[v[1]].connects}

Variances(derived) == {v \in Users \X Currencies : derived[v[1]][v[2]] # Held(v[1], v[2])}

CompareBalances ==
    /\ sweep = "summed"
    /\ sweep' = "done" /\ report' = Variances(sums) /\ sums' = [u \in Users |-> [m \in Currencies |-> 0]]
    /\ UNCHANGED <<balance, lastGrant, booked, entries, tips, day, call>>

Step(c) ==
    \/ Replay(c) \/ ApplyCredit(c)
    \/ ReadBuckets(c) \/ TakeParts(c) \/ SpendConnects(c) \/ Book(c)
    \/ FixToday(c) \/ ReadGrantDate(c) \/ StampOrGrant(c) \/ BookGrant(c)
    \/ CheckTip(c) \/ WriteTip(c)

Next ==
    \/ \E c \in Calls : Start(c) \/ Step(c) \/ Cut(c)
    \/ Midnight \/ SumEntries \/ CompareBalances

Spec == Init /\ [][Next]_vars

-----------------------------------------------------------------------------
\* What an update has moved before its entry exists.
Moved(c) == IF Op(c).op = "daily" THEN GrantAmount(c) ELSE -Op(c).amount

\* The calls whose update has no entry: yet, or ever.
Unbooked(u, currency) ==
    {c \in Calls : /\ call[c].pc \in {"moved", "lost"}
                   /\ Op(c).user = u /\ CurrencyOf(Op(c).column) = currency}

Due(u, currency) == SumFunctionOnSet([c \in Calls |-> Moved(c)], Unbooked(u, currency))

\* "makes a negative balance structurally impossible" (ledgerService): no
\* interleaving of holds, tips, acceptances and adjustments on one user, each
\* computed from a balance that may have changed, drives a bucket below zero.
NeverNegative == \A u \in Users, x \in Columns : balance[u][x] >= 0

\* The reconciliation's equation: what a user holds is the sum of the entries,
\* up to exactly the updates whose entry is still due or was cut off or refused
\* by its key; replays, retries and lost races leave no difference
\* (debitCredits, creditCredits, grantDailyConnectBonusIfDue).
BalanceIsBooked ==
    \A u \in Users, m \in Currencies :
        Held(u, m) = booked[u][m] + Due(u, m)

\* The sweep reads the sums and the balances at different times.  If no entry
\* was written in between, it reports a user's Credits exactly when a debit of
\* theirs has no entry, and Connects only when an update of theirs has none
\* (there a lost grant and a lost spend may cancel out, and stay hidden).
ReportIsExact ==
    [][ sweep = "summed" /\ sweep' = "done" =>
          \A u \in Users, m \in Currencies :
              booked[u][m] = sums[u][m] =>
                  /\ <<u, m>> \in report' => Unbooked(u, m) # {}
                  /\ m = "CREDIT" /\ Unbooked(u, m) # {} => <<u, m>> \in report' ]_vars

\* Some tip of this request that has been started is of n Credits.
Offered(request, n) ==
    \E c \in Calls :
        /\ call[c].pc # "idle"
        /\ \E i \in DOMAIN Program[c] :
              /\ Program[c][i].op = "debit" /\ Program[c][i].key = <<"tip_debit", request>>
              /\ Program[c][i].amount = n

\* Through double taps, retries and cuts, a Tip row stands for a tip that
\* arrived, and a creator is credited only after the requester was debited:
\* the same amount, as long as every tip of the request is of one amount
\* (tipService.tip).  No more than that: the replay of the debit does not
\* compare amounts, so a tip cut after its debit and tried again with another
\* amount debits the one and credits the other.
TipIsBacked ==
    /\ \A e \in entries : e[1][1] = "tip_credit" =>
          \E d \in entries :
              /\ d[1] = <<"tip_debit", e[1][2]>>
              /\ Offered(e[1][2], d[2]) /\ Offered(e[1][2], e[2])
    /\ \A k \in tips : k[1] = "tip" => <<"tip_credit", k[2]>> \in keys

\* The call took its date before a midnight and read the row after another
\* call had granted for a day past it.
HeldOver(c) == call[c].today < day /\ call[c].date > call[c].today

\* With several GET /wallet at once and around midnight, every grant to a user
\* with a date on record moves that date on, so he has the bonus once for each
\* date (grantDailyConnectBonusIfDue); the one exception is a call held over
\* midnight between the clock and the row, which grants for the day before and
\* moves the date back.  Without a date on record the guard is void and two
\* calls of the first day may both grant.
OneGrantADay ==
    [][ \A c \in Calls :
          Op(c).op = "daily" /\ call[c].pc = "read" /\ call'[c].pc = "moved"
              /\ FirstDate[Op(c).user] # NoDate /\ ~HeldOver(c) =>
                  lastGrant'[Op(c).user] > lastGrant[Op(c).user] ]_vars
=============================================================================

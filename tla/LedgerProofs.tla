---------------------------- MODULE LedgerProofs ----------------------------
(***************************************************************************)
(* What Ledger guarantees for every set of users, every finite set of      *)
(* calls whatever operations they run, every opening balance and every     *)
(* bound on attempts and days.                                             *)
(***************************************************************************)
EXTENDS Ledger, SumLemmas, TLAPS

-----------------------------------------------------------------------------
(* The inductive invariant.                                                *)

\* What a call's position says of the operation it is in.
PhaseOK(c) ==
    /\ call[c].pc = "free" => Op(c).op \in {"credit", "debit"}
    /\ call[c].pc = "dated" => Op(c).op = "daily"
    /\ call[c].pc = "read" => Op(c).op \in {"debit", "daily"}
    /\ call[c].pc \in {"moved", "lost"} => Op(c).op \in {"debit", "spend", "daily"}

Phases == \A c \in Calls : PhaseOK(c)

\* A debit goes on only with buckets that cover it, a grant below the cap.
ReadOK(c) ==
    /\ call[c].pc = "read" /\ Op(c).op = "debit" =>
           /\ \A x \in Buckets : call[c].columns[x] >= 0
           /\ Total(call[c].columns) >= Op(c).amount
    /\ call[c].pc \in {"moved", "lost"} /\ Op(c).op = "daily" =>
           call[c].columns.connects < DailyCap

\* The date a grant has read is not the one it will write, and null only where
\* it was at the start; neither is ahead of the calendar.
DateOK(c) ==
    /\ call[c].pc = "dated" => call[c].today <= day
    /\ call[c].pc = "read" /\ Op(c).op = "daily" =>
           /\ call[c].today <= day
           /\ call[c].date # NoDate => call[c].date <= day /\ call[c].date # call[c].today
           /\ FirstDate[Op(c).user] # NoDate => call[c].date # NoDate

\* An operation with a key that the call has left behind has its entry.
EarlierBooked(c) ==
    \A i \in 1 .. Len(Program[c]) :
        i < call[c].at /\ Program[c][i].op \in {"credit", "debit"} /\ Program[c][i].key # NoKey =>
            Program[c][i].key \in keys

CallOK(c) == PhaseOK(c) /\ ReadOK(c) /\ DateOK(c) /\ EarlierBooked(c)

\* Dates are not ahead of the calendar, and one on record stays on record.
GrantDatesOK ==
    \A u \in Users :
        /\ lastGrant[u] # NoDate => lastGrant[u] <= day
        /\ FirstDate[u] # NoDate => lastGrant[u] # NoDate

\* Only a tip uses the keys of tips, in the order of tipService.tip: the debit
\* right before the credit of as much, the credit right before the row.
TipsInOrder(program) ==
    \A i \in DOMAIN program :
        LET o == program[i]
            before(op, name) == /\ i > 1 /\ program[i - 1].op = op
                                /\ program[i - 1].key = <<name, o.key[2]>>
        IN  /\ o.op \in {"credit", "debit"} /\ o.key # NoKey =>
                   /\ o.key[1] = "tip_debit" => o.op = "debit" /\ o.key = <<"tip_debit", o.key[2]>>
                   /\ o.key[1] = "tip_credit" =>
                          before("debit", "tip_debit") /\ program[i - 1].amount = o.amount
            /\ o.op = "tipRow" => o.key[1] = "tip" /\ before("credit", "tip_credit")

\* What was debited for a tip is what a tip of the request offered.
DebitsOffered ==
    \A e \in entries : e[1][1] = "tip_debit" => Offered(e[1][2], e[2])

TipsOK == (\A c \in Calls : TipsInOrder(Program[c])) => TipIsBacked /\ DebitsOffered

IInv ==
    /\ TypeOK
    /\ \A c \in Calls : CallOK(c)
    /\ GrantDatesOK
    /\ NeverNegative
    /\ TipsOK
    /\ BalanceIsBooked

-----------------------------------------------------------------------------
(* Operations and amounts.                                                 *)

LEMMA OpType ==
    ASSUME TypeOK, NEW c \in Calls
    PROVE  /\ call[c].at \in 1 .. Len(Program[c])
           /\ Op(c) = Program[c][call[c].at]
           /\ IsOperation(Op(c))
BY ProgramAssumption DEF TypeOK, Op

\* The parts taken from buckets that cover an amount add up to it, and none is
\* negative (debitCredits: bonus, then purchased, then earned).
LEMMA PartsAddUp ==
    ASSUME NEW n \in Nat, NEW b \in [Columns -> Int],
           \A x \in Buckets : b[x] >= 0, Total(b) >= n
    PROVE  /\ Parts(n, b) \in [Columns -> Int]
           /\ \A x \in Columns : Parts(n, b)[x] >= 0
           /\ Parts(n, b)["connects"] = 0
           /\ Total(Parts(n, b)) = n
BY DEF Parts, Least, Total, Columns, Buckets

\* A grant below the cap is not negative.
LEMMA GrantBounds ==
    ASSUME TypeOK, NEW c \in Calls, call[c].columns.connects < DailyCap
    PROVE  GrantAmount(c) \in Nat
<1>1. call[c].columns.connects \in Int
  BY DEF TypeOK, Columns, CallStates
<1>2. QED
  BY <1>1, BoundsAssumption DEF GrantAmount, Least

-----------------------------------------------------------------------------
(* What is due.                                                            *)

AllMovedInt == \A c \in Calls : call[c].pc \in {"moved", "lost"} => Moved(c) \in Int

LEMMA MovedInt == TypeOK /\ Phases => AllMovedInt
<1>. SUFFICES ASSUME TypeOK, NEW c \in Calls, PhaseOK(c), call[c].pc \in {"moved", "lost"}
              PROVE  Moved(c) \in Int
  BY DEF AllMovedInt, Phases
<1>1. CASE Op(c).op = "daily"
  <2>1. call[c].columns.connects \in Int
    BY DEF TypeOK, Columns, CallStates
  <2>2. QED
    BY <1>1, <2>1, BoundsAssumption DEF Moved, GrantAmount, Least
<1>2. CASE Op(c).op \in {"debit", "spend"}
  BY <1>2, OpType DEF Moved, IsOperation
<1>3. QED
  BY <1>1, <1>2 DEF PhaseOK

\* A call's share of what is due to a user.
Share(c, u, m) == IF c \in Unbooked(u, m) THEN Moved(c) ELSE 0

\* A step of one call changes what is due by that call's share only.
LEMMA DueStep ==
    ASSUME TypeOK, TypeOK', Phases, Phases',
           NEW c \in Calls, \A d \in Calls : d # c => call'[d] = call[d],
           NEW u \in Users, NEW m \in Currencies
    PROVE  /\ Share(c, u, m) \in Int /\ Share(c, u, m)' \in Int /\ Due(u, m) \in Int
           /\ Due(u, m)' = Due(u, m) + (Share(c, u, m)' - Share(c, u, m))
<1>. DEFINE F == [d \in Calls |-> Moved(d)]
            G == [d \in Calls |-> Moved(d)']
            S == Unbooked(u, m)
            T == Unbooked(u, m)'
            R == S \ {c}
<1>1. \A d \in Calls : d # c => Op(d)' = Op(d) /\ Moved(d)' = Moved(d)
  BY DEF Op, Moved, GrantAmount
<1>2. R = S \ {c} /\ R = T \ {c}
  BY <1>1 DEF Unbooked
<1>3. S \in SUBSET Calls /\ T \in SUBSET Calls /\ R \in SUBSET Calls
  BY DEF Unbooked
<1>4. IsFiniteSet(S) /\ IsFiniteSet(T) /\ IsFiniteSet(R)
  BY <1>3, CallsAssumption, FS_Subset
<1>5. (\A d \in S : Moved(d) \in Int) /\ (\A d \in T : Moved(d)' \in Int)
  <2>1. AllMovedInt
    BY MovedInt
  <2>2. AllMovedInt'
    BY MovedInt, PTL
  <2>3. QED
    BY <2>1, <2>2 DEF AllMovedInt, Unbooked
<1>6. (\A d \in S : F[d] \in Int) /\ (\A d \in T : G[d] \in Int) /\ \A d \in R : F[d] = G[d]
  BY <1>1, <1>3, <1>5
<1>7. Due(u, m) = SumFunctionOnSet(F, S) /\ Due(u, m)' = SumFunctionOnSet(G, T)
  BY DEF Due
<1>. HIDE DEF F, G, S, T, R
<1>8. SumFunctionOnSet(F, R) = SumFunctionOnSet(G, R) /\ SumFunctionOnSet(F, R) \in Int
  <2>1. \A d \in R : F[d] \in Int
    BY <1>2, <1>6
  <2>2. QED
    BY <1>4, <1>6, <2>1, SumAgree, SumInt
<1>9. SumFunctionOnSet(F, S) = SumFunctionOnSet(F, R) + (IF c \in S THEN F[c] ELSE 0)
  <2>1. CASE c \in S
    BY <1>2, <1>4, <1>6, <1>8, <2>1, SumTakeOut
  <2>2. CASE c \notin S
    <3>1. S = R
      BY <1>2, <2>2
    <3>2. QED
      BY <1>8, <2>2, <3>1
  <2>3. QED
    BY <2>1, <2>2
<1>10. SumFunctionOnSet(G, T) = SumFunctionOnSet(G, R) + (IF c \in T THEN G[c] ELSE 0)
  <2>1. CASE c \in T
    BY <1>2, <1>4, <1>6, <1>8, <2>1, SumTakeOut
  <2>2. CASE c \notin T
    <3>1. T = R
      BY <1>2, <2>2
    <3>2. QED
      BY <1>8, <2>2, <3>1
  <2>3. QED
    BY <2>1, <2>2
<1>11. /\ Share(c, u, m) = IF c \in S THEN F[c] ELSE 0
       /\ Share(c, u, m)' = IF c \in T THEN G[c] ELSE 0
  BY DEF Share, F, G, S, T
<1>12. QED
  BY <1>6, <1>7, <1>8, <1>9, <1>10, <1>11

-----------------------------------------------------------------------------
(* How a call moves.                                                       *)

CallsOK ==
    /\ call \in [Calls -> CallStates]
    /\ \A c \in Calls : call[c].at \in DOMAIN Program[c]

LEMMA FreshType ==
    ASSUME NEW pc \in {"idle", "next", "failed", "done"}, NEW i \in Nat
    PROVE  /\ Fresh(pc, i) \in CallStates
           /\ Fresh(pc, i).pc = pc /\ Fresh(pc, i).at = i
BY BoundsAssumption DEF Fresh, Columns, CallStates

LEMMA FailMoves ==
    ASSUME CallsOK, NEW c \in Calls, Fail(c)
    PROVE  /\ CallsOK' /\ \A d \in Calls : d # c => call'[d] = call[d]
           /\ call'[c].pc = "failed" /\ call'[c].at = 1
BY FreshType, ProgramAssumption DEF CallsOK, Fail

LEMMA AdvanceMoves ==
    ASSUME CallsOK, NEW c \in Calls, Advance(c)
    PROVE  /\ CallsOK' /\ \A d \in Calls : d # c => call'[d] = call[d]
           /\ \/ call'[c].pc = "next" /\ call'[c].at = call[c].at + 1
              \/ call'[c].pc = "done" /\ call'[c].at = 1
<1>1. call[c].at \in 1 .. Len(Program[c]) /\ call[c].at \in Nat /\ Len(Program[c]) \in Nat \ {0}
      /\ DOMAIN Program[c] = 1 .. Len(Program[c])
  BY ProgramAssumption DEF CallsOK
<1>2. CASE call[c].at < Len(Program[c])
  <2>1. call' = [call EXCEPT ![c] = Fresh("next", call[c].at + 1)]
    BY <1>2 DEF Advance
  <2>2. QED
    BY <1>1, <1>2, <2>1, FreshType DEF CallsOK
<1>3. CASE ~(call[c].at < Len(Program[c]))
  <2>1. call' = [call EXCEPT ![c] = Fresh("done", 1)]
    BY <1>3 DEF Advance
  <2>2. QED
    BY <1>1, <1>3, <2>1, FreshType DEF CallsOK
<1>4. QED
  BY <1>2, <1>3

LEMMA ToMoves ==
    ASSUME CallsOK, NEW c \in Calls, NEW pc, To(c, pc),
           pc \in {"next", "free", "dated", "read", "moved", "lost", "failed"}
    PROVE  /\ CallsOK' /\ \A d \in Calls : d # c => call'[d] = call[d]
           /\ call'[c] = [call[c] EXCEPT !.pc = pc]
           /\ call'[c].pc = pc /\ call'[c].at = call[c].at
BY DEF CallsOK, To, CallStates

\* Where a call fails, nothing is left to be said of it.
LEMMA FailOK ==
    ASSUME CallsOK, NEW c \in Calls, Fail(c)
    PROVE  CallOK(c)'
<1>1. call'[c].pc = "failed" /\ call'[c].at = 1
  BY FailMoves
<1>2. QED
  BY <1>1 DEF CallOK, PhaseOK, ReadOK, DateOK, EarlierBooked

\* A call may leave an operation behind once its key is there.
LEMMA AdvanceOK ==
    ASSUME CallsOK, NEW c \in Calls, Advance(c), CallOK(c), keys \subseteq keys',
           Op(c).op \in {"credit", "debit"} /\ Op(c).key # NoKey => Op(c).key \in keys'
    PROVE  CallOK(c)'
<1>1. \/ call'[c].pc = "next" /\ call'[c].at = call[c].at + 1
      \/ call'[c].pc = "done" /\ call'[c].at = 1
  BY AdvanceMoves
<1>2. call[c].at \in Nat /\ Len(Program[c]) \in Nat
  BY ProgramAssumption DEF CallsOK, CallStates
<1>3. (PhaseOK(c) /\ ReadOK(c) /\ DateOK(c))'
  BY <1>1 DEF PhaseOK, ReadOK, DateOK
<1>4. EarlierBooked(c)'
  <2>1. SUFFICES ASSUME NEW i \in 1 .. Len(Program[c]), i < call'[c].at,
                        Program[c][i].op \in {"credit", "debit"}, Program[c][i].key # NoKey
                 PROVE  Program[c][i].key \in keys'
    BY DEF EarlierBooked
  <2>2. i < call[c].at \/ i = call[c].at
    BY <1>1, <1>2, <2>1
  <2>3. CASE i < call[c].at
    BY <2>1, <2>3 DEF CallOK, EarlierBooked
  <2>4. CASE i = call[c].at
    BY <2>1, <2>4 DEF Op
  <2>5. QED
    BY <2>2, <2>3, <2>4
<1>5. QED
  BY <1>3, <1>4 DEF CallOK

\* A step of one call leaves the others as they were.
LEMMA OthersOK ==
    ASSUME TypeOK, TypeOK', \A d \in Calls : CallOK(d), NEW c \in Calls,
           \A d \in Calls : d # c => call'[d] = call[d], keys \subseteq keys', day' = day,
           CallOK(c)'
    PROVE  \A d \in Calls : CallOK(d)'
<1>1. SUFFICES ASSUME NEW d \in Calls, d # c PROVE CallOK(d)'
  OBVIOUS
<1>2. call'[d] = call[d] /\ Op(d)' = Op(d)
  BY <1>1 DEF Op
<1>3. (PhaseOK(d) /\ ReadOK(d) /\ DateOK(d))'
  BY <1>2 DEF CallOK, PhaseOK, ReadOK, DateOK
<1>4. EarlierBooked(d)'
  BY <1>2 DEF CallOK, EarlierBooked
<1>5. QED
  BY <1>3, <1>4 DEF CallOK

\* What is held stays booked if a step moves the balance, the entries and the
\* call's share together.
LEMMA BooksStep ==
    ASSUME TypeOK, TypeOK', \A d \in Calls : CallOK(d), \A d \in Calls : CallOK(d)', BalanceIsBooked,
           NEW c \in Calls, \A d \in Calls : d # c => call'[d] = call[d],
           \A u \in Users, m \in Currencies :
               Held(u, m)' - Held(u, m)
                   = (booked'[u][m] - booked[u][m]) + (Share(c, u, m)' - Share(c, u, m))
    PROVE  BalanceIsBooked'
<1>1. SUFFICES ASSUME NEW u \in Users, NEW m \in Currencies
               PROVE  Held(u, m)' = booked'[u][m] + Due(u, m)'
  BY DEF BalanceIsBooked
<1>2. Phases /\ Phases'
  BY DEF Phases, CallOK
<1>3. /\ Share(c, u, m) \in Int /\ Share(c, u, m)' \in Int /\ Due(u, m) \in Int
      /\ Due(u, m)' = Due(u, m) + (Share(c, u, m)' - Share(c, u, m))
  BY <1>2, DueStep
<1>4. Held(u, m) \in Int /\ Held(u, m)' \in Int /\ booked[u][m] \in Int /\ booked'[u][m] \in Int
  BY DEF TypeOK, Held, Total, Columns, Buckets
<1>5. Held(u, m) = booked[u][m] + Due(u, m)
  BY DEF BalanceIsBooked
<1>6. Held(u, m)' - Held(u, m)
                   = (booked'[u][m] - booked[u][m]) + (Share(c, u, m)' - Share(c, u, m))
  OBVIOUS
<1>7. QED
  BY <1>3, <1>4, <1>5, <1>6

-----------------------------------------------------------------------------
(* Every action preserves the invariant.                                   *)

LEMMA TypeCalls == TypeOK => CallsOK
BY DEF TypeOK, CallsOK

\* What tips offered stays offered as long as no call forgets that it started.
LEMMA StillOffered ==
    ASSUME CallsOK, NEW c \in Calls, \A d \in Calls : d # c => call'[d] = call[d],
           call'[c].pc # "idle", NEW q, NEW n, Offered(q, n)
    PROVE  Offered(q, n)'
BY DEF Offered

\* A step that writes no entry and no Tip row leaves the tips as they were.
LEMMA TipsStay ==
    ASSUME IInv, NEW c \in Calls, \A d \in Calls : d # c => call'[d] = call[d],
           call'[c].pc # "idle" \/ call' = call, UNCHANGED <<entries, tips>>
    PROVE  TipsOK'
<1>1. \A q, n : Offered(q, n) => Offered(q, n)'
  <2>1. CASE call'[c].pc # "idle"
    BY <2>1, StillOffered, TypeCalls DEF IInv
  <2>2. CASE call' = call
    BY <2>2 DEF Offered
  <2>3. QED
    BY <2>1, <2>2
<1>2. keys' = keys
  BY DEF keys
<1>3. QED
  BY <1>1, <1>2 DEF IInv, TipsOK, TipIsBacked, DebitsOffered

\* A new entry is a new key, if it has one.
LEMMA KeyIsNew ==
    ASSUME NEW k, NEW n, UseKey(k, n)
    PROVE  keys' = IF k = NoKey THEN keys ELSE keys \cup {k}
<1>1. CASE k = NoKey
  BY <1>1 DEF UseKey, keys
<1>2. CASE k # NoKey
  <2>1. entries' = entries \cup {<<k, n>>} /\ <<k, n>>[1] = k
    BY <1>2 DEF UseKey
  <2>2. QED
    BY <1>2, <2>1 DEF keys
<1>3. QED
  BY <1>1, <1>2

Tables == <<balance, lastGrant, booked, entries, tips, day, sweepVars>>

LEMMA KeysStay == UNCHANGED entries => keys' = keys /\ keys \subseteq keys'
BY DEF keys

LEMMA SameKeys == UNCHANGED Tables => keys' = keys /\ keys \subseteq keys'
BY KeysStay DEF Tables

\* A step that only moves the call.
LEMMA QuietStep ==
    ASSUME IInv, NEW c \in Calls, CallsOK', \A d \in Calls : d # c => call'[d] = call[d],
           CallOK(c)', UNCHANGED Tables, call'[c].pc # "idle",
           \A u \in Users, m \in Currencies : Share(c, u, m)' = Share(c, u, m)
    PROVE  IInv'
<1>. USE DEF Tables, sweepVars
<1>1. TypeOK'
  BY DEF IInv, TypeOK, CallsOK
<1>2. \A d \in Calls : CallOK(d)'
  BY <1>1, SameKeys, OthersOK DEF IInv
<1>3. (GrantDatesOK /\ NeverNegative /\ TipsOK)'
  BY TipsStay DEF IInv, GrantDatesOK, NeverNegative
<1>4. BalanceIsBooked'
  <2>1. \A u \in Users, m \in Currencies :
            Held(u, m)' - Held(u, m)
                = (booked'[u][m] - booked[u][m]) + (Share(c, u, m)' - Share(c, u, m))
    <3>1. SUFFICES ASSUME NEW u \in Users, NEW m \in Currencies
                   PROVE  Held(u, m)' - Held(u, m)
                              = (booked'[u][m] - booked[u][m]) + (Share(c, u, m)' - Share(c, u, m))
      OBVIOUS
    <3>2. Held(u, m)' = Held(u, m) /\ Held(u, m) \in Int /\ booked[u][m] \in Int
      BY DEF IInv, TypeOK, Held, Total, Columns, Buckets
    <3>3. Share(c, u, m) \in Int
      <4>1. Phases /\ Phases'
        BY <1>2 DEF IInv, Phases, CallOK
      <4>2. QED
        BY <1>1, <4>1, DueStep DEF IInv
    <3>4. QED
      BY <3>2, <3>3
  <2>2. QED
    BY <1>1, <1>2, <2>1, BooksStep DEF IInv
<1>5. QED
  BY <1>1, <1>2, <1>3, <1>4 DEF IInv

LEMMA StartStep ==
    ASSUME IInv, NEW c \in Calls, Start(c)
    PROVE  IInv'
<1>1. call[c].pc = "idle" /\ To(c, "next") /\ UNCHANGED Tables
  BY DEF Start, Tables
<1>2. /\ CallsOK' /\ \A d \in Calls : d # c => call'[d] = call[d]
      /\ call'[c].pc = "next" /\ call'[c].at = call[c].at
  BY <1>1, TypeCalls, ToMoves DEF IInv
<1>3. CallOK(c)'
  BY <1>1, <1>2, SameKeys DEF IInv, CallOK, PhaseOK, ReadOK, DateOK, EarlierBooked, Tables
<1>4. \A u \in Users, m \in Currencies : Share(c, u, m)' = Share(c, u, m)
  BY <1>1, <1>2 DEF Share, Unbooked
<1>5. QED
  BY <1>1, <1>2, <1>3, <1>4, QuietStep

\* A call that is not due to book anything fails.
LEMMA FailStep ==
    ASSUME IInv, NEW c \in Calls, call[c].pc \notin {"moved", "lost"}, Fail(c), UNCHANGED Tables
    PROVE  IInv'
<1>1. /\ CallsOK' /\ \A d \in Calls : d # c => call'[d] = call[d]
      /\ call'[c].pc = "failed" /\ CallOK(c)'
  BY TypeCalls, FailMoves, FailOK DEF IInv
<1>2. \A u \in Users, m \in Currencies : Share(c, u, m)' = Share(c, u, m)
  BY <1>1 DEF Share, Unbooked
<1>3. QED
  BY <1>1, <1>2, QuietStep

\* A call that is not due to book anything goes on to its next operation.
LEMMA SkipStep ==
    ASSUME IInv, NEW c \in Calls, call[c].pc \notin {"moved", "lost"}, Advance(c), UNCHANGED Tables,
           Op(c).op \in {"credit", "debit"} /\ Op(c).key # NoKey => Op(c).key \in keys
    PROVE  IInv'
<1>1. keys \subseteq keys' /\ (Op(c).op \in {"credit", "debit"} /\ Op(c).key # NoKey => Op(c).key \in keys')
  BY SameKeys
<1>2. /\ CallsOK' /\ \A d \in Calls : d # c => call'[d] = call[d]
      /\ call'[c].pc \in {"next", "done"} /\ CallOK(c)'
  BY <1>1, TypeCalls, AdvanceMoves, AdvanceOK DEF IInv
<1>3. \A u \in Users, m \in Currencies : Share(c, u, m)' = Share(c, u, m)
  BY <1>2 DEF Share, Unbooked
<1>4. QED
  BY <1>2, <1>3, QuietStep

LEMMA ReplayStep ==
    ASSUME IInv, NEW c \in Calls, Replay(c)
    PROVE  IInv'
<1>1. /\ call[c].pc = "next" /\ Op(c).op \in {"credit", "debit"} /\ Op(c).key # NoKey
      /\ IF Op(c).key \in keys THEN Advance(c) ELSE To(c, "free")
      /\ UNCHANGED Tables
  BY DEF Replay, Tables
<1>2. CASE Op(c).key \in keys
  BY <1>1, <1>2, SkipStep
<1>3. CASE Op(c).key \notin keys
  <2>1. /\ CallsOK' /\ \A d \in Calls : d # c => call'[d] = call[d]
        /\ call'[c].pc = "free" /\ call'[c].at = call[c].at
    BY <1>1, <1>3, TypeCalls, ToMoves DEF IInv
  <2>2. Op(c)' = Op(c)
    BY <2>1 DEF Op
  <2>3. CallOK(c)'
    BY <1>1, <2>1, <2>2, SameKeys DEF IInv, CallOK, PhaseOK, ReadOK, DateOK, EarlierBooked, Tables
  <2>4. \A u \in Users, m \in Currencies : Share(c, u, m)' = Share(c, u, m)
    BY <1>1, <2>1 DEF Share, Unbooked
  <2>5. QED
    BY <1>1, <2>1, <2>3, <2>4, QuietStep
<1>4. QED
  BY <1>2, <1>3

LEMMA ReadBucketsStep ==
    ASSUME IInv, NEW c \in Calls, ReadBuckets(c)
    PROVE  IInv'
<1>. DEFINE u == Op(c).user
<1>1. /\ call[c].pc \in {"next", "free"} /\ Op(c).op = "debit" /\ UNCHANGED Tables
      /\ u \in Users
  BY OpType DEF ReadBuckets, Ready, Tables, IInv, IsOperation
<1>2. CASE Fail(c)
  BY <1>1, <1>2, FailStep
<1>3. CASE /\ Total(balance[u]) >= Op(c).amount
           /\ call' = [call EXCEPT ![c].pc = "read", ![c].columns = balance[u]]
  <2>1. balance[u] \in [Columns -> Int] /\ \A x \in Columns : balance[u][x] >= 0
    BY <1>1 DEF IInv, TypeOK, NeverNegative
  <2>2. /\ CallsOK' /\ \A d \in Calls : d # c => call'[d] = call[d]
        /\ call'[c].pc = "read" /\ call'[c].at = call[c].at /\ call'[c].columns = balance[u]
    <3>1. CallsOK
      BY TypeCalls DEF IInv
    <3>2. QED
      BY <1>3, <2>1, <3>1 DEF CallsOK, CallStates
  <2>3. Op(c)' = Op(c)
    BY <2>2 DEF Op
  <2>4. CallOK(c)'
    BY <1>1, <1>3, <2>1, <2>2, <2>3, SameKeys
       DEF IInv, CallOK, PhaseOK, ReadOK, DateOK, EarlierBooked, Tables, Columns
  <2>5. \A v \in Users, m \in Currencies : Share(c, v, m)' = Share(c, v, m)
    BY <1>1, <2>2 DEF Share, Unbooked
  <2>6. QED
    BY <1>1, <2>2, <2>4, <2>5, QuietStep
<1>4. QED
  BY <1>2, <1>3 DEF ReadBuckets

\* An entry with a tip's key comes after the entries before it in the tip.
LEMMA TipKeyStep ==
    ASSUME IInv, NEW c \in Calls, Op(c).op \in {"credit", "debit"}, UNCHANGED tips,
           UseKey(Op(c).key, Op(c).amount), call[c].pc # "idle", call'[c].pc # "idle",
           \A d \in Calls : d # c => call'[d] = call[d]
    PROVE  TipsOK'
<1>. DEFINE i == call[c].at
            new == <<Op(c).key, Op(c).amount>>
<1>1. /\ i \in 1 .. Len(Program[c]) /\ Op(c) = Program[c][i] /\ EarlierBooked(c)
      /\ DOMAIN Program[c] = 1 .. Len(Program[c]) /\ Len(Program[c]) \in Nat
  BY OpType, ProgramAssumption DEF IInv, CallOK
<1>2. CASE Op(c).key = NoKey
  BY <1>2, TipsStay DEF UseKey
<1>3. CASE Op(c).key # NoKey
  <2>1. SUFFICES ASSUME \A d \in Calls : TipsInOrder(Program[d])
                 PROVE  TipIsBacked' /\ DebitsOffered'
    BY DEF TipsOK
  <2>2. TipIsBacked /\ DebitsOffered
    BY <2>1 DEF IInv, TipsOK
  <2>3. /\ entries' = entries \cup {new} /\ keys \subseteq keys'
        /\ new[1] = Op(c).key /\ new[2] = Op(c).amount
    BY <1>3, KeyIsNew DEF UseKey
  <2>4. \A q, n : Offered(q, n) => Offered(q, n)'
    BY StillOffered, TypeCalls DEF IInv
  <2>. HIDE DEF new
  <2>5. ASSUME Op(c).key[1] = "tip_debit" PROVE Offered(Op(c).key[2], Op(c).amount)
    <3>1. Op(c).op = "debit" /\ Op(c).key = <<"tip_debit", Op(c).key[2]>>
      BY <1>1, <1>3, <2>1, <2>5 DEF TipsInOrder
    <3>2. QED
      BY <1>1, <3>1 DEF Offered
  <2>6. ASSUME Op(c).key[1] = "tip_credit"
        PROVE  /\ Offered(Op(c).key[2], Op(c).amount)
               /\ \E d \in entries : /\ d[1] = <<"tip_debit", Op(c).key[2]>>
                                     /\ Offered(Op(c).key[2], d[2])
    <3>1. /\ i > 1 /\ Program[c][i - 1].op = "debit" /\ Program[c][i - 1].amount = Op(c).amount
          /\ Program[c][i - 1].key = <<"tip_debit", Op(c).key[2]>>
      BY <1>1, <1>3, <2>1, <2>6 DEF TipsInOrder
    <3>2. i - 1 \in 1 .. Len(Program[c]) /\ i - 1 < i
      BY <1>1, <3>1
    <3>3. Offered(Op(c).key[2], Op(c).amount)
      BY <1>1, <3>1, <3>2 DEF Offered
    <3>4. Program[c][i - 1].key \in keys
      <4>1. Program[c][i - 1].key # NoKey
        BY <3>1 DEF NoKey
      <4>2. QED
        BY <1>1, <3>1, <3>2, <4>1 DEF EarlierBooked
    <3>5. PICK d \in entries : d[1] = <<"tip_debit", Op(c).key[2]>>
      BY <3>1, <3>4 DEF keys
    <3>6. d[1][1] = "tip_debit" /\ d[1][2] = Op(c).key[2]
      BY <3>5
    <3>7. Offered(Op(c).key[2], d[2])
      BY <2>2, <3>6 DEF DebitsOffered
    <3>8. QED
      BY <3>3, <3>5, <3>7
  <2>7. DebitsOffered'
    BY <2>2, <2>3, <2>4, <2>5 DEF DebitsOffered
  <2>8. TipIsBacked'
    <3>1. ASSUME NEW e \in entries', e[1][1] = "tip_credit"
          PROVE  \E d \in entries' : /\ d[1] = <<"tip_debit", e[1][2]>>
                                     /\ Offered(e[1][2], d[2])' /\ Offered(e[1][2], e[2])'
      <4>1. CASE e \in entries
        <5>1. PICK d \in entries : /\ d[1] = <<"tip_debit", e[1][2]>>
                                  /\ Offered(e[1][2], d[2]) /\ Offered(e[1][2], e[2])
          BY <2>2, <3>1, <4>1 DEF TipIsBacked
        <5>2. d \in entries' /\ Offered(e[1][2], d[2])' /\ Offered(e[1][2], e[2])'
          BY <2>3, <5>1, StillOffered, TypeCalls DEF IInv
        <5>3. QED
          BY <5>1, <5>2
      <4>2. CASE e = new
        BY <2>3, <2>4, <2>6, <3>1, <4>2
      <4>3. QED
        BY <2>3, <4>1, <4>2
    <3>2. \A k \in tips' : k[1] = "tip" => <<"tip_credit", k[2]>> \in keys'
      BY <2>2, <2>3 DEF TipIsBacked
    <3>3. QED
      BY <3>1, <3>2 DEF TipIsBacked
  <2>9. QED
    BY <2>7, <2>8
<1>4. QED
  BY <1>2, <1>3

\* What is added to a column is added to what is held in its currency.
LEMMA AddHeld ==
    ASSUME TypeOK, NEW u \in Users, NEW column \in Columns, NEW n \in Int, Add(u, column, n),
           NEW v \in Users, NEW q \in Currencies
    PROVE  Held(v, q)' - Held(v, q) = IF v = u /\ q = CurrencyOf(column) THEN n ELSE 0
<1>1. balance[v] \in [Columns -> Int] /\ balance[u] \in [Columns -> Int]
  BY DEF TypeOK
<1>2. CASE v # u
  <2>1. balance'[v] = balance[v]
    BY <1>2 DEF TypeOK, Add
  <2>2. QED
    BY <1>1, <1>2, <2>1 DEF Held, Total, Columns, Buckets
<1>3. CASE v = u
  <2>1. balance'[u] = [balance[u] EXCEPT ![column] = balance[u][column] + n]
    BY DEF TypeOK, Add
  <2>2. CASE column = "connects"
    BY <1>1, <1>3, <2>1, <2>2 DEF Held, Total, Columns, Buckets, CurrencyOf, Currencies
  <2>3. CASE column = "bonus"
    BY <1>1, <1>3, <2>1, <2>3 DEF Held, Total, Columns, Buckets, CurrencyOf, Currencies
  <2>4. CASE column = "purchased"
    BY <1>1, <1>3, <2>1, <2>4 DEF Held, Total, Columns, Buckets, CurrencyOf, Currencies
  <2>5. CASE column = "earned"
    BY <1>1, <1>3, <2>1, <2>5 DEF Held, Total, Columns, Buckets, CurrencyOf, Currencies
  <2>6. QED
    BY <2>2, <2>3, <2>4, <2>5 DEF Columns, Buckets
<1>4. QED
  BY <1>2, <1>3

LEMMA ApplyCreditStep ==
    ASSUME IInv, NEW c \in Calls, ApplyCredit(c)
    PROVE  IInv'
<1>. DEFINE u == Op(c).user
            m == CurrencyOf(Op(c).column)
            n == Op(c).amount
<1>1. /\ call[c].pc \in {"next", "free"} /\ Op(c).op = "credit"
      /\ UNCHANGED <<lastGrant, tips, day, sweepVars>>
      /\ u \in Users /\ n \in Nat /\ Op(c).column \in Columns /\ m \in Currencies
      /\ TypeOK /\ CallsOK
  BY OpType, TypeCalls DEF ApplyCredit, Ready, IInv, IsOperation, CurrencyOf, Currencies
<1>2. CASE Fail(c) /\ UNCHANGED <<balance, booked, entries>>
  <2>1. UNCHANGED Tables
    BY <1>1, <1>2 DEF Tables
  <2>2. QED
    BY <1>1, <1>2, <2>1, FailStep
<1>3. CASE /\ Add(u, Op(c).column, n) /\ BookEntry(u, m, n)
           /\ UseKey(Op(c).key, Op(c).amount) /\ Advance(c)
  <2>1. keys \subseteq keys' /\ (Op(c).key # NoKey => Op(c).key \in keys')
    BY <1>3, KeyIsNew
  <2>2. /\ CallsOK' /\ \A d \in Calls : d # c => call'[d] = call[d]
        /\ call'[c].pc \in {"next", "done"} /\ CallOK(c)'
    BY <1>1, <1>3, <2>1, AdvanceMoves, AdvanceOK DEF IInv
  <2>3. TypeOK'
    BY <1>1, <1>3, <2>2 DEF TypeOK, CallsOK, Add, BookEntry, UseKey, sweepVars
  <2>4. \A d \in Calls : CallOK(d)'
    BY <1>1, <2>1, <2>2, <2>3, OthersOK DEF IInv
  <2>5. (GrantDatesOK /\ NeverNegative)'
    BY <1>1, <1>3 DEF IInv, TypeOK, GrantDatesOK, NeverNegative, Add
  <2>6. TipsOK'
    BY <1>1, <1>3, <2>2, TipKeyStep
  <2>7. \A v \in Users, q \in Currencies :
            Held(v, q)' - Held(v, q)
                = (booked'[v][q] - booked[v][q]) + (Share(c, v, q)' - Share(c, v, q))
    <3>1. SUFFICES ASSUME NEW v \in Users, NEW q \in Currencies
                   PROVE  Held(v, q)' - Held(v, q)
                              = (booked'[v][q] - booked[v][q]) + (Share(c, v, q)' - Share(c, v, q))
      OBVIOUS
    <3>2. Share(c, v, q)' = 0 /\ Share(c, v, q) = 0
      BY <1>1, <2>2 DEF Share, Unbooked
    <3>3. booked'[v][q] - booked[v][q] = IF v = u /\ q = m THEN n ELSE 0
      BY <1>1, <1>3 DEF TypeOK, BookEntry
    <3>4. Held(v, q)' - Held(v, q) = IF v = u /\ q = m THEN n ELSE 0
      BY <1>1, <1>3, AddHeld
    <3>5. QED
      BY <3>2, <3>3, <3>4, <1>1
  <2>8. BalanceIsBooked'
    BY <2>2, <2>3, <2>4, <2>7, BooksStep DEF IInv
  <2>9. QED
    BY <2>3, <2>4, <2>5, <2>6, <2>8 DEF IInv
<1>4. QED
  BY <1>2, <1>3 DEF ApplyCredit

LEMMA TakePartsStep ==
    ASSUME IInv, NEW c \in Calls, TakeParts(c)
    PROVE  IInv'
<1>. DEFINE u == Op(c).user
            n == Op(c).amount
            parts == Parts(n, call[c].columns)
<1>1. /\ call[c].pc = "read" /\ Op(c).op = "debit"
      /\ UNCHANGED <<lastGrant, booked, entries, tips, day, sweepVars>>
      /\ u \in Users /\ n \in Nat /\ Op(c).column = "bonus"
      /\ TypeOK /\ CallsOK /\ CallOK(c)
  BY OpType, TypeCalls DEF TakeParts, IInv, IsOperation
<1>2. /\ parts \in [Columns -> Int] /\ (\A x \in Columns : parts[x] >= 0)
      /\ parts["connects"] = 0 /\ Total(parts) = n
  <2>1. call[c].columns \in [Columns -> Int]
    BY <1>1 DEF TypeOK, CallStates
  <2>2. (\A x \in Buckets : call[c].columns[x] >= 0) /\ Total(call[c].columns) >= n
    BY <1>1 DEF CallOK, ReadOK
  <2>3. QED
    BY <1>1, <2>1, <2>2, PartsAddUp
<1>. HIDE DEF parts
<1>3. CASE /\ Covered(balance[u], parts)
           /\ balance' = [balance EXCEPT ![u] = [x \in Columns |-> balance[u][x] - parts[x]]]
           /\ To(c, "moved")
  <2>1. /\ CallsOK' /\ \A d \in Calls : d # c => call'[d] = call[d]
        /\ call'[c] = [call[c] EXCEPT !.pc = "moved"]
        /\ call'[c].pc = "moved" /\ call'[c].at = call[c].at
    BY <1>1, <1>3, ToMoves
  <2>2. Op(c)' = Op(c)
    BY <2>1 DEF Op
  <2>3. TypeOK'
    BY <1>1, <1>2, <1>3, <2>1 DEF TypeOK, CallsOK, sweepVars
  <2>4. CallOK(c)'
    BY <1>1, <2>1, <2>2, KeysStay DEF CallOK, PhaseOK, ReadOK, DateOK, EarlierBooked
  <2>5. \A d \in Calls : CallOK(d)'
    BY <1>1, <2>1, <2>3, <2>4, KeysStay, OthersOK DEF IInv
  <2>6. (GrantDatesOK /\ TipsOK)'
    BY <1>1, <2>1, TipsStay DEF IInv, GrantDatesOK
  <2>7. NeverNegative'
    BY <1>1, <1>2, <1>3 DEF IInv, TypeOK, NeverNegative, Covered, Buckets, Columns
  <2>8. \A v \in Users, q \in Currencies :
            Held(v, q)' - Held(v, q)
                = (booked'[v][q] - booked[v][q]) + (Share(c, v, q)' - Share(c, v, q))
    <3>1. SUFFICES ASSUME NEW v \in Users, NEW q \in Currencies
                   PROVE  Held(v, q)' - Held(v, q)
                              = (booked'[v][q] - booked[v][q]) + (Share(c, v, q)' - Share(c, v, q))
      OBVIOUS
    <3>2. Share(c, v, q) = 0
      BY <1>1 DEF Share, Unbooked
    <3>3. Share(c, v, q)' = IF v = u /\ q = "CREDIT" THEN -n ELSE 0
      BY <1>1, <2>1, <2>2 DEF Share, Unbooked, Moved, CurrencyOf
    <3>4. booked'[v][q] - booked[v][q] = 0
      BY <1>1 DEF TypeOK
    <3>5. Held(v, q)' - Held(v, q) = IF v = u /\ q = "CREDIT" THEN -n ELSE 0
      BY <1>1, <1>2, <1>3 DEF TypeOK, Held, Total, Columns, Buckets, Currencies
    <3>6. QED
      BY <1>1, <3>2, <3>3, <3>4, <3>5
  <2>9. BalanceIsBooked'
    BY <2>1, <2>3, <2>5, <2>8, BooksStep DEF IInv
  <2>10. QED
    BY <2>3, <2>5, <2>6, <2>7, <2>9 DEF IInv
<1>4. CASE /\ IF call[c].tries + 1 = MaxAttempts THEN Fail(c)
              ELSE call' = [call EXCEPT ![c].pc = "free", ![c].tries = @ + 1]
           /\ UNCHANGED balance
  <2>1. UNCHANGED Tables
    BY <1>1, <1>4 DEF Tables
  <2>2. CASE Fail(c)
    BY <1>1, <2>1, <2>2, FailStep
  <2>3. CASE /\ call[c].tries + 1 # MaxAttempts
             /\ call' = [call EXCEPT ![c].pc = "free", ![c].tries = @ + 1]
    <3>1. call[c].tries + 1 \in 0 .. MaxAttempts - 1
      BY <1>1, <2>3, BoundsAssumption DEF TypeOK, CallStates
    <3>2. /\ CallsOK' /\ \A d \in Calls : d # c => call'[d] = call[d]
          /\ call'[c].pc = "free" /\ call'[c].at = call[c].at
      BY <1>1, <2>3, <3>1 DEF CallsOK, CallStates
    <3>3. Op(c)' = Op(c)
      BY <3>2 DEF Op
    <3>4. CallOK(c)'
      BY <1>1, <2>1, <3>2, <3>3, SameKeys DEF CallOK, PhaseOK, ReadOK, DateOK, EarlierBooked, Tables
    <3>5. \A v \in Users, q \in Currencies : Share(c, v, q)' = Share(c, v, q)
      BY <1>1, <3>2 DEF Share, Unbooked
    <3>6. QED
      BY <2>1, <3>2, <3>4, <3>5, QuietStep
  <2>4. QED
    BY <1>4, <2>2, <2>3
<1>5. QED
  BY <1>3, <1>4 DEF TakeParts, parts

LEMMA SpendConnectsStep ==
    ASSUME IInv, NEW c \in Calls, SpendConnects(c)
    PROVE  IInv'
<1>. DEFINE u == Op(c).user
            n == Op(c).amount
<1>1. /\ call[c].pc \in {"next", "free"} /\ Op(c).op = "spend"
      /\ UNCHANGED <<lastGrant, booked, entries, tips, day, sweepVars>>
      /\ u \in Users /\ n \in Nat /\ Op(c).column = "connects"
      /\ TypeOK /\ CallsOK /\ CallOK(c)
  BY OpType, TypeCalls DEF SpendConnects, Ready, IInv, IsOperation
<1>2. CASE Fail(c) /\ UNCHANGED balance
  <2>1. UNCHANGED Tables
    BY <1>1, <1>2 DEF Tables
  <2>2. QED
    BY <1>1, <1>2, <2>1, FailStep
<1>3. CASE /\ balance[u].connects >= n
           /\ Add(u, "connects", -n) /\ To(c, "moved")
  <2>1. /\ CallsOK' /\ \A d \in Calls : d # c => call'[d] = call[d]
        /\ call'[c].pc = "moved" /\ call'[c].at = call[c].at
    BY <1>1, <1>3, ToMoves
  <2>2. Op(c)' = Op(c)
    BY <2>1 DEF Op
  <2>3. TypeOK'
    <3>1. "connects" \in Columns /\ -n \in Int
      BY <1>1 DEF Columns
    <3>2. balance' \in [Users -> [Columns -> Int]]
      BY <1>1, <1>3, <3>1 DEF TypeOK, Add
    <3>3. QED
      BY <1>1, <2>1, <3>2 DEF TypeOK, CallsOK, sweepVars
  <2>4. CallOK(c)'
    BY <1>1, <2>1, <2>2, KeysStay DEF CallOK, PhaseOK, ReadOK, DateOK, EarlierBooked
  <2>5. \A d \in Calls : CallOK(d)'
    BY <1>1, <2>1, <2>3, <2>4, KeysStay, OthersOK DEF IInv
  <2>6. (GrantDatesOK /\ TipsOK)'
    BY <1>1, <2>1, TipsStay DEF IInv, GrantDatesOK
  <2>7. NeverNegative'
    BY <1>1, <1>3 DEF IInv, TypeOK, NeverNegative, Add, Columns
  <2>8. \A v \in Users, q \in Currencies :
            Held(v, q)' - Held(v, q)
                = (booked'[v][q] - booked[v][q]) + (Share(c, v, q)' - Share(c, v, q))
    <3>1. SUFFICES ASSUME NEW v \in Users, NEW q \in Currencies
                   PROVE  Held(v, q)' - Held(v, q)
                              = (booked'[v][q] - booked[v][q]) + (Share(c, v, q)' - Share(c, v, q))
      OBVIOUS
    <3>2. Share(c, v, q) = 0
      BY <1>1 DEF Share, Unbooked
    <3>3. Share(c, v, q)' = IF v = u /\ q = "CONNECT" THEN -n ELSE 0
      BY <1>1, <2>1, <2>2 DEF Share, Unbooked, Moved, CurrencyOf
    <3>4. booked'[v][q] - booked[v][q] = 0
      BY <1>1 DEF TypeOK
    <3>5. Held(v, q)' - Held(v, q) = IF v = u /\ q = "CONNECT" THEN -n ELSE 0
      <4>1. "connects" \in Columns /\ CurrencyOf("connects") = "CONNECT" /\ -n \in Int
        BY <1>1 DEF Columns, CurrencyOf
      <4>2. QED
        BY <1>1, <1>3, <4>1, AddHeld
    <3>6. QED
      BY <1>1, <3>2, <3>3, <3>4, <3>5
  <2>9. BalanceIsBooked'
    BY <2>1, <2>3, <2>5, <2>8, BooksStep DEF IInv
  <2>10. QED
    BY <2>3, <2>5, <2>6, <2>7, <2>9 DEF IInv
<1>4. QED
  BY <1>2, <1>3 DEF SpendConnects

\* The entry of a movement takes the call's share into the books.
LEMMA EntryStep ==
    ASSUME IInv, NEW c \in Calls, call[c].pc = "moved", Advance(c),
           NEW u \in Users, u = Op(c).user, NEW m \in Currencies, m = CurrencyOf(Op(c).column),
           BookEntry(u, m, Moved(c)), UNCHANGED <<balance, lastGrant, tips, day, sweepVars>>,
           UseKey(Op(c).key, Op(c).amount), TipsOK'
    PROVE  IInv'
<1>1. TypeOK /\ CallsOK /\ CallOK(c)
  BY TypeCalls DEF IInv
<1>2. Moved(c) \in Int
  <2>1. AllMovedInt
    BY MovedInt DEF IInv, Phases, CallOK
  <2>2. QED
    BY <2>1 DEF AllMovedInt
<1>3. /\ CallsOK' /\ \A d \in Calls : d # c => call'[d] = call[d]
      /\ call'[c].pc \in {"next", "done"} /\ CallOK(c)' /\ keys \subseteq keys'
  BY <1>1, KeyIsNew, AdvanceMoves, AdvanceOK
<1>4. TypeOK'
  <2>1. Op(c).key # NoKey => Op(c).amount \in Nat
    BY <1>1, OpType DEF CallOK, PhaseOK, IsOperation
  <2>2. QED
    BY <1>1, <1>2, <1>3, <2>1 DEF TypeOK, CallsOK, BookEntry, UseKey, sweepVars
<1>5. \A d \in Calls : CallOK(d)'
  BY <1>1, <1>3, <1>4, OthersOK DEF IInv
<1>6. (GrantDatesOK /\ NeverNegative)'
  BY DEF IInv, GrantDatesOK, NeverNegative
<1>7. \A v \in Users, q \in Currencies :
          Held(v, q)' - Held(v, q)
              = (booked'[v][q] - booked[v][q]) + (Share(c, v, q)' - Share(c, v, q))
  <2>1. SUFFICES ASSUME NEW v \in Users, NEW q \in Currencies
                 PROVE  Held(v, q)' - Held(v, q)
                            = (booked'[v][q] - booked[v][q]) + (Share(c, v, q)' - Share(c, v, q))
    OBVIOUS
  <2>2. Share(c, v, q)' = 0
    BY <1>3 DEF Share, Unbooked
  <2>3. Share(c, v, q) = IF v = u /\ q = m THEN Moved(c) ELSE 0
    BY DEF Share, Unbooked
  <2>4. booked'[v][q] - booked[v][q] = IF v = u /\ q = m THEN Moved(c) ELSE 0
    BY <1>1, <1>2 DEF TypeOK, BookEntry
  <2>5. Held(v, q)' - Held(v, q) = 0
    BY <1>1 DEF TypeOK, Held, Total, Columns, Buckets
  <2>6. QED
    BY <1>2, <2>2, <2>3, <2>4, <2>5
<1>8. BalanceIsBooked'
  BY <1>3, <1>4, <1>5, <1>7, BooksStep DEF IInv
<1>9. QED
  BY <1>4, <1>5, <1>6, <1>8 DEF IInv

\* A movement that will never be booked stays a share of its call.
LEMMA LoseStep ==
    ASSUME IInv, NEW c \in Calls, call[c].pc = "moved", To(c, "lost"), UNCHANGED Tables
    PROVE  IInv'
<1>1. /\ CallsOK' /\ \A d \in Calls : d # c => call'[d] = call[d]
      /\ call'[c] = [call[c] EXCEPT !.pc = "lost"]
      /\ call'[c].pc = "lost" /\ call'[c].at = call[c].at
  BY TypeCalls, ToMoves DEF IInv
<1>2. Op(c)' = Op(c) /\ call'[c].columns = call[c].columns
  BY <1>1 DEF Op, IInv, TypeOK, CallStates
<1>3. CallOK(c)'
  BY <1>1, <1>2, SameKeys DEF IInv, CallOK, PhaseOK, ReadOK, DateOK, EarlierBooked, Tables
<1>4. \A v \in Users, q \in Currencies : Share(c, v, q)' = Share(c, v, q)
  BY <1>1, <1>2 DEF Share, Unbooked, Moved, GrantAmount
<1>5. QED
  BY <1>1, <1>3, <1>4, QuietStep

LEMMA BookStep ==
    ASSUME IInv, NEW c \in Calls, Book(c)
    PROVE  IInv'
<1>1. /\ call[c].pc = "moved" /\ Op(c).op \in {"debit", "spend"}
      /\ UNCHANGED <<balance, lastGrant, tips, day, sweepVars>>
      /\ Op(c).user \in Users /\ CurrencyOf(Op(c).column) \in Currencies
  BY OpType DEF Book, IInv, IsOperation, CurrencyOf, Currencies
<1>2. CASE To(c, "lost") /\ UNCHANGED <<booked, entries>>
  <2>1. UNCHANGED Tables
    BY <1>1, <1>2 DEF Tables
  <2>2. QED
    BY <1>1, <1>2, <2>1, LoseStep
<1>3. CASE /\ BookEntry(Op(c).user, CurrencyOf(Op(c).column), -Op(c).amount)
           /\ UseKey(Op(c).key, Op(c).amount) /\ Advance(c)
  <2>1. Moved(c) = -Op(c).amount
    BY <1>1 DEF Moved
  <2>2. TipsOK'
    <3>1. call'[c].pc # "idle" /\ \A d \in Calls : d # c => call'[d] = call[d]
      BY <1>3, TypeCalls, AdvanceMoves DEF IInv
    <3>2. CASE Op(c).op = "debit"
      BY <1>1, <1>3, <3>1, <3>2, TipKeyStep
    <3>3. CASE Op(c).op = "spend"
      <4>1. Op(c).key = NoKey
        BY <3>3, OpType DEF IInv, IsOperation
      <4>2. QED
        BY <1>1, <1>3, <3>1, <4>1, TipsStay DEF UseKey
    <3>4. QED
      BY <1>1, <3>2, <3>3
  <2>3. QED
    BY <1>1, <1>3, <2>1, <2>2, EntryStep
<1>4. QED
  BY <1>2, <1>3 DEF Book

LEMMA FixTodayStep ==
    ASSUME IInv, NEW c \in Calls, FixToday(c)
    PROVE  IInv'
<1>. DEFINE after == [call[c] EXCEPT !.pc = "dated", !.today = day]
<1>1. /\ call[c].pc = "next" /\ Op(c).op = "daily" /\ UNCHANGED Tables
      /\ TypeOK /\ CallsOK /\ CallOK(c)
  BY TypeCalls DEF FixToday, Tables, IInv
<1>2. call' = [call EXCEPT ![c] = after]
  BY DEF FixToday
<1>3. /\ after \in CallStates /\ after.pc = "dated" /\ after.at = call[c].at /\ after.today = day
  BY <1>1 DEF TypeOK, CallsOK, CallStates
<1>. HIDE DEF after
<1>4. /\ CallsOK' /\ \A d \in Calls : d # c => call'[d] = call[d]
      /\ call'[c].pc = "dated" /\ call'[c].at = call[c].at /\ call'[c].today = day
  BY <1>1, <1>2, <1>3 DEF CallsOK
<1>5. Op(c)' = Op(c)
  BY <1>4 DEF Op
<1>6. CallOK(c)'
  <2>1. day <= day /\ day' = day
    BY <1>1, BoundsAssumption DEF TypeOK, Tables
  <2>2. QED
    BY <1>1, <1>4, <1>5, <2>1, SameKeys DEF CallOK, PhaseOK, ReadOK, DateOK, EarlierBooked, Tables
<1>7. \A v \in Users, q \in Currencies : Share(c, v, q)' = Share(c, v, q)
  BY <1>1, <1>4 DEF Share, Unbooked
<1>8. QED
  BY <1>1, <1>4, <1>6, <1>7, QuietStep

LEMMA ReadGrantDateStep ==
    ASSUME IInv, NEW c \in Calls, ReadGrantDate(c)
    PROVE  IInv'
<1>. DEFINE u == Op(c).user
            after == [call[c] EXCEPT !.pc = "read", !.columns = balance[u], !.date = lastGrant[u]]
<1>1. TypeOK /\ CallsOK /\ CallOK(c) /\ call[c].pc = "dated" /\ UNCHANGED Tables
  BY TypeCalls DEF ReadGrantDate, Tables, IInv
<1>2. Op(c).op = "daily" /\ u \in Users
  BY <1>1, OpType DEF CallOK, PhaseOK, IsOperation
<1>3. CASE Advance(c)
  BY <1>1, <1>2, <1>3, SkipStep
<1>4. CASE /\ lastGrant[u] # call[c].today
           /\ call' = [call EXCEPT ![c].pc = "read", ![c].columns = balance[u],
                                    ![c].date = lastGrant[u]]
  <2>1. balance[u] \in [Columns -> Int] /\ lastGrant[u] \in 0 .. MaxDay \cup {NoDate}
    BY <1>1, <1>2 DEF TypeOK
  <2>2. call' = [call EXCEPT ![c] = after]
    BY <1>4
  <2>3. /\ after \in CallStates /\ after.pc = "read" /\ after.at = call[c].at
        /\ after.date = lastGrant[u] /\ after.today = call[c].today
    BY <1>1, <2>1 DEF CallsOK, CallStates
  <2>. HIDE DEF after
  <2>4. /\ CallsOK' /\ \A d \in Calls : d # c => call'[d] = call[d]
        /\ call'[c].pc = "read" /\ call'[c].at = call[c].at
        /\ call'[c].date = lastGrant[u] /\ call'[c].today = call[c].today
    BY <1>1, <2>2, <2>3 DEF CallsOK
  <2>5. Op(c)' = Op(c) /\ day' = day
    BY <1>1, <2>4 DEF Op, Tables
  <2>6. DateOK(c)'
    <3>1. call[c].today <= day
      BY <1>1 DEF CallOK, DateOK
    <3>2. /\ lastGrant[u] # NoDate => lastGrant[u] <= day
          /\ FirstDate[u] # NoDate => lastGrant[u] # NoDate
      BY <1>2 DEF IInv, GrantDatesOK
    <3>3. QED
      BY <1>4, <2>4, <2>5, <3>1, <3>2 DEF DateOK
  <2>7. CallOK(c)'
    BY <1>1, <1>2, <2>4, <2>5, <2>6, SameKeys DEF CallOK, PhaseOK, ReadOK, EarlierBooked
  <2>8. \A v \in Users, q \in Currencies : Share(c, v, q)' = Share(c, v, q)
    BY <1>1, <2>4 DEF Share, Unbooked
  <2>9. QED
    BY <1>1, <2>4, <2>7, <2>8, QuietStep
<1>5. QED
  BY <1>3, <1>4 DEF ReadGrantDate

\* A grant moves the date on, if there was one and the call was not held over
\* midnight before it read it.
LEMMA GrantMovesDate ==
    ASSUME IInv, NEW c \in Calls, StampOrGrant(c), FirstDate[Op(c).user] # NoDate, ~HeldOver(c),
           DateAsRead(c, lastGrant[Op(c).user])
    PROVE  lastGrant[Op(c).user] < call[c].today
<1>1. /\ call[c].date # NoDate /\ lastGrant[Op(c).user] = call[c].date
      /\ call[c].date # call[c].today /\ call[c].date <= day
  BY DEF IInv, CallOK, DateOK, StampOrGrant, DateAsRead
<1>2. call[c].date \in Int /\ call[c].today \in Int /\ day \in Int
  BY <1>1, BoundsAssumption DEF IInv, TypeOK, CallStates
<1>3. QED
  BY <1>1, <1>2 DEF HeldOver

LEMMA StampOrGrantStep ==
    ASSUME IInv, NEW c \in Calls, StampOrGrant(c)
    PROVE  IInv'
<1>. DEFINE u == Op(c).user
<1>1. /\ call[c].pc = "read" /\ Op(c).op = "daily"
      /\ UNCHANGED <<booked, entries, tips, day, sweepVars>>
      /\ u \in Users /\ Op(c).column = "connects" /\ TypeOK /\ CallsOK /\ CallOK(c)
  BY OpType, TypeCalls DEF StampOrGrant, IInv, IsOperation
<1>2. CASE Advance(c) /\ UNCHANGED <<balance, lastGrant>>
  <2>1. UNCHANGED Tables
    BY <1>1, <1>2 DEF Tables
  <2>2. QED
    BY <1>1, <1>2, <2>1, SkipStep
<1>3. CASE /\ lastGrant' = [lastGrant EXCEPT ![u] = call[c].today]
           /\ \/ /\ Advance(c) /\ UNCHANGED balance
              \/ /\ call[c].columns.connects < DailyCap
                 /\ Add(u, "connects", GrantAmount(c)) /\ To(c, "moved")
  <2>1. /\ lastGrant' \in [Users -> 0 .. MaxDay \cup {NoDate}] /\ call[c].today \in 0 .. MaxDay
        /\ call[c].today <= day /\ day' = day
    BY <1>1, <1>3 DEF TypeOK, CallStates, CallOK, DateOK
  <2>2. GrantDatesOK'
    BY <1>1, <1>3, <2>1, DateAssumption DEF IInv, TypeOK, GrantDatesOK
  <2>3. TipsOK' /\ keys' = keys /\ keys \subseteq keys'
    <3>1. /\ \A d \in Calls : d # c => call'[d] = call[d]
          /\ call'[c].pc # "idle"
      <4>1. CASE Advance(c)
        BY <1>1, <4>1, AdvanceMoves
      <4>2. CASE To(c, "moved")
        <5>1. call'[c].pc = "moved" /\ \A d \in Calls : d # c => call'[d] = call[d]
          BY <1>1, <4>2, ToMoves
        <5>2. QED
          BY <5>1
      <4>3. QED
        BY <1>3, <4>1, <4>2
    <3>2. QED
      BY <1>1, <3>1, TipsStay, KeysStay
  <2>4. CASE Advance(c) /\ UNCHANGED balance
    <3>1. /\ CallsOK' /\ \A d \in Calls : d # c => call'[d] = call[d]
          /\ call'[c].pc \in {"next", "done"} /\ CallOK(c)'
      BY <1>1, <2>3, <2>4, AdvanceMoves, AdvanceOK
    <3>2. TypeOK'
      BY <1>1, <2>1, <2>4, <3>1 DEF TypeOK, CallsOK, sweepVars
    <3>3. \A d \in Calls : CallOK(d)'
      BY <1>1, <2>3, <3>1, <3>2, OthersOK DEF IInv
    <3>4. NeverNegative'
      BY <2>4 DEF IInv, NeverNegative
    <3>5. \A v \in Users, q \in Currencies :
              Held(v, q)' - Held(v, q)
                  = (booked'[v][q] - booked[v][q]) + (Share(c, v, q)' - Share(c, v, q))
      <4>1. SUFFICES ASSUME NEW v \in Users, NEW q \in Currencies
                     PROVE  Held(v, q)' - Held(v, q)
                                = (booked'[v][q] - booked[v][q]) + (Share(c, v, q)' - Share(c, v, q))
        OBVIOUS
      <4>2. Share(c, v, q)' = 0 /\ Share(c, v, q) = 0
        BY <1>1, <3>1 DEF Share, Unbooked
      <4>3. booked'[v][q] - booked[v][q] = 0 /\ Held(v, q)' - Held(v, q) = 0
        BY <1>1, <2>4 DEF TypeOK, Held, Total, Columns, Buckets
      <4>4. QED
        BY <4>2, <4>3
    <3>6. BalanceIsBooked'
      BY <1>1, <3>1, <3>2, <3>3, <3>5, BooksStep DEF IInv
    <3>7. QED
      BY <2>2, <2>3, <3>2, <3>3, <3>4, <3>6 DEF IInv
  <2>5. CASE /\ call[c].columns.connects < DailyCap
             /\ Add(u, "connects", GrantAmount(c)) /\ To(c, "moved")
    <3>1. /\ CallsOK' /\ \A d \in Calls : d # c => call'[d] = call[d]
          /\ call'[c] = [call[c] EXCEPT !.pc = "moved"]
          /\ call'[c].pc = "moved" /\ call'[c].at = call[c].at
      BY <1>1, <2>5, ToMoves
    <3>2. Op(c)' = Op(c) /\ call'[c].columns = call[c].columns
      BY <1>1, <3>1 DEF Op, TypeOK, CallStates
    <3>3. GrantAmount(c) \in Nat /\ GrantAmount(c)' = GrantAmount(c) /\ "connects" \in Columns
      BY <1>1, <2>5, <3>2, GrantBounds DEF GrantAmount, Columns
    <3>4. balance' \in [Users -> [Columns -> Int]]
      BY <1>1, <2>5, <3>3 DEF TypeOK, Add
    <3>5. TypeOK'
      BY <1>1, <2>1, <3>1, <3>4 DEF TypeOK, CallsOK, sweepVars
    <3>6. CallOK(c)'
      BY <1>1, <2>3, <2>5, <3>1, <3>2 DEF CallOK, PhaseOK, ReadOK, DateOK, EarlierBooked
    <3>7. \A d \in Calls : CallOK(d)'
      BY <1>1, <2>3, <3>1, <3>5, <3>6, OthersOK DEF IInv
    <3>8. NeverNegative'
      BY <1>1, <2>5, <3>3 DEF IInv, TypeOK, NeverNegative, Add
    <3>9. \A v \in Users, q \in Currencies :
              Held(v, q)' - Held(v, q)
                  = (booked'[v][q] - booked[v][q]) + (Share(c, v, q)' - Share(c, v, q))
      <4>1. SUFFICES ASSUME NEW v \in Users, NEW q \in Currencies
                     PROVE  Held(v, q)' - Held(v, q)
                                = (booked'[v][q] - booked[v][q]) + (Share(c, v, q)' - Share(c, v, q))
        OBVIOUS
      <4>2. Share(c, v, q) = 0
        BY <1>1 DEF Share, Unbooked
      <4>3. Share(c, v, q)' = IF v = u /\ q = "CONNECT" THEN GrantAmount(c) ELSE 0
        BY <1>1, <3>1, <3>2, <3>3 DEF Share, Unbooked, Moved, CurrencyOf
      <4>4. booked'[v][q] - booked[v][q] = 0
        BY <1>1 DEF TypeOK
      <4>5. Held(v, q)' - Held(v, q) = IF v = u /\ q = "CONNECT" THEN GrantAmount(c) ELSE 0
        <5>1. CurrencyOf("connects") = "CONNECT" /\ GrantAmount(c) \in Int
          BY <3>3 DEF CurrencyOf
        <5>2. QED
          BY <1>1, <2>5, <3>3, <5>1, AddHeld
      <4>6. QED
        BY <3>3, <4>2, <4>3, <4>4, <4>5
    <3>10. BalanceIsBooked'
      BY <1>1, <3>1, <3>5, <3>7, <3>9, BooksStep DEF IInv
    <3>11. QED
      BY <2>2, <2>3, <3>5, <3>7, <3>8, <3>10 DEF IInv
  <2>6. QED
    BY <1>3, <2>4, <2>5
<1>4. QED
  BY <1>2, <1>3 DEF StampOrGrant

LEMMA BookGrantStep ==
    ASSUME IInv, NEW c \in Calls, BookGrant(c)
    PROVE  IInv'
<1>1. /\ call[c].pc = "moved" /\ Op(c).op = "daily" /\ Advance(c)
      /\ BookEntry(Op(c).user, "CONNECT", GrantAmount(c))
      /\ UNCHANGED <<balance, lastGrant, entries, tips, day, sweepVars>>
      /\ Op(c).user \in Users /\ Op(c).column = "connects" /\ Op(c).key = NoKey
  BY OpType DEF BookGrant, IInv, IsOperation
<1>2. Moved(c) = GrantAmount(c) /\ CurrencyOf(Op(c).column) = "CONNECT" /\ "CONNECT" \in Currencies
  BY <1>1 DEF Moved, CurrencyOf, Currencies
<1>3. TipsOK'
  <2>1. call'[c].pc # "idle" /\ \A d \in Calls : d # c => call'[d] = call[d]
    BY <1>1, TypeCalls, AdvanceMoves DEF IInv
  <2>2. QED
    BY <1>1, <2>1, TipsStay
<1>4. UseKey(Op(c).key, Op(c).amount)
  BY <1>1 DEF UseKey
<1>5. QED
  BY <1>1, <1>2, <1>3, <1>4, EntryStep

LEMMA CheckTipStep ==
    ASSUME IInv, NEW c \in Calls, CheckTip(c)
    PROVE  IInv'
<1>1. call[c].pc = "next" /\ Op(c).op = "tipCheck" /\ UNCHANGED Tables
  BY DEF CheckTip, Tables
<1>2. Fail(c) \/ Advance(c)
  BY DEF CheckTip
<1>3. QED
  BY <1>1, <1>2, FailStep, SkipStep

LEMMA WriteTipStep ==
    ASSUME IInv, NEW c \in Calls, WriteTip(c)
    PROVE  IInv'
<1>1. /\ call[c].pc = "next" /\ Op(c).op = "tipRow"
      /\ UNCHANGED <<balance, lastGrant, booked, entries, day, sweepVars>>
      /\ TypeOK /\ CallsOK /\ CallOK(c)
  BY TypeCalls DEF WriteTip, IInv
<1>2. CASE Fail(c) /\ UNCHANGED tips
  <2>1. UNCHANGED Tables
    BY <1>1, <1>2 DEF Tables
  <2>2. QED
    BY <1>1, <1>2, <2>1, FailStep
<1>3. CASE tips' = tips \cup {Op(c).key} /\ Advance(c)
  <2>. DEFINE i == call[c].at
  <2>1. /\ CallsOK' /\ \A d \in Calls : d # c => call'[d] = call[d]
        /\ call'[c].pc \in {"next", "done"} /\ CallOK(c)'
    BY <1>1, <1>3, KeysStay, AdvanceMoves, AdvanceOK
  <2>2. TypeOK'
    BY <1>1, <2>1 DEF TypeOK, CallsOK, sweepVars
  <2>3. \A d \in Calls : CallOK(d)'
    BY <1>1, <2>1, <2>2, KeysStay, OthersOK DEF IInv
  <2>4. (GrantDatesOK /\ NeverNegative)'
    BY <1>1 DEF IInv, GrantDatesOK, NeverNegative
  <2>5. TipsOK'
    <3>0. SUFFICES ASSUME \A d \in Calls : TipsInOrder(Program[d])
                   PROVE  TipIsBacked' /\ DebitsOffered'
      BY DEF TipsOK
    <3>1. i \in 1 .. Len(Program[c]) /\ Op(c) = Program[c][i] /\ EarlierBooked(c)
          /\ DOMAIN Program[c] = 1 .. Len(Program[c]) /\ Len(Program[c]) \in Nat
      BY <1>1, OpType, ProgramAssumption DEF CallOK
    <3>2. /\ Op(c).key[1] = "tip" /\ i > 1 /\ Program[c][i - 1].op = "credit"
          /\ Program[c][i - 1].key = <<"tip_credit", Op(c).key[2]>>
      BY <1>1, <3>0, <3>1 DEF TipsInOrder
    <3>3. i - 1 \in 1 .. Len(Program[c]) /\ i - 1 < i
      BY <3>1, <3>2
    <3>4. Program[c][i - 1].key # NoKey
      BY <3>2 DEF NoKey
    <3>5. <<"tip_credit", Op(c).key[2]>> \in keys
      BY <3>1, <3>2, <3>3, <3>4 DEF EarlierBooked
    <3>6. /\ \A q, n : Offered(q, n) => Offered(q, n)'
          /\ entries' = entries /\ keys' = keys
      BY <1>1, <2>1, StillOffered DEF keys
    <3>7. TipIsBacked /\ DebitsOffered
      BY <3>0 DEF IInv, TipsOK
    <3>8. DebitsOffered'
      BY <3>6, <3>7 DEF DebitsOffered
    <3>9. \A k \in tips' : k[1] = "tip" => <<"tip_credit", k[2]>> \in keys'
      BY <1>3, <3>2, <3>5, <3>6, <3>7 DEF TipIsBacked
    <3>10. QED
      BY <3>6, <3>7, <3>8, <3>9 DEF TipIsBacked
  <2>6. \A v \in Users, q \in Currencies :
            Held(v, q)' - Held(v, q)
                = (booked'[v][q] - booked[v][q]) + (Share(c, v, q)' - Share(c, v, q))
    <3>1. SUFFICES ASSUME NEW v \in Users, NEW q \in Currencies
                   PROVE  Held(v, q)' - Held(v, q)
                              = (booked'[v][q] - booked[v][q]) + (Share(c, v, q)' - Share(c, v, q))
      OBVIOUS
    <3>2. Share(c, v, q)' = 0 /\ Share(c, v, q) = 0
      BY <1>1, <2>1 DEF Share, Unbooked
    <3>3. booked'[v][q] - booked[v][q] = 0 /\ Held(v, q)' - Held(v, q) = 0
      BY <1>1 DEF TypeOK, Held, Total, Columns, Buckets
    <3>4. QED
      BY <3>2, <3>3
  <2>7. BalanceIsBooked'
    BY <1>1, <2>1, <2>2, <2>3, <2>6, BooksStep DEF IInv
  <2>8. QED
    BY <2>2, <2>3, <2>4, <2>5, <2>7 DEF IInv
<1>4. QED
  BY <1>2, <1>3 DEF WriteTip

LEMMA CutStep ==
    ASSUME IInv, NEW c \in Calls, Cut(c)
    PROVE  IInv'
<1>1. call[c].pc \in {"next", "free", "dated", "read", "moved"} /\ UNCHANGED Tables
      /\ IF call[c].pc = "moved" THEN To(c, "lost") ELSE Fail(c)
  BY DEF Cut, Tables
<1>2. QED
  BY <1>1, FailStep, LoseStep

-----------------------------------------------------------------------------
(* The calendar and the reconciliation.                                    *)

LEMMA UnchangedDue ==
    ASSUME IInv, UNCHANGED <<balance, booked, call>>
    PROVE  BalanceIsBooked'
<1>1. \A u \in Users, m \in Currencies : Unbooked(u, m)' = Unbooked(u, m)
  BY DEF Unbooked, Op
<1>2. [c \in Calls |-> Moved(c)]' = [c \in Calls |-> Moved(c)]
  BY DEF Moved, Op, GrantAmount
<1>3. \A u \in Users, m \in Currencies : Due(u, m)' = Due(u, m) /\ Held(u, m)' = Held(u, m)
  BY <1>1, <1>2 DEF Due, Held
<1>4. QED
  BY <1>3 DEF IInv, BalanceIsBooked

LEMMA MidnightStep ==
    ASSUME IInv, Midnight
    PROVE  IInv'
<1>1. TypeOK'
  BY BoundsAssumption DEF Midnight, IInv, TypeOK, sweepVars
<1>2. \A c \in Calls : CallOK(c)'
  <2>1. SUFFICES ASSUME NEW c \in Calls PROVE CallOK(c)'
    OBVIOUS
  <2>2. call' = call /\ keys' = keys /\ day' = day + 1 /\ CallOK(c) /\ Op(c)' = Op(c)
    BY DEF Midnight, IInv, Op, keys
  <2>3. DateOK(c)'
    <3>1. call[c].today \in Int /\ day \in Int /\ (call[c].date # NoDate => call[c].date \in Int)
      BY DEF IInv, TypeOK, CallStates
    <3>2. QED
      BY <2>2, <3>1 DEF CallOK, DateOK
  <2>4. QED
    BY <2>2, <2>3 DEF CallOK, PhaseOK, ReadOK, EarlierBooked
<1>3. (NeverNegative /\ TipsOK)'
  BY DEF Midnight, IInv, NeverNegative, TipsOK, TipIsBacked, DebitsOffered, Offered, keys
<1>4. GrantDatesOK'
  <2>1. SUFFICES ASSUME NEW u \in Users
                 PROVE  /\ lastGrant[u] # NoDate => lastGrant[u] <= day + 1
                        /\ FirstDate[u] # NoDate => lastGrant[u] # NoDate
    BY DEF Midnight, GrantDatesOK
  <2>2. lastGrant[u] \in 0 .. MaxDay \cup {NoDate} /\ day \in 0 .. MaxDay
    BY DEF IInv, TypeOK
  <2>3. QED
    BY <2>2, BoundsAssumption DEF IInv, GrantDatesOK
<1>5. BalanceIsBooked'
  BY UnchangedDue DEF Midnight
<1>6. QED
  BY <1>1, <1>2, <1>3, <1>4, <1>5 DEF IInv

LEMMA SweepStep ==
    ASSUME IInv, SumEntries \/ CompareBalances
    PROVE  IInv'
<1>1. UNCHANGED <<balance, lastGrant, booked, entries, tips, day, call>>
  BY DEF SumEntries, CompareBalances
<1>2. TypeOK'
  <2>1. sweep' \in {"due", "summed", "done"} /\ sums' \in [Users -> [Currencies -> Int]]
    BY DEF SumEntries, CompareBalances, IInv, TypeOK
  <2>2. report' \subseteq Users \X Currencies
    BY DEF SumEntries, CompareBalances, IInv, TypeOK, Variances
  <2>3. QED
    BY <1>1, <2>1, <2>2 DEF IInv, TypeOK
<1>3. \A c \in Calls : CallOK(c)'
  BY <1>1 DEF IInv, CallOK, PhaseOK, ReadOK, DateOK, EarlierBooked, Op, keys
<1>4. (GrantDatesOK /\ NeverNegative /\ TipsOK)'
  BY <1>1 DEF IInv, GrantDatesOK, NeverNegative, TipsOK, TipIsBacked, DebitsOffered, Offered, keys
<1>5. BalanceIsBooked'
  BY <1>1, UnchangedDue
<1>6. QED
  BY <1>2, <1>3, <1>4, <1>5 DEF IInv

LEMMA StutterStep ==
    ASSUME IInv, UNCHANGED vars
    PROVE  IInv'
<1>1. UNCHANGED <<balance, lastGrant, booked, entries, tips, day, call, sweep, sums, report>>
  BY DEF vars
<1>2. TypeOK'
  BY <1>1 DEF IInv, TypeOK
<1>3. \A c \in Calls : CallOK(c)'
  BY <1>1 DEF IInv, CallOK, PhaseOK, ReadOK, DateOK, EarlierBooked, Op, keys
<1>4. (GrantDatesOK /\ NeverNegative /\ TipsOK)'
  BY <1>1 DEF IInv, GrantDatesOK, NeverNegative, TipsOK, TipIsBacked, DebitsOffered, Offered, keys
<1>5. BalanceIsBooked'
  BY <1>1, UnchangedDue
<1>6. QED
  BY <1>2, <1>3, <1>4, <1>5 DEF IInv

LEMMA InitIInv == Init => IInv
<1>. SUFFICES ASSUME Init PROVE IInv
  OBVIOUS
<1>. USE DEF Init
<1>1. /\ CallsOK
      /\ \A c \in Calls : call[c].pc = "idle" /\ call[c].at = 1
  BY FreshType, ProgramAssumption DEF CallsOK
<1>2. TypeOK
  <2>1. balance \in [Users -> [Columns -> Int]]
    BY OpeningAssumption
  <2>2. lastGrant \in [Users -> 0 .. MaxDay \cup {NoDate}] /\ day \in 0 .. MaxDay
    BY DateAssumption, BoundsAssumption
  <2>3. booked \in [Users -> [Currencies -> Int]]
    <3>1. \A u \in Users : Opening[u].connects \in Int /\ Total(Opening[u]) \in Int
      BY OpeningAssumption DEF Total, Columns, Buckets
    <3>2. QED
      BY <3>1
  <2>4. sums \in [Users -> [Currencies -> Int]] /\ report \subseteq Users \X Currencies
    OBVIOUS
  <2>5. QED
    BY <1>1, <2>1, <2>2, <2>3, <2>4 DEF TypeOK, CallsOK
<1>3. \A c \in Calls : CallOK(c)
  BY <1>1 DEF CallOK, PhaseOK, ReadOK, DateOK, EarlierBooked
<1>4. GrantDatesOK
  BY DateAssumption DEF GrantDatesOK
<1>5. NeverNegative /\ TipsOK
  BY OpeningAssumption DEF NeverNegative, TipsOK, TipIsBacked, DebitsOffered
<1>6. BalanceIsBooked
  <2>1. SUFFICES ASSUME NEW u \in Users, NEW m \in Currencies
                 PROVE  Held(u, m) = booked[u][m] + Due(u, m)
    BY DEF BalanceIsBooked
  <2>2. Unbooked(u, m) = {}
    BY <1>1 DEF Unbooked
  <2>3. Due(u, m) = 0
    BY <2>2, SumEmpty DEF Due
  <2>4. Held(u, m) = booked[u][m] /\ booked[u][m] \in Int
    BY <1>2 DEF Held, TypeOK, Currencies
  <2>5. QED
    BY <2>3, <2>4
<1>7. QED
  BY <1>2, <1>3, <1>4, <1>5, <1>6 DEF IInv

LEMMA NextIInv == IInv /\ [Next]_vars => IInv'
<1>. SUFFICES ASSUME IInv, [Next]_vars PROVE IInv'
  OBVIOUS
<1>1. ASSUME NEW c \in Calls, Start(c) \/ Cut(c) PROVE IInv'
  BY <1>1, StartStep, CutStep
<1>2. ASSUME NEW c \in Calls, Step(c) PROVE IInv'
  BY <1>2, ReplayStep, ApplyCreditStep, ReadBucketsStep, TakePartsStep, SpendConnectsStep, BookStep,
     FixTodayStep, ReadGrantDateStep, StampOrGrantStep, BookGrantStep, CheckTipStep, WriteTipStep DEF Step
<1>3. CASE Midnight
  BY <1>3, MidnightStep
<1>4. CASE SumEntries \/ CompareBalances
  BY <1>4, SweepStep
<1>5. CASE UNCHANGED vars
  BY <1>5, StutterStep
<1>6. QED
  BY <1>1, <1>2, <1>3, <1>4, <1>5 DEF Next

-----------------------------------------------------------------------------
(* The theorems.                                                           *)

\* The invariant: types, what each call knows, the grant dates and the books,
\* in every state of every interleaving, retry and cut (ledgerService).
THEOREM LedgerInvariance == Spec => []IInv
BY InitIInv, NextIInv, PTL DEF Spec

\* "makes a negative balance structurally impossible" (ledgerService): no
\* bucket is ever below zero, whichever debits, grants and spends interleave.
THEOREM NoNegativeBucket == Spec => []NeverNegative
<1>1. IInv => NeverNegative
  BY DEF IInv
<1>2. QED
  BY <1>1, LedgerInvariance, PTL

\* What a user holds is what the entries sum up to and exactly the updates whose
\* entry is due, was cut off or refused (ledgerReconciliationJob's equation).
THEOREM BooksExact == Spec => []BalanceIsBooked
<1>1. IInv => BalanceIsBooked
  BY DEF IInv
<1>2. QED
  BY <1>1, LedgerInvariance, PTL

\* The callers of the ledger.
IsHandler(program) ==
    \/ \E u, n : program \in {Hold(u, n), Reward(u, n), HoldRefund(u, n), AcceptSpend(u, n)}
    \/ \E u : program = GetWallet(u)
    \/ \E u, n, m : program = Signup(u, n, m)
    \/ \E u, n, column : program = AdjustWallet(u, n, column)
    \/ \E from, to, r, n : program = Tip(from, to, r, n)

LEMMA HandlersInOrder ==
    ASSUME NEW program, IsHandler(program)
    PROVE  TipsInOrder(program)
<1>. USE DEF TipsInOrder, Credit, Debit, Spend, GrantDaily, TipRow, NoKey
<1>1. CASE \E u, n : program \in {Hold(u, n), Reward(u, n), HoldRefund(u, n), AcceptSpend(u, n)}
  BY <1>1 DEF Hold, Reward, HoldRefund, AcceptSpend
<1>2. CASE \E u : program = GetWallet(u)
  BY <1>2 DEF GetWallet
<1>3. CASE \E u, n, m : program = Signup(u, n, m)
  BY <1>3 DEF Signup
<1>4. CASE \E u, n, column : program = AdjustWallet(u, n, column)
  BY <1>4 DEF AdjustWallet
<1>5. CASE \E from, to, r, n : program = Tip(from, to, r, n)
  BY <1>5 DEF Tip
<1>6. QED
  BY <1>1, <1>2, <1>3, <1>4, <1>5 DEF IsHandler

\* As long as the calls are those of the services, a creator is credited only
\* what some tip of the request offered, after the requester was debited what
\* one offered, the same if they all offer the same, and a Tip row stands for a
\* tip that arrived (tipService.tip).
THEOREM TipsPaid == (\A c \in Calls : IsHandler(Program[c])) => (Spec => []TipIsBacked)
<1>. SUFFICES ASSUME \A c \in Calls : IsHandler(Program[c])
              PROVE  Spec => []TipIsBacked
  OBVIOUS
<1>1. \A c \in Calls : TipsInOrder(Program[c])
  BY HandlersInOrder
<1>2. IInv => TipIsBacked
  BY <1>1 DEF IInv, TipsOK
<1>3. QED
  BY <1>2, LedgerInvariance, PTL

-----------------------------------------------------------------------------
(* The action properties.                                                  *)

LEMMA OneCallMoves ==
    ASSUME NEW d \in Calls, Start(d) \/ Step(d) \/ Cut(d), NEW c \in Calls, c # d, TypeOK
    PROVE  call'[c] = call[c]
<1>1. call \in [Calls -> CallStates]
  BY DEF TypeOK
<1>2. \A pc : To(d, pc) => call'[c] = call[c]
  BY <1>1 DEF To
<1>3. Fail(d) => call'[c] = call[c]
  BY <1>1 DEF Fail
<1>4. Advance(d) => call'[c] = call[c]
  BY <1>1 DEF Advance
<1>5. CASE ReadBuckets(d) \/ TakeParts(d) \/ FixToday(d) \/ ReadGrantDate(d)
  BY <1>1, <1>2, <1>3, <1>4, <1>5 DEF ReadBuckets, TakeParts, FixToday, ReadGrantDate
<1>6. CASE Start(d) \/ Cut(d) \/ Replay(d) \/ ApplyCredit(d) \/ SpendConnects(d) \/ Book(d)
  BY <1>2, <1>3, <1>4, <1>6 DEF Start, Cut, Replay, ApplyCredit, SpendConnects, Book
<1>7. CASE StampOrGrant(d) \/ BookGrant(d) \/ CheckTip(d) \/ WriteTip(d)
  BY <1>2, <1>3, <1>4, <1>7 DEF StampOrGrant, BookGrant, CheckTip, WriteTip
<1>8. QED
  BY <1>5, <1>6, <1>7 DEF Step

\* A call leaves the reading of the grant date for the grant in one way only.
LEMMA GrantedByStamp ==
    ASSUME IInv, Next, NEW c \in Calls, Op(c).op = "daily",
           call[c].pc = "read", call'[c].pc = "moved"
    PROVE  StampOrGrant(c) /\ DateAsRead(c, lastGrant[Op(c).user])
<1>1. call' # call
  OBVIOUS
<1>2. PICK d \in Calls : Start(d) \/ Step(d) \/ Cut(d)
  BY <1>1 DEF Next, Midnight, SumEntries, CompareBalances
<1>3. d = c
  BY <1>2, OneCallMoves DEF IInv
<1>4. ~Fail(c)
  <2>1. Fail(c) => call'[c].pc = "failed"
    BY TypeCalls, FailMoves DEF IInv
  <2>2. QED
    BY <2>1
<1>5. ~Start(c) /\ ~Cut(c)
  BY <1>4 DEF Start, Cut
<1>6. Step(c)
  BY <1>2, <1>3, <1>5
<1>7. StampOrGrant(c)
  BY <1>6 DEF Step, Replay, ApplyCredit, ReadBuckets, TakeParts, SpendConnects, Book, FixToday,
              ReadGrantDate, BookGrant, CheckTip, WriteTip, Ready
<1>8. ~Advance(c)
  <2>1. Advance(c) => call'[c].pc \in {"next", "done"}
    BY TypeCalls, AdvanceMoves DEF IInv
  <2>2. QED
    BY <2>1
<1>9. QED
  BY <1>7, <1>8 DEF StampOrGrant

\* Every grant to a user with a date on record moves that date on, with any
\* number of calls at once and at midnight, but for a call held over midnight
\* between the clock and the row (grantDailyConnectBonusIfDue).
THEOREM OneGrant == Spec => OneGrantADay
<1>1. IInv /\ [Next]_vars =>
        \A c \in Calls :
          Op(c).op = "daily" /\ call[c].pc = "read" /\ call'[c].pc = "moved"
              /\ FirstDate[Op(c).user] # NoDate /\ ~HeldOver(c) =>
                  lastGrant'[Op(c).user] > lastGrant[Op(c).user]
  <2>1. SUFFICES ASSUME IInv, [Next]_vars, NEW c \in Calls,
                        Op(c).op = "daily", call[c].pc = "read", call'[c].pc = "moved",
                        FirstDate[Op(c).user] # NoDate, ~HeldOver(c)
                 PROVE  lastGrant'[Op(c).user] > lastGrant[Op(c).user]
    OBVIOUS
  <2>2. Next
    BY <2>1 DEF vars
  <2>3. StampOrGrant(c) /\ DateAsRead(c, lastGrant[Op(c).user])
    BY <2>1, <2>2, GrantedByStamp
  <2>4. lastGrant[Op(c).user] < call[c].today
    BY <2>1, <2>3, GrantMovesDate
  <2>5. /\ lastGrant' = [lastGrant EXCEPT ![Op(c).user] = call[c].today]
        /\ Op(c).user \in Users
    BY <2>1, <2>3, OpType DEF StampOrGrant, IInv, IsOperation
  <2>6. lastGrant'[Op(c).user] = call[c].today
    BY <2>1, <2>5 DEF IInv, TypeOK
  <2>7. lastGrant[Op(c).user] \in Int /\ call[c].today \in Int
    BY <2>1, <2>5, BoundsAssumption DEF IInv, TypeOK, CallStates, GrantDatesOK
  <2>8. QED
    BY <2>4, <2>6, <2>7
<1>2. QED
  BY <1>1, LedgerInvariance, PTL DEF Spec, OneGrantADay

\* A debit of Credits that has no entry leaves a difference that nothing else
\* makes up for: only debits move Credits before their entry.
LEMMA UnbookedShows ==
    ASSUME IInv, NEW u \in Users, NEW m \in Currencies
    PROVE  /\ Unbooked(u, m) = {} => Due(u, m) = 0
           /\ m = "CREDIT" /\ Unbooked(u, m) # {} => Due(u, m) # 0
<1>. DEFINE F == [c \in Calls |-> Moved(c)]
            S == Unbooked(u, m)
<1>1. S = {} => Due(u, m) = 0
  BY SumEmpty DEF Due
<1>2. ASSUME m = "CREDIT", S # {} PROVE Due(u, m) # 0
  <2>1. ASSUME NEW c \in S PROVE F[c] \in Int /\ F[c] < 0
    <3>1. c \in Calls /\ call[c].pc \in {"moved", "lost"} /\ CurrencyOf(Op(c).column) = "CREDIT"
      BY <1>2 DEF Unbooked
    <3>2. Op(c).op = "debit" /\ Op(c).amount \in Nat \ {0}
      BY <3>1, OpType DEF IInv, CallOK, PhaseOK, IsOperation, CurrencyOf
    <3>3. QED
      BY <3>1, <3>2 DEF Moved
  <2>2. IsFiniteSet(S)
    BY CallsAssumption, FS_Subset DEF Unbooked
  <2>3. Due(u, m) = SumFunctionOnSet(F, S)
    BY DEF Due
  <2>4. QED
    <3>. HIDE DEF F, S
    <3>1. SumFunctionOnSet(F, S) \in Int /\ SumFunctionOnSet(F, S) < 0
      BY <1>2, <2>1, <2>2, SumInt, SumNegative
    <3>2. QED
      BY <2>3, <3>1
<1>3. QED
  BY <1>1, <1>2

\* The reconciliation reports a user's Credits exactly when a debit of theirs
\* has no entry, and Connects only when an update of theirs has none, as long
\* as no entry was written between its two reads (ledgerReconciliationJob).
THEOREM ReportExact == Spec => ReportIsExact
<1>1. IInv /\ [Next]_vars =>
        (sweep = "summed" /\ sweep' = "done" =>
          \A u \in Users, m \in Currencies :
              booked[u][m] = sums[u][m] =>
                  /\ <<u, m>> \in report' => Unbooked(u, m) # {}
                  /\ m = "CREDIT" /\ Unbooked(u, m) # {} => <<u, m>> \in report')
  <2>1. SUFFICES ASSUME IInv, [Next]_vars, sweep = "summed", sweep' = "done",
                        NEW u \in Users, NEW m \in Currencies, booked[u][m] = sums[u][m]
                 PROVE  /\ <<u, m>> \in report' => Unbooked(u, m) # {}
                        /\ m = "CREDIT" /\ Unbooked(u, m) # {} => <<u, m>> \in report'
    OBVIOUS
  <2>2. CompareBalances
    BY <2>1 DEF Next, vars, Midnight, SumEntries, Start, Cut, Step, Replay, ApplyCredit, ReadBuckets,
                TakeParts, SpendConnects, Book, FixToday, ReadGrantDate, StampOrGrant, BookGrant,
                CheckTip, WriteTip, sweepVars
  <2>3. <<u, m>> \in report' <=> booked[u][m] # Held(u, m)
    BY <2>1, <2>2 DEF CompareBalances, Variances
  <2>4. Held(u, m) = booked[u][m] + Due(u, m)
    BY <2>1 DEF IInv, BalanceIsBooked
  <2>5. booked[u][m] \in Int /\ Held(u, m) \in Int
    BY <2>1 DEF IInv, TypeOK, Held, Total, Columns, Buckets
  <2>6. Due(u, m) \in Int
    <3>1. \A c \in Unbooked(u, m) : Moved(c) \in Int
      BY <2>1, MovedInt DEF IInv, Phases, CallOK, AllMovedInt, Unbooked
    <3>2. IsFiniteSet(Unbooked(u, m)) /\ Unbooked(u, m) \subseteq Calls
      BY CallsAssumption, FS_Subset DEF Unbooked
    <3>. DEFINE F == [c \in Calls |-> Moved(c)]
                S == Unbooked(u, m)
    <3>3. (\A c \in S : F[c] \in Int) /\ IsFiniteSet(S) /\ Due(u, m) = SumFunctionOnSet(F, S)
      BY <3>1, <3>2 DEF Due
    <3>. HIDE DEF F, S
    <3>4. QED
      BY <3>3, SumInt
  <2>7. QED
    BY <2>1, <2>3, <2>4, <2>5, <2>6, UnbookedShows
<1>2. QED
  BY <1>1, LedgerInvariance, PTL DEF Spec, ReportIsExact
=============================================================================

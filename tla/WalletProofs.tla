---------------------------- MODULE WalletProofs ----------------------------
(***************************************************************************)
(* What Wallet guarantees for every set of users, every finite set of      *)
(* calls with any amounts and keys, and every opening balance: its three   *)
(* invariants.                                                             *)
(***************************************************************************)
EXTENDS Wallet, SumLemmas, TLAPS

-----------------------------------------------------------------------------
(* The inductive invariant.                                                *)

\* A call that has not ended, in this process or in the write of its answer.
Active == {"begin", "asked", "checked", "read", "paid", "answered"}

\* Where a call is once its money has moved.
Past == {"paid", "answered", "done", "cut"}

\* A row is there from its creation on, and no call about it runs before; a
\* confirmation acts on what Razorpay has said of its deposit.
RowsOK(c) ==
    /\ Job[c].op = "order" =>
           /\ status[c] # "none" => call[c].pc \notin {"idle", "begin"}
           /\ attempts[c] # {} => status[c] # "none"
    /\ Job[c].op = "withdraw" =>
           /\ payout[c] # "none" => call[c].pc \notin {"idle", "begin", "read", "checked"}
           /\ call[c].pc = "asked" => payout[c] # "none"
    /\ Job[c].op \in Confirming /\ call[c].pc # "idle" => status[Job[c].on] # "none"
    /\ Job[c].op \in Deciding /\ call[c].pc # "idle" => payout[Job[c].on] # "none"
    /\ Job[c].op = "failed" => call[c].outcome = "failed"
    /\ Job[c].op \in {"verify", "captured"} => call[c].outcome = "captured"
    /\ Job[c].op \in Confirming \ {"reconcile"} /\ call[c].pc # "idle" =>
           call[c].outcome \in attempts[Job[c].on]
    /\ Job[c].op = "reconcile" /\ call[c].pc \in {"checked", "read"} =>
           call[c].outcome \in attempts[Job[c].on]

\* A call counts as late or raced once, at the write that ends it.
OnceOK(c) == c \in late \cup raced => call[c].pc \in Past

\* A call about to debit has read a balance that covers the debit.
SawOK(c) ==
    /\ Job[c].op \in {"withdraw", "hold"} /\ call[c].pc \in {"read", "checked", "asked"} =>
           call[c].saw >= Debited(c)
    /\ Job[c].op \in {"tip", "approve"} /\ call[c].pc = "read" => call[c].saw >= Debited(c)

\* A call about a row already settled never gets beyond its first look at it.
BehindOK(c) ==
    c \in behind =>
        /\ Settled(c) /\ c \notin late
        /\ call[c].pc \in {"begin", "answered", "done", "cut"}

CallOK(c) == RowsOK(c) /\ OnceOK(c) /\ SawOK(c) /\ BehindOK(c)

\* Under a key without an outage, a crash or two calls at once there is one call
\* at a time, its answer will be stored, and after a payout the key is answered
\* from the cache.
KeyOK(k) ==
    k \notin risky =>
        /\ \A c, d \in Running(k) : c = d
        /\ \A c \in Running(k) : call[c].stored /\ k \notin cache
        /\ \A p \in Payouts :
              Job[p].key = k /\ payout[p] # "none" => p \in Running(k) \/ k \in cache
        /\ \A p, q \in Payouts :
              Job[p].key = k /\ payout[p] # "none" /\ Job[q].key = k /\ payout[q] # "none" => p = q

\* Only an answer under a key is stored.
StoredOK ==
    \A c \in Calls :
        /\ call[c].stored => Job[c].key # NoKey
        /\ call[c].pc = "answered" => call[c].stored

Books == \A u \in Users : Explained(u)

IInv ==
    /\ TypeOK
    /\ StoredOK
    /\ \A c \in Calls : CallOK(c)
    /\ \A k \in Keys : KeyOK(k)
    /\ Books
    /\ \A d \in Deposits : Confirmed(d)
    /\ OverdraftIsRaced

-----------------------------------------------------------------------------
(* Jobs, and the positions of calls.                                       *)

LEMMA JobType ==
    ASSUME NEW c \in Calls
    PROVE  /\ Job[c].user \in Users /\ Job[c].amount \in Nat
           /\ Debtor(c) \in Users /\ Debited(c) \in Nat
           /\ c \in Deposits <=> Job[c].op = "order"
           /\ c \in Payouts <=> Job[c].op = "withdraw"
           /\ Job[c].op \in Confirming => Job[c].on \in Deposits /\ Job[c].on \in Calls
           /\ Job[c].op \in Deciding => Job[c].on \in Payouts /\ Job[c].on \in Calls
<1>1. Deposits \in SUBSET Calls /\ Payouts \in SUBSET Calls
  BY DEF Deposits, Payouts, Of
<1>2. QED
  BY <1>1, JobAssumption DEF Debtor, Debited, Deposits, Payouts, Of, Deciding

\* Only call c moves, and its answer is stored or not as before.
Moves(c) ==
    /\ call' \in [Calls -> CallStates]
    /\ \A d \in Calls : d # c => call'[d] = call[d]
    /\ call'[c].stored = call[c].stored
    /\ call'[c].pc = "answered" => call[c].stored

LEMMA ToMoves ==
    ASSUME TypeOK, NEW c \in Calls, NEW pc, To(c, pc),
           pc \in Active \cup {"done", "cut"}, pc = "answered" => call[c].stored
    PROVE  /\ Moves(c) /\ call'[c].pc = pc
           /\ call'[c].saw = call[c].saw /\ call'[c].outcome = call[c].outcome
BY DEF TypeOK, To, CallStates, Moves, Active

LEMMA AnswerMoves ==
    ASSUME TypeOK, NEW c \in Calls, Answer(c)
    PROVE  /\ Moves(c) /\ call'[c].pc \in {"answered", "done"}
           /\ call'[c].pc = "done" => ~call[c].stored
           /\ call'[c].saw = call[c].saw /\ call'[c].outcome = call[c].outcome
<1>1. /\ Answered(c) \in {"answered", "done"} /\ (Answered(c) = "done" => ~call[c].stored)
      /\ Answered(c) = "answered" => call[c].stored
  BY DEF Answered
<1>2. QED
  BY <1>1, ToMoves DEF Answer, Active

\* A call reads the balance u and goes on.
LEMMA ReadMoves ==
    ASSUME TypeOK, NEW c \in Calls, NEW u \in Users,
           call' = [call EXCEPT ![c].pc = "read", ![c].saw = balance[u]]
    PROVE  /\ Moves(c) /\ call'[c].pc = "read" /\ call'[c].saw = balance[u]
           /\ call'[c].outcome = call[c].outcome
BY DEF TypeOK, CallStates, Moves

-----------------------------------------------------------------------------
(* Deposits and how often they were credited.                              *)

LEMMA IncrementsType ==
    ASSUME TypeOK, NEW d \in Deposits
    PROVE  Increments(d) \in Nat
<1>1. IsFiniteSet(late \cap Confirmations(d))
  BY CallsAssumption, FS_Subset DEF TypeOK
<1>2. Cardinality(late \cap Confirmations(d)) \in Nat
  BY <1>1, FS_CardinalityType
<1>3. QED
  BY <1>2 DEF Increments

\* A confirmation that is too late counts once more.
LEMMA LateCounts ==
    ASSUME TypeOK, NEW d \in Deposits, NEW c \in Calls, c \notin late, late' = late \cup {c},
           status'[d] = status[d]
    PROVE  Increments(d)' = Increments(d) + (IF c \in Confirmations(d) THEN 1 ELSE 0)
<1>. DEFINE A == late \cap Confirmations(d)
            B == late' \cap Confirmations(d)
<1>1. IsFiniteSet(A)
  BY CallsAssumption, FS_Subset DEF TypeOK
<1>2. Cardinality(A) \in Nat
  BY <1>1, FS_CardinalityType
<1>. DEFINE success == IF status[d] = "SUCCESS" THEN 1 ELSE 0
<1>6. success \in Nat /\ Increments(d) = success + Cardinality(A)
      /\ Increments(d)' = success + Cardinality(B)
  BY DEF Increments, Confirmations, Of
<1>. HIDE DEF success
<1>3. CASE c \in Confirmations(d)
  <2>1. B = A \cup {c} /\ c \notin A
    BY <1>3
  <2>2. Cardinality(B) = Cardinality(A) + 1
    BY <1>1, <2>1, FS_AddElement
  <2>3. QED
    BY <1>2, <1>3, <1>6, <2>2
<1>4. CASE c \notin Confirmations(d)
  <2>1. B = A
    BY <1>4
  <2>2. QED
    <3>. HIDE DEF A, B
    <3>. QED  BY <1>2, <1>4, <1>6, <2>1
<1>5. QED
  BY <1>3, <1>4

LEMMA SameIncrements ==
    ASSUME NEW d \in Deposits, late' = late, status'[d] = status[d]
    PROVE  Increments(d)' = Increments(d)
BY DEF Increments, Confirmations, Of

\* The deposits of a user, as they were credited.
Credited(u) ==
    SumFunctionOnSet([d \in Deposits |-> Job[d].amount * Increments(d)],
                     {d \in Deposits : Job[d].user = u})

LEMMA CreditedInt ==
    ASSUME TypeOK, NEW u \in Users
    PROVE  Credited(u) \in Int
<1>. DEFINE F == [d \in Deposits |-> Job[d].amount * Increments(d)]
            S == {d \in Deposits : Job[d].user = u}
<1>1. IsFiniteSet(S)
  BY CallsAssumption, FS_Subset DEF Deposits, Of
<1>2. \A d \in S : F[d] \in Int
  <2>1. SUFFICES ASSUME NEW d \in Deposits PROVE Job[d].amount * Increments(d) \in Int
    OBVIOUS
  <2>2. Job[d].amount \in Nat /\ Increments(d) \in Nat
    BY JobType, IncrementsType DEF Deposits, Of
  <2>3. QED
    BY <2>2
<1>3. Credited(u) = SumFunctionOnSet(F, S)
  BY DEF Credited
<1>. HIDE DEF F, S
<1>4. QED
  BY <1>1, <1>2, <1>3, SumInt

LEMMA CreditedSame ==
    ASSUME NEW u \in Users, \A d \in Deposits : Increments(d)' = Increments(d)
    PROVE  Credited(u)' = Credited(u)
BY DEF Credited, Deposits, Of

LEMMA CreditedOnce ==
    ASSUME TypeOK, TypeOK', NEW d \in Deposits, Increments(d)' = Increments(d) + 1,
           \A e \in Deposits : e # d => Increments(e)' = Increments(e), NEW u \in Users
    PROVE  Credited(u)' = Credited(u) + (IF Job[d].user = u THEN Job[d].amount ELSE 0)
<1>. DEFINE F == [e \in Deposits |-> Job[e].amount * Increments(e)]
            G == [e \in Deposits |-> Job[e].amount * Increments(e)']
            S == {e \in Deposits : Job[e].user = u}
<1>1. IsFiniteSet(S)
  BY CallsAssumption, FS_Subset DEF Deposits, Of
<1>2. \A e \in Deposits : F[e] \in Int /\ (e # d => G[e] = F[e])
  <2>1. SUFFICES ASSUME NEW e \in Deposits
                 PROVE  /\ Job[e].amount * Increments(e) \in Int
                        /\ e # d => Increments(e)' = Increments(e)
    OBVIOUS
  <2>2. Job[e].amount \in Nat /\ Increments(e) \in Nat
    BY JobType, IncrementsType DEF Deposits, Of
  <2>3. QED
    BY <2>2
<1>3. F[d] \in Int /\ G[d] = F[d] + Job[d].amount /\ Job[d].amount \in Int
  <2>1. Job[d].amount \in Nat /\ Increments(d) \in Nat
    BY JobType, IncrementsType DEF Deposits, Of
  <2>2. \A a, n \in Nat : a * n \in Int /\ a * (n + 1) = a * n + a
    OBVIOUS
  <2>3. F[d] = Job[d].amount * Increments(d) /\ G[d] = Job[d].amount * (Increments(d) + 1)
    OBVIOUS
  <2>4. QED
    <3>. HIDE DEF F, G
    <3>. QED  BY <2>1, <2>2, <2>3
<1>4. Credited(u) = SumFunctionOnSet(F, S) /\ Credited(u)' = SumFunctionOnSet(G, S)
  BY DEF Credited, Deposits, Of
<1>5. (d \in S <=> Job[d].user = u) /\ S \in SUBSET Deposits
  OBVIOUS
<1>. HIDE DEF F, G, S
<1>6. SumFunctionOnSet(F, S) \in Int
  BY <1>1, <1>2, <1>5, SumInt
<1>7. CASE d \in S
  <2>1. SumFunctionOnSet(G, S) = SumFunctionOnSet(F, S) + (G[d] - F[d])
    <3>1. \A x \in S : F[x] \in Int
      BY <1>2, <1>5
    <3>2. G[d] \in Int /\ \A x \in S : x # d => G[x] = F[x]
      BY <1>2, <1>3, <1>5
    <3>3. QED
      BY <1>1, <1>7, <3>1, <3>2, SumChange
  <2>2. QED
    BY <1>3, <1>4, <1>5, <1>6, <1>7, <2>1
<1>8. CASE d \notin S
  <2>1. \A x \in S : F[x] = G[x]
    BY <1>2, <1>5, <1>8
  <2>2. QED
    BY <1>1, <1>4, <1>5, <1>6, <1>8, <2>1, SumAgree
<1>9. QED
  BY <1>7, <1>8

\* The books of a step that credits deposit d and of one that credits none.
LEMMA DepositBooks ==
    ASSUME TypeOK, TypeOK', Books, NEW d \in Deposits,
           Increments(d)' = Increments(d) + 1,
           \A e \in Deposits : e # d => Increments(e)' = Increments(e),
           balance' = [balance EXCEPT ![Job[d].user] = @ + Job[d].amount], rows' = rows
    PROVE  Books'
<1>1. SUFFICES ASSUME NEW u \in Users
               PROVE  balance'[u] = Opening[u] + rows'[u] + Credited(u)'
  BY DEF Books, Explained, Credited
<1>2. balance[u] = Opening[u] + rows[u] + Credited(u)
  BY DEF Books, Explained, Credited
<1>3. Credited(u)' = Credited(u) + (IF Job[d].user = u THEN Job[d].amount ELSE 0)
  BY CreditedOnce
<1>4. Credited(u) \in Int /\ Opening[u] \in Int /\ rows[u] \in Int /\ balance[u] \in Int
  <2>1. Credited(u) \in Int
    BY CreditedInt
  <2>2. rows[u] \in Int /\ balance[u] \in Int
    BY DEF TypeOK
  <2>3. QED
    BY <2>1, <2>2, OpeningAssumption
<1>5. Job[d].amount \in Nat /\ Job[d].user \in Users
  BY JobType DEF Deposits, Of
<1>6. QED
  BY <1>2, <1>3, <1>4, <1>5 DEF TypeOK

LEMMA SameBooks ==
    ASSUME TypeOK, TypeOK', Books,
           \A e \in Deposits : Increments(e)' = Increments(e),
           \A u \in Users : balance'[u] - rows'[u] = balance[u] - rows[u]
    PROVE  Books'
<1>1. SUFFICES ASSUME NEW u \in Users
               PROVE  balance'[u] = Opening[u] + rows'[u] + Credited(u)'
  BY DEF Books, Explained, Credited
<1>2. balance[u] = Opening[u] + rows[u] + Credited(u)
  BY DEF Books, Explained, Credited
<1>3. Credited(u)' = Credited(u)
  BY CreditedSame
<1>4. Credited(u) \in Int /\ Opening[u] \in Int /\ rows[u] \in Int /\ balance[u] \in Int
      /\ rows'[u] \in Int /\ balance'[u] \in Int
  BY CreditedInt, OpeningAssumption DEF TypeOK
<1>5. balance'[u] - rows'[u] = balance[u] - rows[u]
  OBVIOUS
<1>6. QED
  BY <1>2, <1>3, <1>4, <1>5

-----------------------------------------------------------------------------
(* Overdrafts.                                                             *)

\* What raced out of the wallet of a user.
Raced(u) == SumFunctionOnSet([c \in Calls |-> Debited(c)], {c \in raced : Debtor(c) = u})

LEMMA RacedNat ==
    ASSUME TypeOK, NEW u \in Users
    PROVE  Raced(u) \in Nat
<1>. DEFINE F == [c \in Calls |-> Debited(c)]
            S == {c \in raced : Debtor(c) = u}
<1>1. IsFiniteSet(S) /\ S \in SUBSET Calls
  BY CallsAssumption, FS_Subset DEF TypeOK
<1>2. \A c \in Calls : F[c] \in Nat
  BY JobType
<1>3. Raced(u) = SumFunctionOnSet(F, S)
  BY DEF Raced
<1>. HIDE DEF F, S
<1>4. QED
  BY <1>1, <1>2, <1>3, SumNat

RacedAreNat == \A u \in Users : Raced(u) \in Nat

LEMMA RacedTyped == TypeOK => RacedAreNat
BY RacedNat DEF RacedAreNat

\* A step that debits nobody.
LEMMA SameOverdraft ==
    ASSUME TypeOK, TypeOK', OverdraftIsRaced, raced' = raced,
           \A u \in Users : balance'[u] >= balance[u]
    PROVE  OverdraftIsRaced'
<1>1. SUFFICES ASSUME NEW u \in Users PROVE balance'[u] + Raced(u)' >= 0
  BY DEF OverdraftIsRaced, Raced
<1>2. Raced(u)' = Raced(u) /\ Raced(u) \in Nat
  <2>1. Raced(u)' = Raced(u)
    BY DEF Raced, Debited, Debtor
  <2>2. QED
    BY <2>1, RacedNat
<1>3. balance[u] + Raced(u) >= 0
  BY DEF OverdraftIsRaced, Raced
<1>4. balance[u] \in Int /\ balance'[u] \in Int /\ balance'[u] >= balance[u]
  BY DEF TypeOK
<1>5. QED
  BY <1>2, <1>3, <1>4

\* A debit that the balance does not cover is counted as raced.
Counted(c) ==
    \/ raced' = raced \cup {c}
    \/ raced' = raced /\ balance[Debtor(c)] >= Debited(c)

\* So is one by a call that read a balance covering it.
LEMMA SawCounted ==
    ASSUME TypeOK, NEW c \in Calls, call[c].saw >= Debited(c), MarkRaced(c)
    PROVE  Counted(c)
<1>1. call[c].saw \in Int /\ balance[Debtor(c)] \in Int /\ Debited(c) \in Int
  BY JobType DEF TypeOK, CallStates
<1>2. QED
  BY <1>1 DEF Counted, MarkRaced

LEMMA DebitOverdraft ==
    ASSUME TypeOK, TypeOK', OverdraftIsRaced, NEW c \in Calls, c \notin raced,
           Counted(c), Debit(Debtor(c), Debited(c))
    PROVE  OverdraftIsRaced'
<1>. DEFINE F == [d \in Calls |-> Debited(d)]
            v == Debtor(c)
<1>1. SUFFICES ASSUME NEW u \in Users PROVE balance'[u] + Raced(u)' >= 0
  BY DEF OverdraftIsRaced, Raced
<1>2. Raced(u) \in Nat /\ Raced(u)' \in Nat
  <2>1. RacedAreNat /\ RacedAreNat'
    BY RacedTyped, PTL
  <2>2. QED
    BY <2>1 DEF RacedAreNat
<1>3. /\ v \in Users /\ Debited(c) \in Nat /\ balance[v] \in Int
      /\ balance[u] \in Int /\ balance' = [balance EXCEPT ![v] = @ - Debited(c)]
  BY JobType DEF TypeOK, Debit
<1>4. balance[u] + Raced(u) >= 0
  BY DEF OverdraftIsRaced, Raced
<1>5. CASE raced' = raced \cup {c}
  <2>2. Raced(u)' = Raced(u) + (IF v = u THEN Debited(c) ELSE 0)
    <3>. DEFINE S == {d \in raced : Debtor(d) = u}
                T == {d \in raced' : Debtor(d) = u}
    <3>1. IsFiniteSet(S) /\ S \in SUBSET Calls
      BY CallsAssumption, FS_Subset DEF TypeOK
    <3>2. Raced(u) = SumFunctionOnSet(F, S) /\ Raced(u)' = SumFunctionOnSet(F, T)
      BY DEF Raced, Debited, Debtor
    <3>3. (v = u => T = S \cup {c}) /\ (v # u => T = S) /\ c \notin S
      BY <1>5
    <3>4. F[c] = Debited(c) /\ F[c] \in Int /\ \A x \in S : F[x] \in Int
      BY <3>1, JobType
    <3>. HIDE DEF F, S, T, v
    <3>5. CASE v = u
      <4>1. SumFunctionOnSet(F, S \cup {c}) = F[c] + SumFunctionOnSet(F, S)
        BY <3>1, <3>3, <3>4, SumPutIn
      <4>2. Raced(u)' = F[c] + Raced(u)
        BY <3>2, <3>3, <3>5, <4>1
      <4>3. QED
        BY <1>2, <1>3, <3>4, <3>5, <4>2
    <3>6. CASE v # u
      BY <1>2, <3>2, <3>3, <3>6
    <3>7. QED
      BY <3>5, <3>6
  <2>3. QED
    BY <1>2, <1>3, <1>4, <2>2
<1>6. CASE raced' = raced /\ balance[v] >= Debited(c)
  <2>1. Raced(u)' = Raced(u)
    BY <1>6 DEF Raced, Debited, Debtor
  <2>2. QED
    BY <1>2, <1>3, <1>4, <1>6, <2>1
<1>7. QED
  BY <1>5, <1>6 DEF Counted

-----------------------------------------------------------------------------
(* What a step of one call leaves to the others.                           *)

\* Rows are created by the call they are named after and stay, and what is
\* settled stays settled, on Razorpay's word alone.
Grows(c) ==
    /\ \A d \in Deposits :
          /\ status'[d] = "SUCCESS" => status[d] = "SUCCESS" \/ "captured" \in attempts[d]
          /\ status'[d] = "FAILED" => status[d] = "FAILED" \/ "failed" \in attempts[d]
          /\ status[d] # "none" => status'[d] # "none"
          /\ status'[d] # "none" => status[d] # "none" \/ d = c
          /\ status[d] \in {"SUCCESS", "FAILED"} => status'[d] \in {"SUCCESS", "FAILED"}
    /\ \A p \in Payouts :
          /\ payout[p] # "none" => payout'[p] # "none"
          /\ payout'[p] # "none" => payout[p] # "none" \/ p = c
          /\ payout[p] \in {"APPROVED", "REJECTED"} => payout'[p] \in {"APPROVED", "REJECTED"}
    /\ tips \subseteq tips'

LEMMA SettledStays ==
    ASSUME NEW c, Grows(c), NEW d \in Calls, Settled(d)
    PROVE  Settled(d)'
<1>1. CASE Job[d].op \in Confirming
  BY <1>1, JobType DEF Settled, Grows
<1>2. CASE Job[d].op \notin Confirming /\ Job[d].op \in Deciding
  BY <1>2, JobType DEF Settled, Grows
<1>3. CASE Job[d].op \notin Confirming /\ Job[d].op \notin Deciding
  BY <1>3 DEF Settled, Grows
<1>4. QED
  BY <1>1, <1>2, <1>3

LEMMA OthersOK ==
    ASSUME \A d \in Calls : CallOK(d), NEW c \in Calls,
           \A d \in Calls : d # c => call'[d] = call[d], Grows(c), attempts' = attempts,
           late' \subseteq late \cup {c}, raced' \subseteq raced \cup {c},
           behind' \subseteq behind \cup {c}, CallOK(c)'
    PROVE  \A d \in Calls : CallOK(d)'
<1>1. SUFFICES ASSUME NEW d \in Calls, d # c PROVE CallOK(d)'
  OBVIOUS
<1>2. call'[d] = call[d] /\ CallOK(d)
  BY <1>1
<1>3. RowsOK(d)'
  <2>1. (d \in Deposits <=> Job[d].op = "order") /\ (d \in Payouts <=> Job[d].op = "withdraw")
        /\ (Job[d].op \in Confirming => Job[d].on \in Deposits)
        /\ (Job[d].op \in Deciding => Job[d].on \in Payouts)
    BY JobType
  <2>2. QED
    BY <1>1, <1>2, <2>1 DEF CallOK, RowsOK, Grows
<1>4. OnceOK(d)' /\ SawOK(d)'
  BY <1>1, <1>2 DEF CallOK, OnceOK, SawOK, Debited
<1>5. BehindOK(d)'
  <2>1. Settled(d) => Settled(d)'
    BY SettledStays
  <2>2. QED
    BY <1>1, <1>2, <2>1 DEF CallOK, BehindOK
<1>6. QED
  BY <1>3, <1>4, <1>5 DEF CallOK

\* A call that goes on, or whose answer is not stored, leaves its key in order,
\* and so does one that is no withdrawal.
LEMMA KeysStep ==
    ASSUME \A k \in Keys : KeyOK(k), NEW c \in Calls, Moves(c),
           call[c].pc \in Active,
           call'[c].pc \in Active \/ ~call[c].stored \/ Job[c].op # "withdraw",
           \A p \in Payouts : payout'[p] # "none" => payout[p] # "none" \/ p = c,
           cache' = cache, risky' = risky
    PROVE  \A k \in Keys : KeyOK(k)'
<1>1. SUFFICES ASSUME NEW k \in Keys, k \notin risky PROVE KeyOK(k)'
  BY DEF KeyOK
<1>2. /\ \A d, e \in Running(k) : d = e
      /\ \A d \in Running(k) : call[d].stored /\ k \notin cache
      /\ \A p \in Payouts :
            Job[p].key = k /\ payout[p] # "none" => p \in Running(k) \/ k \in cache
      /\ \A p, q \in Payouts :
            Job[p].key = k /\ payout[p] # "none" /\ Job[q].key = k /\ payout[q] # "none" => p = q
  BY <1>1 DEF KeyOK
<1>3. Running(k)' \subseteq Running(k)
  BY DEF Running, Moves, Active
<1>4. \A d \in Running(k) : d \in Payouts => d \in Running(k)'
  <2>1. SUFFICES ASSUME NEW d \in Running(k), d \in Payouts PROVE d \in Running(k)'
    OBVIOUS
  <2>2. d \in Calls /\ Job[d].key = k /\ Job[d].op = "withdraw"
    BY <2>1, JobType DEF Running
  <2>3. CASE d # c
    BY <2>2, <2>3 DEF Running, Moves
  <2>4. CASE d = c
    BY <1>2, <2>2, <2>4 DEF Running, Active
  <2>5. QED
    BY <2>3, <2>4
<1>5. c \in Payouts /\ Job[c].key = k => c \in Running(k) /\ c \in Running(k)'
  BY <1>4 DEF Running, Active
<1>6. \A d \in Running(k)' : call'[d].stored /\ k \notin cache'
  BY <1>2, <1>3 DEF Moves, Running
<1>7. \A p \in Payouts :
          Job[p].key = k /\ payout'[p] # "none" => p \in Running(k)' \/ k \in cache'
  BY <1>2, <1>4, <1>5
<1>8. \A p, q \in Payouts :
          Job[p].key = k /\ payout'[p] # "none" /\ Job[q].key = k /\ payout'[q] # "none" => p = q
  <2>1. SUFFICES ASSUME NEW q \in Payouts, Job[q].key = k, payout[q] # "none",
                        c \in Payouts, Job[c].key = k
                 PROVE  q = c
    BY <1>2
  <2>2. c \in Running(k) /\ k \notin cache
    BY <1>2, <1>5, <2>1
  <2>3. QED
    BY <1>2, <2>1, <2>2
<1>9. \A d, e \in Running(k)' : d = e
  BY <1>2, <1>3
<1>10. QED
  BY <1>6, <1>7, <1>8, <1>9 DEF KeyOK

LEMMA StepOK ==
    ASSUME IInv, NEW c \in Calls, Moves(c), call[c].pc \in Active,
           call'[c].pc \in Active \/ ~call[c].stored \/ Job[c].op # "withdraw",
           attempts' = attempts, UNCHANGED middleware, Grows(c),
           late' \subseteq late \cup {c}, raced' \subseteq raced \cup {c},
           CallOK(c)', TypeOK', Books', OverdraftIsRaced'
    PROVE  IInv'
<1>1. \A d \in Calls : CallOK(d)'
  BY OthersOK DEF IInv, Moves, middleware
<1>2. \A k \in Keys : KeyOK(k)'
  <2>1. \A p \in Payouts : payout'[p] # "none" => payout[p] # "none" \/ p = c
    BY DEF Grows
  <2>2. QED
    BY <2>1, KeysStep DEF IInv, middleware
<1>3. StoredOK'
  BY DEF IInv, StoredOK, Moves
<1>4. \A d \in Deposits : Confirmed(d)'
  BY DEF IInv, Confirmed, Grows
<1>5. QED
  BY <1>1, <1>2, <1>3, <1>4 DEF IInv

\* Only the call moves.
Quiet == UNCHANGED <<tables, attempts, late, raced, middleware>>

LEMMA QuietStep ==
    ASSUME IInv, NEW c \in Calls, Moves(c), call[c].pc \in Active,
           call'[c].pc \in Active \/ ~call[c].stored \/ Job[c].op # "withdraw",
           Quiet, CallOK(c)'
    PROVE  IInv'
<1>. USE DEF Quiet, tables, middleware
<1>1. TypeOK'
  BY DEF IInv, TypeOK, Moves
<1>2. Grows(c)
  BY DEF Grows
<1>3. Books'
  <2>1. \A e \in Deposits : Increments(e)' = Increments(e)
    BY SameIncrements
  <2>2. \A u \in Users : balance'[u] - rows'[u] = balance[u] - rows[u]
    OBVIOUS
  <2>3. QED
    BY <1>1, <2>1, <2>2, SameBooks DEF IInv
<1>4. OverdraftIsRaced'
  <2>1. \A u \in Users : balance'[u] >= balance[u]
    BY DEF IInv, TypeOK
  <2>2. QED
    BY <1>1, <2>1, SameOverdraft DEF IInv
<1>5. QED
  BY <1>1, <1>2, <1>3, <1>4, StepOK

\* A call that answers has nothing more to do.
LEMMA AnsweredOK ==
    ASSUME TypeOK, NEW c \in Calls, CallOK(c), call[c].pc \in Active, Answer(c), Grows(c),
           attempts' = attempts, behind' = behind, c \in behind => c \notin late'
    PROVE  CallOK(c)'
<1>1. /\ call'[c].pc \in {"answered", "done"} /\ call'[c].outcome = call[c].outcome
  BY AnswerMoves
<1>2. RowsOK(c)'
  <2>1. (c \in Deposits <=> Job[c].op = "order") /\ (c \in Payouts <=> Job[c].op = "withdraw")
        /\ (Job[c].op \in Confirming => Job[c].on \in Deposits)
        /\ (Job[c].op \in Deciding => Job[c].on \in Payouts)
    BY JobType
  <2>2. QED
    BY <1>1, <2>1 DEF CallOK, RowsOK, Grows, Active
<1>3. OnceOK(c)' /\ SawOK(c)'
  BY <1>1 DEF OnceOK, SawOK, Past
<1>4. BehindOK(c)'
  <2>1. Settled(c) => Settled(c)'
    BY SettledStays
  <2>2. QED
    BY <1>1, <2>1 DEF CallOK, BehindOK
<1>5. QED
  BY <1>2, <1>3, <1>4 DEF CallOK

LEMMA AnswerStep ==
    ASSUME IInv, NEW c \in Calls, call[c].pc \in Active, Answer(c), Quiet
    PROVE  IInv'
<1>1. Moves(c) /\ (call'[c].pc \in Active \/ ~call[c].stored)
  BY AnswerMoves DEF IInv, Active
<1>2. Grows(c) /\ attempts' = attempts /\ behind' = behind /\ late' = late /\ status' = status
  BY DEF Quiet, tables, middleware, Grows
<1>3. CallOK(c) /\ TypeOK
  BY DEF IInv
<1>4. CallOK(c)'
  <2>1. c \in behind => c \notin late'
    BY <1>2, <1>3 DEF CallOK, BehindOK
  <2>2. QED
    BY <1>2, <1>3, <2>1, AnsweredOK
<1>5. QED
  BY <1>1, <1>4, QuietStep

-----------------------------------------------------------------------------
(* The actions that only move the call.                                    *)

\* What CallOK(c) says of c comes from the row it is about.
LEMMA CallFacts ==
    ASSUME IInv, NEW c \in Calls
    PROVE  /\ RowsOK(c) /\ OnceOK(c) /\ SawOK(c) /\ BehindOK(c) /\ CallOK(c) /\ TypeOK
BY DEF IInv, CallOK

\* A confirmation or a decision that still finds its row open is not behind.
LEMMA OpenStep ==
    ASSUME IInv, NEW c \in Calls, call[c].pc \in Active \ Past, ~Settled(c), Moves(c),
           call'[c].pc \in Active \ Past, Quiet,
           Job[c].op \in {"order", "withdraw"} => call'[c].pc \notin {"begin", "asked"},
           Job[c].op = "order" => call[c].pc # "begin",
           Job[c].op = "withdraw" => call[c].pc # "asked",
           Job[c].op = "reconcile" /\ call'[c].pc \in {"checked", "read"} => call[c].pc = "checked",
           call'[c].outcome = call[c].outcome, SawOK(c)'
    PROVE  IInv'
<1>1. c \notin behind /\ c \notin late \cup raced
  BY CallFacts DEF BehindOK, OnceOK, Active, Past
<1>2. BehindOK(c)' /\ OnceOK(c)'
  BY <1>1 DEF BehindOK, OnceOK, Quiet, middleware
<1>3. RowsOK(c)'
  BY CallFacts DEF RowsOK, Quiet, tables, Active, Past
<1>4. QED
  BY <1>2, <1>3, QuietStep DEF CallOK, Active, Past

LEMMA PendingOpen ==
    ASSUME NEW c \in Calls, Job[c].op \in Confirming, status[Job[c].on] = "PENDING"
    PROVE  ~Settled(c)
BY DEF Settled, Confirming, Deciding

LEMMA VerifyReadStep ==
    ASSUME IInv, NEW c \in Calls, VerifyRead(c)
    PROVE  IInv'
<1>1. call[c].pc = "begin" /\ Job[c].op = "verify" /\ Quiet
  BY DEF VerifyRead, At, Quiet, tables, middleware
<1>2. CASE Answer(c)
  BY <1>1, <1>2, AnswerStep DEF Active
<1>3. CASE status[Job[c].on] = "PENDING" /\ To(c, "read")
  <2>1. Moves(c) /\ call'[c].pc = "read" /\ call'[c].outcome = call[c].outcome
    BY <1>3, CallFacts, ToMoves DEF Active
  <2>2. ~Settled(c) /\ SawOK(c)'
    BY <1>1, <1>3, PendingOpen DEF SawOK, Confirming
  <2>3. QED
    BY <1>1, <2>1, <2>2, OpenStep DEF Active, Past
<1>4. QED
  BY <1>2, <1>3 DEF VerifyRead

LEMMA AskRazorpayStep ==
    ASSUME IInv, NEW c \in Calls, AskRazorpay(c)
    PROVE  IInv'
<1>1. call[c].pc = "begin" /\ Job[c].op = "reconcile" /\ Quiet
  BY DEF AskRazorpay, At, Quiet, tables, middleware
<1>2. CASE Answer(c)
  BY <1>1, <1>2, AnswerStep DEF Active
<1>3. CASE status[Job[c].on] = "PENDING" /\ To(c, "asked")
  <2>1. Moves(c) /\ call'[c].pc = "asked" /\ call'[c].outcome = call[c].outcome
    BY <1>3, CallFacts, ToMoves DEF Active
  <2>2. ~Settled(c) /\ SawOK(c)'
    BY <1>1, <1>3, PendingOpen DEF SawOK, Confirming
  <2>3. QED
    BY <1>1, <2>1, <2>2, OpenStep DEF Active, Past
<1>4. QED
  BY <1>2, <1>3 DEF AskRazorpay

LEMMA RazorpayAnswersStep ==
    ASSUME IInv, NEW c \in Calls, RazorpayAnswers(c)
    PROVE  IInv'
<1>. DEFINE found == IF "captured" \in attempts[Job[c].on] THEN "captured" ELSE "failed"
<1>1. call[c].pc = "asked" /\ Job[c].op = "reconcile" /\ Quiet
  BY DEF RazorpayAnswers, At, Quiet, tables, middleware
<1>2. CASE Answer(c)
  BY <1>1, <1>2, AnswerStep DEF Active
<1>3. CASE /\ attempts[Job[c].on] # {}
           /\ call' = [call EXCEPT ![c].pc = "checked", ![c].outcome = found]
  <2>1. /\ Moves(c) /\ call'[c].pc = "checked" /\ call'[c].outcome = found
        /\ found \in attempts[Job[c].on]
    <3>1. found \in Outcomes
      BY DEF Outcomes
    <3>2. found \in attempts[Job[c].on]
      <4>1. Job[c].on \in Deposits
        BY <1>1, JobType DEF Confirming
      <4>2. QED
        BY <1>3, <4>1, CallFacts DEF TypeOK, Outcomes
    <3>3. QED
      <4>. HIDE DEF found
      <4>. QED  BY <1>3, <3>1, <3>2, CallFacts DEF TypeOK, CallStates, Moves
  <2>2. c \notin behind /\ c \notin late \cup raced
    BY <1>1, CallFacts DEF BehindOK, OnceOK, Past
  <2>3. CallOK(c)'
    <3>1. RowsOK(c)'
      <4>. HIDE DEF found
      <4>. QED  BY <1>1, <2>1, CallFacts DEF RowsOK, Quiet, tables
    <3>2. OnceOK(c)' /\ SawOK(c)' /\ BehindOK(c)'
      BY <1>1, <2>1, <2>2 DEF OnceOK, SawOK, BehindOK, Quiet, middleware
    <3>3. QED
      BY <3>1, <3>2 DEF CallOK
  <2>4. QED
    BY <1>1, <2>1, <2>3, QuietStep DEF Active
<1>4. QED
  BY <1>2, <1>3 DEF RazorpayAnswers

LEMMA ReconcileReadStep ==
    ASSUME IInv, NEW c \in Calls, ReconcileRead(c)
    PROVE  IInv'
<1>1. /\ call[c].pc \in {"begin", "checked"} /\ Job[c].op \in {"captured", "failed", "reconcile"}
      /\ Quiet /\ (Job[c].op = "reconcile" => call[c].pc = "checked")
  BY DEF ReconcileRead, At, Quiet, tables, middleware
<1>2. CASE Answer(c)
  BY <1>1, <1>2, AnswerStep DEF Active
<1>3. CASE status[Job[c].on] = "PENDING" /\ To(c, "read")
  <2>1. Moves(c) /\ call'[c].pc = "read" /\ call'[c].outcome = call[c].outcome
    BY <1>3, CallFacts, ToMoves DEF Active
  <2>2. ~Settled(c) /\ SawOK(c)'
    BY <1>1, <1>3, PendingOpen DEF SawOK, Confirming
  <2>3. QED
    BY <1>1, <2>1, <2>2, OpenStep DEF Active, Past
<1>4. QED
  BY <1>2, <1>3 DEF ReconcileRead

LEMMA ReadBalanceStep ==
    ASSUME IInv, NEW c \in Calls, ReadBalance(c)
    PROVE  IInv'
<1>. DEFINE u == Job[c].user
<1>1. /\ \/ call[c].pc = "begin" /\ Job[c].op \in {"withdraw", "hold"}
         \/ call[c].pc = "checked" /\ Job[c].op = "tip"
      /\ Quiet /\ u \in Users
  BY JobType DEF ReadBalance, At, Quiet, tables, middleware
<1>2. CASE Answer(c)
  BY <1>1, <1>2, AnswerStep DEF Active
<1>3. CASE ~(balance[u] < Job[c].amount) /\ call' = [call EXCEPT ![c].pc = "read", ![c].saw = balance[u]]
  <2>1. /\ Moves(c) /\ call'[c].pc = "read" /\ call'[c].saw = balance[u]
        /\ call'[c].outcome = call[c].outcome
    <3>. HIDE DEF u
    <3>. QED  BY <1>1, <1>3, CallFacts, ReadMoves
  <2>2. SawOK(c)'
    <3>1. balance[u] \in Int /\ Job[c].amount \in Nat
      BY <1>1, CallFacts, JobType DEF TypeOK
    <3>2. Debited(c)' = Job[c].amount
      BY <1>1 DEF Debited
    <3>3. QED
      BY <1>3, <2>1, <3>1, <3>2 DEF SawOK
  <2>3. c \notin behind /\ c \notin late \cup raced
    <3>1. c \notin behind
      <4>1. Job[c].op \in {"withdraw", "hold"} => ~Settled(c)
        BY DEF Settled, Confirming, Deciding
      <4>2. QED
        BY <1>1, <4>1, CallFacts DEF BehindOK
    <3>2. QED
      BY <1>1, <3>1, CallFacts DEF OnceOK, Past
  <2>4. CallOK(c)'
    <3>1. RowsOK(c)'
      BY <1>1, <2>1, CallFacts DEF RowsOK, Quiet, tables, Confirming, Deciding
    <3>2. OnceOK(c)' /\ BehindOK(c)'
      BY <1>1, <2>3 DEF OnceOK, BehindOK, Quiet, middleware
    <3>3. QED
      BY <2>2, <3>1, <3>2 DEF CallOK
  <2>5. QED
    BY <1>1, <2>1, <2>4, QuietStep DEF Active
<1>4. QED
  BY <1>2, <1>3 DEF ReadBalance

LEMMA CheckPayoutsStep ==
    ASSUME IInv, NEW c \in Calls, CheckPayouts(c)
    PROVE  IInv'
<1>1. call[c].pc = "read" /\ Job[c].op = "withdraw" /\ Quiet
  BY DEF CheckPayouts, At, Quiet, tables, middleware
<1>2. CASE Answer(c)
  BY <1>1, <1>2, AnswerStep DEF Active
<1>3. CASE To(c, "checked")
  <2>1. /\ Moves(c) /\ call'[c].pc = "checked"
        /\ call'[c].saw = call[c].saw /\ call'[c].outcome = call[c].outcome
    BY <1>3, CallFacts, ToMoves DEF Active
  <2>2. ~Settled(c) /\ SawOK(c)'
    BY <1>1, <2>1, CallFacts DEF Settled, Confirming, Deciding, SawOK, Debited
  <2>3. QED
    BY <1>1, <2>1, <2>2, OpenStep DEF Active, Past
<1>4. QED
  BY <1>2, <1>3 DEF CheckPayouts

LEMMA ReadPayoutStep ==
    ASSUME IInv, NEW c \in Calls, ReadPayout(c)
    PROVE  IInv'
<1>. DEFINE p == Job[c].on
            u == Job[p].user
<1>1. /\ call[c].pc = "begin" /\ Job[c].op \in Deciding /\ Quiet
      /\ u \in Users
  BY JobType DEF ReadPayout, At, Quiet, tables, middleware
<1>2. CASE Answer(c)
  BY <1>1, <1>2, AnswerStep DEF Active
<1>3. CASE /\ payout[p] = "PENDING" /\ (Job[c].op = "approve" => balance[u] >= Job[p].amount)
           /\ call' = [call EXCEPT ![c].pc = "read", ![c].saw = balance[u]]
  <2>1. /\ Moves(c) /\ call'[c].pc = "read" /\ call'[c].saw = balance[u]
        /\ call'[c].outcome = call[c].outcome
    <3>. HIDE DEF u
    <3>. QED  BY <1>1, <1>3, CallFacts, ReadMoves
  <2>2. SawOK(c)'
    <3>1. Job[c].op = "approve" => Debited(c)' = Job[p].amount
      BY DEF Debited
    <3>2. QED
      BY <1>1, <1>3, <2>1, <3>1 DEF SawOK, Deciding
  <2>3. ~Settled(c)
    BY <1>1, <1>3 DEF Settled, Confirming, Deciding
  <2>4. QED
    BY <1>1, <2>1, <2>2, <2>3, OpenStep DEF Active, Past, Deciding
<1>4. QED
  BY <1>2, <1>3 DEF ReadPayout

LEMMA CheckTipStep ==
    ASSUME IInv, NEW c \in Calls, CheckTip(c)
    PROVE  IInv'
<1>1. call[c].pc = "begin" /\ Job[c].op = "tip" /\ Quiet
  BY DEF CheckTip, At, Quiet, tables, middleware
<1>2. CASE Answer(c)
  BY <1>1, <1>2, AnswerStep DEF Active
<1>3. CASE Job[c].on \notin tips /\ To(c, "checked")
  <2>1. Moves(c) /\ call'[c].pc = "checked" /\ call'[c].outcome = call[c].outcome
    BY <1>3, CallFacts, ToMoves DEF Active
  <2>2. ~Settled(c) /\ SawOK(c)'
    BY <1>1, <1>3, <2>1 DEF Settled, Confirming, Deciding, SawOK
  <2>3. QED
    BY <1>1, <2>1, <2>2, OpenStep DEF Active, Past
<1>4. QED
  BY <1>2, <1>3 DEF CheckTip

-----------------------------------------------------------------------------
(* The actions that write a row or move money.                             *)

\* Money that no deposit brought and no debit took: nothing to book.
LEMMA NoMoney ==
    ASSUME IInv, TypeOK', balance' = balance, rows' = rows, raced' = raced,
           \A e \in Deposits : Increments(e)' = Increments(e)
    PROVE  Books' /\ OverdraftIsRaced'
<1>1. \A u \in Users : balance'[u] - rows'[u] = balance[u] - rows[u]
  OBVIOUS
<1>2. \A u \in Users : balance'[u] >= balance[u]
  BY DEF IInv, TypeOK
<1>3. QED
  BY <1>1, <1>2, SameBooks, SameOverdraft DEF IInv

LEMMA CreateOrderStep ==
    ASSUME IInv, NEW c \in Calls, CreateOrder(c)
    PROVE  IInv'
<1>1. /\ call[c].pc = "begin" /\ Job[c].op = "order" /\ c \in Deposits
      /\ status' = [status EXCEPT ![c] = "PENDING"] /\ Answer(c)
      /\ UNCHANGED <<balance, rows, payout, tips, attempts, late, raced, middleware>>
  BY JobType DEF CreateOrder, At
<1>2. Moves(c) /\ (call'[c].pc \in Active \/ ~call[c].stored)
  BY <1>1, CallFacts, AnswerMoves DEF Active
<1>3. status[c] = "none" /\ c \notin behind
  <2>1. status[c] = "none"
    BY <1>1, CallFacts DEF RowsOK
  <2>2. QED
    BY <1>1, <2>1, CallFacts DEF BehindOK, Settled, Confirming, Deciding
<1>4. TypeOK'
  BY <1>1, <1>2, CallFacts DEF TypeOK, DepositStatuses, Moves, middleware
<1>5. Grows(c)
  BY <1>1, <1>3, CallFacts DEF TypeOK, Grows
<1>6. CallOK(c)'
  BY <1>1, <1>3, <1>5, CallFacts, AnsweredOK DEF Active, middleware
<1>7. \A e \in Deposits : Increments(e)' = Increments(e)
  BY <1>1, <1>3, CallFacts DEF TypeOK, Increments, Confirmations, Of
<1>8. Books' /\ OverdraftIsRaced'
  BY <1>1, <1>4, <1>7, NoMoney
<1>9. QED
  BY <1>1, <1>2, <1>4, <1>5, <1>6, <1>8, StepOK DEF Active

\* A credited deposit, whichever of the confirmations it was.
LEMMA CreditStep ==
    ASSUME IInv, NEW c \in Calls, call[c].pc = "read", Job[c].op \in Confirming,
           TypeOK', Grows(c), Deposited(c), Answer(c),
           Increments(Job[c].on)' = Increments(Job[c].on) + 1,
           \A e \in Deposits : e # Job[c].on => Increments(e)' = Increments(e),
           late' \subseteq late \cup {c},
           UNCHANGED <<rows, payout, tips, attempts, raced, middleware>>
    PROVE  IInv'
<1>1. Moves(c) /\ (call'[c].pc \in Active \/ ~call[c].stored)
  BY CallFacts, AnswerMoves DEF Active
<1>2. Job[c].on \in Deposits /\ Job[c].on \in Calls
  BY JobType
<1>3. c \notin behind
  BY CallFacts DEF BehindOK
<1>4. CallOK(c)'
  BY <1>3, CallFacts, AnsweredOK DEF Active, middleware
<1>5. Books'
  BY <1>2, DepositBooks DEF IInv, Deposited
<1>6. OverdraftIsRaced'
  <2>1. Job[Job[c].on].user \in Users /\ Job[Job[c].on].amount \in Nat
    BY <1>2, JobType
  <2>2. \A u \in Users : balance'[u] >= balance[u]
    BY <2>1, CallFacts DEF TypeOK, Deposited
  <2>3. QED
    BY <2>2, SameOverdraft DEF IInv
<1>7. QED
  BY <1>1, <1>4, <1>5, <1>6, StepOK DEF Active

LEMMA VerifyWriteStep ==
    ASSUME IInv, NEW c \in Calls, VerifyWrite(c)
    PROVE  IInv'
<1>. DEFINE d == Job[c].on
<1>1. /\ call[c].pc = "read" /\ Job[c].op = "verify" /\ Job[c].op \in Confirming /\ d \in Deposits
      /\ status' = [status EXCEPT ![d] = "SUCCESS"] /\ Deposited(c)
      /\ MarkLate(c, status[d] = "SUCCESS") /\ Answer(c)
      /\ UNCHANGED <<rows, payout, tips, attempts, raced, middleware>>
  <2>1. Job[c].op = "verify" => Job[c].op \in Confirming
    BY DEF Confirming
  <2>2. QED
    BY <2>1, JobType DEF VerifyWrite, At
<1>2. c \notin late /\ late' \subseteq late \cup {c}
  BY <1>1, CallFacts DEF OnceOK, Past, MarkLate
<1>3. Moves(c)
  BY <1>1, CallFacts, AnswerMoves
<1>4. TypeOK'
  <2>1. balance' \in [Users -> Int]
    <3>1. Job[d].user \in Users /\ Job[d].amount \in Nat
      BY <1>1, JobType
    <3>2. QED
      BY <1>1, <3>1, CallFacts DEF TypeOK, Deposited
  <2>2. status' \in [Deposits -> DepositStatuses]
    BY <1>1, CallFacts DEF TypeOK, DepositStatuses
  <2>3. QED
    BY <1>1, <1>2, <1>3, <2>1, <2>2, CallFacts DEF TypeOK, Moves, middleware
<1>5. Grows(c)
  <2>1. status[d] # "none" /\ "captured" \in attempts[d]
    BY <1>1, CallFacts DEF RowsOK
  <2>2. QED
    BY <1>1, <2>1, CallFacts DEF TypeOK, Grows
<1>6. c \in Confirmations(d) /\ \A e \in Deposits : e # d => c \notin Confirmations(e)
  BY <1>1 DEF Confirmations, Of
<1>7. /\ Increments(d)' = Increments(d) + 1
      /\ \A e \in Deposits : e # d => Increments(e)' = Increments(e)
  <2>1. \A e \in Deposits : e # d => status'[e] = status[e]
    BY <1>1, CallFacts DEF TypeOK
  <2>2. CASE status[d] = "SUCCESS"
    <3>1. late' = late \cup {c} /\ status'[d] = status[d]
      BY <1>1, <2>2, CallFacts DEF TypeOK, MarkLate
    <3>2. Increments(d)' = Increments(d) + 1
      BY <1>1, <1>2, <1>6, <3>1, CallFacts, LateCounts
    <3>3. SUFFICES ASSUME NEW e \in Deposits, e # d PROVE Increments(e)' = Increments(e)
      BY <3>2
    <3>4. Increments(e)' = Increments(e) + 0
      BY <1>2, <1>6, <2>1, <3>1, <3>3, CallFacts, LateCounts
    <3>5. QED
      BY <3>4, CallFacts, IncrementsType
  <2>3. CASE status[d] # "SUCCESS"
    <3>1. late' = late /\ status'[d] = "SUCCESS"
      BY <1>1, <2>3, CallFacts DEF TypeOK, MarkLate
    <3>2. Increments(d) = 0 + Cardinality(late \cap Confirmations(d))
      BY <2>3 DEF Increments
    <3>3. Increments(d)' = 1 + Cardinality(late \cap Confirmations(d))
      BY <3>1 DEF Increments, Confirmations, Of
    <3>4. Cardinality(late \cap Confirmations(d)) \in Nat
      BY CallFacts, CallsAssumption, FS_Subset, FS_CardinalityType DEF TypeOK
    <3>5. \A e \in Deposits : e # d => Increments(e)' = Increments(e)
      BY <2>1, <3>1, SameIncrements
    <3>6. QED
      BY <3>2, <3>3, <3>4, <3>5
  <2>4. QED
    BY <2>2, <2>3
<1>8. QED
  BY <1>1, <1>2, <1>4, <1>5, <1>7, CreditStep

LEMMA ReconcileWriteStep ==
    ASSUME IInv, NEW c \in Calls, ReconcileWrite(c)
    PROVE  IInv'
<1>. DEFINE d == Job[c].on
            paid == call[c].outcome = "captured"
            settles == IF paid THEN "SUCCESS" ELSE "FAILED"
<1>1. /\ call[c].pc = "read" /\ Job[c].op \in {"captured", "failed", "reconcile"}
      /\ Job[c].op \in Confirming /\ d \in Deposits
      /\ \/ status[d] # "PENDING" /\ status' = status
         \/ status[d] = "PENDING" /\ status' = [status EXCEPT ![d] = settles]
      /\ \/ paid /\ Deposited(c)
         \/ ~paid /\ balance' = balance
      /\ MarkLate(c, status[d] # "PENDING" /\ paid) /\ Answer(c)
      /\ UNCHANGED <<rows, payout, tips, attempts, raced, middleware>>
  <2>1. Job[c].op \in {"captured", "failed", "reconcile"} => Job[c].op \in Confirming
    BY DEF Confirming
  <2>2. QED
    BY <2>1, JobType DEF ReconcileWrite, At
<1>2. c \notin late /\ late' \subseteq late \cup {c}
  BY <1>1, CallFacts DEF OnceOK, Past, MarkLate
<1>3. Moves(c) /\ (call'[c].pc \in Active \/ ~call[c].stored)
  BY <1>1, CallFacts, AnswerMoves DEF Active
<1>4. TypeOK'
  <2>1. balance' \in [Users -> Int]
    <3>1. Job[d].user \in Users /\ Job[d].amount \in Nat
      BY <1>1, JobType
    <3>2. QED
      BY <1>1, <3>1, CallFacts DEF TypeOK, Deposited
  <2>2. status' \in [Deposits -> DepositStatuses]
    BY <1>1, CallFacts DEF TypeOK, DepositStatuses
  <2>3. QED
    BY <1>1, <1>2, <1>3, <2>1, <2>2, CallFacts DEF TypeOK, Moves, middleware
<1>5. Grows(c)
  <2>1. call[c].outcome \in attempts[d] /\ call[c].outcome \in {"captured", "failed"}
    BY <1>1, CallFacts DEF RowsOK, TypeOK, CallStates, Outcomes
  <2>2. QED
    BY <1>1, <2>1, CallFacts DEF TypeOK, Grows
<1>6. /\ \A e \in Deposits : e # d => c \notin Confirmations(e)
      /\ \A e \in Deposits : e # d => status'[e] = status[e]
  BY <1>1, CallFacts DEF Confirmations, Of, TypeOK
<1>7. CASE paid
  <2>1. c \in Confirmations(d)
    BY <1>1, <1>7, CallFacts DEF RowsOK, Confirmations, Of
  <2>2. /\ Increments(d)' = Increments(d) + 1
        /\ \A e \in Deposits : e # d => Increments(e)' = Increments(e)
    <3>1. CASE status[d] # "PENDING"
      <4>1. late' = late \cup {c} /\ status'[d] = status[d]
        BY <1>1, <1>7, <3>1 DEF MarkLate
      <4>2. Increments(d)' = Increments(d) + 1
        BY <1>1, <1>2, <2>1, <4>1, CallFacts, LateCounts
      <4>3. SUFFICES ASSUME NEW e \in Deposits, e # d PROVE Increments(e)' = Increments(e)
        BY <4>2
      <4>4. Increments(e)' = Increments(e) + 0
        BY <1>2, <1>6, <4>1, <4>3, CallFacts, LateCounts
      <4>5. QED
        BY <4>4, CallFacts, IncrementsType
    <3>2. CASE status[d] = "PENDING"
      <4>1. late' = late /\ status'[d] = "SUCCESS"
        BY <1>1, <1>7, <3>2, CallFacts DEF TypeOK, MarkLate
      <4>2. Increments(d) = 0 + Cardinality(late \cap Confirmations(d))
        BY <3>2 DEF Increments
      <4>3. Increments(d)' = 1 + Cardinality(late \cap Confirmations(d))
        BY <4>1 DEF Increments, Confirmations, Of
      <4>4. Cardinality(late \cap Confirmations(d)) \in Nat
        BY CallFacts, CallsAssumption, FS_Subset, FS_CardinalityType DEF TypeOK
      <4>5. \A e \in Deposits : e # d => Increments(e)' = Increments(e)
        BY <1>6, <4>1, SameIncrements
      <4>6. QED
        BY <4>2, <4>3, <4>4, <4>5
    <3>3. QED
      BY <3>1, <3>2
  <2>3. QED
    BY <1>1, <1>2, <1>4, <1>5, <1>7, <2>2, CreditStep
<1>8. CASE ~paid
  <2>1. late' = late /\ balance' = balance
    BY <1>1, <1>8 DEF MarkLate
  <2>2. \A e \in Deposits : Increments(e)' = Increments(e)
    <3>1. SUFFICES ASSUME NEW e \in Deposits PROVE Increments(e)' = Increments(e)
      OBVIOUS
    <3>2. status'[e] = "SUCCESS" <=> status[e] = "SUCCESS"
      BY <1>1, <1>8, CallFacts DEF TypeOK
    <3>3. QED
      BY <2>1, <3>2 DEF Increments, Confirmations, Of
  <2>3. Books' /\ OverdraftIsRaced'
    BY <1>1, <1>4, <2>1, <2>2, NoMoney
  <2>4. CallOK(c)'
    <3>1. c \notin behind
      BY <1>1, CallFacts DEF BehindOK
    <3>2. QED
      BY <1>1, <1>5, <3>1, CallFacts, AnsweredOK DEF Active, middleware
  <2>5. QED
    BY <1>1, <1>2, <1>3, <1>4, <1>5, <2>3, <2>4, StepOK DEF Active
<1>9. QED
  BY <1>7, <1>8

\* A debit, whichever of the payouts, tips, holds and resolutions it is.
LEMMA DebitStep ==
    ASSUME IInv, NEW c \in Calls, call[c].pc \in {"begin", "read", "asked"}, Job[c].op \notin Confirming,
           Counted(c), Debit(Debtor(c), Debited(c)), NEW b, MarkLate(c, b), Moves(c),
           call'[c].pc \in Active \/ ~call[c].stored,
           status' = status, payout' \in [Payouts -> PayoutStatuses],
           UNCHANGED <<tips, attempts, middleware>>, Grows(c), CallOK(c)'
    PROVE  IInv'
<1>1. c \notin late /\ c \notin raced
  BY CallFacts DEF OnceOK, Past
<1>2. late' \in {late, late \cup {c}} /\ raced' \in {raced, raced \cup {c}}
  BY DEF MarkLate, Counted
<1>3. /\ Debtor(c) \in Users /\ Debited(c) \in Nat
      /\ balance' = [balance EXCEPT ![Debtor(c)] = @ - Debited(c)]
      /\ rows' = [rows EXCEPT ![Debtor(c)] = @ - Debited(c)]
  BY JobType DEF Debit
<1>4. TypeOK'
  <2>1. balance' \in [Users -> Int] /\ rows' \in [Users -> Int]
    BY <1>3, CallFacts DEF TypeOK
  <2>2. QED
    BY <1>2, <2>1, CallFacts DEF TypeOK, Moves, middleware
<1>5. \A e \in Deposits : Increments(e)' = Increments(e)
  <2>1. SUFFICES ASSUME NEW e \in Deposits PROVE Increments(e)' = Increments(e)
    OBVIOUS
  <2>2. c \notin Confirmations(e)
    BY DEF Confirmations, Of, Confirming
  <2>3. late' \cap Confirmations(e) = late \cap Confirmations(e)
    BY <1>2, <2>2
  <2>4. QED
    BY <2>3 DEF Increments, Confirmations, Of
<1>6. Books'
  <2>1. SUFFICES ASSUME NEW u \in Users PROVE balance'[u] - rows'[u] = balance[u] - rows[u]
    BY <1>4, <1>5, SameBooks DEF IInv
  <2>2. balance[u] \in Int /\ rows[u] \in Int
    BY CallFacts DEF TypeOK
  <2>3. \/ balance'[u] = balance[u] /\ rows'[u] = rows[u]
        \/ balance'[u] = balance[u] - Debited(c) /\ rows'[u] = rows[u] - Debited(c)
    BY <1>3, CallFacts DEF TypeOK
  <2>4. QED
    BY <1>3, <2>2, <2>3
<1>7. OverdraftIsRaced'
  BY <1>1, <1>4, DebitOverdraft DEF IInv
<1>8. QED
  BY <1>2, <1>4, <1>6, <1>7, StepOK DEF Active

LEMMA HoldStep ==
    ASSUME IInv, NEW c \in Calls, Hold(c)
    PROVE  IInv'
<1>1. /\ call[c].pc = "read" /\ Job[c].op = "hold"
      /\ Debit(Job[c].user, Job[c].amount) /\ MarkRaced(c) /\ Answer(c)
      /\ UNCHANGED <<status, payout, tips, attempts, late, middleware>>
  BY DEF Hold, At
<1>2. Debtor(c) = Job[c].user /\ Debited(c) = Job[c].amount /\ Job[c].op \notin Confirming
  BY <1>1 DEF Debtor, Debited, Confirming
<1>3. Moves(c) /\ (call'[c].pc \in Active \/ ~call[c].stored)
  BY <1>1, CallFacts, AnswerMoves DEF Active
<1>4. Counted(c) /\ c \notin behind
  BY <1>1, CallFacts, SawCounted DEF SawOK, BehindOK
<1>5. Grows(c) /\ MarkLate(c, FALSE)
  BY <1>1 DEF Grows, MarkLate
<1>6. CallOK(c)'
  BY <1>1, <1>4, <1>5, CallFacts, AnsweredOK DEF Active, middleware
<1>7. payout' \in [Payouts -> PayoutStatuses]
  BY <1>1, CallFacts DEF TypeOK
<1>8. QED
  BY <1>1, <1>2, <1>3, <1>4, <1>5, <1>6, <1>7, DebitStep

LEMMA PayTipStep ==
    ASSUME IInv, NEW c \in Calls, PayTip(c)
    PROVE  IInv'
<1>1. /\ call[c].pc = "read" /\ Job[c].op = "tip"
      /\ Debit(Job[c].user, Job[c].amount) /\ MarkRaced(c) /\ MarkLate(c, Job[c].on \in tips)
      /\ To(c, "paid")
      /\ UNCHANGED <<status, payout, tips, attempts, middleware>>
  BY DEF PayTip, At
<1>2. Debtor(c) = Job[c].user /\ Debited(c) = Job[c].amount
      /\ Job[c].op \notin Confirming /\ Job[c].op \notin Deciding
  BY <1>1 DEF Debtor, Debited, Confirming, Deciding
<1>3. Moves(c) /\ call'[c].pc = "paid"
  BY <1>1, CallFacts, ToMoves DEF Active
<1>4. Counted(c) /\ c \notin behind
  BY <1>1, CallFacts, SawCounted DEF SawOK, BehindOK
<1>5. Grows(c)
  BY <1>1 DEF Grows
<1>6. CallOK(c)'
  BY <1>1, <1>2, <1>3, <1>4
     DEF CallOK, RowsOK, OnceOK, SawOK, BehindOK, Past, middleware, Confirming
<1>7. payout' \in [Payouts -> PayoutStatuses]
  BY <1>1, CallFacts DEF TypeOK
<1>8. QED
  BY <1>1, <1>2, <1>3, <1>4, <1>5, <1>6, <1>7, DebitStep DEF Active

LEMMA WriteTipStep ==
    ASSUME IInv, NEW c \in Calls, WriteTip(c)
    PROVE  IInv'
<1>1. /\ call[c].pc = "paid" /\ Job[c].op = "tip"
      /\ To(c, "cut") \/ Answer(c)
      /\ tips' = tips \cup {Job[c].on}
      /\ UNCHANGED <<balance, rows, status, payout, attempts, late, raced, middleware>>
  BY DEF WriteTip, At
<1>2. Moves(c) /\ call'[c].pc \in {"cut", "answered", "done"}
  BY <1>1, CallFacts, ToMoves, AnswerMoves DEF Active
<1>3. TypeOK'
  <2>1. Job[c].on \in {Job[d].on : d \in Of({"tip"})}
    BY <1>1 DEF Of
  <2>2. QED
    BY <1>1, <1>2, <2>1, CallFacts DEF TypeOK, Moves, middleware, Of
<1>4. Grows(c)
  BY <1>1 DEF Grows
<1>5. c \notin behind
  BY <1>1, CallFacts DEF BehindOK
<1>6. CallOK(c)'
  BY <1>1, <1>2, <1>5
     DEF CallOK, RowsOK, OnceOK, SawOK, BehindOK, Past, middleware, Confirming, Deciding
<1>7. \A e \in Deposits : Increments(e)' = Increments(e)
  BY <1>1, SameIncrements
<1>8. Books' /\ OverdraftIsRaced'
  BY <1>1, <1>3, <1>7, NoMoney
<1>9. QED
  BY <1>1, <1>2, <1>3, <1>4, <1>6, <1>8, StepOK DEF Active

LEMMA CreatePayoutStep ==
    ASSUME IInv, NEW c \in Calls, CreatePayout(c)
    PROVE  IInv'
<1>1. /\ call[c].pc = "checked" /\ Job[c].op = "withdraw" /\ c \in Payouts
      /\ payout' = [payout EXCEPT ![c] = "PENDING"] /\ To(c, "asked")
      /\ UNCHANGED <<balance, rows, status, tips, attempts, late, raced, middleware>>
  BY JobType DEF CreatePayout, At
<1>2. Moves(c) /\ call'[c].pc = "asked" /\ call'[c].saw = call[c].saw
  BY <1>1, CallFacts, ToMoves DEF Active
<1>3. payout[c] = "none" /\ c \notin behind /\ c \notin late \cup raced
  BY <1>1, CallFacts DEF RowsOK, BehindOK, OnceOK, Past
<1>4. TypeOK'
  BY <1>1, <1>2, CallFacts DEF TypeOK, PayoutStatuses, Moves, middleware
<1>5. Grows(c)
  BY <1>1, <1>3, CallFacts DEF TypeOK, Grows
<1>6. CallOK(c)'
  <2>1. RowsOK(c)'
    BY <1>1, <1>2, CallFacts DEF TypeOK, RowsOK, Confirming, Deciding
  <2>2. SawOK(c)'
    BY <1>1, <1>2, CallFacts DEF SawOK, Debited
  <2>3. OnceOK(c)' /\ BehindOK(c)'
    BY <1>1, <1>3 DEF OnceOK, BehindOK, middleware
  <2>4. QED
    BY <2>1, <2>2, <2>3 DEF CallOK
<1>7. \A e \in Deposits : Increments(e)' = Increments(e)
  BY <1>1, SameIncrements
<1>8. Books' /\ OverdraftIsRaced'
  BY <1>1, <1>4, <1>7, NoMoney
<1>9. QED
  BY <1>1, <1>2, <1>4, <1>5, <1>6, <1>8, StepOK DEF Active

\* The Auto-Payout toggle and the Admin pay out alike.
LEMMA PayOutStep ==
    ASSUME IInv, NEW c \in Calls, NEW p \in Payouts, PayOut(c, p),
           \/ Job[c].op = "withdraw" /\ call[c].pc = "asked" /\ p = c
           \/ Job[c].op = "approve" /\ call[c].pc = "read" /\ p = Job[c].on,
           UNCHANGED <<status, tips, attempts, middleware>>
    PROVE  IInv'
<1>1. /\ payout' = [payout EXCEPT ![p] = "APPROVED"]
      /\ Debit(Job[p].user, Job[p].amount)
      /\ MarkLate(c, payout[p] # "PENDING") /\ MarkRaced(c) /\ Answer(c)
  BY DEF PayOut
<1>2. /\ Debtor(c) = Job[p].user /\ Debited(c) = Job[p].amount
      /\ Job[c].op \notin Confirming
  BY DEF Debtor, Debited, Confirming
<1>3. Moves(c) /\ (call'[c].pc \in Active \/ ~call[c].stored)
  BY <1>1, CallFacts, AnswerMoves DEF Active
<1>4. Counted(c) /\ c \notin behind
  <2>1. call[c].saw >= Debited(c) /\ c \notin behind
    BY CallFacts DEF SawOK, BehindOK
  <2>2. QED
    BY <1>1, <2>1, CallFacts, SawCounted
<1>5. payout' \in [Payouts -> PayoutStatuses]
  BY <1>1, CallFacts DEF TypeOK, PayoutStatuses
<1>6. payout[p] # "none"
  BY CallFacts DEF RowsOK, Deciding
<1>7. Grows(c)
  BY <1>1, <1>6, CallFacts DEF TypeOK, Grows
<1>8. CallOK(c)'
  BY <1>1, <1>4, <1>7, CallFacts, AnsweredOK DEF Active, middleware
<1>9. QED
  BY <1>1, <1>2, <1>3, <1>4, <1>5, <1>7, <1>8, DebitStep

LEMMA AutoPayoutStep ==
    ASSUME IInv, NEW c \in Calls, AutoPayout(c)
    PROVE  IInv'
<1>1. /\ call[c].pc = "asked" /\ Job[c].op = "withdraw" /\ c \in Payouts
      /\ UNCHANGED <<status, tips, attempts, middleware>>
  BY JobType DEF AutoPayout, At
<1>2. CASE PayOut(c, c)
  BY <1>1, <1>2, PayOutStep
<1>3. CASE Answer(c) /\ UNCHANGED <<payout, balance, rows, late, raced>>
  <2>1. Quiet
    BY <1>1, <1>3 DEF Quiet, tables
  <2>2. QED
    BY <1>1, <1>3, <2>1, AnswerStep DEF Active
<1>4. QED
  BY <1>2, <1>3 DEF AutoPayout

LEMMA ApprovePayoutStep ==
    ASSUME IInv, NEW c \in Calls, ApprovePayout(c)
    PROVE  IInv'
<1>1. /\ call[c].pc = "read" /\ Job[c].op = "approve" /\ PayOut(c, Job[c].on)
      /\ UNCHANGED <<status, tips, attempts, middleware>>
  BY DEF ApprovePayout, At
<1>2. Job[c].on \in Payouts
  BY <1>1, JobType DEF Deciding
<1>3. QED
  BY <1>1, <1>2, PayOutStep

LEMMA RejectPayoutStep ==
    ASSUME IInv, NEW c \in Calls, RejectPayout(c)
    PROVE  IInv'
<1>. DEFINE p == Job[c].on
<1>1. /\ call[c].pc = "read" /\ Job[c].op = "reject" /\ p \in Payouts
      /\ payout' = [payout EXCEPT ![p] = "REJECTED"] /\ Answer(c)
      /\ UNCHANGED <<balance, rows, status, tips, attempts, late, raced, middleware>>
  BY JobType DEF RejectPayout, At, Deciding
<1>2. Moves(c) /\ (call'[c].pc \in Active \/ ~call[c].stored)
  BY <1>1, CallFacts, AnswerMoves DEF Active
<1>3. payout[p] # "none" /\ c \notin behind
  BY <1>1, CallFacts DEF RowsOK, BehindOK, Deciding
<1>4. TypeOK'
  <2>1. payout' \in [Payouts -> PayoutStatuses]
    BY <1>1, CallFacts DEF TypeOK, PayoutStatuses
  <2>2. QED
    BY <1>1, <1>2, <2>1, CallFacts DEF TypeOK, Moves, middleware
<1>5. Grows(c)
  BY <1>1, <1>3, CallFacts DEF TypeOK, Grows
<1>6. CallOK(c)'
  BY <1>1, <1>3, <1>5, CallFacts, AnsweredOK DEF Active, middleware
<1>7. \A e \in Deposits : Increments(e)' = Increments(e)
  BY <1>1, SameIncrements
<1>8. Books' /\ OverdraftIsRaced'
  BY <1>1, <1>4, <1>7, NoMoney
<1>9. QED
  BY <1>1, <1>2, <1>4, <1>5, <1>6, <1>8, StepOK DEF Active

\* What comes back to a wallet has its rows.
LEMMA AwardStep ==
    ASSUME IInv, NEW c \in Calls, Award(c)
    PROVE  IInv'
<1>. DEFINE u == Job[c].user
            n == Job[c].amount
<1>1. /\ call[c].pc = "begin" /\ Job[c].op = "award" /\ Answer(c)
      /\ balance' = [balance EXCEPT ![u] = @ + n] /\ rows' = [rows EXCEPT ![u] = @ + n]
      /\ UNCHANGED <<status, payout, tips, attempts, late, raced, middleware>>
      /\ u \in Users /\ n \in Nat
  BY JobType DEF Award, At
<1>. HIDE DEF u, n
<1>2. Moves(c) /\ (call'[c].pc \in Active \/ ~call[c].stored)
  BY <1>1, CallFacts, AnswerMoves DEF Active
<1>3. TypeOK'
  <2>1. balance' \in [Users -> Int] /\ rows' \in [Users -> Int]
    BY <1>1, CallFacts DEF TypeOK
  <2>2. QED
    BY <1>1, <1>2, <2>1, CallFacts DEF TypeOK, Moves, middleware
<1>4. Grows(c) /\ c \notin behind
  BY <1>1, CallFacts DEF Grows, BehindOK, Settled, Confirming, Deciding
<1>5. CallOK(c)'
  BY <1>1, <1>4, CallFacts, AnsweredOK DEF Active, middleware
<1>6. Books'
  <2>1. SUFFICES ASSUME NEW w \in Users PROVE balance'[w] - rows'[w] = balance[w] - rows[w]
    BY <1>1, <1>3, SameIncrements, SameBooks DEF IInv
  <2>2. balance[w] \in Int /\ rows[w] \in Int
    BY CallFacts DEF TypeOK
  <2>3. \/ balance'[w] = balance[w] /\ rows'[w] = rows[w]
        \/ balance'[w] = balance[w] + n /\ rows'[w] = rows[w] + n
    BY <1>1, CallFacts DEF TypeOK
  <2>4. QED
    BY <1>1, <2>2, <2>3
<1>7. OverdraftIsRaced'
  <2>1. \A w \in Users : balance'[w] >= balance[w]
    BY <1>1, CallFacts DEF TypeOK
  <2>2. QED
    BY <1>1, <1>3, <2>1, SameOverdraft DEF IInv
<1>8. QED
  BY <1>1, <1>2, <1>3, <1>4, <1>5, <1>6, <1>7, StepOK DEF Active

\* A resolution debits without a look at the balance.
LEMMA TakeBackStep ==
    ASSUME IInv, NEW c \in Calls, TakeBack(c)
    PROVE  IInv'
<1>1. /\ call[c].pc = "begin" /\ Job[c].op = "takeBack"
      /\ Debit(Job[c].user, Job[c].amount) /\ Answer(c)
      /\ raced' = IF balance[Job[c].user] < Job[c].amount THEN raced \cup {c} ELSE raced
      /\ UNCHANGED <<status, payout, tips, attempts, late, middleware>>
  BY DEF TakeBack, At
<1>2. /\ Debtor(c) = Job[c].user /\ Debited(c) = Job[c].amount
      /\ Job[c].op \notin Confirming /\ Job[c].op \notin Deciding
  BY <1>1 DEF Debtor, Debited, Confirming, Deciding
<1>3. Moves(c) /\ (call'[c].pc \in Active \/ ~call[c].stored)
  BY <1>1, CallFacts, AnswerMoves DEF Active
<1>4. Counted(c)
  <2>1. balance[Job[c].user] \in Int /\ Job[c].amount \in Int
    BY JobType, CallFacts DEF TypeOK
  <2>2. QED
    BY <1>1, <1>2, <2>1 DEF Counted
<1>5. Grows(c) /\ MarkLate(c, FALSE) /\ c \notin behind
  BY <1>1, <1>2, CallFacts DEF Grows, MarkLate, BehindOK, Settled
<1>6. CallOK(c)'
  BY <1>1, <1>5, CallFacts, AnsweredOK DEF Active, middleware
<1>7. payout' \in [Payouts -> PayoutStatuses]
  BY <1>1, CallFacts DEF TypeOK
<1>8. QED
  BY <1>1, <1>2, <1>3, <1>4, <1>5, <1>6, <1>7, DebitStep

LEMMA HandlerStep ==
    ASSUME IInv, NEW c \in Calls, Step(c)
    PROVE  IInv'
BY CreateOrderStep, VerifyReadStep, VerifyWriteStep, AskRazorpayStep, RazorpayAnswersStep,
   ReconcileReadStep, ReconcileWriteStep, ReadBalanceStep, CheckPayoutsStep, CreatePayoutStep,
   AutoPayoutStep, ReadPayoutStep, ApprovePayoutStep, RejectPayoutStep, CheckTipStep, PayTipStep,
   WriteTipStep, HoldStep, AwardStep, TakeBackStep DEF Step

-----------------------------------------------------------------------------
(* The middleware, Razorpay and Redis.                                     *)

\* None of them touches a row or a balance, nor takes a payment back.
LEMMA SameMoney ==
    ASSUME IInv, TypeOK', UNCHANGED <<tables, late, raced>>,
           \A d \in Deposits : attempts[d] \subseteq attempts'[d]
    PROVE  Books' /\ (\A d \in Deposits : Confirmed(d)') /\ OverdraftIsRaced'
<1>1. \A e \in Deposits : Increments(e)' = Increments(e)
  BY SameIncrements DEF tables
<1>2. \A d \in Deposits : Confirmed(d)'
  BY DEF IInv, Confirmed, tables
<1>3. QED
  BY <1>1, <1>2, NoMoney DEF tables

LEMMA KeyOf ==
    ASSUME NEW c \in Calls, Job[c].key # NoKey
    PROVE  Job[c].key \in Keys
BY DEF Keys

LEMMA EnterStep ==
    ASSUME IInv, NEW c \in Calls, Enter(c)
    PROVE  IInv'
<1>. DEFINE k == Job[c].key
<1>1. /\ call[c].pc = "idle" /\ MayBeCalled(c)
      /\ behind' = IF Settled(c) THEN behind \cup {c} ELSE behind
      /\ UNCHANGED <<tables, attempts, cache, redis, late, raced>>
  BY DEF Enter
<1>2. /\ call' \in [Calls -> CallStates] /\ \A d \in Calls : d # c => call'[d] = call[d]
      /\ call'[c].pc \in {"begin", "done"} /\ call'[c].outcome = call[c].outcome
      /\ call'[c].stored \in {call[c].stored, WillStore(c)}
  <2>1. WillStore(c) \in BOOLEAN
    BY DEF WillStore
  <2>2. CASE To(c, "done")
    BY <2>2, CallFacts DEF TypeOK, To, CallStates
  <2>3. CASE call' = [call EXCEPT ![c].pc = "begin", ![c].stored = WillStore(c)]
    <3>. HIDE DEF WillStore
    <3>. QED  BY <2>1, <2>3, CallFacts DEF TypeOK, CallStates
  <2>4. QED
    BY <2>2, <2>3 DEF Enter
<1>3. risky' \in {risky, risky \cup {k}} /\ (risky' # risky => k \in Keys)
  BY KeyOf DEF Enter
<1>4. TypeOK'
  <2>1. risky' \subseteq Keys /\ behind' \subseteq Calls
    BY <1>1, <1>3, CallFacts DEF TypeOK
  <2>2. QED
    BY <1>1, <1>2, <2>1, CallFacts DEF TypeOK, tables
<1>5. StoredOK'
  BY <1>2 DEF IInv, StoredOK, WillStore
<1>6. CallOK(c)'
  <2>1. c \notin late /\ c \notin raced
    BY <1>1, CallFacts DEF OnceOK, Past
  <2>2. RowsOK(c)'
    <3>1. /\ Job[c].op = "order" => status[c] = "none"
          /\ Job[c].op = "withdraw" => payout[c] = "none"
          /\ Job[c].op = "order" => attempts[c] = {}
      BY <1>1, CallFacts DEF RowsOK
    <3>2. Job[c].op \in Confirming => status[Job[c].on] # "none"
      <4>1. SUFFICES ASSUME Job[c].op \in Confirming, Job[c].op # "reconcile"
                     PROVE  status[Job[c].on] # "none"
        BY <1>1 DEF MayBeCalled
      <4>2. attempts[Job[c].on] # {} /\ Job[c].on \in Calls /\ Job[Job[c].on].op = "order"
        BY <1>1, <4>1, JobType DEF MayBeCalled, Confirming
      <4>3. QED
        BY <4>2, CallFacts DEF RowsOK
    <3>3. Job[c].op \in Deciding => payout[Job[c].on] # "none"
      BY <1>1 DEF MayBeCalled
    <3>4. Job[c].op \in Confirming \ {"reconcile"} => call[c].outcome \in attempts[Job[c].on]
      BY <1>1, CallFacts DEF RowsOK, MayBeCalled, Confirming
    <3>5. QED
      BY <1>1, <1>2, <3>1, <3>2, <3>3, <3>4, CallFacts DEF RowsOK, tables
  <2>3. OnceOK(c)' /\ SawOK(c)'
    BY <1>1, <1>2, <2>1 DEF OnceOK, SawOK
  <2>4. BehindOK(c)'
    <3>1. Settled(c)' <=> Settled(c)
      BY <1>1 DEF Settled, tables
    <3>2. c \notin behind
      BY <1>1, CallFacts DEF BehindOK
    <3>3. QED
      BY <1>1, <1>2, <2>1, <3>1, <3>2 DEF BehindOK
  <2>5. QED
    BY <2>2, <2>3, <2>4 DEF CallOK
<1>7. \A d \in Calls : CallOK(d)'
  <2>1. Grows(c)
    BY <1>1 DEF Grows, tables
  <2>2. behind' \subseteq behind \cup {c}
    BY <1>1
  <2>3. QED
    BY <1>1, <1>2, <1>6, <2>1, <2>2, OthersOK DEF IInv
<1>8. \A key \in Keys : KeyOK(key)'
  <2>1. SUFFICES ASSUME NEW key \in Keys, key \notin risky' PROVE KeyOK(key)'
    BY DEF KeyOK
  <2>2. KeyOK(key) /\ key \notin risky
    BY <1>3, <2>1 DEF IInv
  <2>3. CASE Running(key)' = Running(key)
    BY <1>1, <1>2, <2>2, <2>3 DEF KeyOK, tables, Running
  <2>4. CASE Running(key)' # Running(key)
    <3>1. key = k /\ call'[c].pc = "begin"
      BY <1>1, <1>2, <2>4 DEF Running
    <3>2. /\ ~Replayed(c) /\ call' = [call EXCEPT ![c].pc = "begin", ![c].stored = WillStore(c)]
          /\ risky' = IF k # NoKey /\ (redis = "down" \/ Running(k) # {})
                      THEN risky \cup {k} ELSE risky
      BY <3>1, CallFacts DEF Enter, To, TypeOK, CallStates
    <3>3. k # NoKey /\ redis = "up" /\ Running(k) = {} /\ k \notin cache
      <4>1. k # NoKey
        BY <3>1 DEF Keys
      <4>2. redis # "down" /\ Running(k) = {}
        BY <2>1, <3>1, <3>2, <4>1
      <4>3. QED
        BY <3>2, <4>1, <4>2, CallFacts DEF TypeOK, Replayed
    <3>4. Running(k)' = {c}
      BY <1>1, <1>2, <3>1, <3>3 DEF Running
    <3>5. call'[c].stored
      BY <3>2, <3>3, CallFacts DEF WillStore, TypeOK, CallStates
    <3>6. \A p \in Payouts : Job[p].key = k => payout'[p] = "none"
      BY <1>1, <2>2, <3>1, <3>3 DEF KeyOK, tables
    <3>7. QED
      BY <1>1, <3>1, <3>3, <3>4, <3>5, <3>6 DEF KeyOK
  <2>5. QED
    BY <2>3, <2>4
<1>9. Books' /\ (\A d \in Deposits : Confirmed(d)') /\ OverdraftIsRaced'
  BY <1>1, <1>4, SameMoney
<1>10. QED
  BY <1>4, <1>5, <1>7, <1>8, <1>9 DEF IInv

\* A call that ends where nothing is stored of it any more.
LEMMA EndOK ==
    ASSUME IInv, NEW c \in Calls, call[c].pc \in Active, Moves(c), call'[c].pc \in {"done", "cut"},
           call'[c].outcome = call[c].outcome,
           UNCHANGED <<tables, attempts, late, behind, raced>>
    PROVE  StoredOK' /\ \A d \in Calls : CallOK(d)'
<1>1. CallOK(c)'
  BY CallFacts
     DEF CallOK, RowsOK, OnceOK, SawOK, BehindOK, Settled, tables, Active, Past
<1>2. Grows(c)
  BY DEF Grows, tables
<1>3. \A d \in Calls : CallOK(d)'
  BY <1>1, <1>2, OthersOK DEF IInv, Moves
<1>4. QED
  BY <1>3 DEF IInv, StoredOK, Moves

LEMMA StoreStep ==
    ASSUME IInv, NEW c \in Calls, Store(c)
    PROVE  IInv'
<1>. DEFINE k == Job[c].key
<1>1. /\ call[c].pc = "answered" /\ To(c, "done")
      /\ UNCHANGED <<tables, attempts, redis, late, behind, raced>>
      /\ \/ cache' = cache \cup {k} /\ risky' = risky
         \/ cache' = cache /\ risky' = risky \cup {k}
  BY DEF Store
<1>2. Moves(c) /\ call'[c].pc = "done" /\ call'[c].outcome = call[c].outcome
  BY <1>1, CallFacts, ToMoves DEF Active
<1>3. k \in Keys
  BY <1>1, KeyOf DEF IInv, StoredOK
<1>4. TypeOK'
  BY <1>1, <1>2, <1>3, CallFacts DEF TypeOK, Moves, tables
<1>5. StoredOK' /\ \A d \in Calls : CallOK(d)'
  BY <1>1, <1>2, EndOK DEF Active
<1>6. \A key \in Keys : KeyOK(key)'
  <2>1. SUFFICES ASSUME NEW key \in Keys, key \notin risky' PROVE KeyOK(key)'
    BY DEF KeyOK
  <2>2. KeyOK(key) /\ key \notin risky
    BY <1>1, <2>1 DEF IInv
  <2>3. CASE key # k
    <3>1. Running(key)' = Running(key) /\ (key \in cache' <=> key \in cache)
      BY <1>1, <1>2, <2>3 DEF Running, Moves
    <3>2. QED
      BY <1>1, <1>2, <2>2, <3>1 DEF KeyOK, tables, Moves, Running
  <2>4. CASE key = k
    <3>1. c \in Running(k) /\ k \in cache'
      BY <1>1, <2>1, <2>4 DEF Running
    <3>2. Running(k)' = {}
      <4>1. Running(k)' \subseteq Running(k) \ {c}
        BY <1>2 DEF Running, Moves
      <4>2. QED
        BY <2>2, <2>4, <3>1, <4>1 DEF KeyOK
    <3>3. QED
      BY <1>1, <2>2, <2>4, <3>1, <3>2 DEF KeyOK, tables
  <2>5. QED
    BY <2>3, <2>4
<1>7. Books' /\ (\A d \in Deposits : Confirmed(d)') /\ OverdraftIsRaced'
  BY <1>1, <1>4, SameMoney
<1>8. QED
  BY <1>4, <1>5, <1>6, <1>7 DEF IInv

LEMMA CutStep ==
    ASSUME IInv, NEW c \in Calls, Cut(c)
    PROVE  IInv'
<1>. DEFINE k == Job[c].key
<1>1. /\ call[c].pc \in Active /\ To(c, "cut")
      /\ risky' = IF k = NoKey THEN risky ELSE risky \cup {k}
      /\ UNCHANGED <<tables, attempts, cache, redis, late, behind, raced>>
  BY CallFacts DEF Cut, TypeOK, CallStates, Active
<1>2. Moves(c) /\ call'[c].pc = "cut" /\ call'[c].outcome = call[c].outcome
  BY <1>1, CallFacts, ToMoves
<1>3. TypeOK'
  <2>1. risky' \subseteq Keys
    BY <1>1, KeyOf, CallFacts DEF TypeOK
  <2>2. QED
    BY <1>1, <1>2, <2>1, CallFacts DEF TypeOK, Moves, tables
<1>4. StoredOK' /\ \A d \in Calls : CallOK(d)'
  BY <1>1, <1>2, EndOK
<1>5. \A key \in Keys : KeyOK(key)'
  <2>1. SUFFICES ASSUME NEW key \in Keys, key \notin risky' PROVE KeyOK(key)'
    BY DEF KeyOK
  <2>2. KeyOK(key) /\ key \notin risky /\ key # k
    BY <1>1, <2>1 DEF IInv, Keys
  <2>3. Running(key)' = Running(key)
    BY <1>2, <2>2 DEF Running, Moves
  <2>4. QED
    BY <1>1, <1>2, <2>2, <2>3 DEF KeyOK, tables, Moves, Running
<1>6. Books' /\ (\A d \in Deposits : Confirmed(d)') /\ OverdraftIsRaced'
  BY <1>1, <1>3, SameMoney
<1>7. QED
  BY <1>3, <1>4, <1>5, <1>6 DEF IInv

LEMMA PayStep ==
    ASSUME IInv, NEW d \in Deposits, NEW outcome \in Outcomes, Pay(d, outcome)
    PROVE  IInv'
<1>1. /\ status[d] # "none" /\ attempts' = [attempts EXCEPT ![d] = @ \cup {outcome}]
      /\ UNCHANGED <<tables, call, late, raced, middleware>>
  BY DEF Pay
<1>. USE DEF tables, middleware
<1>2. TypeOK'
  BY <1>1, CallFacts DEF TypeOK, IInv
<1>3. ASSUME NEW c \in Calls PROVE CallOK(c)'
  <2>1. RowsOK(c)'
    BY <1>1, CallFacts, JobType DEF RowsOK, TypeOK
  <2>2. (OnceOK(c) /\ SawOK(c) /\ BehindOK(c))'
    BY <1>1, CallFacts DEF OnceOK, SawOK, BehindOK, Settled, Debited
  <2>3. QED
    BY <2>1, <2>2 DEF CallOK
<1>4. StoredOK' /\ \A k \in Keys : KeyOK(k)'
  BY <1>1 DEF IInv, StoredOK, KeyOK, Running
<1>5. Books' /\ (\A e \in Deposits : Confirmed(e)') /\ OverdraftIsRaced'
  <2>1. \A e \in Deposits : attempts[e] \subseteq attempts'[e]
    BY <1>1, CallFacts DEF TypeOK, IInv
  <2>2. QED
    BY <1>1, <1>2, <2>1, SameMoney
<1>6. QED
  BY <1>2, <1>3, <1>4, <1>5 DEF IInv

\* A key whose answer is gone is at risk from then on.
LEMMA ExpireStep ==
    ASSUME IInv, NEW k \in Keys, Expire(k)
    PROVE  IInv'
<1>. USE DEF tables
<1>1. /\ cache' = cache \ {k} /\ risky' = risky \cup {k}
      /\ UNCHANGED <<tables, attempts, redis, call, late, behind, raced>>
  BY DEF Expire
<1>2. TypeOK'
  BY <1>1 DEF TypeOK, IInv
<1>3. \A c \in Calls : CallOK(c)'
  BY <1>1 DEF IInv, CallOK, RowsOK, OnceOK, SawOK, BehindOK, Settled, Debited
<1>4. \A key \in Keys : KeyOK(key)'
  <2>1. SUFFICES ASSUME NEW key \in Keys, key \notin risky' PROVE KeyOK(key)'
    BY DEF KeyOK
  <2>2. KeyOK(key) /\ key \notin risky /\ key # k
    BY <1>1, <2>1 DEF IInv
  <2>3. QED
    BY <1>1, <2>2 DEF KeyOK, Running
<1>5. StoredOK'
  BY <1>1 DEF IInv, StoredOK
<1>6. Books' /\ (\A d \in Deposits : Confirmed(d)') /\ OverdraftIsRaced'
  BY <1>1, <1>2, SameMoney
<1>7. QED
  BY <1>2, <1>3, <1>4, <1>5, <1>6 DEF IInv

LEMMA RedisFailsStep ==
    ASSUME IInv, redis' \in {redis, "down"},
           UNCHANGED <<tables, attempts, cache, call, late, behind, raced, risky>>
    PROVE  IInv'
<1>. USE DEF tables
<1>1. TypeOK'
  BY DEF TypeOK, IInv
<1>2. \A c \in Calls : CallOK(c)'
  BY DEF IInv, CallOK, RowsOK, OnceOK, SawOK, BehindOK, Settled, Debited
<1>3. StoredOK' /\ \A k \in Keys : KeyOK(k)'
  BY DEF IInv, StoredOK, KeyOK, Running
<1>4. Books' /\ (\A d \in Deposits : Confirmed(d)') /\ OverdraftIsRaced'
  BY <1>1, SameMoney
<1>5. QED
  BY <1>1, <1>2, <1>3, <1>4 DEF IInv

-----------------------------------------------------------------------------
LEMMA InitIInv == Init => IInv
<1>. SUFFICES ASSUME Init PROVE IInv
  OBVIOUS
<1>1. /\ balance = Opening /\ rows = [u \in Users |-> 0]
      /\ status = [d \in Deposits |-> "none"] /\ attempts = [d \in Deposits |-> {}]
      /\ payout = [p \in Payouts |-> "none"]
      /\ tips = {} /\ cache = {} /\ redis = "up"
      /\ late = {} /\ behind = {} /\ raced = {} /\ risky = {}
  BY DEF Init
<1>2. /\ call \in [Calls -> CallStates]
      /\ \A c \in Calls : call[c].pc = "idle" /\ ~call[c].stored
      /\ \A c \in Calls : call[c].outcome = IF Job[c].op = "failed" THEN "failed" ELSE "captured"
  BY DEF Init, CallStates, Outcomes
<1>3. TypeOK
  BY <1>1, <1>2, OpeningAssumption DEF TypeOK, DepositStatuses, PayoutStatuses
<1>4. StoredOK
  BY <1>2 DEF StoredOK
<1>5. ASSUME NEW c \in Calls PROVE CallOK(c)
  BY <1>1, <1>2, JobType DEF CallOK, RowsOK, OnceOK, SawOK, BehindOK
<1>6. \A k \in Keys : KeyOK(k)
  BY <1>1, <1>2 DEF KeyOK, Running
<1>7. Books
  <2>1. SUFFICES ASSUME NEW u \in Users PROVE balance[u] = Opening[u] + rows[u] + Credited(u)
    BY DEF Books, Explained, Credited
  <2>2. \A d \in Deposits : Increments(d) = 0
    BY <1>1, FS_EmptySet DEF Increments
  <2>3. Credited(u) = 0
    <3>. DEFINE F == [d \in Deposits |-> Job[d].amount * Increments(d)]
                S == {d \in Deposits : Job[d].user = u}
    <3>1. IsFiniteSet(S)
      BY CallsAssumption, FS_Subset DEF Deposits, Of
    <3>2. \A d \in S : F[d] = 0
      <4>1. SUFFICES ASSUME NEW d \in Deposits PROVE Job[d].amount * Increments(d) = 0
        OBVIOUS
      <4>2. Job[d].amount \in Nat
        BY JobType DEF Deposits, Of
      <4>3. QED
        BY <2>2, <4>2
    <3>3. Credited(u) = SumFunctionOnSet(F, S)
      BY DEF Credited
    <3>. HIDE DEF F, S
    <3>4. QED
      BY <3>1, <3>2, <3>3, SumZero
  <2>4. QED
    BY <1>1, <2>3, OpeningAssumption
<1>8. OverdraftIsRaced
  <2>1. SUFFICES ASSUME NEW u \in Users PROVE balance[u] + Raced(u) >= 0
    BY DEF OverdraftIsRaced, Raced
  <2>2. Raced(u) \in Nat
    BY <1>3, RacedNat
  <2>3. QED
    BY <1>1, <2>2, OpeningAssumption
<1>9. \A d \in Deposits : Confirmed(d)
  BY <1>1 DEF Confirmed
<1>10. QED
  BY <1>3, <1>4, <1>5, <1>6, <1>7, <1>8, <1>9 DEF IInv

LEMMA NextIInv == IInv /\ [Next]_vars => IInv'
<1>. SUFFICES ASSUME IInv, [Next]_vars PROVE IInv'
  OBVIOUS
<1>1. ASSUME NEW c \in Calls, Enter(c) \/ Step(c) \/ Store(c) \/ Cut(c) PROVE IInv'
  BY <1>1, EnterStep, HandlerStep, StoreStep, CutStep
<1>2. ASSUME NEW d \in Deposits, NEW outcome \in Outcomes, Pay(d, outcome) PROVE IInv'
  BY <1>2, PayStep
<1>3. CASE RedisFails
  BY <1>3, RedisFailsStep DEF RedisFails
<1>4. CASE UNCHANGED vars
  BY <1>4, RedisFailsStep DEF vars, tables
<1>5. ASSUME NEW k \in Keys, Expire(k) PROVE IInv'
  BY <1>5, ExpireStep
<1>6. QED
  BY <1>1, <1>2, <1>3, <1>4, <1>5 DEF Next

-----------------------------------------------------------------------------
(* The theorems.                                                           *)

\* The inductive invariant holds throughout every behaviour of the wallet.
THEOREM WalletInvariance == Spec => []IInv
<1>1. QED
  BY InitIInv, NextIInv, PTL DEF Spec

\* Every rupee of a balance is explained by a Transaction row or by exactly the
\* deposit confirmations that lost a race, and no deposit is settled but on
\* Razorpay's word (walletService, adminService).
THEOREM DepositsBooked == Spec => []BalanceIsBooked
<1>1. IInv => BalanceIsBooked
  BY DEF IInv, Books, BalanceIsBooked
<1>2. QED
  BY <1>1, WalletInvariance, PTL

\* A wallet is overdrawn by no more than the debits that landed on a balance
\* lower than the one they had checked (withdraw, processPayout, tip, reserve),
\* or that nothing checks (disputeService.adminResolve) and it did not cover.
THEOREM OverdraftBounded == Spec => []OverdraftIsRaced
<1>1. IInv => OverdraftIsRaced
  BY DEF IInv
<1>2. QED
  BY <1>1, WalletInvariance, PTL

\* A confirmation, decision or tip that begins after its row is settled moves no
\* money, and a withdrawal repeated under its key gets one payout as long as
\* nothing crashes, overlaps, finds Redis away or comes after the 24 hours of a
\* stored answer (reconcilePayment, idempotency).
THEOREM RetriesSafe == Spec => []RetryIsNoOp
<1>1. IInv => RetryIsNoOp
  <2>. SUFFICES ASSUME IInv PROVE RedeliveryIsNoOp /\ OnePayoutAKey
    BY DEF RetryIsNoOp
  <2>1. RedeliveryIsNoOp
    BY DEF IInv, TypeOK, CallOK, BehindOK, RedeliveryIsNoOp
  <2>2. OnePayoutAKey
    <3>1. SUFFICES ASSUME NEW k \in Keys \ risky
                   PROVE  Cardinality({p \in Payouts : Job[p].key = k /\ payout[p] # "none"}) <= 1
      BY DEF OnePayoutAKey
    <3>. DEFINE S == {p \in Payouts : Job[p].key = k /\ payout[p] # "none"}
    <3>2. \A p, q \in S : p = q
      BY DEF IInv, KeyOK
    <3>3. CASE S = {}
      BY <3>3, FS_EmptySet
    <3>4. CASE S # {}
      <4>1. PICK p \in S : TRUE
        BY <3>4
      <4>2. S = {p}
        BY <3>2, <4>1
      <4>3. Cardinality({p}) = 1
        BY FS_Singleton
      <4>4. QED
        <5>. HIDE DEF S
        <5>1. Cardinality(S) <= 1
          BY <4>2, <4>3
        <5>. QED  BY <5>1 DEF S
    <3>5. QED
      BY <3>3, <3>4
  <2>3. QED
    BY <2>1, <2>2
<1>2. QED
  BY <1>1, WalletInvariance, PTL
=============================================================================

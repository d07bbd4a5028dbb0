------------------------------ MODULE MCLedger -----------------------------
(* Small instances of Ledger: a requester with a grant date on record and  *)
(* a creator without one.                                                  *)
EXTENDS Ledger, TLC

CONSTANTS req, cre, r, tip1, tip2, hold, adjust, wallet1, wallet2, wallet3, accept, signup

MCUsers == {req, cre}
MCCalls == {tip1, tip2, hold, adjust, wallet1, wallet2, wallet3, accept, signup}

\* A double tap of a tip with another amount, and whatever else may touch the
\* same two users.
MCProgram ==
    tip1 :> Tip(req, cre, r, 2) @@ tip2 :> Tip(req, cre, r, 1)
    @@ hold :> Hold(req, 2) @@ adjust :> AdjustWallet(req, -1, "bonus")
    @@ wallet1 :> GetWallet(req) @@ wallet2 :> GetWallet(req) @@ accept :> AcceptSpend(req, 1)
    @@ signup :> Signup(cre, 2, 1) @@ wallet3 :> GetWallet(cre)

\* Three calls on the same columns at a time.
MCTogether ==
    { {tip1, tip2, hold}, {tip1, hold, adjust}, {wallet1, wallet2, accept},
      {tip2, signup, wallet3} }

MCOpening ==
    req :> [bonus |-> 1, purchased |-> 1, earned |-> 2, connects |-> 1]
    @@ cre :> [bonus |-> 0, purchased |-> 0, earned |-> 0, connects |-> 3]

MCFirstDate == req :> 0 @@ cre :> NoDate
=============================================================================

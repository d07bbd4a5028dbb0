------------------------------ MODULE MCSearch -----------------------------
(* A newcomer with one rating of five stars, and an old hand with 4.5.     *)
EXTENDS Search, TLC

CONSTANTS star, old, resp1, resp2, close1, close2, acc1, acc2, spend2, quit,
          timer1, ask1, ask1b, ask2, no2

MCCreators == {star, old}
MCCalls == {resp1, resp2, close1, close2, acc1, acc2, spend2, quit,
            timer1, ask1, ask1b, ask2, no2}

MCJob ==
    resp1 :> Work("respond", star) @@ resp2 :> Work("respond", old)
    @@ close1 :> Work("close", star) @@ close2 :> Work("close", star)
    @@ acc1 :> Work("accept", star) @@ acc2 :> Work("accept", old)
    @@ spend2 :> Work("spend", old) @@ quit :> Work("cancel", star)
    @@ timer1 :> Work("timer", star)
    @@ ask1 :> Work("ask", star) @@ ask1b :> Work("ask", star) @@ ask2 :> Work("ask", old)
    @@ no2 :> Work("decline", old)

MCRatings == star :> [count |-> 1, sum |-> 5] @@ old :> [count |-> 4, sum |-> 18]
MCDistance == star :> 1 @@ old :> 2
MCOpening == star :> 2 @@ old :> 1

MCTogether ==
    { {resp1, resp2, close1, close2, spend2}, {resp1, resp2, close1, close2, quit},
      {resp2, close1, timer1, acc1, acc2}, {ask1, ask1b, ask2, no2, acc1},
      {ask2, acc2, spend2, timer1, acc1} }
=============================================================================

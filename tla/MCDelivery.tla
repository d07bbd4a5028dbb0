----------------------------- MODULE MCDelivery ----------------------------
(* Two sessions of one request, and whoever may meet them.                 *)
EXTENDS Delivery, TLC

CONSTANTS s1, s2, up1, up1b, up2, retry, cancel, del, ok1, ok2, no1,
          acc, auto, again, rej, quit, purge

MCCalls == {s1, s2, up1, up1b, up2, retry, cancel, del, ok1, ok2, no1,
            acc, auto, again, rej, quit, purge}

MCJob ==
    s1 :> Work("session", s1) @@ s2 :> Work("session", s2)
    @@ up1 :> Work("complete", s1) @@ up1b :> Work("complete", s1) @@ up2 :> Work("complete", s2)
    @@ retry :> Work("retry", s1) @@ cancel :> Work("cancel", s1) @@ del :> Work("delete", s1)
    @@ ok1 :> Work("modApprove", s1) @@ ok2 :> Work("modApprove", s2)
    @@ no1 :> Work("modReject", s1)
    @@ acc :> Work("accept", s1) @@ auto :> Work("auto", s1) @@ again :> Work("reshoot", s1)
    @@ rej :> Work("reject", s1) @@ quit :> Work("withdraw", s1) @@ purge :> Work("purge", s1)

MCTogether ==
    { {s1, up1, retry, up1b, cancel}, {s1, s2, up1, up2, ok1},
      {s1, s2, up1, up1b, ok1}, {s1, up1, no1, s2, up2, del},
      {s1, up1, del, ok1, s2}, {s1, up1, del, s2, up2, ok2},
      {s1, up1, ok1, again, s2, up2, ok2},
      {s1, up1, ok1, acc, auto, rej}, {s1, up1, ok1, rej, acc, purge},
      {s1, up1, quit, ok1, acc} }
=============================================================================

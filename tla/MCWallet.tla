------------------------------ MODULE MCWallet -----------------------------
(* One user with a deposit, two withdrawals under one key, and tips.       *)
EXTENDS Wallet, TLC

CONSTANTS usr, r, key, order, verify, hookC1, hookC2, hookF, admin,
          out1, out2, ok1, ok2, no1, tip1, tip2, hold, win, lose

MCUsers == {usr}
MCCalls == {order, verify, hookC1, hookC2, hookF, admin, out1, out2, ok1, ok2, no1, tip1, tip2, hold,
            win, lose}
MCOpening == usr :> 3

MCJob ==
    order :> Work("order", usr, NoKey, 2, NoKey)
    @@ verify :> Work("verify", usr, order, 0, NoKey)
    @@ hookC1 :> Work("captured", usr, order, 0, NoKey)
    @@ hookC2 :> Work("captured", usr, order, 0, NoKey)
    @@ hookF :> Work("failed", usr, order, 0, NoKey)
    @@ admin :> Work("reconcile", usr, order, 0, NoKey)
    @@ out1 :> Work("withdraw", usr, NoKey, 2, key)
    @@ out2 :> Work("withdraw", usr, NoKey, 1, key)
    @@ ok1 :> Work("approve", usr, out1, 0, NoKey)
    @@ ok2 :> Work("approve", usr, out1, 0, NoKey)
    @@ no1 :> Work("reject", usr, out1, 0, NoKey)
    @@ tip1 :> Work("tip", usr, r, 2, NoKey)
    @@ tip2 :> Work("tip", usr, r, 2, NoKey)
    @@ hold :> Work("hold", usr, NoKey, 2, NoKey)
    @@ win :> Work("award", usr, NoKey, 1, NoKey)
    @@ lose :> Work("takeBack", usr, NoKey, 2, NoKey)

\* Confirmations of one deposit; a withdrawal and all that may race it.
MCTogether ==
    { {order, verify, hookC1, hookC2, hookF}, {order, verify, hookF, admin},
      {out1, out2, ok1, no1}, {out1, ok1, ok2, hold}, {order, hookC1, out1},
      {tip1, tip2, hold}, {out1, ok1, win, lose}, {tip1, hold, lose} }
=============================================================================

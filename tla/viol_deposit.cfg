CONSTANTS
    usr = usr
    r = r
    key = key
    order = order
    verify = verify
    hookC1 = hookC1
    hookC2 = hookC2
    hookF = hookF
    admin = admin
    out1 = out1
    out2 = out2
    ok1 = ok1
    ok2 = ok2
    no1 = no1
    tip1 = tip1
    tip2 = tip2
    hold = hold
    win = win
    lose = lose
    NoKey = NoKey
    Users <- MCUsers
    Calls <- MCCalls
    Job <- MCJob
    Opening <- MCOpening
    Together <- MCTogether
SPECIFICATION Spec
INVARIANTS
    DepositCreditedOnce
CHECK_DEADLOCK FALSE

CONSTANTS
    req = req
    cre = cre
    r = r
    tip1 = tip1
    tip2 = tip2
    hold = hold
    signup = signup
    adjust = adjust
    wallet1 = wallet1
    wallet2 = wallet2
    wallet3 = wallet3
    accept = accept
    NoDate = NoDate
    Users <- MCUsers
    Calls <- MCCalls
    Program <- MCProgram
    Opening <- MCOpening
    FirstDate <- MCFirstDate
    DailyBonus = 2
    DailyCap = 3
    MaxAttempts = 2
    Together <- MCTogether
    MaxDay = 2
SPECIFICATION Spec
INVARIANTS
    NeverNegative
    BalanceIsBooked
    TipIsBacked
PROPERTIES
    ReportIsExact
    OneGrantADay
CHECK_DEADLOCK FALSE

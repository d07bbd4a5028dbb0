CONSTANTS
    star = star
    old = old
    resp1 = resp1
    resp2 = resp2
    close1 = close1
    close2 = close2
    acc1 = acc1
    acc2 = acc2
    spend2 = spend2
    quit = quit
    timer1 = timer1
    ask1 = ask1
    ask1b = ask1b
    ask2 = ask2
    no2 = no2
    Nobody = Nobody
    Creators <- MCCreators
    Calls <- MCCalls
    Job <- MCJob
    Ratings <- MCRatings
    Distance <- MCDistance
    Opening <- MCOpening
    Cost = 1
    MaxExchanges = 1
    FlagAt = 1
    AbandonAt = 1
    Together <- MCTogether
SPECIFICATION Spec
INVARIANTS
    WinnerPaysOnce
    BestWins
    ThreadsCloseOnAccept
CHECK_DEADLOCK FALSE

CONSTANTS
    s1 = s1
    s2 = s2
    up1 = up1
    up1b = up1b
    up2 = up2
    retry = retry
    cancel = cancel
    del = del
    ok1 = ok1
    ok2 = ok2
    no1 = no1
    acc = acc
    auto = auto
    again = again
    rej = rej
    quit = quit
    purge = purge
    Calls <- MCCalls
    Job <- MCJob
    MaxAttempts = 2
    Together <- MCTogether
SPECIFICATION Spec
INVARIANTS
    SettlesOnce
    ReviewShowsApproved
    NobodyStuck
CHECK_DEADLOCK FALSE

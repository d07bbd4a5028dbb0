CONSTANTS
    c1 = c1
    c2 = c2
    a1 = a1
    a2 = a2
    a3 = a3
    None = None
    Creators <- MCCreators
    Attempts <- MCAttempts
    Of <- MCOf
    Connects <- MCConnects
SPECIFICATION Spec
INVARIANTS
    AssignedIsFunded
CHECK_DEADLOCK FALSE

CONSTANTS
    c1 = c1
    c2 = c2
    None = None
    Creators <- MCCreators
    Currency = "CREDIT"
    Amounts <- MCAmounts
    PartialRefunds <- MCPartialRefunds
    Reward = 150
    Rate = 15
    HighValue = 100
    Percents <- MCPercents
    MaxFaults = 2
SYMMETRY MCSymmetry
SPECIFICATION FaultSpec
INVARIANTS
    ClosedNeverShort
    EachFaultPaysAtMostOnce

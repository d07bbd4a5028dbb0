CONSTANTS
    c1 = c1
    c2 = c2
    None = None
    Creators <- MCCreators
    Currency = "INR"
    Amounts <- MCAmounts
    PartialRefunds <- MCPartialRefunds
    Reward = 0
    Rate = 15
    HighValue = 2005
    Percents <- MCPercents
SYMMETRY MCSymmetry
SPECIFICATION Spec
INVARIANTS
    EveryResolutionBalances

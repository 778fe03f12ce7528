SPECIFICATION Spec
CONSTANTS
    ibm = ibm
    msft = msft
    Symbols = {ibm, msft}
    Prices = {1, 2}
    Sizes = {1, 2}
    BuyingPower = 500
    LongShares <- MCLongShares
    Inputs <- MCInputs
    MaxOrders = 2
    MaxCancels = 1
INVARIANT FinishedUnlisted
CHECK_DEADLOCK FALSE

SPECIFICATION Spec
CONSTANTS
    ibm = ibm
    msft = msft
    Symbols = {ibm, msft}
    Prices = {1, 2}
    Sizes = {1, 2}
    BuyingPower = 400
    LongShares <- NoShares
    Inputs <- SellInputs
    MaxOrders = 2
    MaxCancels = 0
PROPERTY CanRecover
CHECK_DEADLOCK FALSE

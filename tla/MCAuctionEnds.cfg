\* Auctions that use up parts of one level.
SPECIFICATION FairSpec
CONSTANTS
    Prices = {2}
    Submissions <- OneLevel
    CancelSizes = {1}
    MaxLevel = 5
    DblMin = 1
    DblMax = 9
    MaxOrders = 5
    MaxCancels = 0
    MaxAuctions = 2
PROPERTIES AuctionEnds
CHECK_DEADLOCK FALSE

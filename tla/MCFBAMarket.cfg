\* Auctions and cancellations between orders of clients.
SPECIFICATION Spec
CONSTANTS
    Prices = {2, 3}
    Submissions <- MCSubmissions
    CancelSizes = {1, 3}
    MaxLevel = 5
    DblMin = 1
    DblMax = 9
    MaxOrders = 4
    MaxCancels = 1
    MaxAuctions = 2
INVARIANTS TypeOK LevelsExact SharesAccounted LevelsByAge TradesSound AuctionClears
PROPERTIES PublishedUncrossed PriceRules FairDivision LedgerSpec
CHECK_DEADLOCK FALSE

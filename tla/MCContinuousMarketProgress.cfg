\* The liveness of the handler, on a smaller instance.
SPECIFICATION FairSpec
CONSTANTS
    Traders = {t1, t2}
    Feed = Feed
    Prices = {2, 3}
    Sizes = {1, 2}
    Dests = {d1}
    Shift = Shift
    Quotes <- MCQuotes
    Trades <- MCTrades
    DblMin = 1
    DblMax = 4
    MaxOrders = 2
    MaxRequests = 2
    MaxFeed = 1
PROPERTIES HandlerEnds
CHECK_DEADLOCK FALSE

\* A feed that repeats one quote.
SPECIFICATION Spec
CONSTANTS
    Traders = {t1, t2}
    Feed = Feed
    Prices = {2, 3}
    Sizes = {1, 2}
    Dests = {d1}
    Shift = Shift
    Quotes <- OneQuote
    Trades <- NoTrades
    DblMin = 1
    DblMax = 4
    MaxOrders = 1
    MaxRequests = 1
    MaxFeed = 2
PROPERTIES RepeatedQuoteSkipped
CHECK_DEADLOCK FALSE

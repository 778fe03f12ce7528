\* Orders of clients and the data feed.
SPECIFICATION Spec
CONSTANTS
    Traders = {t1, t2}
    Feed = Feed
    Prices = {2, 3, 4}
    Sizes = {1, 2}
    Dests = {d1, d2}
    Shift = Shift
    Quotes <- MCQuotes
    Trades <- MCTrades
    DblMin = 1
    DblMax = 5
    MaxOrders = 2
    MaxRequests = 2
    MaxFeed = 2
INVARIANTS AccountsInv BooksOrdered LevelsExact NoMissedMatch
PROPERTIES PriceTimePriority PricesWithinLimits
CHECK_DEADLOCK FALSE
SYMMETRY Symmetry

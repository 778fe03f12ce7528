\* Orders of clients only.
SPECIFICATION Spec
CONSTANTS
    Traders = {t1, t2}
    Feed = Feed
    Prices = {2, 3}
    Sizes = {1, 2}
    Dests = {d1}
    Shift = Shift
    Quotes <- NoQuotes
    Trades <- NoTrades
    DblMin = 1
    DblMax = 4
    MaxOrders = 4
    MaxRequests = 4
    MaxFeed = 0
INVARIANTS TypeOK BooksOrdered LevelsExact SharesAccounted NoMissedMatch
PROPERTIES PriceTimePriority PricesWithinLimits LedgerSpec
CHECK_DEADLOCK FALSE
SYMMETRY Symmetry

\* Two tabs with the pages of MCStarts.
SPECIFICATION FairSpec
CONSTANTS
    Tabs = {t1, t2}
    t1 = t1
    t2 = t2
    StockList <- MCStockList
    Starts <- MCStarts
    BookTypes = {"a"}
    Books <- MCBooks
    UserLists <- MCUserLists
    Zero = "zero"
    Empty = "empty"
    MaxInputs = 2
    MaxInbox = 1
INVARIANTS TypeOK TabFollows SubmittedShown
PROPERTIES PagesSettle
CHECK_DEADLOCK FALSE

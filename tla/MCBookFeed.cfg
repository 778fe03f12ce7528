\* One symbol with two prices, one exchange and one client.
SPECIFICATION FairSpec
CONSTANTS
    Clients = {"c1"}
    Prices = {1, 2}
    Sizes = {1}
    Dests = {"X"}
    Shift = "SHIFT"
    Starts <- MCStarts
    MaxUpdates = 2
    MaxRequests = 2
    MaxWire = 0
INVARIANTS TypeOK MirrorExact ClientCurrent
PROPERTIES NonEmptyRefreshed
CHECK_DEADLOCK FALSE

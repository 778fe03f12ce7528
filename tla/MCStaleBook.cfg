\* A book that becomes empty while a client has subscribed and missed it.
SPECIFICATION FairSpec
CONSTANTS
    Clients = {"c1"}
    Prices = {1, 2}
    Sizes = {1}
    Dests = {"X"}
    Shift = "SHIFT"
    Starts <- MCStarts
    MaxUpdates = 2
    MaxRequests = 2
    MaxWire = 0
PROPERTIES AllRefreshed
CHECK_DEADLOCK FALSE

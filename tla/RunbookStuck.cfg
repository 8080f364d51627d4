SPECIFICATION FairSpec
CONSTANTS
    Clients = {c1}
    Books <- TwoBooks
    MaxRuns = 2
    MaxStops = 0
    MaxRequests = 2
    Horizon = 2
PROPERTIES RunbooksEnd
CHECK_DEADLOCK FALSE

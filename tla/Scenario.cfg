SPECIFICATION FairSpec
CONSTANTS
    Scenarios <- TwoScenarios
    MaxHistory = 2
    MaxRuns = 3
    MaxCrashes = 1
    None = None
INVARIANT TypeOK
INVARIANT IndexMatchesClock
INVARIANT EventsOnceInOrder
PROPERTY RunEnds
CHECK_DEADLOCK FALSE

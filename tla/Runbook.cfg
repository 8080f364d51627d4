SPECIFICATION Spec
CONSTANTS
    Clients = {c1, c2}
    Books <- TwoBooks
    MaxRuns = 2
    MaxStops = 1
    MaxRequests = 2
    Horizon = 2
INVARIANT TypeOK
INVARIANT LoopSurvives
INVARIANT RunsAreWhole
PROPERTY NoStepBeforeItsTime
CHECK_DEADLOCK FALSE
SYMMETRY Interchangeable

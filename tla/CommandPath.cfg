SPECIFICATION FairSpec
CONSTANTS
    NumGenerators = 2
    Targets <- McTargets
    Lengths = {1, 2}
    MaxCommands = 2
    MaxUnitTargets = 3
    Setpoints <- McSetpoints
    Rated = 4
    MaxRequests = 3
INVARIANT TypeOK
INVARIANT QueueWithinLimits
INVARIANT CommandsConserved
INVARIANT NoSetpointEcho
PROPERTY AcceptedIsApplied
PROPERTY SetpointSettles

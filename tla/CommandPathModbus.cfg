SPECIFICATION Spec
CONSTANTS
    NumGenerators = 2
    Targets <- McTargets
    Lengths = {1, 2}
    MaxCommands = 2
    MaxUnitTargets = 3
    Setpoints <- McSetpoints
    Rated = 4
    MaxRequests = 1
INVARIANT ClearedOnlyIfProcessed

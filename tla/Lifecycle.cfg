SPECIFICATION FairSpec
CONSTANTS
    Configs <- McConfigs
    First <- McFirst
    UnitsPerPort = 2
    MaxPort = 2
    MaxFleets = 4
INVARIANT ServesItsSettings
INVARIANT AddressesServed
INVARIANT OneFleetInService
INVARIANT NothingLeftBehind
PROPERTY SavesConsistent
PROPERTY FailureRestoresSettings
PROPERTY CallEnds
CHECK_DEADLOCK FALSE

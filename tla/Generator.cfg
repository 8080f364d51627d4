SPECIFICATION FairSpec
CONSTANTS
    Commands = {1, 2, 3, 4, 5, 6, 7, 8, 9, 10, 11, 12, 13, 14, 20, 26, 37}
    AutoDelays = {2}
    CrankTicks = {1, 5}
    CooldownTicks = {2}
    NaturalAnomalies = {"OVERSPEED"}
    Warnings = {}
    None = None
INVARIANT TypeOK
INVARIANT BreakersSafe
INVARIANT FaultsLatch
PROPERTY BuildingNotDropped
PROPERTY CriticalTrips
PROPERTY FaultLeftByReset
PROPERTY OutagePickedUp
PROPERTY RetransferCompletes

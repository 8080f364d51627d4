SPECIFICATION Spec
CONSTANTS
    Ids = {"preset", "a", "b", "c"}
    Payloads <- McPayloads
    Presets <- McPresets
    InitialFiles <- McInitialFiles
    NoList = NoList
    MaxSteps = 2
    MaxSaved = 2
    MaxBytes = 3
    Handlers = {h1, h2}
    MaxRequests = 3
    MaxRegistries = 2
INVARIANT ServedFitsFile
CHECK_DEADLOCK FALSE

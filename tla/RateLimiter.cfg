SPECIFICATION Spec
CONSTANTS
    Keys = {k1, k2}
    Handlers = {h1, h2}
    Limit = 2
    Window = 2
    MaxTime = 4
    MaxCalls = 5
    None = None
INVARIANT OverrunBounded
PROPERTY RefusedOnlyWhenBusy
CHECK_DEADLOCK FALSE

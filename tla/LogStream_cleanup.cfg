SPECIFICATION LogSpec
CONSTANTS
    Sources = {core, app}
    AppLog = app
    NoStream = None
    Streams = {s1, s2}
    MaxSwitches = 1
    MaxOutages = 1
INVARIANTS
    CleanupClosesSockets
CHECK_DEADLOCK FALSE

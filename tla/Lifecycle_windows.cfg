\* A client and the watchdog, whose operations overlap as they like.
SPECIFICATION Spec
CONSTANTS
    NoProc = NoProc
    Callers = {r1}
    Procs = {p1, p2}
    Modes = {{}}
    OnCrash = TRUE
    Platform = {}
    Faults = {"remove"}
INVARIANT
    EveryCoreIsWatched
PROPERTIES
    CoresNeedOpenWindows
    PidFileFollowsCore

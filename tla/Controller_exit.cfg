\* The promise of README.md:46 against a Start that is under way at shutdown.
SPECIFICATION MCSpec
CONSTANTS
    NoProc = NoProc
    Main = main
    Callers = {main, r1}
    Procs = {p1, p2}
    Modes = {{}, {"tproxy"}}
    OnCrash = FALSE
    Platform = {}
    Faults = {}
    MaxEvents = 3
INVARIANT
    CleanExit
CHECK_DEADLOCK FALSE

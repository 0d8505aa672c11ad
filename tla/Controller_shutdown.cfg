\* Boot, restore, requests, shutdown, crash of the controller; three events.
SPECIFICATION MCFairSpec
CONSTANTS
    NoProc = NoProc
    Main = main
    Callers = {main, r1}
    Procs = {p1, p2}
    Modes = {{}, {"tun"}}
    OnCrash = FALSE
    Platform = {"fw4"}
    Faults = {}
    MaxEvents = 3
INVARIANT
    CTypeOK
PROPERTIES
    SerialStartsKeepOneCore
    QuietExitIsClean
    BootServes
CHECK_DEADLOCK FALSE

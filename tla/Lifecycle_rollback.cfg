\* A failed routing change, one client, no crash of the core needed.
SPECIFICATION Spec
CONSTANTS
    NoProc = NoProc
    Callers = {r1}
    Procs = {p1, p2}
    Modes = {{}, {"tun"}}
    OnCrash = FALSE
    Platform = {}
    Faults = {}
INVARIANT
    FailedChangeLeavesNoRules

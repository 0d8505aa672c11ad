\* One client at a time; the watchdog off; the pid file may resist its removal.
SPECIFICATION FairSpec
CONSTANTS
    NoProc = NoProc
    Callers = {r1}
    Procs = {p1, p2}
    Modes = {{}, {"tproxy"}}
    OnCrash = FALSE
    Platform = {"sysctl"}
    Faults = {"remove"}
INVARIANTS
    TypeOK
    StopEndsTheCore
    FailedChangeIsRolledBack
PROPERTY
    ZombiesAreReaped

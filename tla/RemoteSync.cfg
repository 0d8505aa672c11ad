SPECIFICATION SyncSpec
CONSTANTS
    Targets = {t1, t2}
    NoTarget = None
    SyncSlots = {s1, s2}
    MaxPresses = 2
PROPERTIES
    SyncIsAnswered
CHECK_DEADLOCK FALSE

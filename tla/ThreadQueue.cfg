CONSTANTS
    t1 = t1
    t2 = t2
    t3 = t3
    v1 = v1
    v2 = v2
    NoValue = NoValue
    Threads = {t1, t2, t3}
    Values = {v1, v2}
    Caps = {0, 2}
    InitCap = 1
SPECIFICATION Spec
INVARIANTS
    NoLostWakeup
    NoStandoff
PROPERTIES
    ImplementsChannel
    CloseReleases
CHECK_DEADLOCK FALSE

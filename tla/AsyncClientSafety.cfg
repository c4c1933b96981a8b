CONSTANTS
    a1 = a1
    a2 = a2
    t1 = t1
    t2 = t2
    Cb = Cb
    Null = Null
    Apps = {a1, a2}
    Connectors = {a1, a2}
    Tokens = {t1, t2}
    MaxReconnects = 1
    MaxDepth = 2
SYMMETRY ClientSymmetry
SPECIFICATION Spec
INVARIANTS
    InFlightIsPending
    PendingIsInPlay
    DeliveryCompleteLast
    NoWaitCycle
CHECK_DEADLOCK FALSE

CONSTANTS
    u1 = u1
    u2 = u2
    NoListener = NoListener
    Users = {u1, u2}
    MaxActions = 2
SPECIFICATION Spec
INVARIANTS
    NoSleeperLeftBehind
    ListenerOnce
    ListenerNotMissed
    ListenerToldTruth
PROPERTIES
    WaitReturns

CONSTANTS
    k1 = k1
    k2 = k2
    Absent = Absent
    Keys = {k1, k2}
    Messages <- MCMessages
    EncodeKey <- MCEncodeKey
    MaxFailures = 2
    MaxCrashes = 2
    Attempts = 3
    MaxFaults = 4
    MaxRuns = 3
    MaxQueue = 3
    MaxLosses = 2
    Every = 2
    MaxCount = 7
SPECIFICATION ExamplesSpec
INVARIANTS
    ReadsBack
    NeverDeaf
    NothingMissed
    
PROPERTIES
    Recovers
    PublisherEnds
    JoinReturns
    CountReported
\* A program may stop for good, and a store at its bounds.
CHECK_DEADLOCK FALSE

SPECIFICATION FairSpec
CONSTANTS
    Rows = 3
    Relay = {w1, w2}
    BatchSize = 2
    MaxLapses = 1
    MaxFaults = 1
CHECK_DEADLOCK FALSE
INVARIANTS
    TypeOK
    NothingLost
    DedupAbsorbs
PROPERTIES
    Drained

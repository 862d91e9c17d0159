SPECIFICATION FairSpec
CONSTANTS
    Reservations = 2
    Sweeper = {w1, w2}
    Steady = w1
    BatchSizes = {1, 2}
    MaxDeliver = 1
CHECK_DEADLOCK FALSE
INVARIANTS
    TypeOK
    CleanedAfterAnnounced
PROPERTIES
    NoSeatLeaks

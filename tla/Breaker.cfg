SPECIFICATION FairSpec
CONSTANTS
    Caller = {c1, c2, c3}
    Threshold = 2
    Cooldown = 3
    OpTimeout = 2
INVARIANTS
    TypeOK
    ProbeAlone
PROPERTIES
    FastPathReturns

SPECIFICATION FairSpec
CONSTANTS
    Replica = {p1, p2}
    Foreign = {f}
    Msg = {m1, m2}
    Batch = 2
    HandlerTime = 1
    AckWait = 3
    MaxDeliver = 2
    MaxStops = 1
    Delay <- Pacing
INVARIANTS
    TypeOK
    OneInstance
    QuietOnceClosed
    CountedOnce
    BudgetLasts
PROPERTIES
    CloseReturns
    MessageSettles

SPECIFICATION FairSpec
CONSTANTS
    e1 = e1
    u1 = u1
    u2 = u2
    r1 = r1
    r2 = r2
    None = None
    Worker = {w1, w2}
    ResId = {r1}
    EventId = {e1}
    UserId = {u1}
    MaxQty = 2
    Capacity <- SmallHall
    Request <- OneRequest
    Faults = TRUE
PROPERTIES
    HandlerReturns
    HoldsEnd

SPECIFICATION Spec
CONSTANTS
    e1 = e1
    u1 = u1
    u2 = u2
    r1 = r1
    r2 = r2
    None = None
    Worker = {w1, w2}
    ResId = {r1, r2}
    EventId = {e1}
    UserId = {u1, u2}
    MaxQty = 2
    Capacity <- SmallHall
    Request <- TwoRequests
    Faults = TRUE
SYMMETRY Replicas
INVARIANTS
    TypeOK
    Conservation
    NoOverbooking
    OutboxMatches
    AckedApplied
    HoldBacked
PROPERTIES
    DecisionFinal
    Refinement

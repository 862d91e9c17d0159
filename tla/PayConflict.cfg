SPECIFICATION Spec
CONSTANTS
    r1 = r1
    r2 = r2
    u1 = u1
    u2 = u2
    k1 = k1
    k2 = k2
    m1 = m1
    m2 = m2
    m3 = m3
    None = None
    ResId = {r1}
    Msg = {m1, m2}
    UserId = {u1}
    Key = {k1}
    Worker = {w1, w2}
    Owner <- OneOwner
    Command <- Repeated
    MaxWait = 1
    MaxDeliver = 1
    Faults = FALSE
CHECK_DEADLOCK FALSE
INVARIANTS
    OneOutcome

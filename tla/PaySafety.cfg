SPECIFICATION FairSpec
CONSTANTS
    r1 = r1
    r2 = r2
    u1 = u1
    u2 = u2
    k1 = k1
    k2 = k2
    m1 = m1
    m2 = m2
    m3 = m3
    None = None
    ResId = {r1, r2}
    Msg = {m1, m2, m3}
    UserId = {u1, u2}
    Key = {k1, k2}
    Worker = {w1, w2}
    Owner <- Owners
    Command <- MixedCommands
    MaxWait = 1
    MaxDeliver = 2
    Faults = TRUE
CHECK_DEADLOCK FALSE
INVARIANTS
    DecidedAnnounced
    SuccessWasCharged
    OutcomeBelongs
    RowOfOwner
    ChargesBounded
PROPERTIES
    CommandSettles
    Refinement

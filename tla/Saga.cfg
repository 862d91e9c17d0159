SPECIFICATION FairSpec
CONSTANTS
    e1 = e1
    u1 = u1
    u2 = u2
    r1 = r1
    r2 = r2
    p1 = p1
    p2 = p2
    p3 = p3
    k1 = k1
    k2 = k2
    t1 = t1
    t2 = t2
    None = None
    ResId = {r1, r2}
    EventId = {e1}
    UserId = {u1, u2}
    MaxQty = 1
    Capacity <- Seats
    Request <- Requests
    Pay = {p1, p2, p3}
    Key = {k1, k2}
    AuthTokens <- Tokens
    Caller <- Callers
    WellFormed = {r1, r2, p1, p2, p3}
    Submission <- Submissions
    MaxDeliver = 2
CHECK_DEADLOCK FALSE
INVARIANTS
    ConfirmedWasCharged
    ChargedOnOwnCall
    OneAccount
PROPERTIES
    AcceptedSettles

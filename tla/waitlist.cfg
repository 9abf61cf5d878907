SPECIFICATION FairSpec
CONSTANTS
    w1 = w1
    w2 = w2
    w3 = w3
    b1 = b1
    b2 = b2
    u1 = u1
    u2 = u2
    u3 = u3
    None = None
    Calls = {w1, w2, w3}
    Bookings = {b1, b2}
    Users = {u1, u2, u3}
    Who <- ThreeUsers
    JobAttempts = 2
    MayFail = TRUE
    MaxJobs = 2
INVARIANTS
    TypeOK
    OneOfferPerCancellation
PROPERTIES
    OfferedInOrder
    OfferEnds
    OfferIsPassedOn
CHECK_DEADLOCK FALSE

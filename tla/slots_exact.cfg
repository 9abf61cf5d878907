SPECIFICATION Spec
CONSTANTS
    DayLength = 24
    MinDuration = 1
    MaxDuration = 6
    DurationStep = 1
    None = None
    Users = {u1, u2}
    Requests = {r1, r2, r3}
    Slots <- OneSlot
    LeaseMayLapse = FALSE
    MayCrash = TRUE
    JobAttempts = 2
SYMMETRY Symmetric
INVARIANTS
    TypeOK
    NoExactDoubleBooking
PROPERTIES
    ImplementsExclusiveSlots
CHECK_DEADLOCK FALSE

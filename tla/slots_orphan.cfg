SPECIFICATION Spec
CONSTANTS
    DayLength = 24
    MinDuration = 1
    MaxDuration = 6
    DurationStep = 1
    None = None
    Users = {u1, u2}
    Requests = {r1, r2}
    Slots <- OneSlot
    LeaseMayLapse = FALSE
    MayCrash = FALSE
    JobAttempts = 1
INVARIANTS
    UnpaidBookingHasExpiryJob
CHECK_DEADLOCK FALSE

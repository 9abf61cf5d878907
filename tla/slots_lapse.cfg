SPECIFICATION FairSpec
CONSTANTS
    DayLength = 24
    MinDuration = 1
    MaxDuration = 6
    DurationStep = 1
    None = None
    Users = {u1}
    Requests = {r1, r2}
    Slots <- OneSlot
    LeaseMayLapse = TRUE
    MayCrash = TRUE
    JobAttempts = 2
PROPERTIES
    LeaseNotStolen
    QueuedExpiryEndsBooking
CHECK_DEADLOCK FALSE

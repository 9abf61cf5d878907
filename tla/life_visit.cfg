SPECIFICATION Spec
CONSTANTS
    Bookings = {b1}
    PayTypes = {"FULL_ONLINE", "FULL_CASH"}
    Manual = FALSE
    Overnight = TRUE
    Handlers <- VisitHandlers
    LastMark = 4
    RetryAttempts = 1
    MayCrash = TRUE
INVARIANTS
    RewardedOnce
    PlayedOrRefunded
CHECK_DEADLOCK FALSE

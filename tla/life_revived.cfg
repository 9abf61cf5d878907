SPECIFICATION Spec
CONSTANTS
    Bookings = {b1}
    PayTypes = {"FULL_ONLINE"}
    Manual = FALSE
    Overnight = FALSE
    Handlers <- SlotHandlers
    LastMark = 0
    RetryAttempts = 1
    MayCrash = FALSE
PROPERTIES
    EndedBookingStaysEnded
CHECK_DEADLOCK FALSE

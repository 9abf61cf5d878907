SPECIFICATION Spec
CONSTANTS
    Bookings = {b1, b2}
    PayTypes = {"FULL_ONLINE"}
    Manual = FALSE
    Overnight = FALSE
    Handlers <- SlotHandlers
    LastMark = 0
    RetryAttempts = 1
    MayCrash = FALSE
SYMMETRY Symmetric
INVARIANTS
    EndedBookingHoldsNoSlot
CHECK_DEADLOCK FALSE

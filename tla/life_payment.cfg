SPECIFICATION Spec
CONSTANTS
    Bookings = {b1}
    PayTypes = {"FULL_ONLINE", "HALF_ONLINE_HALF_CASH", "FULL_CASH"}
    Manual = TRUE
    Overnight = FALSE
    Handlers <- ApprovalHandlers
    LastMark = 0
    RetryAttempts = 1
    MayCrash = FALSE
INVARIANTS
    TypeOK
    ProcessedRefundIsReal
    OneRefund
    RejectedPaymentIsOwed
    PromisedRefundIsRequested
    
CHECK_DEADLOCK FALSE

SPECIFICATION Spec
CONSTANTS
    DayLength = 24
    MinDuration = 2
    MaxDuration = 12
    DurationStep = 1
INVARIANTS
    SameDaySlotsAreOpen
CHECK_DEADLOCK FALSE

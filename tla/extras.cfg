CONSTANTS
    Parts = {"split", "points", "blocks", "prices", "offers", "pages", "ratings"}
    SplitCalls = {c1, c2}
    Lead = lead
    Friends = {f1}
    Fees = {3}
    MaxRows = 3
    Gone = gone
    Games = {g1, g2, g3}
    Looks = {l1}
    Days = {0, 1, 6, 11}
    NoRow = noRow
    TurfDays = {1, 2}
    DayBookings = {b1, b2}
    OwnerCalls = {o1}
    BlockIds = {1, 2}
    BasePrices = {80500, 80550}
    Durations = {3}
    OpeningHours <- MCHours
    Weekdays = {0, 1, 5}
    EventRates = {0, 9}
    MaxBooked = 5
    MaxQueued = 1
    Turfs = {t1, t2}
    Guests = {p1, p2}
    OfferCalls = {c1, c2}
    HighVolume = 1
    MaxOffers = 4
    PageBookings = {1, 2}
    PageSlots <- MCPageSlots
    Instants <- MCInstants
    PageTypes = {"FULL_ONLINE", "FULL_CASH"}
    Settlements = {s1}
    Rateable = {v1, v2, v3}
    RateCalls = {c1, c2}
    Stars = {4, 5}
SPECIFICATION Spec
SYMMETRY MCSymmetry
INVARIANTS
    TypeOK
    SharesAddUp
    PointsAddUp
    StreakIsEarned
    MaintenanceKeepsTurfFree
    ShownPriceIsCharged
    OffersAreLimited
    PagesAgree
    RatingIsCurrent
PROPERTY PaidShareStands
CHECK_DEADLOCK FALSE

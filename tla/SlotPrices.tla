----------------------------- MODULE SlotPrices -----------------------------
(****************************************************************************)
(* The price of a slot.  pricing.service.ts computes it twice: in           *)
(* calculateSlotPrice for the booking that is created, and inline in        *)
(* getSlotPricing for the list of one-hour slots the customer chooses from. *)
(* The state is one turf on one day: the bookings and the waitlist entries  *)
(* both look at.                                                            *)
(*                                                                          *)
(* A time is an hour of the day; the list's strings order the same way.     *)
(* Prices are in paise: a base price may have a fraction, which the two     *)
(* ways round at different points.  A multiplier is in tenths, a product of *)
(* two in hundredths; a duration is in half hours.                          *)
(****************************************************************************)
EXTENDS Integers, FiniteSets

CONSTANTS BasePrices,   \* weekdayDayPrice, a float
          Durations,    \* lengths of bookings
          OpeningHours, \* the turf's hours: records of open and close
          Weekdays,     \* days of the week, 0 is Sunday
          EventRates,   \* multipliers of special events, in tenths; 0 is no event
          MaxBooked,    \* bound: bookings at a time
          MaxQueued     \* bound: start times with a waitlist

Hour == 0 .. 23

ASSUME PricesAssumption ==
    /\ BasePrices \subseteq Nat /\ Durations \subseteq Nat /\ Weekdays \subseteq 0 .. 6 /\ EventRates \subseteq Nat /\ MaxBooked \in Nat /\ MaxQueued \in Nat
    /\ OpeningHours \subseteq [open : Hour, close : Hour]

VARIABLES
    market,    \* what does not change: base price, hours, day of the week, event
    booked,    \* slots of the bookings not CANCELLED, NO_SHOW or REJECTED
    queue      \* the waitlist's start times: WAITING or EXPIRED, or none

priceVars == <<market, booked, queue>>

HourSlot == [start : Hour, end : Hour]

PricesTypeOK ==
    /\ market.base \in BasePrices /\ market.hours \in OpeningHours
    /\ market.weekday \in Weekdays /\ market.event \in EventRates
    /\ booked \subseteq HourSlot
    /\ queue \in [Hour -> {"NONE", "WAITING", "EXPIRED"}]

PricesInit ==
    /\ market \in [base : BasePrices, hours : OpeningHours, weekday : Weekdays, event : EventRates]
    /\ booked = {}
    /\ queue = [h \in Hour |-> "NONE"]

----------------------------------------------------------------------------
(* What both ways use *)

\* Math.round(amount / parts); halves go up.
Rounded(amount, parts) == (2 * amount + parts) \div (2 * parts)

\* getClusterOccupancySurge: the bookings that start at 18:00 or later, of six slots.
Evening == Cardinality({s \in booked : s.start >= 18})
OccupancyRate ==
    LET percent == (Evening * 100) \div 6
    IN  IF Evening * 100 > 75 * 6 THEN 13 ELSE IF percent >= 40 THEN 12 ELSE 10

----------------------------------------------------------------------------
(* The list *)

\* The slots, an hour each, from opening to closing, past midnight when the turf closes the
\* next day.
MaxHour ==
    LET h == market.hours
    IN  IF h.open = h.close THEN 24 ELSE IF h.close <= h.open THEN 24 + h.close ELSE h.close
ListedSlots == {[start |-> h % 24, end |-> (h + 1) % 24] : h \in market.hours.open .. MaxHour - 1}

\* The list compares the strings: no time is before 00:00.
IsBooked(slot) == \E b \in booked : b.start < slot.end /\ b.end > slot.start

\* The multiplier of the day and the hour, in the list's own copy.
ListRate(hour) ==
    CASE market.event # 0 -> market.event
      [] market.event = 0 /\ market.weekday \in {0, 6} -> IF hour >= 18 THEN 15 ELSE 12
      [] market.event = 0 /\ market.weekday = 5 /\ hour >= 18 -> 14
      [] market.event = 0 /\ market.weekday \in 1 .. 4 /\ hour >= 18 -> 13
      [] OTHER -> 10

\* The base price of an hour times the rate; a raised price is above the base price.
Shown(rate) ==
    LET final == 100 * Rounded(market.base * rate, 10000)
    IN  IF rate > 100 /\ final <= market.base /\ market.base > 0 THEN market.base + 100 ELSE final

\* Mutant: the list forgets the public price of a slot nobody on the waitlist took.
ListedWithoutPublic(slot) == Shown(ListRate(slot.start) * OccupancyRate)

\* The entry of the list for a slot.
ListedPrice(slot) ==
    LET public == queue[slot.start] = "EXPIRED" /\ ~IsBooked(slot)
    IN  Shown(IF public THEN 120 ELSE ListRate(slot.start) * OccupancyRate)

----------------------------------------------------------------------------
(* The booking *)

\* getCalendarMultiplier
CalendarRate(hour) ==
    IF market.event # 0 THEN market.event
    ELSE IF market.weekday \in {0, 6} THEN IF hour >= 18 THEN 15 ELSE 12
    ELSE IF hour < 18 THEN 10
    ELSE IF market.weekday = 5 THEN 14 ELSE 13

\* basePriceForDuration, in whole rupees.
BaseRupees(half) == Rounded(market.base * half, 200)

\* Rounded once more; a raised price is above the base price, if only by a rupee.
Raised(rupees, rate) ==
    LET final == Rounded(rupees * rate, 100)
    IN  IF rate > 100 /\ final <= rupees /\ rupees > 0 THEN rupees + 1 ELSE final

\* calculateSlotPrice for createBooking.  A waitlist claim pays the base price; the public
\* price of a slot nobody on the waitlist took is rounded without the rupee on top.
ChargedPrice(slot, half, isWaitlistClaim) ==
    100 * (IF isWaitlistClaim THEN BaseRupees(half)
           ELSE IF queue[slot.start] = "EXPIRED" THEN Rounded(BaseRupees(half) * 120, 100)
           ELSE Raised(BaseRupees(half), CalendarRate(slot.start) * OccupancyRate))

----------------------------------------------------------------------------
(* What moves the prices *)

\* createBooking's conflict condition is the list's.
BookSlot(slot) ==
    /\ Cardinality(booked) < MaxBooked
    /\ ~IsBooked(slot) /\ slot \notin booked
    /\ booked' = booked \cup {slot}
    /\ UNCHANGED <<market, queue>>

CancelSlot(slot) ==
    /\ slot \in booked
    /\ booked' = booked \ {slot}
    /\ UNCHANGED <<market, queue>>

\* Somebody waits for a booked slot.
WaitForSlot(slot) ==
    /\ slot \in booked /\ queue[slot.start] = "NONE"
    /\ Cardinality({h \in Hour : queue[h] # "NONE"}) < MaxQueued
    /\ queue' = [queue EXCEPT ![slot.start] = "WAITING"]
    /\ UNCHANGED <<market, booked>>

\* The offer was claimed, or ran out.
WaitEnds(hour) ==
    /\ queue[hour] = "WAITING"
    /\ \E status \in {"NONE", "EXPIRED"} : queue' = [queue EXCEPT ![hour] = status]
    /\ UNCHANGED <<market, booked>>

PricesNext ==
    \/ \E slot \in ListedSlots : BookSlot(slot) \/ CancelSlot(slot) \/ WaitForSlot(slot)
    \/ \E hour \in Hour : WaitEnds(hour)

PricesSpec == PricesInit /\ [][PricesNext]_priceVars

----------------------------------------------------------------------------
(* Properties *)

PublicCharge(slot, half) == ChargedPrice(slot, half, FALSE)
Free(slot) == slot \notin booked /\ ~IsBooked(slot)
OneHour == 2   \* half hours of a listed slot

\* A base price without paise: the list's price is the price charged.
WholePriceStands(slot) ==
    market.base % 100 = 0 => PublicCharge(slot, OneHour) = ListedPrice(slot)

\* With paise: within a rupee.
PriceIsNear(slot) ==
    /\ PublicCharge(slot, OneHour) <= ListedPrice(slot) + 100
    /\ ListedPrice(slot) <= PublicCharge(slot, OneHour) + 100

\* A booking of another length: what it is charged is its part of the listed price, within
\* the rupee and a half the two roundings of the charge make, and what the list's own rounding
\* makes, 25 paise for each half hour.
PartOfHour(slot, half) ==
    LET charged == 2 * PublicCharge(slot, half)
        listed == half * ListedPrice(slot)
    IN  charged <= listed + 50 * half + 300 /\ listed <= charged + 50 * half + 300

\* The list and createBooking compute a slot's price with two copies of the rates, round it at
\* different points and look at the waitlist in different ways.  For a free slot they agree to
\* the rupee when the base price is in whole rupees, on every day, with every event, at every
\* occupancy, after every history of the waitlist; without an event they are never more than
\* a rupee apart for the hour, nor much more for a booking of any length.  (Below three rupees
\* the two round a released slot differently.)
ShownPriceIsCharged ==
    \A slot \in ListedSlots : Free(slot) /\ market.base >= 300 =>
        /\ WholePriceStands(slot)
        /\ market.event = 0 => PriceIsNear(slot) /\ \A half \in Durations : PartOfHour(slot, half)

\* The price shown is the price charged for every base price the turf may have: it does not
\* hold.  At 805.50 rupees and a rate of 1.5 the list rounds 1208.25 down; the booking rounds the
\* base price up first, and charges 1209.
ShownToTheRupee ==
    \A slot \in ListedSlots : Free(slot) => PublicCharge(slot, OneHour) = ListedPrice(slot)

\* A booked slot is shown as booked, so that the customer may wait for it.  Not so the one
\* that ends at midnight, whose end is before every start.
BookedSlotIsShown == \A slot \in booked : IsBooked(slot)
=============================================================================

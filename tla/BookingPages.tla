----------------------------- MODULE BookingPages -----------------------------
(****************************************************************************)
(* What customers, owners and administrators are shown of the bookings of a *)
(* turf: lists, check-in codes, revenue, and the settlements an             *)
(* administrator pays.  Each page asks the database with conditions of its  *)
(* own.                                                                     *)
(*                                                                          *)
(* The clock counts minutes of India's time; the server's own clock is UTC, *)
(* so its "today" begins at 05:30.  How a booking comes to its status is    *)
(* BookingLifecycle's; here a status moves by Moves.                        *)
(****************************************************************************)
EXTENDS Integers, FiniteSets, Sums

CONSTANTS PageBookings,  \* bookings of the turf, by one customer
          PageSlots,     \* their slots: records of day, start and end, in minutes
          Instants,      \* the minutes at which something may happen
          PageTypes,     \* their payment types
          Settlements

ASSUME PagesAssumption ==
    /\ Instants \subseteq Nat
    /\ PageSlots \subseteq [day : Nat, start : 0 .. 1439, end : 0 .. 1439]
    /\ PageTypes \subseteq {"FULL_ONLINE", "HALF_ONLINE_HALF_CASH", "FULL_CASH"}
    /\ IsFiniteSet(PageBookings) /\ IsFiniteSet(Settlements)

VARIABLES
    minute,     \* now
    shown,      \* the bookings: slot, type, status and payment status
    payout      \* the settlements

pageVars == <<minute, shown, payout>>

Amount == 1000
Deposit == [FULL_ONLINE |-> 1000, HALF_ONLINE_HALF_CASH |-> 300, FULL_CASH |-> 0]

PageStatus == {"PENDING", "PENDING_APPROVAL", "CONFIRMED", "COMPLETED", "CANCELLED", "NO_SHOW", "REJECTED"}
PagePayment == {"PENDING", "SUCCESS", "FAILED", "REFUNDED"}

NoBooking == [status |-> "none"]
ShownRow(slot, type, status, pay) == [slot |-> slot, type |-> type, status |-> status, pay |-> pay]
Exists == {b \in PageBookings : shown[b] # NoBooking}
In(statuses) == {b \in Exists : shown[b].status \in statuses}

PagesTypeOK ==
    /\ minute \in Instants
    /\ \A b \in Exists : shown[b] \in [slot : PageSlots, type : PageTypes, status : PageStatus, pay : PagePayment]
    /\ payout \in [Settlements -> {"none", "PENDING", "COMPLETED"}]

PagesInit ==
    /\ minute \in {m \in Instants : \A n \in Instants : m <= n}
    /\ shown = [b \in PageBookings |-> NoBooking]
    /\ payout = [s \in Settlements |-> "none"]

----------------------------------------------------------------------------
(* Time *)

Day == 1440
\* new Date(now.getFullYear(), now.getMonth(), now.getDate()) on a server in UTC.
Today == (minute - 330) \div Day
ServerMinute == (minute - 330) % Day
IndianToday == minute \div Day

Slot(b) == shown[b].slot
IsOvernight(b) == Slot(b).start > Slot(b).end
Instant(b, time, dayOffset) == (Slot(b).day + dayOffset) * Day + time
Starts(b) == Instant(b, Slot(b).start, 0)
EndsAt(b) == Instant(b, Slot(b).end, IF IsOvernight(b) THEN 1 ELSE 0)
EndsSameDay(b) == Instant(b, Slot(b).end, 0)

MinutesPass ==
    /\ \E m \in Instants : m > minute /\ minute' = m
    /\ UNCHANGED <<shown, payout>>

----------------------------------------------------------------------------
(* The bookings *)

Window == 10
\* Mutant: an overnight slot ends on the day it begins.
InWindowSameDay(b) == minute >= Starts(b) - Window /\ minute <= EndsSameDay(b) + Window

InWindow(b) == minute >= Starts(b) - Window /\ minute <= EndsAt(b) + Window

\* A slot of the next 90 days, of today's 15 minutes ahead: all by the server's clock.
Advance == 15
InTime(slot) ==
    /\ slot.day \in Today .. Today + 90
    /\ slot.day = Today => slot.start >= ServerMinute + Advance

\* Cash needs no payment.
Books(b) ==
    /\ b \notin Exists
    /\ \E slot \in PageSlots, type \in PageTypes :
          /\ InTime(slot)
          /\ \E status \in {IF type = "FULL_CASH" THEN "CONFIRMED" ELSE "PENDING", "PENDING_APPROVAL"} :
                shown' = [shown EXCEPT ![b] = ShownRow(slot, type, status, "PENDING")]
    /\ UNCHANGED <<minute, payout>>

Becomes(b, status, pay) ==
    /\ shown' = [shown EXCEPT ![b].status = status, ![b].pay = pay]
    /\ UNCHANGED <<minute, payout>>

\* Payments, approvals and cancellations.
Moves(b) ==
    \/ /\ b \in In({"PENDING"})
       /\ \/ Becomes(b, "CONFIRMED", "SUCCESS")
          \/ Becomes(b, "CANCELLED", "FAILED")
    \/ /\ b \in In({"PENDING_APPROVAL"})
       /\ \E status \in {"CONFIRMED", "REJECTED"} : Becomes(b, status, shown[b].pay)
    \/ /\ b \in In({"CONFIRMED"}) /\ minute < Starts(b)
       /\ \/ Becomes(b, "CANCELLED", shown[b].pay)
          \/ shown[b].pay = "SUCCESS" /\ Becomes(b, "CANCELLED", "REFUNDED")

\* verifyCheckInQr and manualCheckIn.
CanCheckIn(b) == b \in In({"CONFIRMED"}) /\ InWindow(b)
CheckIn(b) == CanCheckIn(b) /\ Becomes(b, "COMPLETED", "SUCCESS")

AutoComplete(b) ==
    /\ b \in In({"CONFIRMED"}) /\ shown[b].type = "FULL_ONLINE" /\ shown[b].pay = "SUCCESS"
    /\ minute > EndsSameDay(b)
    /\ Becomes(b, "COMPLETED", "SUCCESS")

MarkNoShow(b) ==
    /\ b \in In({"CONFIRMED"}) /\ Slot(b).day <= Today
    /\ minute > EndsAt(b) + 20
    /\ Becomes(b, "NO_SHOW", shown[b].pay)

----------------------------------------------------------------------------
(* The customer's pages *)

Ended == {"COMPLETED", "CANCELLED", "NO_SHOW"}

\* getBookedSlots: the taken slots of a day, and today the hours up to the next half hour
\* that is far enough ahead.
Taken(day) == {Slot(b) : b \in {c \in Exists \ In({"CANCELLED", "NO_SHOW", "REJECTED"}) : Slot(c).day = day}}
MinBookable(day) == IF day = Today THEN ((ServerMinute + Advance + 29) \div 30) * 30 ELSE 0
SlotPage(day) ==
    IF day \in Today .. Today + 90
    THEN {slot \in PageSlots : slot.day = day /\ slot.start >= MinBookable(day)} \ Taken(day)
    ELSE {}

Upcoming == {b \in In({"PENDING", "CONFIRMED"}) : Slot(b).day >= Today /\ EndsSameDay(b) > minute}
Past == {b \in Exists : /\ Slot(b).day < Today \/ b \in In(Ended)
                        /\ b \in In(Ended) \/ EndsSameDay(b) <= minute}
ActiveToday == {b \in In({"CONFIRMED", "PENDING"}) : Slot(b).day = Today}
OnDays(first, beyond) == {b \in Exists : Slot(b).day \in first .. beyond - 1}
FilteredToday == OnDays(Today, Today + 1)
FilteredTomorrow == OnDays(Today + 1, Today + 2)
FilteredWeek == OnDays(Today, Today + 7)
Transactions == {b \in Exists : shown[b].pay \in {"SUCCESS", "REFUNDED", "FAILED"}}

QrStatus(b) ==
    CASE b \in In({"COMPLETED"}) -> "COMPLETED"
      [] b \in In({"CONFIRMED"}) -> IF minute < Starts(b) - Window THEN "UPCOMING"
                                    ELSE IF minute > EndsAt(b) + Window THEN "EXPIRED" ELSE "ACTIVE"
      [] b \in In({"CANCELLED", "REJECTED"}) -> "CANCELLED"
      [] b \in In({"NO_SHOW"}) -> "NO_SHOW"
      [] OTHER -> "PENDING"

----------------------------------------------------------------------------
(* The owner's pages *)

OwnerUpcoming == {b \in In({"CONFIRMED", "PENDING", "PENDING_APPROVAL"}) : Slot(b).day >= Today}
OwnerPast == In({"COMPLETED", "CANCELLED", "NO_SHOW", "REJECTED"})
OwnerWeek == OnDays(Today, Today + 8)     \* lte: both ends
OwnerActive == {b \in In({"CONFIRMED", "PENDING"}) : Slot(b).day = Today}

Sum(values) == SumOver(values, DOMAIN values)
Worth(bookings) == Sum([b \in bookings |-> Amount])
Deposits(bookings) == Sum([b \in bookings |-> Deposit[shown[b].type]])
PaidOf(bookings) == {b \in bookings : shown[b].pay = "SUCCESS"}
OfTypes(types) == {b \in Exists : shown[b].type \in types}
Cash == OfTypes({"HALF_ONLINE_HALF_CASH", "FULL_CASH"})
Online == OfTypes({"FULL_ONLINE"})
DaysOf(bookings) == {Slot(b).day : b \in bookings}

\* The owner's reminder that a booking's ten minutes before the slot begin.
Reminded == {b \in In({"CONFIRMED"}) : Slot(b).day = IndianToday /\ Slot(b).start = (minute + Window) % Day}

\* booking.service
OwnerAnalytics ==
    [total |-> Worth(In({"COMPLETED"})),
     pending |-> Worth(In({"CONFIRMED", "PENDING"})) - Deposits(In({"CONFIRMED", "PENDING"}))]

\* owner-analytics.service
Won == In({"COMPLETED", "CONFIRMED"})
TotalRevenue == Worth(Won)
RevenueByDate == [day \in DaysOf(Won) |-> Worth({b \in Won : Slot(b).day = day})]
BookingsByDate == [day \in DaysOf(Exists) |-> Cardinality({b \in Exists : Slot(b).day = day})]
CashVsOnline ==
    [cash |-> Worth(Cash \cap (Won \cup PaidOf(Exists))), online |-> Worth(Online \cap (Won \cup PaidOf(Exists)))]
OverallAnalytics ==
    [revenue |-> Worth(Won), all |-> Cardinality(Exists), completed |-> Cardinality(Won),
     cancelled |-> Cardinality(In({"CANCELLED"})), noShow |-> Cardinality(In({"NO_SHOW"}))]

\* owner-home.service
Earned == In({"COMPLETED"}) \cup PaidOf(Exists)
Dashboard ==
    [today |-> Worth({b \in Earned : Slot(b).day = Today}), overall |-> Worth(Earned),
     upcoming |-> {b \in In({"CONFIRMED"}) : Slot(b).day > Today},   \* from tomorrow's date on
     pending |-> In({"PENDING_APPROVAL"})]
Chart == [day \in Today - 6 .. Today |-> Worth({b \in Earned : Slot(b).day = day})]
Trends == [day \in Today - 6 .. Today |-> Worth({b \in In({"COMPLETED"}) : Slot(b).day = day})]
PaymentSplit == [online |-> Cardinality(Online), cash |-> Cardinality(Cash)]

\* owner-settlements.service
Payouts(statuses) == Amount * Cardinality({s \in Settlements : payout[s] \in statuses})
OwnerSettled == Payouts({"PENDING", "COMPLETED"})
Owed == Deposits(In({"COMPLETED"}))

----------------------------------------------------------------------------
(* The administrator's pages *)

AdminDashboard ==
    [active |-> In({"CONFIRMED", "PENDING_APPROVAL"}), approvals |-> In({"PENDING_APPROVAL"}),
     pendingPayouts |-> Payouts({"PENDING"}), donePayouts |-> Payouts({"COMPLETED"})]
PlatformAnalytics == [revenue |-> Worth(Won), all |-> Cardinality(Exists)]
PlatformRevenue(first, last) == Worth({b \in Won : Slot(b).day \in first .. last})
DailyCharts ==
    [bookings |-> [day \in Today - 6 .. Today |-> Cardinality(OnDays(day, day + 1))],
     revenue |-> [day \in Today - 29 .. Today |-> Worth({b \in Won : Slot(b).day = day})]]
BookingStats == [status \in PageStatus |-> Cardinality(In({status}))]

CreateSettlement ==
    /\ \E s \in Settlements : payout[s] = "none" /\ payout' = [payout EXCEPT ![s] = "PENDING"]
    /\ UNCHANGED <<minute, shown>>

\* markAsPaid asks for no status: a settlement is marked paid as often as it is called.
MarkAsPaid ==
    /\ \E s \in Settlements : payout[s] # "none" /\ payout' = [payout EXCEPT ![s] = "COMPLETED"]
    /\ UNCHANGED <<minute, shown>>

PagesNext ==
    \/ MinutesPass
    \/ \E b \in PageBookings : Books(b) \/ Moves(b) \/ CheckIn(b) \/ AutoComplete(b) \/ MarkNoShow(b)
    \/ CreateSettlement \/ MarkAsPaid

PagesSpec == PagesInit /\ [][PagesNext]_pageVars

----------------------------------------------------------------------------
(* Properties *)

SameDay == {b \in Exists : ~IsOvernight(b)}

\* A booking within one day is upcoming or past for its customer and not both, one that is to
\* be played is where customer and owner look for it, and is past when the server's day is.
\* What was played is among the customer's transactions.
ListsAgree ==
    /\ Upcoming \cap Past = {}
    /\ \A b \in SameDay \cap In({"CONFIRMED"}) : minute < EndsAt(b) => b \in Upcoming \cap OwnerUpcoming
    /\ \A b \in Exists : Slot(b).day < Today => b \in Past \/ minute < EndsAt(b)
    /\ In(Ended) \subseteq Past \cap OwnerPast
    /\ In({"COMPLETED"}) \subseteq Transactions
    /\ Dashboard.upcoming \subseteq OwnerUpcoming
    /\ FilteredToday \cup FilteredTomorrow \subseteq FilteredWeek /\ FilteredWeek \subseteq OwnerWeek
    /\ ActiveToday \subseteq FilteredToday

\* The code is shown when the owner's scan accepts it, and the owner is told when that begins
\* (of slots from 00:10 on); and a booking that starts after 05:40,
\* and is checked in by midnight, is then on both lists of the day.
CodeAgrees ==
    \A b \in Exists :
        /\ b \in In({"CONFIRMED"}) /\ Slot(b).start >= Window => (b \in Reminded <=> minute = Starts(b) - Window)
        /\ QrStatus(b) = "ACTIVE" <=> CanCheckIn(b)
        /\ b \in SameDay /\ Slot(b).start >= 340 /\ CanCheckIn(b) => b \in ActiveToday \cap OwnerActive

\* What the page offers of a day can be booked, and is nobody's the owner waits for.
SlotsAgree ==
    \A slot \in PageSlots : slot \in SlotPage(slot.day) => InTime(slot) /\ \A b \in OwnerUpcoming : Slot(b) # slot

\* What was played counts on every page: the owner's total, the platform's total and the
\* settlements differ by what is confirmed and not played yet; by dates, by ways of payment
\* and by status, the parts make the whole.
MoneyAgrees ==
    /\ TotalRevenue = OwnerAnalytics.total + Worth(In({"CONFIRMED"}))
    /\ PlatformAnalytics.revenue = TotalRevenue
    /\ Sum(RevenueByDate) = TotalRevenue
    /\ Sum(BookingsByDate) = OverallAnalytics.all
    /\ PaymentSplit.online + PaymentSplit.cash = OverallAnalytics.all
    /\ CashVsOnline.cash + CashVsOnline.online >= Dashboard.overall
    /\ \A day \in Today - 6 .. Today : Trends[day] <= Chart[day]
    /\ \A day \in DOMAIN RevenueByDate \cap DOMAIN DailyCharts.revenue : DailyCharts.revenue[day] = RevenueByDate[day]
    /\ \A day \in DOMAIN BookingsByDate \cap DOMAIN DailyCharts.bookings : DailyCharts.bookings[day] = BookingsByDate[day]
    /\ Owed <= OwnerAnalytics.total
    /\ AdminDashboard.pendingPayouts + AdminDashboard.donePayouts = OwnerSettled
    /\ Sum(BookingStats) = OverallAnalytics.all

\* Nobody is shown as having played before the check-in opens.
PlayedNotBeforeStart == \A b \in SameDay \cap In({"COMPLETED"}) : minute >= Starts(b) - Window

\* All of them: where a booking is listed, what its code says, which slots are offered, and what
\* the owner and the platform earned.
PagesFitTogether == ListsAgree /\ CodeAgrees /\ SlotsAgree /\ MoneyAgrees /\ PlayedNotBeforeStart

\* "OR if it's today but the slot has already ended, it also belongs here": the code looks in
\* the database for earlier dates only, and overnight slots end before they begin.
EveryBookingIsListed == In({"PENDING", "CONFIRMED"}) \subseteq Upcoming \cup Past
=============================================================================

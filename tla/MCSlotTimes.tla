----------------------------- MODULE MCSlotTimes -----------------------------
(****************************************************************************)
(* Evaluates SlotTimes on all opening hours and slots of a short day: first *)
(* the hours are chosen, then a slot.                                       *)
(****************************************************************************)
EXTENDS SlotTimes

VARIABLES stage, hours, one
vars == <<stage, hours, one>>

AnySlot == [start |-> 0, end |-> MinDuration]

Init == /\ stage = "hours"
        /\ hours = [open |-> 0, close |-> 0]
        /\ one = AnySlot

ChooseHours == /\ stage = "hours" /\ stage' = "one"
               /\ hours' \in Hours
               /\ UNCHANGED one

ChooseOne == /\ stage = "one" /\ stage' = "done"
             /\ one' \in {s \in Slot : Accepted(hours, s)}
             /\ UNCHANGED hours

Next == ChooseHours \/ ChooseOne
Spec == Init /\ [][Next]_vars

\* A slot createBooking accepts and that stays within its day lies inside the
\* opening hours, minute by minute: on day turfs, turfs open past midnight and
\* turfs open all day.
SameDaySlotsAreOpen ==
    stage = "done" /\ SameDay(one) => InsideOpeningHours(hours, one)

\* The gap check's comment: an accepted booking never crosses the closed period
\* of a turf that is open past midnight.  A slot that starts before midnight and
\* ends at or after the opening time passes the check and does.
AcceptedSlotsSkipTheClosedPeriod ==
    stage = "done" /\ IsOvernight(hours) => InsideOpeningHours(hours, one)
=============================================================================

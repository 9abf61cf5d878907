--------------------------- MODULE SlotTimesProofs ---------------------------
(****************************************************************************)
(* What the time comparisons of SlotTimes compute, for a day of any length. *)
(****************************************************************************)
EXTENDS MCSlotTimes, TLAPS

LEMMA SameDayEnds ==
    ASSUME NEW s \in Slot, SameDay(s)
    PROVE  /\ Begins(s) = s.start /\ Ends(s) = s.end
           /\ s.start \in Nat /\ s.end \in Nat /\ s.end < DayLength /\ s.start < s.end
BY DayAssumption DEF Slot, Time, SameDay, Begins, Ends, Duration

\* The condition of the slot lock query and of the booking transaction holds for
\* two slots of one day exactly when they share a minute.
THEOREM ConflictMeansASharedMinute ==
    ASSUME NEW a \in Slot, NEW b \in Slot, SameDay(a), SameDay(b)
    PROVE  Overlaps(a, b) <=> SharesAMinute(a, b)
<1> DEFINE first == IF a.start < b.start THEN b.start ELSE a.start
<1>1. ASSUME Overlaps(a, b) PROVE SharesAMinute(a, b)
  <2>1. first \in 0 .. (2 * DayLength)
    BY SameDayEnds, DayAssumption
  <2>2. /\ Begins(a) <= first /\ first < Ends(a)
        /\ Begins(b) <= first /\ first < Ends(b)
    BY <1>1, SameDayEnds DEF Overlaps
  <2> QED BY <2>1, <2>2 DEF SharesAMinute
<1>2. ASSUME SharesAMinute(a, b) PROVE Overlaps(a, b)
  <2>1. PICK m \in 0 .. (2 * DayLength) : /\ Begins(a) <= m /\ m < Ends(a)
                                          /\ Begins(b) <= m /\ m < Ends(b)
    BY <1>2 DEF SharesAMinute
  <2>2. m \in Int
    BY DayAssumption
  <2> QED BY <2>1, <2>2, SameDayEnds DEF Overlaps
<1> QED BY <1>1, <1>2

\* No slot that crosses midnight conflicts for the code with anything that ends
\* after it on the clock and starts before it, itself included: it can be sold
\* twice.
THEOREM CrossingSlotMissesItself ==
    ASSUME NEW s \in Slot, s.end < s.start
    PROVE  ~Overlaps(s, s) /\ (ValidDuration(s) => SharesAMinute(s, s))
<1>1. ~Overlaps(s, s)
  BY DayAssumption DEF Overlaps, Slot, Time
<1>2. ASSUME ValidDuration(s) PROVE SharesAMinute(s, s)
  <2>1. Duration(s) \in Int /\ 0 < Duration(s)
    BY <1>2, DayAssumption DEF ValidDuration
  <2>2. Begins(s) <= s.start /\ s.start < Ends(s) /\ s.start \in 0 .. (2 * DayLength)
    BY <2>1, DayAssumption DEF Begins, Ends, Slot, Time
  <2> QED BY <2>2 DEF SharesAMinute
<1> QED BY <1>1, <1>2

\* A slot createBooking accepts and that stays within its day lies inside the
\* opening hours, minute by minute.
THEOREM AcceptedSameDaySlotIsOpen ==
    ASSUME NEW h \in Hours, NEW s \in Slot, SameDay(s), Accepted(h, s)
    PROVE  InsideOpeningHours(h, s)
<1> SUFFICES ASSUME NEW m \in Begins(s) .. (Ends(s) - 1) PROVE OpenAt(h, m)
  BY DEF InsideOpeningHours
<1>1. /\ m \in Nat /\ s.start <= m /\ m < s.end /\ s.end < DayLength
      /\ s.start \in Nat /\ s.end \in Nat
  BY SameDayEnds, DayAssumption
<1>2. m % DayLength = m
  BY <1>1, DayAssumption
<1>3. h.open \in Nat /\ h.close \in Nat
  BY DayAssumption DEF Hours, Time
<1> QED BY <1>1, <1>2, <1>3
        DEF Accepted, WithinOperatingHours, IsTimeInWindow, Is24Hour, IsOvernight, OpenAt

----------------------------------------------------------------------------
\* What the steps choose: opening hours of the turf, then a slot it accepts.
Chosen ==
    /\ stage \in {"hours", "one", "done"}
    /\ hours \in Hours
    /\ stage = "done" => one \in Slot /\ Accepted(hours, one)

\* createBooking accepts no slot of one day that leaves the opening hours.
THEOREM SameDaySlotsOpen == Spec => []SameDaySlotsAreOpen
<1>1. Init => Chosen
    BY DayAssumption DEF Init, Chosen, Hours, Time
<1>2. Chosen /\ [Next]_vars => Chosen'
  <2> SUFFICES ASSUME Chosen, [Next]_vars PROVE Chosen'
      OBVIOUS
  <2>1. CASE ChooseHours
      BY <2>1 DEF Chosen, ChooseHours
  <2>2. CASE ChooseOne
      BY <2>2, Zenon DEF Chosen, ChooseOne
  <2>3. CASE UNCHANGED vars
      BY <2>3 DEF Chosen, vars
  <2> QED BY <2>1, <2>2, <2>3 DEF Next
<1>3. Chosen => SameDaySlotsAreOpen
    BY AcceptedSameDaySlotIsOpen DEF Chosen, SameDaySlotsAreOpen
<1> QED BY <1>1, <1>2, <1>3, PTL DEF Spec
=============================================================================

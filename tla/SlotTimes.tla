------------------------------ MODULE SlotTimes ------------------------------
(****************************************************************************)
(* The time arithmetic of a slot, as booking.service.ts does it.  The code  *)
(* compares zero-padded "HH:MM" strings; they order like the minute of the  *)
(* day they denote, so a time is a number in 0 .. DayLength-1 here and the  *)
(* comparisons keep their direction.  A slot whose end is before its start  *)
(* crosses midnight: the input validation accepts it.                       *)
(*                                                                          *)
(* The second half states what these operators are meant to compute, on the *)
(* line of minutes that starts at midnight of the booking date.             *)
(****************************************************************************)
EXTENDS Integers

CONSTANTS DayLength,       \* minutes of a day: 1440 in the code
          MinDuration,     \* shortest accepted slot: 60 in the code
          MaxDuration,     \* longest accepted slot: 360 in the code
          DurationStep     \* durations are multiples of this: 30 in the code

ASSUME DayAssumption ==
    /\ DayLength \in Nat /\ MinDuration \in Nat
    /\ MaxDuration \in Nat /\ DurationStep \in Nat
    /\ 0 < DurationStep /\ 0 < MinDuration
    /\ MinDuration <= MaxDuration /\ MaxDuration < DayLength

Time == 0 .. (DayLength - 1)
Slot == [start : Time, end : Time]
Hours == [open : Time, close : Time]

----------------------------------------------------------------------------
(* What the code computes. *)

\* The condition of both conflict checks: the slot lock query and the SELECT
\* of the booking transaction.
Overlaps(a, b) == a.start < b.end /\ a.end > b.start

Duration(s) == IF s.end >= s.start THEN s.end - s.start
                                   ELSE DayLength - s.start + s.end

\* validateBasicInputs
ValidDuration(s) == /\ Duration(s) \in MinDuration .. MaxDuration
                    /\ Duration(s) % DurationStep = 0

Is24Hour(h) == h.open = h.close
IsOvernight(h) == h.close < h.open

IsTimeInWindow(h, t) ==
    \/ Is24Hour(h)
    \/ IsOvernight(h) /\ (t >= h.open \/ t <= h.close)
    \/ ~IsOvernight(h) /\ t >= h.open /\ t <= h.close

\* Mutant: the gap check is missing.
WithinHoursNoGapCheck(h, s) ==
    /\ IsTimeInWindow(h, s.start) /\ IsTimeInWindow(h, s.end)
    /\ (~Is24Hour(h) /\ ~IsOvernight(h)) => s.start < s.end

\* The operating-hours checks of createBooking, in their order.
WithinOperatingHours(h, s) ==
    /\ IsTimeInWindow(h, s.start) /\ IsTimeInWindow(h, s.end)
    /\ ~(~Is24Hour(h) /\ IsOvernight(h) /\ s.start <= h.close /\ s.end >= h.open)
    /\ (~Is24Hour(h) /\ ~IsOvernight(h)) => s.start < s.end

Accepted(h, s) == ValidDuration(s) /\ WithinOperatingHours(h, s)

----------------------------------------------------------------------------
(* What it is meant to compute. *)

SameDay(s) == s.start < s.end

\* The slot occupies Begins(s) .. Ends(s)-1 on the booking date's time line.
Begins(s) == s.start
Ends(s) == s.start + Duration(s)

SharesAMinute(a, b) ==
    \E m \in 0 .. (2 * DayLength) : /\ Begins(a) <= m /\ m < Ends(a)
                                   /\ Begins(b) <= m /\ m < Ends(b)

\* The turf is open at minute m: its day's opening interval repeats daily.
OpenAt(h, m) ==
    LET t == m % DayLength
    IN  \/ h.open = h.close
        \/ h.open < h.close /\ h.open <= t /\ t < h.close
        \/ h.close < h.open /\ (t < h.close \/ h.open <= t)

InsideOpeningHours(h, s) == \A m \in Begins(s) .. (Ends(s) - 1) : OpenAt(h, m)

=============================================================================

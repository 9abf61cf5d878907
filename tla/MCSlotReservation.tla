-------------------------- MODULE MCSlotReservation --------------------------
(****************************************************************************)
(* Slots for SlotReservation, in hours of a day of 24.                      *)
(****************************************************************************)
EXTENDS SlotReservation, TLC

Evening == [start |-> 18, end |-> 20]
LateEvening == [start |-> 19, end |-> 21]
Night == [start |-> 20, end |-> 22]
AcrossMidnight == [start |-> 23, end |-> 1]

OneSlot == {Evening}
OverlappingSlots == {Evening, LateEvening}
MidnightSlot == {AcrossMidnight}

Symmetric == Permutations(Requests) \cup Permutations(Users)
=============================================================================

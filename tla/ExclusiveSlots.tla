--------------------------- MODULE ExclusiveSlots ---------------------------
(****************************************************************************)
(* What the booking service promises about slots, with nothing about leases,*)
(* rows or jobs: a booking takes its slot only while nobody holds that slot,*)
(* and gives it up once.                                                    *)
(****************************************************************************)
CONSTANTS Bookings, SlotSet

VARIABLES wants,  \* the slot each booking is for
          hold    \* "free" before, "held" while, "over" after it holds the slot

Init == /\ wants \in [Bookings -> SlotSet]
        /\ hold = [b \in Bookings |-> "free"]

Take(b) == /\ hold[b] = "free"
           /\ \A c \in Bookings : wants[c] = wants[b] => hold[c] # "held"
           /\ hold' = [hold EXCEPT ![b] = "held"]
           /\ UNCHANGED wants

GiveUp(b) == /\ hold[b] = "held"
             /\ hold' = [hold EXCEPT ![b] = "over"]
             /\ UNCHANGED wants

Next == \E b \in Bookings : Take(b) \/ GiveUp(b)
Spec == Init /\ [][Next]_<<wants, hold>>
=============================================================================

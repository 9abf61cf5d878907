--------------------------- MODULE MCBookingExtras ---------------------------
(****************************************************************************)
(* Small instances of seven modules that share no state: the split of a     *)
(* booking's amount, the points of its players, the owner's maintenance     *)
(* blocks, prices and offers, the pages and the ratings.  A behaviour is one *)
(* of one module, chosen at the start; the others keep their first state.   *)
(****************************************************************************)
EXTENDS BookingSplit, PlayerPoints, MaintenanceBlocks, SlotPrices,
        Offers, BookingPages, TurfRatings, TLC

CONSTANT Parts   \* the modules to run

VARIABLE part

\* Hours of a turf that closes at midnight, of one that closes the next day, and of one that is
\* open all day from 23:00, whose list ends at midnight.
MCHours == {[open |-> 16, close |-> 0], [open |-> 17, close |-> 2], [open |-> 23, close |-> 23]}

\* A slot just after midnight, one in the morning, one over midnight.
MCPageSlots ==
    {[day |-> 2, start |-> 30, end |-> 90],
     [day |-> 2, start |-> 600, end |-> 660],
     [day |-> 2, start |-> 1320, end |-> 60]}

\* Around midnight, the server's midnight at 05:30, the slots' beginnings and ends.
MCInstants == {2880 + m : m \in {-600, 20, 105, 590, 690, 1310, 1800}}

\* The calls of every module have the same two names.
MCSymmetry == Permutations(SplitCalls)

vars == <<part, splitVars, pointsVars, maintVars, priceVars, offerVars, pageVars, rateVars>>

Init ==
    /\ part \in Parts
    /\ SplitInit /\ (part # "split" => ~paise)
    /\ PointsInit /\ MaintInit
    /\ PricesInit
    /\ part # "prices" => market = CHOOSE m \in [base : BasePrices, hours : OpeningHours, weekday : Weekdays,
                                                 event : EventRates] : m.hours.open = 23
    /\ OffersInit /\ PagesInit /\ RatingsInit

Next ==
    \/ /\ part = "split" /\ SplitNext
       /\ UNCHANGED <<part, pointsVars, maintVars, priceVars, offerVars, pageVars, rateVars>>
    \/ /\ part = "points" /\ PointsNext
       /\ UNCHANGED <<part, splitVars, maintVars, priceVars, offerVars, pageVars, rateVars>>
    \/ /\ part = "blocks" /\ MaintNext
       /\ UNCHANGED <<part, splitVars, pointsVars, priceVars, offerVars, pageVars, rateVars>>
    \/ /\ part = "prices" /\ PricesNext
       /\ UNCHANGED <<part, splitVars, pointsVars, maintVars, offerVars, pageVars, rateVars>>
    \/ /\ part = "offers" /\ OffersNext
       /\ UNCHANGED <<part, splitVars, pointsVars, maintVars, priceVars, pageVars, rateVars>>
    \/ /\ part = "pages" /\ PagesNext
       /\ UNCHANGED <<part, splitVars, pointsVars, maintVars, priceVars, offerVars, rateVars>>
    \/ /\ part = "ratings" /\ RatingsNext
       /\ UNCHANGED <<part, splitVars, pointsVars, maintVars, priceVars, offerVars, pageVars>>

Spec == Init /\ [][Next]_vars

\* Every variable of the seven modules has its type.
TypeOK ==
    /\ part = "split" => SplitTypeOK
    /\ part = "points" => PointsTypeOK
    /\ part = "blocks" => MaintTypeOK
    /\ part = "prices" => PricesTypeOK
    /\ part = "offers" => OffersTypeOK
    /\ part = "pages" => PagesTypeOK
    /\ part = "ratings" => RatingsTypeOK

\* The pages do not contradict each other (BookingPages).
PagesAgree == part = "pages" => PagesFitTogether
=============================================================================

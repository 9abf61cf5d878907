------------------------------ MODULE TurfRatings ------------------------------
(****************************************************************************)
(* rateTurf: a customer's rating of a completed booking, and the average    *)
(* and number of reviews kept in the turf's row.  A call looks for an       *)
(* earlier rating, creates its own, counts all of them and writes the turf, *)
(* in four steps.                                                           *)
(****************************************************************************)
EXTENDS Integers, FiniteSets, Sums

CONSTANTS Rateable,     \* the bookings of one turf
          RateCalls,    \* calls of rateTurf that overlap
          Stars         \* ratings that are given

ASSUME RatingsAssumption == Stars \subseteq 1 .. 5 /\ IsFiniteSet(Rateable)

VARIABLES
    played,     \* the bookings that are COMPLETED
    stars,      \* turf_ratings: the rating of each booking, 0 for none
    turfStars,  \* the turf's averageRating, in tenths, and totalReviews
    rating,     \* the calls
    starsMixed  \* has a call overlapped, or ended before it wrote the turf, since one ran alone

rateVars == <<played, stars, turfStars, rating, starsMixed>>

IdleRating == [at |-> "idle", booking |-> 0, stars |-> 0, count |-> 0, average |-> 0, alone |-> TRUE]

RatingsTypeOK ==
    /\ played \subseteq Rateable
    /\ stars \in [Rateable -> Stars \cup {0}]
    /\ turfStars.average \in 0 .. 50 /\ turfStars.count \in 0 .. Cardinality(Rateable)
    /\ \A r \in RateCalls : rating[r].at \in {"idle", "check", "create", "count", "write"}
    /\ starsMixed \in BOOLEAN

RatingsInit ==
    /\ played = {}
    /\ stars = [b \in Rateable |-> 0]
    /\ turfStars = [average |-> 0, count |-> 0]
    /\ rating = [r \in RateCalls |-> IdleRating]
    /\ starsMixed = FALSE

\* A visit is completed; an administrator's no-show takes it back.
PlayOrNot ==
    /\ \E b \in Rateable : played' = IF b \in played THEN played \ {b} ELSE played \cup {b}
    /\ UNCHANGED <<stars, turfStars, rating, starsMixed>>

----------------------------------------------------------------------------
Rated == {b \in Rateable : stars[b] # 0}
StarCount == Cardinality(Rated)
StarSum == SumOver(stars, Rated)
\* Math.round(average * 10) / 10, in tenths.
Average == IF StarCount = 0 THEN 0 ELSE (20 * StarSum + StarCount) \div (2 * StarCount)

RatingStep(r, at) == rating' = [rating EXCEPT ![r].at = at]

AskRating(r) ==
    /\ rating[r].at = "idle"
    /\ \E b \in played, n \in Stars :
          LET alone == \A q \in RateCalls : rating[q].at = "idle"
          IN  rating' = [q \in RateCalls |->
                 IF q = r THEN [IdleRating EXCEPT !.at = "check", !.booking = b, !.stars = n, !.alone = alone]
                 ELSE [rating[q] EXCEPT !.alone = rating[q].at = "idle"]]
    /\ UNCHANGED <<played, stars, turfStars, starsMixed>>

\* "Already rated": by another call, or by this one's answer that was lost.
CheckRating(r) ==
    /\ rating[r].at = "check"
    /\ IF stars[rating[r].booking] # 0 THEN rating' = [rating EXCEPT ![r] = IdleRating]
       ELSE RatingStep(r, "create")
    /\ UNCHANGED <<played, stars, turfStars, starsMixed>>

\* bookingId is unique: the second create fails.
CreateRating(r) ==
    /\ rating[r].at = "create"
    /\ IF stars[rating[r].booking] # 0
       THEN rating' = [rating EXCEPT ![r] = IdleRating] /\ UNCHANGED stars
       ELSE stars' = [stars EXCEPT ![rating[r].booking] = rating[r].stars] /\ RatingStep(r, "count")
    /\ UNCHANGED <<played, turfStars, starsMixed>>

CountRatings(r) ==
    /\ rating[r].at = "count"
    /\ rating' = [rating EXCEPT ![r].at = "write", ![r].count = StarCount, ![r].average = Average]
    /\ UNCHANGED <<played, stars, turfStars, starsMixed>>

\* Mutant: the average is carried on from the turf's row.
WriteRunningStars(r) ==
    /\ rating[r].at = "write"
    /\ LET n == turfStars.count
       IN  turfStars' = [average |-> (n * turfStars.average + 10 * rating[r].stars) \div (n + 1), count |-> n + 1]
    /\ starsMixed' = ~rating[r].alone
    /\ rating' = [rating EXCEPT ![r] = IdleRating]
    /\ UNCHANGED <<played, stars>>

WriteTurfStars(r) ==
    /\ rating[r].at = "write"
    /\ turfStars' = [average |-> rating[r].average, count |-> rating[r].count]
    /\ starsMixed' = ~rating[r].alone
    /\ rating' = [rating EXCEPT ![r] = IdleRating]
    /\ UNCHANGED <<played, stars>>

\* The rating is kept, the turf is not told.
RatingFails(r) ==
    /\ rating[r].at # "idle"
    /\ starsMixed' = (starsMixed \/ rating[r].at \in {"count", "write"})
    /\ rating' = [rating EXCEPT ![r] = IdleRating]
    /\ UNCHANGED <<played, stars, turfStars>>

RatingsNext ==
    \/ PlayOrNot
    \/ \E r \in RateCalls :
          \/ AskRating(r) \/ CheckRating(r) \/ CreateRating(r)
          \/ CountRatings(r) \/ WriteTurfStars(r) \/ RatingFails(r)

RatingsSpec == RatingsInit /\ [][RatingsNext]_rateVars

----------------------------------------------------------------------------
(* Properties *)

\* The turf's average and number of reviews are those of its ratings once no call is at work,
\* unless the last calls overlapped or one ended in between; the next one that runs alone puts
\* that right.
RatingIsCurrent ==
    (\A r \in RateCalls : rating[r].at = "idle") /\ ~starsMixed =>
        turfStars.count = StarCount /\ turfStars.average = Average
=============================================================================

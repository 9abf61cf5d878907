---------------------------- MODULE PlayerPoints ----------------------------
(****************************************************************************)
(* Gamification: the row that keeps one player's points and streak.         *)
(* Completed bookings, no-shows and cancellations, and a look at the        *)
(* statistics, read the row and write it later from what they read.  Days   *)
(* are whole days.                                                          *)
(****************************************************************************)
EXTENDS Integers, FiniteSets

CONSTANTS Games,      \* the player's bookings
          Looks,      \* requests for the player's statistics
          Days,       \* the days on which something may happen
          NoRow

ASSUME PointsAssumption ==
    /\ Days \subseteq Nat /\ 0 \in Days
    /\ IsFiniteSet(Games) /\ Games \cap Looks = {}
    /\ NoRow \notin [streak : Nat, points : Nat, matches : Nat, last : Nat]

VARIABLES
    stats,      \* userGamification of the player
    today,
    game,       \* each booking: how it ended, the step its handler is at, the row it read
    playedOn,   \* the days on which a completion was written
    clobbered   \* did a penalty overwrite points given after it read them

pointsVars == <<stats, today, game, playedOn, clobbered>>

Reward == 10
Grace == 5
\* Mutant: no floor at zero.
PlainMinus(a, b) == a - b

Monus(a, b) == IF a > b THEN a - b ELSE 0

Outcomes == {"NONE", "COMPLETED", "NO_SHOW", "CANCELLED"}
Penalty(outcome) == IF outcome = "NO_SHOW" THEN 5 ELSE 2

NewStats(streak, points, matches, day) ==
    [streak |-> streak, points |-> points, matches |-> matches, last |-> day]
Fresh == [outcome |-> "NONE", at |-> "idle", seen |-> NoRow, failed |-> FALSE, day |-> 0]

PointsTypeOK ==
    /\ stats # NoRow => /\ stats.streak \in Nat /\ stats.points \in Nat
                        /\ stats.matches \in Nat /\ stats.last \in 0 .. today
    /\ today \in Days
    /\ \A g \in Games \cup Looks :
          /\ game[g].outcome \in Outcomes
          /\ game[g].at \in {"idle", "decay", "count", "create", "deduct", "done"}
    /\ playedOn \subseteq 0 .. today
    /\ clobbered \in BOOLEAN

PointsInit ==
    /\ stats = NoRow
    /\ today = 0
    /\ game = [g \in Games \cup Looks |-> Fresh]
    /\ playedOn = {}
    /\ clobbered = FALSE

----------------------------------------------------------------------------
DaysPass ==
    /\ \E d \in Days : d > today /\ today' = d
    /\ UNCHANGED <<stats, game, playedOn, clobbered>>

EndsWith(g, failed) ==
    game' = [game EXCEPT ![g] = [Fresh EXCEPT !.outcome = game[g].outcome, !.at = "done",
                                              !.failed = failed]]
Ends(g) == EndsWith(g, FALSE)

(* getUserStats: reads the row and lets the streak decay. *)

\* What getUserStats returns is handed on: a completion counts it, a look is answered.
GivenStats(g, row) ==
    IF g \in Looks THEN Ends(g)
    ELSE game' = [game EXCEPT ![g] = [Fresh EXCEPT !.outcome = "COMPLETED", !.seen = row, !.day = today,
                                        !.at = IF row = NoRow THEN "create" ELSE "count"]]

\* More than five days since the last match; else there is nothing to write.
ReadStats(g) ==
    /\ game[g].at = "idle"
    /\ IF stats # NoRow /\ today - stats.last > Grace
       THEN game' = [game EXCEPT ![g] = [@ EXCEPT !.at = "decay", !.seen = stats, !.day = today]]
       ELSE GivenStats(g, stats)
    /\ UNCHANGED <<stats, today, playedOn, clobbered>>

\* applyInactivityDecay writes streak and lastPlayedDate from the row it was given; the
\* row as updated is what the caller goes on with.
ApplyInactivityDecay(g) ==
    /\ game[g].at = "decay"
    /\ LET periods == (game[g].day - game[g].seen.last) \div Grace
           row == [stats EXCEPT !.streak = Monus(game[g].seen.streak, periods),
                                !.last = game[g].seen.last + periods * Grace]
       IN  stats' = row /\ GivenStats(g, row)
    /\ UNCHANGED <<today, playedOn, clobbered>>

----------------------------------------------------------------------------
(* handleBookingCompletion *)

\* auth_id is unique: the second creation throws.
CreateOnCompletion(g) ==
    /\ game[g].at = "create" /\ game[g].outcome = "COMPLETED"
    /\ IF stats # NoRow
       THEN /\ EndsWith(g, TRUE)
            /\ UNCHANGED <<stats, playedOn>>
       ELSE /\ stats' = NewStats(1, Reward, 1, today)
            /\ playedOn' = playedOn \cup {today}
            /\ Ends(g)
    /\ UNCHANGED <<today, clobbered>>

\* Mutant: every match of a day counts.
NewStreakEachMatch(row, day) == IF day - row.last <= Grace THEN row.streak + 1 ELSE 1

\* One increment a day, and only within the days of grace.
NewStreak(row, day) ==
    IF row.last = day THEN row.streak
    ELSE IF day - row.last <= Grace THEN row.streak + 1
    ELSE 1

\* Mutant: the points are those read, and the reward, where the code increments.
CountFromRead(g) ==
    /\ game[g].at = "count"
    /\ stats' = [stats EXCEPT !.streak = NewStreak(game[g].seen, game[g].day),
                              !.points = game[g].seen.points + Reward,
                              !.matches = @ + 1,
                              !.last = game[g].day]
    /\ playedOn' = playedOn \cup {game[g].day}
    /\ Ends(g)
    /\ UNCHANGED <<today, clobbered>>

CountCompletion(g) ==
    /\ game[g].at = "count"
    /\ stats' = [stats EXCEPT !.streak = NewStreak(game[g].seen, game[g].day),
                              !.points = @ + Reward,
                              !.matches = @ + 1,
                              !.last = game[g].day]
    /\ playedOn' = playedOn \cup {game[g].day}
    /\ Ends(g)
    /\ UNCHANGED <<today, clobbered>>

----------------------------------------------------------------------------
(* handleNoShow and handleBookingCancellation *)

ReadForPenalty(g) ==
    /\ g \in Games /\ game[g].at = "idle"
    /\ \E outcome \in {"NO_SHOW", "CANCELLED"} :
          game' = [game EXCEPT ![g] = [@ EXCEPT !.outcome = outcome, !.seen = stats,
                                         !.at = IF stats = NoRow THEN "create" ELSE "deduct"]]
    /\ UNCHANGED <<stats, today, playedOn, clobbered>>

CreateOnPenalty(g) ==
    /\ game[g].at = "create" /\ game[g].outcome \in {"NO_SHOW", "CANCELLED"}
    /\ IF stats # NoRow
       THEN EndsWith(g, TRUE) /\ UNCHANGED stats
       ELSE stats' = NewStats(0, 0, 0, today) /\ Ends(g)
    /\ UNCHANGED <<today, playedOn, clobbered>>

\* The points are computed from the row that was read, with a floor at zero.
Deduct(g) ==
    /\ game[g].at = "deduct"
    /\ LET points == Monus(game[g].seen.points, Penalty(game[g].outcome))
       IN  stats' = IF game[g].outcome = "NO_SHOW"
                    THEN [stats EXCEPT !.streak = 0, !.points = points]
                    ELSE [stats EXCEPT !.points = points]
    /\ clobbered' = (clobbered \/ stats.points # game[g].seen.points)
    /\ Ends(g)
    /\ UNCHANGED <<today, playedOn>>

PointsNext ==
    \/ DaysPass
    \/ \E g \in Games \cup Looks :
          \/ ReadStats(g) \/ ApplyInactivityDecay(g)
          \/ CreateOnCompletion(g) \/ CountCompletion(g)
          \/ ReadForPenalty(g) \/ CreateOnPenalty(g) \/ Deduct(g)

PointsSpec == PointsInit /\ [][PointsNext]_pointsVars

----------------------------------------------------------------------------
(* Properties *)

Done(outcome) == {g \in Games : game[g].at = "done" /\ game[g].outcome = outcome /\ ~game[g].failed}
Matches == Cardinality(Done("COMPLETED"))

\* "A flat 10 points per booking completion, 2 deducted for a cancellation, 5 for a
\* no-show, never below zero" (user_gamification_readme.md), in whatever order they come:
\* nobody has more points than the matches earned, and nobody loses more than the
\* penalties take, unless a penalty overwrote points given since it read them.
PointsAddUp ==
    stats # NoRow =>
       /\ stats.points <= Reward * Matches
       /\ clobbered \/ stats.points + Penalty("NO_SHOW") * Cardinality(Done("NO_SHOW"))
                         + Penalty("CANCELLED") * Cardinality(Done("CANCELLED")) >= Reward * Matches

\* "Only one increment per day": handlers that overlap on a day, across midnight, or with
\* a decay never give a streak longer than the days the player played on.
StreakIsEarned == stats # NoRow => stats.streak <= Cardinality(playedOn)

\* Nobody's streak is zero right after a completed match.  After ten, fifteen, ... days of
\* absence the code loses it: the decay moves lastPlayedDate to today, and the match
\* counts as the day's second.
PlayStartsAStreak ==
    [][\A g \in Games : game[g].at = "count" /\ game'[g].at = "done" => stats'.streak > 0]_pointsVars
=============================================================================

-------------------------- MODULE MaintenanceBlocks --------------------------
(****************************************************************************)
(* The days on which an owner closes a turf, against the bookings of those  *)
(* days.  The owner's request looks for bookings and writes the blocks      *)
(* afterwards; a booking looks for blocks when it is requested, and is      *)
(* written, paid and confirmed afterwards.                                  *)
(*                                                                          *)
(* A booking is HELD when it is CONFIRMED or PENDING_APPROVAL, the two      *)
(* statuses the owner's request looks for.                                  *)
(****************************************************************************)
EXTENDS Integers, FiniteSets

CONSTANTS TurfDays,      \* days, as numbers
          DayBookings,   \* the bookings that are requested
          OwnerCalls,    \* the owner's requests
          BlockIds       \* bound: maintenance records ever created

ASSUME MaintenanceAssumption ==
    /\ TurfDays \subseteq Nat /\ IsFiniteSet(TurfDays)
    /\ BlockIds \subseteq Nat \ {0}

VARIABLES
    block,      \* the maintenance records: their days, and the bookings they could not see
    used,       \* ids of records that were created
    visit,      \* the bookings: day, status, whether a payment handler has read it PENDING
    owner       \* the owner's requests; id 0 is a record to be created

maintVars == <<block, used, visit, owner>>

Ranges == {TurfDays \cap (i .. j) : i \in TurfDays, j \in TurfDays} \ {{}}
VisitStates == {"none", "validated", "PENDING", "HELD", "OVER"}
IdleOwner == [at |-> "idle", id |-> 0, todo |-> {}, seen |-> {}]

MaintTypeOK ==
    /\ used \subseteq BlockIds
    /\ DOMAIN block \subseteq used
    /\ \A m \in DOMAIN block : block[m].days \in Ranges /\ block[m].late \subseteq DayBookings
    /\ \A b \in DayBookings : visit[b].day \in TurfDays \cup {0} /\ visit[b].is \in VisitStates
    /\ \A r \in OwnerCalls : owner[r].at \in {"idle", "check", "write"}

MaintInit ==
    /\ block = [m \in {} |-> 0]
    /\ used = {}
    /\ visit = [b \in DayBookings |-> [day |-> 0, is |-> "none", paying |-> FALSE]]
    /\ owner = [r \in OwnerCalls |-> IdleOwner]

----------------------------------------------------------------------------
(* The booking *)

Blocked(day) == \E m \in DOMAIN block : day \in block[m].days

\* createBooking asks for a block on the day.  A block that an owner's request has checked
\* but not written yet cannot see this booking.
ValidateVisit(b) ==
    /\ visit[b].is = "none"
    /\ \E day \in TurfDays :
          /\ ~Blocked(day)
          /\ visit' = [visit EXCEPT ![b].is = "validated", ![b].day = day]
          /\ owner' = [r \in OwnerCalls |-> [owner[r] EXCEPT !.seen =
                         {IF day \in s.days THEN [s EXCEPT !.late = @ \cup {b}] ELSE s : s \in @}]]
    /\ UNCHANGED <<block, used>>

\* The transaction writes it, or the request ends there.
InsertVisit(b) ==
    /\ visit[b].is = "validated"
    /\ \E status \in {"PENDING", "HELD", "OVER"} : visit' = [visit EXCEPT ![b].is = status]
    /\ UNCHANGED <<block, used, owner>>

\* A payment handler reads PENDING, and confirms by id some time later, whatever the
\* booking has become.
ReadPending(b) ==
    /\ visit[b].is = "PENDING"
    /\ visit' = [visit EXCEPT ![b].paying = TRUE]
    /\ UNCHANGED <<block, used, owner>>

ConfirmVisit(b) ==
    /\ visit[b].paying
    /\ visit' = [visit EXCEPT ![b].is = "HELD", ![b].paying = FALSE]
    /\ UNCHANGED <<block, used, owner>>

EndVisit(b) ==
    /\ visit[b].is \in {"PENDING", "HELD"}
    /\ visit' = [visit EXCEPT ![b].is = "OVER"]
    /\ UNCHANGED <<block, used, owner>>

----------------------------------------------------------------------------
(* The owner's requests *)

\* A date, a list of dates, or a range of dates.
RequestBlocks(r) ==
    /\ owner[r].at = "idle"
    /\ \/ \E range \in Ranges : owner' = [owner EXCEPT ![r] = [IdleOwner EXCEPT !.at = "check", !.todo = {range}]]
       \/ \E dates \in SUBSET TurfDays \ {{}} :
             owner' = [owner EXCEPT ![r] = [IdleOwner EXCEPT !.at = "check", !.todo = {{d} : d \in dates}]]
    /\ UNCHANGED <<block, used, visit>>

RequestUpdate(r) ==
    /\ owner[r].at = "idle"
    /\ \E m \in DOMAIN block, range \in Ranges :
          owner' = [owner EXCEPT ![r] = [IdleOwner EXCEPT !.at = "check", !.id = m, !.todo = {range}]]
    /\ UNCHANGED <<block, used, visit>>

\* Mutant: the last day of a range is left out.
ConflictsBeforeLast(days) ==
    {b \in DayBookings : visit[b].is = "HELD" /\ visit[b].day \in days
                         /\ \E d \in days : d > visit[b].day}

\* Only CONFIRMED and PENDING_APPROVAL bookings are in the way.
Conflicts(days) == {b \in DayBookings : visit[b].is = "HELD" /\ visit[b].day \in days}

Unseen(days) == {b \in DayBookings : visit[b].day \in days
                                     /\ (visit[b].is \in {"validated", "PENDING"} \/ visit[b].paying)}

\* One query for each block, before any of them is written.
CheckBlock(r) ==
    /\ owner[r].at = "check"
    /\ \E days \in owner[r].todo :
          IF Conflicts(days) # {} THEN owner' = [owner EXCEPT ![r] = IdleOwner]
          ELSE LET rest == owner[r].todo \ {days}
                   seen == owner[r].seen \cup {[days |-> days, late |-> Unseen(days)]}
               IN  owner' = [owner EXCEPT ![r] = [@ EXCEPT !.todo = rest, !.seen = seen,
                                                  !.at = IF rest = {} THEN "write" ELSE "check"]]
    /\ UNCHANGED <<block, used, visit>>

\* What is left of a request that has written one of its records.
After(call, s) == IF call.seen = {s} THEN IdleOwner ELSE [call EXCEPT !.seen = call.seen \ {s}]

\* One record after the other, without a transaction: the request may die in between.
WriteBlock(r) ==
    /\ owner[r].at = "write" /\ owner[r].id = 0
    /\ \E s \in owner[r].seen, m \in BlockIds \ used :
          /\ block' = [n \in DOMAIN block \cup {m} |-> IF n = m THEN s ELSE block[n]]
          /\ used' = used \cup {m}
          /\ owner' = [owner EXCEPT ![r] = After(@, s)]
    /\ UNCHANGED visit

\* The record may have been deleted since.
UpdateBlock(r) ==
    /\ owner[r].at = "write" /\ owner[r].id # 0
    /\ \E s \in owner[r].seen :
          block' = [m \in DOMAIN block |-> IF m = owner[r].id THEN s ELSE block[m]]
    /\ owner' = [owner EXCEPT ![r] = IdleOwner]
    /\ UNCHANGED <<used, visit>>

OwnerCallFails(r) ==
    /\ owner[r].at # "idle"
    /\ owner' = [owner EXCEPT ![r] = IdleOwner]
    /\ UNCHANGED <<block, used, visit>>

DeleteBlock ==
    /\ \E m \in DOMAIN block : block' = [n \in DOMAIN block \ {m} |-> block[n]]
    /\ UNCHANGED <<used, visit, owner>>

MaintNext ==
    \/ \E b \in DayBookings :
          ValidateVisit(b) \/ InsertVisit(b) \/ ReadPending(b) \/ ConfirmVisit(b) \/ EndVisit(b)
    \/ \E r \in OwnerCalls :
          \/ RequestBlocks(r) \/ RequestUpdate(r) \/ CheckBlock(r)
          \/ WriteBlock(r) \/ UpdateBlock(r) \/ OwnerCallFails(r)
    \/ DeleteBlock

MaintSpec == MaintInit /\ [][MaintNext]_maintVars

----------------------------------------------------------------------------
(* Properties *)

HeldOnBlockedDay(b, m) == visit[b].is = "HELD" /\ visit[b].day \in block[m].days

\* "Confirmed bookings already exist." is the answer to a block over a confirmed booking, and
\* "Turf is unavailable due to maintenance." the answer to a booking on a blocked day.  The
\* two never meet, except for a booking that was on its way when the block was checked:
\* requested and not written yet, waiting for its payment, or with a payment under way.
MaintenanceKeepsTurfFree ==
    \A b \in DayBookings, m \in DOMAIN block : HeldOnBlockedDay(b, m) => b \in block[m].late

\* The same without the exception, as the two answers read: the code does not keep it.
NoBookingInMaintenance == \A b \in DayBookings, m \in DOMAIN block : ~HeldOnBlockedDay(b, m)
=============================================================================

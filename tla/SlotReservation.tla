--------------------------- MODULE SlotReservation ---------------------------
(****************************************************************************)
(* createBooking of booking.service.ts against the three things that        *)
(* arbitrate a slot of one turf and one date: the Redis lease on the exact  *)
(* slot, the slot_locks table and the bookings table.  Several requests run *)
(* it at once; every await that reads or writes shared state is a step of   *)
(* its own, and the process may die between two steps.  The expiry worker,  *)
(* the customer's cancellation and the owner's rejection end bookings.      *)
(*                                                                          *)
(* A request creates at most one booking and at most one slot_locks row, so *)
(* the request's name is also the id of its booking, of its row and of its  *)
(* Redis token.  The payment handlers, which also end or confirm a booking, *)
(* are in BookingLifecycle.                                                 *)
(****************************************************************************)
EXTENDS SlotTimes

CONSTANTS Users, Requests, Slots,
          LeaseMayLapse,  \* a request may outlive the 30 s of its Redis lease
          MayCrash,       \* the server process may die in the middle of a request
          JobAttempts     \* attempts of a booking-expiry job: 3 in the code

ASSUME ReservationAssumption ==
    /\ Slots \subseteq Slot
    /\ LeaseMayLapse \in BOOLEAN /\ MayCrash \in BOOLEAN
    /\ JobAttempts \in Nat \ {0}

CONSTANT None
ASSUME NoneAssumption == None \notin Requests

PaymentTypes == {"ONLINE", "FULL_CASH"}
Statuses == {"NONE", "PENDING", "PENDING_APPROVAL", "CONFIRMED", "CANCELLED", "REJECTED"}
Live == {"PENDING", "PENDING_APPROVAL", "CONFIRMED"}

VARIABLES
    ask,      \* what each request asks for: user, slot, payment type
    pc,       \* the step of createBooking each request is about to take
    lease,    \* Redis: the token stored under the slot's key, or None
    row,      \* slot_locks: is the row a request created absent, live, expired
    linked,   \* slot_locks.booking_id of that row
    mine,     \* the id of the row acquireSlotLock found or is to create
    status,   \* bookings: status of the booking a request created
    job,      \* the expire-booking job of that booking
    attempts  \* attempts that job has used up

vars == <<ask, pc, lease, row, linked, mine, status, job, attempts>>
requestVars == <<ask, pc, mine>>
lockVars == <<row, linked>>
jobVars == <<job, attempts>>

Steps == {"start", "validate", "purge", "find", "lock", "check", "insert", "undo",
          "link", "cash", "enqueue", "release", "done", "crashed"}

\* The steps between acquireLock's OK and the finally block's releaseLock.
Holding == Steps \ {"start", "done", "crashed"}

slotOf(r) == ask[r].slot
IsLive(r) == status[r] \in Live
SameSlot(q, r) == slotOf(q) = slotOf(r)

TypeOK ==
    /\ ask \in [Requests -> [user : Users, slot : Slots, pay : PaymentTypes]]
    /\ pc \in [Requests -> Steps]
    /\ lease \in [Slots -> Requests \cup {None}]
    /\ row \in [Requests -> {"absent", "live", "expired"}]
    /\ linked \in [Requests -> Requests \cup {None}]
    /\ mine \in [Requests -> Requests \cup {None}]
    /\ status \in [Requests -> Statuses]
    /\ job \in [Requests -> {"none", "queued", "write", "release", "done", "failed"}]
    /\ attempts \in [Requests -> 0 .. JobAttempts]

Init ==
    /\ ask \in [Requests -> [user : Users, slot : Slots, pay : PaymentTypes]]
    /\ pc = [r \in Requests |-> "start"]
    /\ lease = [s \in Slots |-> None]
    /\ row = [r \in Requests |-> "absent"]
    /\ linked = [r \in Requests |-> None]
    /\ mine = [r \in Requests |-> None]
    /\ status = [r \in Requests |-> "NONE"]
    /\ job = [r \in Requests |-> "none"]
    /\ attempts = [r \in Requests |-> 0]

----------------------------------------------------------------------------
(* The slot_locks table. *)

\* acquireSlotLock's extension of a row and releaseSlotLockForBooking name rows
\* by id, by booking or by exact slot.
RowsOf(b) == {l \in Requests : row[l] # "absent" /\ (linked[l] = b \/ SameSlot(l, b))}

DeleteRows(rows) ==
    /\ row' = [l \in Requests |-> IF l \in rows THEN "absent" ELSE row[l]]
    /\ linked' = [l \in Requests |-> IF l \in rows THEN None ELSE linked[l]]

\* expiresAt passes.
RowExpires(l) ==
    /\ row[l] = "live"
    /\ row' = [row EXCEPT ![l] = "expired"]
    /\ UNCHANGED <<requestVars, lease, linked, status, jobVars>>

----------------------------------------------------------------------------
(* createBooking *)

Goto(r, step) == pc' = [pc EXCEPT ![r] = step]

\* acquireLock: SET key token NX PX 30000.  A lease that is held, or a Redis
\* that is away, answers 409 and the request is over.
AcquireLease(r) ==
    /\ pc[r] = "start"
    /\ \/ /\ lease[slotOf(r)] = None
          /\ lease' = [lease EXCEPT ![slotOf(r)] = r]
          /\ Goto(r, "validate")
       \/ /\ Goto(r, "done")
          /\ UNCHANGED lease
    /\ UNCHANGED <<ask, mine, lockVars, status, jobVars>>

\* The read-only checks (inputs, restriction, turf, maintenance, dates, hours,
\* price, payment preference): any of them may throw.
Validate(r) ==
    /\ pc[r] = "validate"
    /\ Goto(r, "purge") \/ Goto(r, "release")
    /\ UNCHANGED <<ask, mine, lease, lockVars, status, jobVars>>

\* acquireSlotLock reads the clock and deletes the rows expired by then.
Purge(r) ==
    /\ pc[r] = "purge"
    /\ DeleteRows({l \in Requests : row[l] = "expired"})
    /\ Goto(r, "find")
    /\ UNCHANGED <<ask, mine, lease, status, jobVars>>

\* findFirst compares expiresAt with the clock read before the purge, so a row
\* that expired since then still counts.
FindLock(r) ==
    LET found == {l \in Requests : row[l] # "absent" /\ Overlaps(slotOf(l), slotOf(r))}
    IN  /\ pc[r] = "find"
        /\ \/ /\ found = {}
              /\ mine' = [mine EXCEPT ![r] = r]
              /\ Goto(r, "lock")
           \/ \E l \in found :
                 IF ask[l].user = ask[r].user /\ SameSlot(l, r)
                 THEN /\ mine' = [mine EXCEPT ![r] = l]
                      /\ Goto(r, "lock")
                 ELSE /\ Goto(r, "release")
                      /\ UNCHANGED mine
        /\ UNCHANGED <<ask, lease, lockVars, status, jobVars>>

\* Creates the row, or extends the user's own one, which throws when the row is
\* gone by now.
WriteLock(r) ==
    /\ pc[r] = "lock"
    /\ \/ /\ mine[r] = r \/ row[mine[r]] # "absent"
          /\ row' = [row EXCEPT ![mine[r]] = "live"]
          /\ Goto(r, "check")
       \/ /\ mine[r] # r /\ row[mine[r]] = "absent"
          /\ Goto(r, "release")
          /\ UNCHANGED row
    /\ UNCHANGED <<ask, mine, lease, linked, status, jobVars>>

\* Mutant: the conflict query forgets the bookings that are still PENDING.
CheckBookingsNotPending(r) ==
    /\ pc[r] = "check"
    /\ IF \E q \in Requests : /\ status[q] \in Live \ {"PENDING"}
                             /\ Overlaps(slotOf(q), slotOf(r))
       THEN Goto(r, "undo")
       ELSE Goto(r, "insert")
    /\ UNCHANGED <<ask, mine, lease, lockVars, status, jobVars>>

\* The SELECT ... FOR UPDATE of the transaction.  It sees committed bookings and
\* locks the rows it returns; it does not keep others from inserting.
CheckBookings(r) ==
    /\ pc[r] = "check"
    /\ IF \E q \in Requests : IsLive(q) /\ Overlaps(slotOf(q), slotOf(r))
       THEN Goto(r, "undo")
       ELSE Goto(r, "insert")
    /\ UNCHANGED <<ask, mine, lease, lockVars, status, jobVars>>

\* INSERT and COMMIT, or a rollback.
InsertBooking(r) ==
    /\ pc[r] = "insert"
    /\ \/ /\ IF ask[r].pay = "FULL_CASH"
             THEN \E s \in {"PENDING_APPROVAL", "CONFIRMED"} :
                     status' = [status EXCEPT ![r] = s]
             ELSE status' = [status EXCEPT ![r] = "PENDING"]
          /\ Goto(r, "link")
       \/ /\ Goto(r, "undo")
          /\ UNCHANGED status
    /\ UNCHANGED <<ask, mine, lease, lockVars, jobVars>>

\* The catch block deletes the row the request holds, created or extended.
UndoLock(r) ==
    /\ pc[r] = "undo"
    /\ DeleteRows({mine[r]})
    /\ Goto(r, "release")
    /\ UNCHANGED <<ask, mine, lease, status, jobVars>>

\* slotLock.update by id: it throws when somebody deleted the row meanwhile, and
\* then nothing after it in createBooking runs.
LinkLock(r) ==
    /\ pc[r] = "link"
    /\ IF row[mine[r]] = "absent"
       THEN /\ Goto(r, "release")
            /\ UNCHANGED linked
       ELSE /\ linked' = [linked EXCEPT ![mine[r]] = r]
            /\ Goto(r, IF ask[r].pay = "FULL_CASH" THEN "cash" ELSE "enqueue")
    /\ UNCHANGED <<ask, mine, lease, row, status, jobVars>>

ReleaseCashLock(r) ==
    /\ pc[r] = "cash"
    /\ DeleteRows(RowsOf(r))
    /\ Goto(r, "release")
    /\ UNCHANGED <<ask, mine, lease, status, jobVars>>

\* Only here does a PENDING booking get its expire-booking job.
EnqueueExpiry(r) ==
    /\ pc[r] = "enqueue"
    /\ job' = [job EXCEPT ![r] = "queued"]
    /\ Goto(r, "release")
    /\ UNCHANGED <<ask, mine, lease, lockVars, status, attempts>>

\* Mutant: DEL without comparing the token.
ReleaseLeaseBlindly(r) ==
    /\ pc[r] = "release"
    /\ lease' = [lease EXCEPT ![slotOf(r)] = None]
    /\ Goto(r, "done")
    /\ UNCHANGED <<ask, mine, lockVars, status, jobVars>>

\* The finally block: the script deletes the key if it still holds this token.
\* If Redis is away the lease stays until its time to live ends.
ReleaseLease(r) ==
    /\ pc[r] = "release"
    /\ \/ /\ lease[slotOf(r)] = r
          /\ lease' = [lease EXCEPT ![slotOf(r)] = None]
       \/ UNCHANGED lease
    /\ Goto(r, "done")
    /\ UNCHANGED <<ask, mine, lockVars, status, jobVars>>

\* The lease's time to live ends: after 30 s a request is over, unless it stalls.
LeaseLapses(s) ==
    /\ lease[s] # None
    /\ LeaseMayLapse \/ pc[lease[s]] \notin Holding
    /\ lease' = [lease EXCEPT ![s] = None]
    /\ UNCHANGED <<requestVars, lockVars, status, jobVars>>

Crash(r) ==
    /\ MayCrash /\ pc[r] \in Holding
    /\ Goto(r, "crashed")
    /\ UNCHANGED <<ask, mine, lease, lockVars, status, jobVars>>

----------------------------------------------------------------------------
(* handleBookingExpiration, run by the booking-expiry worker. *)

\* The job's delay is over: read the booking.
ExpiryReads(b) ==
    /\ job[b] = "queued"
    /\ job' = [job EXCEPT ![b] = IF status[b] = "PENDING" THEN "write" ELSE "done"]
    /\ UNCHANGED <<requestVars, lease, lockVars, status, attempts>>

\* The update names the booking by id only.
ExpiryCancels(b) ==
    /\ job[b] = "write"
    /\ status' = [status EXCEPT ![b] = "CANCELLED"]
    /\ job' = [job EXCEPT ![b] = "release"]
    /\ UNCHANGED <<requestVars, lease, lockVars, attempts>>

ExpiryReleases(b) ==
    /\ job[b] = "release"
    /\ DeleteRows(RowsOf(b))
    /\ job' = [job EXCEPT ![b] = "done"]
    /\ UNCHANGED <<requestVars, lease, status, attempts>>

\* Mutant: the worker retries for ever.
ExpiryRetriesForever(b) ==
    /\ job[b] \in {"queued", "write", "release"}
    /\ attempts' = [attempts EXCEPT ![b] = @ + 1]
    /\ job' = [job EXCEPT ![b] = "queued"]
    /\ UNCHANGED <<requestVars, lease, lockVars, status>>

\* Mutant: the worker swallows the error, and the job counts as done.
ExpirySwallowsErrors(b) ==
    /\ job[b] \in {"queued", "write", "release"}
    /\ job' = [job EXCEPT ![b] = "done"]
    /\ UNCHANGED <<requestVars, lease, lockVars, status, attempts>>

\* The handler throws or the worker dies: BullMQ runs the job again from the
\* start while it has attempts left.
ExpiryFails(b) ==
    /\ job[b] \in {"queued", "write", "release"}
    /\ attempts' = [attempts EXCEPT ![b] = @ + 1]
    /\ job' = [job EXCEPT ![b] = IF attempts[b] + 1 < JobAttempts THEN "queued" ELSE "failed"]
    /\ UNCHANGED <<requestVars, lease, lockVars, status>>

----------------------------------------------------------------------------
(* The row-locked transactions of cancelBooking and rejectBooking; both     *)
(* release the slot lock before they commit.                                *)

CancelBooking(b) ==
    /\ IsLive(b)
    /\ status' = [status EXCEPT ![b] = "CANCELLED"]
    /\ DeleteRows(RowsOf(b))
    /\ UNCHANGED <<requestVars, lease, jobVars>>

RejectBooking(b) ==
    /\ status[b] = "PENDING_APPROVAL"
    /\ status' = [status EXCEPT ![b] = "REJECTED"]
    /\ DeleteRows(RowsOf(b))
    /\ UNCHANGED <<requestVars, lease, jobVars>>

----------------------------------------------------------------------------
CreateBooking(r) ==
    \/ AcquireLease(r) \/ Validate(r) \/ Purge(r) \/ FindLock(r) \/ WriteLock(r)
    \/ CheckBookings(r) \/ InsertBooking(r) \/ UndoLock(r) \/ LinkLock(r)
    \/ ReleaseCashLock(r) \/ EnqueueExpiry(r) \/ ReleaseLease(r)

HandleBookingExpiration(b) == ExpiryReads(b) \/ ExpiryCancels(b) \/ ExpiryReleases(b)

Next ==
    \/ \E r \in Requests :
          \/ CreateBooking(r) \/ Crash(r) \/ RowExpires(r)
          \/ HandleBookingExpiration(r) \/ ExpiryFails(r)
          \/ CancelBooking(r) \/ RejectBooking(r)
    \/ \E s \in Slots : LeaseLapses(s)

Spec == Init /\ [][Next]_vars

\* The expiry worker keeps running: its queue delivers a job until it is done or
\* has failed for good.
FairSpec == Spec /\ \A b \in Requests : WF_vars(HandleBookingExpiration(b))

----------------------------------------------------------------------------
(* Properties *)

\* Two live bookings are never for the same slot: what the Redis lease, the slot
\* lock and the transaction of createBooking exist for.
NoExactDoubleBooking ==
    \A q, r \in Requests : IsLive(q) /\ IsLive(r) /\ SameSlot(q, r) => q = r

\* The same for slots that overlap without being equal, as the documentation has
\* it.  The lease key names the exact slot, so nothing serializes such requests.
NoDoubleBooking ==
    \A q, r \in Requests :
        IsLive(q) /\ IsLive(r) /\ Overlaps(slotOf(q), slotOf(r)) => q = r

\* slot_locks has no unique constraint on the slot; purge, find and create under
\* the lease still leave at most one row for it.
OneRowPerSlot ==
    \A l, m \in Requests :
        row[l] # "absent" /\ row[m] # "absent" /\ SameSlot(l, m) => l = m

\* The release script compares tokens: a request that outlived its lease and ends
\* late never takes the key from the request that holds it now.
LeaseNotStolen ==
    [][\A s \in Slots : lease[s] # None /\ lease'[s] # lease[s] =>
          \/ pc[lease[s]] = "release" /\ pc'[lease[s]] = "done"
          \/ UNCHANGED pc]_vars

\* The expiry worker is the only thing that ends an unpaid booking: no request
\* may leave a PENDING booking behind without having queued the job.
UnpaidBookingHasExpiryJob ==
    \A r \in Requests : pc[r] = "done" /\ status[r] = "PENDING" => job[r] # "none"

\* A queued expiry job ends the unpaid booking unless all its attempts failed.
QueuedExpiryEndsBooking ==
    \A b \in Requests : job[b] = "queued" ~> (status[b] # "PENDING" \/ job[b] = "failed")

\* The reservation protocol implements the abstract promise.
Abstract == INSTANCE ExclusiveSlots WITH
    Bookings <- Requests,
    SlotSet <- Slots,
    wants <- [r \in Requests |-> slotOf(r)],
    hold <- [r \in Requests |-> IF status[r] = "NONE" THEN "free"
                                ELSE IF IsLive(r) THEN "held" ELSE "over"]

ImplementsExclusiveSlots == Abstract!Spec
=============================================================================

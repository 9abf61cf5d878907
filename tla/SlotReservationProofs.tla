------------------------ MODULE SlotReservationProofs ------------------------
(****************************************************************************)
(* Theorems about SlotReservation, for any sets of users, requests and      *)
(* slots.                                                                   *)
(****************************************************************************)
EXTENDS SlotReservation, TLAPS

\* A job that is still to run has an attempt left.
JobBudget ==
    \A b \in Requests : job[b] \in {"none", "queued", "write", "release"} => attempts[b] < JobAttempts

\* A booking exists only after its request's INSERT, and a job only for a booking.
BookingStages ==
    \A r \in Requests :
        /\ pc[r] \in {"start", "validate", "purge", "find", "lock", "check", "insert"}
              => status[r] = "NONE" /\ job[r] = "none"
        /\ pc[r] \in {"link", "cash", "enqueue"} => status[r] # "NONE" /\ job[r] = "none"
        /\ job[r] # "none" => status[r] # "NONE"

TypeInv == TypeOK /\ JobBudget /\ BookingStages

\* A request between acquireLock and releaseLock holds its slot's lease.
HolderHasLease ==
    \A r \in Requests : pc[r] \in Holding => lease[slotOf(r)] = r

\* What the SELECT of the transaction found stays true until the INSERT.
CheckedSlotIsFree ==
    \A r \in Requests : pc[r] = "insert" =>
        \A q \in Requests : SameSlot(q, r) => ~IsLive(q)

BookingInv == TypeInv /\ HolderHasLease /\ CheckedSlotIsFree /\ NoExactDoubleBooking

\* A request about to create a row found none, its own included.
FoundNoRow ==
    \A r \in Requests :
        /\ pc[r] \in {"start", "validate", "purge", "find"} => row[r] = "absent"
        /\ pc[r] = "lock" /\ mine[r] = r =>
               \A l \in Requests : SameSlot(l, r) => row[l] = "absent"
        /\ pc[r] = "lock" => mine[r] \in Requests /\ SameSlot(mine[r], r)

RowInv == TypeInv /\ HolderHasLease /\ FoundNoRow /\ OneRowPerSlot

\* The assumptions of the exclusion theorems: requests end within their lease's
\* time to live, and slots do not cross midnight.
Orderly == /\ LeaseMayLapse = FALSE
           /\ \A s \in Slots : SameDay(s)

----------------------------------------------------------------------------
LEMMA TypeInit == Init => TypeInv
BY ReservationAssumption
   DEF Init, TypeInv, TypeOK, JobBudget, BookingStages, Steps, Statuses

\* Which part of the state each step leaves alone, for the proofs below.
LEMMA LocksOnly ==
    ASSUME TypeOK, NEW rows, DeleteRows(rows)
    PROVE  /\ row' \in [Requests -> {"absent", "live", "expired"}]
           /\ linked' \in [Requests -> Requests \cup {None}]
BY DEF TypeOK, DeleteRows

LEMMA TypeStep == TypeInv /\ [Next]_vars => TypeInv'
<1> SUFFICES ASSUME TypeInv, [Next]_vars PROVE TypeInv'
  OBVIOUS
<1>a. TypeOK
  BY DEF TypeInv
<1> USE <1>a, ReservationAssumption
    DEF TypeInv, TypeOK, JobBudget, BookingStages, Steps, Statuses, Goto, requestVars,
        lockVars, jobVars, slotOf
<1>1. CASE UNCHANGED vars
  BY <1>1 DEF vars
<1>2. ASSUME NEW r \in Requests, AcquireLease(r) PROVE TypeInv'
  <2>1. \/ pc' = [pc EXCEPT ![r] = "validate"] /\ lease' = [lease EXCEPT ![slotOf(r)] = r]
        \/ pc' = [pc EXCEPT ![r] = "done"] /\ lease' = lease
    BY <1>2 DEF AcquireLease
  <2>2. pc[r] = "start" /\ UNCHANGED <<ask, mine, row, linked, status, job, attempts>>
    BY <1>2 DEF AcquireLease
  <2>3. TypeOK'
    BY <2>1, <2>2
  <2>4. BookingStages' /\ JobBudget'
    BY <2>1, <2>2
  <2> QED BY <2>3, <2>4
<1>3. ASSUME NEW r \in Requests, Validate(r) PROVE TypeInv'
  BY <1>3 DEF Validate
<1>4. ASSUME NEW r \in Requests, Purge(r) PROVE TypeInv'
  BY <1>4, LocksOnly DEF Purge
<1>5. ASSUME NEW r \in Requests, FindLock(r) PROVE TypeInv'
  <2>1. mine' = mine \/ \E l \in Requests : mine' = [mine EXCEPT ![r] = l]
    BY <1>5 DEF FindLock
  <2>2. pc' = [pc EXCEPT ![r] = "lock"] \/ pc' = [pc EXCEPT ![r] = "release"]
    BY <1>5 DEF FindLock
  <2>3. pc[r] = "find" /\ UNCHANGED <<ask, lease, row, linked, status, job, attempts>>
    BY <1>5 DEF FindLock
  <2>4. TypeOK'
    <3>1. mine' \in [Requests -> Requests \cup {None}]
      BY <2>1
    <3>2. pc' \in [Requests -> Steps]
      BY <2>2
    <3> QED BY <3>1, <3>2, <2>3
  <2>5. BookingStages' /\ JobBudget'
    BY <2>2, <2>3
  <2> QED BY <2>4, <2>5
<1>6. ASSUME NEW r \in Requests, WriteLock(r) PROVE TypeInv'
  BY <1>6 DEF WriteLock
<1>7. ASSUME NEW r \in Requests, CheckBookings(r) PROVE TypeInv'
  <2>1. pc' = [pc EXCEPT ![r] = "undo"] \/ pc' = [pc EXCEPT ![r] = "insert"]
    BY <1>7 DEF CheckBookings
  <2>2. pc[r] = "check" /\ UNCHANGED <<ask, mine, lease, row, linked, status, job, attempts>>
    BY <1>7 DEF CheckBookings
  <2> QED BY <2>1, <2>2
<1>8. ASSUME NEW r \in Requests, InsertBooking(r) PROVE TypeInv'
  <2>1. \/ pc' = [pc EXCEPT ![r] = "undo"] /\ UNCHANGED status
        \/ /\ pc' = [pc EXCEPT ![r] = "link"]
           /\ \E s \in Live : status' = [status EXCEPT ![r] = s]
    BY <1>8 DEF InsertBooking, Live
  <2>2. pc[r] = "insert" /\ UNCHANGED <<ask, mine, lease, row, linked, job, attempts>>
    BY <1>8 DEF InsertBooking
  <2>3. CASE pc' = [pc EXCEPT ![r] = "undo"] /\ UNCHANGED status
    BY <2>2, <2>3
  <2>4. ASSUME NEW s \in Live, pc' = [pc EXCEPT ![r] = "link"],
               status' = [status EXCEPT ![r] = s]
        PROVE  TypeInv'
    <3>1. s \in Statuses /\ s # "NONE"
      BY DEF Live
    <3>2. TypeOK'
      BY <2>2, <2>4, <3>1
    <3>3. BookingStages' /\ JobBudget'
      BY <2>2, <2>4, <3>1
    <3> QED BY <3>2, <3>3
  <2> QED BY <2>1, <2>3, <2>4
<1>9. ASSUME NEW r \in Requests, UndoLock(r) PROVE TypeInv'
  BY <1>9, LocksOnly DEF UndoLock
<1>10. ASSUME NEW r \in Requests, LinkLock(r) PROVE TypeInv'
  <2>1. linked' = linked \/ linked' = [linked EXCEPT ![mine[r]] = r]
    BY <1>10 DEF LinkLock
  <2>2. \E step \in {"release", "cash", "enqueue"} : pc' = [pc EXCEPT ![r] = step]
    BY <1>10 DEF LinkLock
  <2>3. pc[r] = "link" /\ UNCHANGED <<ask, mine, lease, row, status, job, attempts>>
    BY <1>10 DEF LinkLock
  <2> QED BY <2>1, <2>2, <2>3
<1>11. ASSUME NEW r \in Requests, ReleaseCashLock(r) PROVE TypeInv'
  BY <1>11, LocksOnly DEF ReleaseCashLock
<1>12. ASSUME NEW r \in Requests, EnqueueExpiry(r) PROVE TypeInv'
  <2>1. TypeOK'
    BY <1>12 DEF EnqueueExpiry
  <2>2. BookingStages'
    BY <1>12 DEF EnqueueExpiry
  <2>3. JobBudget'
    BY <1>12 DEF EnqueueExpiry
  <2> QED BY <2>1, <2>2, <2>3
<1>13. ASSUME NEW r \in Requests, ReleaseLease(r) PROVE TypeInv'
  BY <1>13 DEF ReleaseLease
<1>14. ASSUME NEW s \in Slots, LeaseLapses(s) PROVE TypeInv'
  BY <1>14 DEF LeaseLapses
<1>15. ASSUME NEW r \in Requests, Crash(r) PROVE TypeInv'
  BY <1>15 DEF Crash
<1>16. ASSUME NEW r \in Requests, RowExpires(r) PROVE TypeInv'
  BY <1>16 DEF RowExpires
<1>17. ASSUME NEW b \in Requests, ExpiryReads(b) PROVE TypeInv'
  <2>1. job' = [job EXCEPT ![b] = "write"] \/ job' = [job EXCEPT ![b] = "done"]
    BY <1>17 DEF ExpiryReads
  <2>2. job[b] = "queued" /\ UNCHANGED <<ask, pc, mine, lease, row, linked, status, attempts>>
    BY <1>17 DEF ExpiryReads
  <2> QED BY <2>1, <2>2
<1>18. ASSUME NEW b \in Requests, ExpiryCancels(b) PROVE TypeInv'
  BY <1>18 DEF ExpiryCancels
<1>19. ASSUME NEW b \in Requests, ExpiryReleases(b) PROVE TypeInv'
  BY <1>19, LocksOnly DEF ExpiryReleases
<1>20. ASSUME NEW b \in Requests, ExpiryFails(b) PROVE TypeInv'
  <2>1. attempts[b] + 1 \in 0 .. JobAttempts
    BY <1>20 DEF ExpiryFails
  <2>2. \/ job' = [job EXCEPT ![b] = "queued"] /\ attempts[b] + 1 < JobAttempts
        \/ job' = [job EXCEPT ![b] = "failed"]
    BY <1>20 DEF ExpiryFails
  <2>3. /\ attempts' = [attempts EXCEPT ![b] = attempts[b] + 1]
        /\ job[b] \in {"queued", "write", "release"}
        /\ UNCHANGED <<ask, pc, mine, lease, row, linked, status>>
    BY <1>20 DEF ExpiryFails
  <2> QED BY <2>1, <2>2, <2>3
<1>21. ASSUME NEW b \in Requests, CancelBooking(b) \/ RejectBooking(b) PROVE TypeInv'
  <2>1. status' = [status EXCEPT ![b] = "CANCELLED"] \/ status' = [status EXCEPT ![b] = "REJECTED"]
    BY <1>21 DEF CancelBooking, RejectBooking
  <2>2. /\ status[b] # "NONE" /\ DeleteRows(RowsOf(b))
        /\ UNCHANGED <<ask, pc, mine, lease, job, attempts>>
    BY <1>21 DEF CancelBooking, RejectBooking, IsLive, Live
  <2> QED BY <2>1, <2>2, LocksOnly
<1> QED
  BY <1>1, <1>2, <1>3, <1>4, <1>5, <1>6, <1>7, <1>8, <1>9, <1>10, <1>11, <1>12, <1>13,
     <1>14, <1>15, <1>16, <1>17, <1>18, <1>19, <1>20, <1>21
     DEF Next, CreateBooking, HandleBookingExpiration

LEMMA TypeInvariant == Spec => []TypeInv
BY TypeInit, TypeStep, PTL DEF Spec

\* Every variable keeps its type: no step of a request, a job or a transaction
\* writes a value the schema does not have.
THEOREM TypeCorrect == Spec => []TypeOK
<1>1. TypeInv => TypeOK
  BY DEF TypeInv
<1> QED BY <1>1, TypeInvariant, PTL

\* What a request asks for never changes.
LEMMA AskConstant == ASSUME [Next]_vars PROVE ask' = ask
BY DEF Next, vars, CreateBooking, AcquireLease, Validate, Purge, FindLock, WriteLock,
   CheckBookings, InsertBooking, UndoLock, LinkLock, ReleaseCashLock, EnqueueExpiry,
   ReleaseLease, HandleBookingExpiration, ExpiryReads, ExpiryCancels, ExpiryReleases,
   ExpiryFails, RowExpires, CancelBooking, RejectBooking, Crash, LeaseLapses, requestVars

----------------------------------------------------------------------------
(* The lease excludes. *)

LEMMA LeaseInit == Init => HolderHasLease
BY DEF Init, HolderHasLease, Holding

\* Outside AcquireLease, ReleaseLease and LeaseLapses no lease changes and nobody
\* enters the critical section.
LEMMA LeaseUntouched ==
    ASSUME TypeInv, [Next]_vars,
           \A r \in Requests : ~AcquireLease(r) /\ ~ReleaseLease(r),
           \A s \in Slots : ~LeaseLapses(s)
    PROVE  /\ lease' = lease /\ ask' = ask
           /\ \A r \in Requests : pc'[r] \in Holding => pc[r] \in Holding
<1> USE DEF TypeInv, TypeOK, Holding, Steps, Goto, requestVars, lockVars, jobVars
<1>1. CASE UNCHANGED vars
  BY <1>1 DEF vars
<1>2. ASSUME NEW r \in Requests,
             Validate(r) \/ Purge(r) \/ FindLock(r) \/ WriteLock(r) \/ CheckBookings(r)
      PROVE  /\ lease' = lease /\ ask' = ask
             /\ pc[r] \in Holding /\ \A q \in Requests : q # r => pc'[q] = pc[q]
  BY <1>2 DEF Validate, Purge, FindLock, WriteLock, CheckBookings
<1>3. ASSUME NEW r \in Requests,
             InsertBooking(r) \/ UndoLock(r) \/ LinkLock(r) \/ ReleaseCashLock(r)
                \/ EnqueueExpiry(r) \/ Crash(r)
      PROVE  /\ lease' = lease /\ ask' = ask
             /\ pc[r] \in Holding /\ \A q \in Requests : q # r => pc'[q] = pc[q]
  BY <1>3 DEF InsertBooking, UndoLock, LinkLock, ReleaseCashLock, EnqueueExpiry, Crash
<1>4. ASSUME NEW b \in Requests,
             HandleBookingExpiration(b) \/ ExpiryFails(b) \/ RowExpires(b)
                \/ CancelBooking(b) \/ RejectBooking(b)
      PROVE  lease' = lease /\ ask' = ask /\ pc' = pc
  BY <1>4 DEF HandleBookingExpiration, ExpiryReads, ExpiryCancels, ExpiryReleases,
              ExpiryFails, RowExpires, CancelBooking, RejectBooking
<1> QED BY <1>1, <1>2, <1>3, <1>4 DEF Next, CreateBooking

LEMMA LeaseStep ==
    ASSUME TypeInv, HolderHasLease, Orderly, [Next]_vars
    PROVE  HolderHasLease'
<1> USE DEF TypeInv, TypeOK, HolderHasLease, slotOf
<1>1. ASSUME NEW r \in Requests, AcquireLease(r) PROVE HolderHasLease'
  <2>1. pc[r] = "start" /\ ask' = ask
    BY <1>1 DEF AcquireLease
  <2>2. CASE lease' = lease /\ pc' = [pc EXCEPT ![r] = "done"]
    BY <2>1, <2>2 DEF Holding
  <2>3. CASE /\ lease[slotOf(r)] = None /\ lease' = [lease EXCEPT ![slotOf(r)] = r]
             /\ pc' = [pc EXCEPT ![r] = "validate"]
    <3>1. \A q \in Requests : pc[q] \in Holding => slotOf(q) # slotOf(r)
      BY <2>3, NoneAssumption
    <3> QED BY <2>1, <2>3, <3>1
  <2> QED BY <1>1, <2>2, <2>3 DEF AcquireLease, Goto
<1>2. ASSUME NEW r \in Requests, ReleaseLease(r) PROVE HolderHasLease'
  BY <1>2 DEF ReleaseLease, Goto, Holding
<1>3. ASSUME NEW s \in Slots, LeaseLapses(s) PROVE HolderHasLease'
  BY <1>3, NoneAssumption DEF LeaseLapses, requestVars, Orderly
<1>4. CASE /\ \A r \in Requests : ~AcquireLease(r) /\ ~ReleaseLease(r)
           /\ \A s \in Slots : ~LeaseLapses(s)
  BY <1>4, LeaseUntouched
<1> QED BY <1>1, <1>2, <1>3, <1>4

LEMMA HolderIsUnique ==
    ASSUME HolderHasLease, NEW q \in Requests, NEW r \in Requests,
           pc[q] \in Holding, pc[r] \in Holding, SameSlot(q, r)
    PROVE  q = r
BY DEF HolderHasLease, SameSlot

LEMMA SlotConflictsWithItself ==
    ASSUME TypeInv, Orderly, NEW q \in Requests, NEW r \in Requests, SameSlot(q, r)
    PROVE  Overlaps(slotOf(q), slotOf(r))
BY ReservationAssumption
   DEF TypeInv, TypeOK, Orderly, SameSlot, slotOf, SameDay, Overlaps, Slot, Time

----------------------------------------------------------------------------
(* No two live bookings for one slot. *)

\* Only an INSERT makes a booking live.
LEMMA LiveOnlyByInsert ==
    ASSUME TypeInv, [Next]_vars, NEW q \in Requests, (IsLive(q))', ~IsLive(q)
    PROVE  InsertBooking(q)
<1> USE DEF TypeInv, TypeOK, IsLive, Live, requestVars, lockVars, jobVars
<1>1. CASE UNCHANGED vars
  BY <1>1 DEF vars
<1>2. ASSUME NEW r \in Requests, CreateBooking(r), ~InsertBooking(r) PROVE status' = status
  BY <1>2 DEF CreateBooking, AcquireLease, Validate, Purge, FindLock, WriteLock,
     CheckBookings, UndoLock, LinkLock, ReleaseCashLock, EnqueueExpiry, ReleaseLease
<1>3. ASSUME NEW r \in Requests, InsertBooking(r) PROVE r = q
  BY <1>3 DEF InsertBooking
<1>4. ASSUME NEW b \in Requests, HandleBookingExpiration(b) \/ ExpiryFails(b)
      PROVE  FALSE
  BY <1>4 DEF HandleBookingExpiration, ExpiryReads, ExpiryCancels, ExpiryReleases, ExpiryFails
<1>5. ASSUME NEW b \in Requests, CancelBooking(b) \/ RejectBooking(b) PROVE FALSE
  BY <1>5 DEF CancelBooking, RejectBooking
<1>6. ASSUME NEW b \in Requests, Crash(b) \/ RowExpires(b) PROVE FALSE
  BY <1>6 DEF Crash, RowExpires
<1>7. ASSUME NEW s \in Slots, LeaseLapses(s) PROVE FALSE
  BY <1>7 DEF LeaseLapses
<1> QED BY <1>1, <1>2, <1>3, <1>4, <1>5, <1>6, <1>7 DEF Next

\* A request gets to its INSERT only from a SELECT that found nothing.
LEMMA InsertOnlyAfterCheck ==
    ASSUME TypeInv, [Next]_vars, NEW r \in Requests, pc'[r] = "insert"
    PROVE  \/ pc[r] = "insert" /\ ~InsertBooking(r)
           \/ CheckBookings(r)
<1> USE DEF TypeInv, TypeOK, Goto, requestVars
<1>1. CASE UNCHANGED vars
  BY <1>1 DEF vars, InsertBooking
<1>2. ASSUME NEW q \in Requests, CreateBooking(q), q # r, ~InsertBooking(r)
      PROVE  pc[r] = "insert"
  BY <1>2 DEF CreateBooking, AcquireLease, Validate, Purge, FindLock, WriteLock,
     CheckBookings, InsertBooking, UndoLock, LinkLock, ReleaseCashLock, EnqueueExpiry,
     ReleaseLease
<1>3. ASSUME CreateBooking(r) PROVE CheckBookings(r)
  BY <1>3 DEF CreateBooking, AcquireLease, Validate, Purge, FindLock, WriteLock,
     InsertBooking, UndoLock, LinkLock, ReleaseCashLock, EnqueueExpiry, ReleaseLease
<1>4. ASSUME NEW b \in Requests, Crash(b) PROVE pc[r] = "insert"
  BY <1>4 DEF Crash
<1>5. ASSUME NEW b \in Requests,
             HandleBookingExpiration(b) \/ ExpiryFails(b) \/ RowExpires(b)
                \/ CancelBooking(b) \/ RejectBooking(b)
      PROVE  pc[r] = "insert"
  BY <1>5 DEF HandleBookingExpiration, ExpiryReads, ExpiryCancels, ExpiryReleases,
              ExpiryFails, RowExpires, CancelBooking, RejectBooking
<1>6. ASSUME NEW s \in Slots, LeaseLapses(s) PROVE pc[r] = "insert"
  BY <1>6 DEF LeaseLapses
<1>7. ~InsertBooking(r)
  BY DEF InsertBooking
<1> QED BY <1>1, <1>2, <1>3, <1>4, <1>5, <1>6, <1>7 DEF Next

LEMMA BookingStep ==
    ASSUME BookingInv, Orderly, [Next]_vars
    PROVE  BookingInv'
<1> USE DEF BookingInv
<1>1. TypeInv' /\ HolderHasLease'
  BY TypeStep, LeaseStep
<1>2. ask' = ask
  BY AskConstant
<1>3. CheckedSlotIsFree'
  <2> SUFFICES ASSUME NEW r \in Requests, pc'[r] = "insert",
                      NEW q \in Requests, SameSlot(q, r), (IsLive(q))'
               PROVE  FALSE
    BY <1>2 DEF CheckedSlotIsFree, SameSlot, slotOf
  <2>1. CASE CheckBookings(r)
    <3>1. IsLive(q)
      BY <2>1 DEF CheckBookings, IsLive
    <3>2. Overlaps(slotOf(q), slotOf(r))
      BY SlotConflictsWithItself
    <3>3. pc' = [pc EXCEPT ![r] = "undo"]
      BY <2>1, <3>1, <3>2 DEF CheckBookings, Goto
    <3> QED BY <3>3 DEF TypeInv, TypeOK
  <2>2. CASE pc[r] = "insert" /\ ~InsertBooking(r)
    <3>1. ~IsLive(q)
      BY <2>2 DEF CheckedSlotIsFree
    <3>2. InsertBooking(q)
      BY <3>1, LiveOnlyByInsert
    <3>3. pc[q] \in Holding /\ pc[r] \in Holding
      BY <2>2, <3>2 DEF InsertBooking, Holding, Steps
    <3> QED BY <2>2, <3>2, <3>3, HolderIsUnique
  <2> QED BY <2>1, <2>2, InsertOnlyAfterCheck
<1>4. NoExactDoubleBooking'
  <2> SUFFICES ASSUME NEW q \in Requests, NEW r \in Requests, (IsLive(q))', (IsLive(r))',
                      SameSlot(q, r)
               PROVE  q = r
    BY <1>2 DEF NoExactDoubleBooking, SameSlot, slotOf
  <2>1. CASE IsLive(q) /\ IsLive(r)
    BY <2>1 DEF NoExactDoubleBooking
  <2>2. CASE IsLive(q) /\ ~IsLive(r)
    BY <2>2, LiveOnlyByInsert DEF InsertBooking, CheckedSlotIsFree
  <2>3. CASE ~IsLive(q) /\ IsLive(r)
    <3>1. SameSlot(r, q)
      BY DEF SameSlot
    <3> QED BY <2>3, <3>1, LiveOnlyByInsert DEF InsertBooking, CheckedSlotIsFree
  <2>4. CASE ~IsLive(q) /\ ~IsLive(r)
    <3>1. pc[q] \in Holding /\ pc[r] \in Holding
      BY <2>4, LiveOnlyByInsert DEF InsertBooking, Holding, Steps
    <3> QED BY <3>1, HolderIsUnique
  <2> QED BY <2>1, <2>2, <2>3, <2>4
<1> QED BY <1>1, <1>3, <1>4

\* No two live bookings are for the same slot, however the requests, the expiry
\* jobs, the cancellations and the crashes interleave, as long as no request
\* outlives its Redis lease and no slot crosses midnight.
THEOREM ExactSlotsAreExclusive ==
    ASSUME Orderly
    PROVE  Spec => []NoExactDoubleBooking
<1>1. Init => BookingInv
  BY TypeInit, LeaseInit
     DEF Init, BookingInv, CheckedSlotIsFree, NoExactDoubleBooking, IsLive, Live
<1>2. BookingInv /\ [Next]_vars => BookingInv'
  BY BookingStep
<1>3. BookingInv => NoExactDoubleBooking
  BY DEF BookingInv
<1> QED BY <1>1, <1>2, <1>3, PTL DEF Spec

----------------------------------------------------------------------------
(* At most one slot_locks row for a slot. *)

\* Only WriteLock makes a row, the one it names after its own request.
LEMMA RowOnlyByWrite ==
    ASSUME TypeInv, FoundNoRow, [Next]_vars,
           NEW l \in Requests, row[l] = "absent", row'[l] # "absent"
    PROVE  WriteLock(l) /\ pc[l] = "lock" /\ mine[l] = l
<1> USE DEF TypeInv, TypeOK, requestVars, lockVars, DeleteRows
<1>1. CASE UNCHANGED vars
  BY <1>1 DEF vars
<1>2. ASSUME NEW r \in Requests, CreateBooking(r), ~WriteLock(r) PROVE FALSE
  BY <1>2 DEF CreateBooking, AcquireLease, Validate, Purge, FindLock, CheckBookings,
     InsertBooking, UndoLock, LinkLock, ReleaseCashLock, EnqueueExpiry, ReleaseLease
<1>3. ASSUME NEW r \in Requests, WriteLock(r)
      PROVE  WriteLock(l) /\ pc[l] = "lock" /\ mine[l] = l
  <2>1. pc[r] = "lock" /\ mine[r] \in Requests
    BY <1>3 DEF WriteLock, FoundNoRow
  <2>2. mine[r] = l /\ mine[r] = r
    BY <1>3, <2>1 DEF WriteLock
  <2> QED BY <1>3, <2>1, <2>2
<1>4. ASSUME NEW b \in Requests, HandleBookingExpiration(b) \/ ExpiryFails(b)
      PROVE  FALSE
  BY <1>4 DEF HandleBookingExpiration, ExpiryReads, ExpiryCancels, ExpiryReleases, ExpiryFails
<1>5. ASSUME NEW b \in Requests, CancelBooking(b) \/ RejectBooking(b) PROVE FALSE
  BY <1>5 DEF CancelBooking, RejectBooking
<1>6. ASSUME NEW b \in Requests, Crash(b) \/ RowExpires(b) PROVE FALSE
  BY <1>6 DEF Crash, RowExpires
<1>7. ASSUME NEW s \in Slots, LeaseLapses(s) PROVE FALSE
  BY <1>7 DEF LeaseLapses
<1> QED BY <1>1, <1>2, <1>3, <1>4, <1>5, <1>6, <1>7 DEF Next

\* How a request gets to a step up to the one that writes the row.
LEMMA EarlySteps ==
    ASSUME TypeInv, [Next]_vars, NEW r \in Requests,
           pc'[r] \in {"start", "validate", "purge", "find", "lock"}
    PROVE  /\ ~WriteLock(r)
           /\ pc'[r] # "lock" => pc[r] \in {"start", "validate", "purge", "find"}
           /\ pc'[r] = "lock" => \/ pc[r] = "lock" /\ mine'[r] = mine[r]
                                 \/ FindLock(r)
<1> USE DEF TypeInv, TypeOK, Goto, requestVars
<1>1. CASE UNCHANGED vars
  BY <1>1 DEF vars, WriteLock
<1>2. ASSUME NEW q \in Requests, CreateBooking(q), q # r
      PROVE  pc[r] = pc'[r] /\ mine'[r] = mine[r]
  BY <1>2 DEF CreateBooking, AcquireLease, Validate, Purge, FindLock, WriteLock,
     CheckBookings, InsertBooking, UndoLock, LinkLock, ReleaseCashLock, EnqueueExpiry,
     ReleaseLease
<1>3. ASSUME CreateBooking(r)
      PROVE  \/ pc'[r] # "lock" /\ pc[r] \in {"start", "validate", "purge", "find"}
             \/ FindLock(r) /\ pc[r] = "find"
  BY <1>3 DEF CreateBooking, AcquireLease, Validate, Purge, FindLock, WriteLock,
     CheckBookings, InsertBooking, UndoLock, LinkLock, ReleaseCashLock, EnqueueExpiry,
     ReleaseLease
<1>4. ASSUME NEW b \in Requests, Crash(b)
      PROVE  pc[r] = pc'[r] /\ mine'[r] = mine[r]
  BY <1>4 DEF Crash
<1>5. ASSUME NEW b \in Requests,
             HandleBookingExpiration(b) \/ ExpiryFails(b) \/ RowExpires(b)
                \/ CancelBooking(b) \/ RejectBooking(b)
      PROVE  pc[r] = pc'[r] /\ mine'[r] = mine[r]
  BY <1>5 DEF HandleBookingExpiration, ExpiryReads, ExpiryCancels, ExpiryReleases,
              ExpiryFails, RowExpires, CancelBooking, RejectBooking
<1>6. ASSUME NEW s \in Slots, LeaseLapses(s) PROVE pc[r] = pc'[r] /\ mine'[r] = mine[r]
  BY <1>6 DEF LeaseLapses
<1>7. ~WriteLock(r)
  BY DEF WriteLock
<1> QED BY <1>1, <1>2, <1>3, <1>4, <1>5, <1>6, <1>7 DEF Next

LEMMA RowStep ==
    ASSUME RowInv, Orderly, [Next]_vars
    PROVE  RowInv'
<1> USE DEF RowInv
<1>1. TypeInv' /\ HolderHasLease'
  BY TypeStep, LeaseStep
<1>2. ask' = ask
  BY AskConstant
<1>3. ASSUME NEW r \in Requests, pc'[r] \in {"start", "validate", "purge", "find"}
      PROVE  row'[r] = "absent"
  <2>1. row[r] = "absent" /\ ~WriteLock(r)
    BY <1>3, EarlySteps DEF FoundNoRow
  <2> QED BY <2>1, RowOnlyByWrite
<1>4. ASSUME NEW r \in Requests, pc'[r] = "lock"
      PROVE  /\ mine'[r] \in Requests /\ SameSlot(mine'[r], r)
             /\ mine'[r] = r => \A l \in Requests : SameSlot(l, r) => row'[l] = "absent"
  <2>1. CASE pc[r] = "lock" /\ mine'[r] = mine[r]
    <3>1. mine'[r] \in Requests /\ SameSlot(mine'[r], r)
      BY <2>1 DEF FoundNoRow
    <3>2. ASSUME mine'[r] = r, NEW l \in Requests, SameSlot(l, r), row'[l] # "absent"
          PROVE  FALSE
      <4>1. row[l] = "absent"
        BY <2>1, <3>2 DEF FoundNoRow
      <4>2. WriteLock(l) /\ pc[l] = "lock"
        BY <3>2, <4>1, RowOnlyByWrite
      <4>3. l = r
        BY <2>1, <3>2, <4>2, HolderIsUnique DEF Holding, Steps
      <4> QED BY <1>4, <4>2, <4>3, EarlySteps
    <3> QED BY <3>1, <3>2
  <2>2. CASE FindLock(r)
    <3>1. pc[r] = "find" /\ row' = row
      BY <2>2 DEF FindLock, lockVars
    <3>2. CASE /\ \A l \in Requests : row[l] # "absent" => ~Overlaps(slotOf(l), slotOf(r))
               /\ mine' = [mine EXCEPT ![r] = r]
      <4>1. mine'[r] = r
        BY <3>2 DEF TypeInv, TypeOK
      <4>2. \A l \in Requests : SameSlot(l, r) => row[l] = "absent"
        BY <3>2, SlotConflictsWithItself
      <4> QED BY <3>1, <4>1, <4>2 DEF SameSlot
    <3>3. ASSUME NEW l \in Requests, row[l] # "absent", SameSlot(l, r),
                 mine' = [mine EXCEPT ![r] = l]
          PROVE  mine'[r] \in Requests /\ SameSlot(mine'[r], r) /\ mine'[r] # r
      <4>1. mine'[r] = l
        BY <3>3 DEF TypeInv, TypeOK
      <4>2. l # r
        BY <3>1, <3>3 DEF FoundNoRow
      <4> QED BY <3>3, <4>1, <4>2
    <3>4. \/ /\ \A l \in Requests : row[l] # "absent" => ~Overlaps(slotOf(l), slotOf(r))
             /\ mine' = [mine EXCEPT ![r] = r]
          \/ \E l \in Requests : /\ row[l] # "absent" /\ SameSlot(l, r)
                                 /\ mine' = [mine EXCEPT ![r] = l]
          \/ pc' = [pc EXCEPT ![r] = "release"]
      BY <2>2 DEF FindLock, Goto
    <3>5. pc' # [pc EXCEPT ![r] = "release"]
      BY <1>4 DEF TypeInv, TypeOK
    <3> QED BY <3>2, <3>3, <3>4, <3>5
  <2> QED BY <1>4, <2>1, <2>2, EarlySteps
<1>5. FoundNoRow'
  BY <1>2, <1>3, <1>4 DEF FoundNoRow, SameSlot, slotOf
<1>6. OneRowPerSlot'
  <2> SUFFICES ASSUME NEW l \in Requests, NEW m \in Requests, row'[l] # "absent",
                      row'[m] # "absent", SameSlot(l, m)
               PROVE  l = m
    BY <1>2 DEF OneRowPerSlot, SameSlot, slotOf
  <2>1. SameSlot(m, l)
    BY DEF SameSlot
  <2>2. CASE row[l] # "absent" /\ row[m] # "absent"
    BY <2>2 DEF OneRowPerSlot
  <2>3. CASE row[l] = "absent" /\ row[m] # "absent"
    BY <2>1, <2>3, RowOnlyByWrite DEF FoundNoRow
  <2>4. CASE row[l] # "absent" /\ row[m] = "absent"
    BY <2>4, RowOnlyByWrite DEF FoundNoRow
  <2>5. CASE row[l] = "absent" /\ row[m] = "absent"
    <3>1. pc[l] = "lock" /\ pc[m] = "lock"
      BY <2>5, RowOnlyByWrite
    <3> QED BY <3>1, HolderIsUnique DEF Holding, Steps
  <2> QED BY <2>2, <2>3, <2>4, <2>5
<1> QED BY <1>1, <1>5, <1>6

\* slot_locks never holds two rows for one slot, though the table does not
\* forbid it: the lease serializes purge, find and create of the same slot.
THEOREM OneRowForASlot ==
    ASSUME Orderly
    PROVE  Spec => []OneRowPerSlot
<1>1. Init => RowInv
  BY TypeInit, LeaseInit DEF Init, RowInv, FoundNoRow, OneRowPerSlot
<1>2. RowInv /\ [Next]_vars => RowInv'
  BY RowStep
<1>3. RowInv => OneRowPerSlot
  BY DEF RowInv
<1> QED BY <1>1, <1>2, <1>3, PTL DEF Spec

----------------------------------------------------------------------------
(* The protocol implements ExclusiveSlots. *)

\* A step changes the status of one booking at most: it makes it or ends it.
LEMMA StatusStep ==
    ASSUME TypeInv, [Next]_vars
    PROVE  \/ status' = status
           \/ \E b \in Requests, s \in Live :
                 InsertBooking(b) /\ status[b] = "NONE" /\ status' = [status EXCEPT ![b] = s]
           \/ \E b \in Requests, s \in {"CANCELLED", "REJECTED"} :
                 status[b] # "NONE" /\ status' = [status EXCEPT ![b] = s]
<1> USE DEF TypeInv, TypeOK, BookingStages, requestVars, lockVars, jobVars
<1>1. CASE UNCHANGED vars
  BY <1>1 DEF vars
<1>2. ASSUME NEW r \in Requests, CreateBooking(r), ~InsertBooking(r) PROVE status' = status
  BY <1>2 DEF CreateBooking, AcquireLease, Validate, Purge, FindLock, WriteLock,
     CheckBookings, UndoLock, LinkLock, ReleaseCashLock, EnqueueExpiry, ReleaseLease
<1>3. ASSUME NEW r \in Requests, InsertBooking(r)
      PROVE  \/ status' = status
             \/ \E s \in Live : status[r] = "NONE" /\ status' = [status EXCEPT ![r] = s]
  BY <1>3 DEF InsertBooking, Live
<1>4. ASSUME NEW b \in Requests, HandleBookingExpiration(b) \/ ExpiryFails(b)
      PROVE  \/ status' = status
             \/ status[b] # "NONE" /\ status' = [status EXCEPT ![b] = "CANCELLED"]
  BY <1>4 DEF HandleBookingExpiration, ExpiryReads, ExpiryCancels, ExpiryReleases, ExpiryFails
<1>5. ASSUME NEW b \in Requests, CancelBooking(b) \/ RejectBooking(b)
      PROVE  \E s \in {"CANCELLED", "REJECTED"} :
                 status[b] # "NONE" /\ status' = [status EXCEPT ![b] = s]
  BY <1>5 DEF CancelBooking, RejectBooking, IsLive, Live
<1>6. ASSUME NEW b \in Requests, Crash(b) \/ RowExpires(b) PROVE status' = status
  BY <1>6 DEF Crash, RowExpires
<1>7. ASSUME NEW s \in Slots, LeaseLapses(s) PROVE status' = status
  BY <1>7 DEF LeaseLapses
<1> QED BY <1>1, <1>2, <1>3, <1>4, <1>5, <1>6, <1>7 DEF Next

Wants == [r \in Requests |-> slotOf(r)]
Hold == [r \in Requests |-> IF status[r] = "NONE" THEN "free"
                            ELSE IF IsLive(r) THEN "held" ELSE "over"]

LEMMA AbstractStep ==
    ASSUME BookingInv, Orderly, [Next]_vars
    PROVE  [Abstract!Next]_<<Wants, Hold>>
<1> USE DEF BookingInv
<1>1. Wants' = Wants
  BY AskConstant DEF Wants, slotOf
<1>2. CASE status' = status
  BY <1>1, <1>2 DEF Hold, IsLive
<1>3. ASSUME NEW b \in Requests, NEW s \in Live, InsertBooking(b), status[b] = "NONE",
             status' = [status EXCEPT ![b] = s]
      PROVE  Abstract!Take(b)
  <2>1. Hold[b] = "free"
    BY <1>3 DEF Hold
  <2>2. \A c \in Requests : Wants[c] = Wants[b] => Hold[c] # "held"
    BY <1>3 DEF InsertBooking, CheckedSlotIsFree, SameSlot, Wants, Hold
  <2>3. Hold' = [Hold EXCEPT ![b] = "held"]
    <3>1. status'[b] = s /\ \A c \in Requests : c # b => status'[c] = status[c]
      BY <1>3 DEF TypeInv, TypeOK
    <3> QED BY <1>3, <3>1 DEF Hold, IsLive, Live
  <2> QED BY <1>1, <2>1, <2>2, <2>3 DEF Abstract!Take, Wants, Hold
<1>4. ASSUME NEW b \in Requests, NEW s \in {"CANCELLED", "REJECTED"}, status[b] # "NONE",
             status' = [status EXCEPT ![b] = s]
      PROVE  Abstract!GiveUp(b) \/ UNCHANGED <<Wants, Hold>>
  <2>1. status'[b] = s /\ \A c \in Requests : c # b => status'[c] = status[c]
    BY <1>4 DEF TypeInv, TypeOK
  <2>2. CASE IsLive(b)
    <3>1. Hold[b] = "held" /\ Hold' = [Hold EXCEPT ![b] = "over"]
      BY <1>4, <2>1, <2>2 DEF Hold, IsLive, Live
    <3> QED BY <1>1, <3>1 DEF Abstract!GiveUp, Wants, Hold
  <2>3. CASE ~IsLive(b)
    <3>1. Hold' = Hold
      BY <1>4, <2>1, <2>3 DEF Hold, IsLive, Live
    <3> QED BY <1>1, <3>1
  <2> QED BY <2>2, <2>3
<1> QED BY <1>2, <1>3, <1>4, StatusStep DEF Abstract!Next

\* Every behaviour of the protocol is one of the abstract promise: a booking takes
\* its slot while no booking holds it and gives it up at most once.
THEOREM Implementation ==
    ASSUME Orderly
    PROVE  Spec => ImplementsExclusiveSlots
<1>1. Init => BookingInv
  BY TypeInit, LeaseInit
     DEF Init, BookingInv, CheckedSlotIsFree, NoExactDoubleBooking, IsLive, Live
<1>2. BookingInv /\ [Next]_vars => BookingInv'
  BY BookingStep
<1>3. Init => Abstract!Init
  BY DEF Init, Abstract!Init, slotOf, IsLive, Live
<1>4. BookingInv /\ [Next]_vars => [Abstract!Next]_<<Wants, Hold>>
  BY AbstractStep
<1> QED BY <1>1, <1>2, <1>3, <1>4, PTL DEF Spec, ImplementsExclusiveSlots, Abstract!Spec, Wants, Hold

----------------------------------------------------------------------------
\* The key of a slot leaves a request's hands only through that request's own
\* release or through the end of its time to live, even for requests that outlive
\* their lease: the release script compares tokens.
THEOREM LeaseIsNotStolen == Spec => LeaseNotStolen
<1>1. TypeInv /\ [Next]_vars =>
        [\A s \in Slots : lease[s] # None /\ lease'[s] # lease[s] =>
            \/ pc[lease[s]] = "release" /\ pc'[lease[s]] = "done"
            \/ UNCHANGED pc]_vars
  <2> SUFFICES ASSUME TypeInv, [Next]_vars, NEW s \in Slots, lease[s] # None,
                      lease'[s] # lease[s]
               PROVE  \/ pc[lease[s]] = "release" /\ pc'[lease[s]] = "done"
                      \/ UNCHANGED pc
    OBVIOUS
  <2> USE DEF TypeInv, TypeOK, Goto, requestVars
  <2>1. ASSUME NEW r \in Requests, AcquireLease(r) PROVE FALSE
    BY <2>1 DEF AcquireLease
  <2>2. ASSUME NEW r \in Requests, ReleaseLease(r)
        PROVE  pc[lease[s]] = "release" /\ pc'[lease[s]] = "done"
    BY <2>2 DEF ReleaseLease
  <2>3. ASSUME NEW t \in Slots, LeaseLapses(t) PROVE UNCHANGED pc
    BY <2>3 DEF LeaseLapses
  <2> QED BY <2>1, <2>2, <2>3, LeaseUntouched
<1> QED BY <1>1, TypeInvariant, PTL DEF Spec, LeaseNotStolen

=============================================================================

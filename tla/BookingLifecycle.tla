-------------------------- MODULE BookingLifecycle --------------------------
(****************************************************************************)
(* One booking row after another on one slot of one turf, from creation to  *)
(* its end, with everything that writes it: the customer's payment calls,   *)
(* Razorpay's webhooks, the payment-retry and booking-expiry workers, the   *)
(* owner's approval, rejection and check-in, the customer's cancellation    *)
(* and the two crons.  A handler that reads the row, awaits and writes it   *)
(* back is two steps; a row-locked transaction is one.                      *)
(*                                                                          *)
(* How createBooking arbitrates a slot is SlotReservation's subject: here it*)
(* takes the slot in one step, as ExclusiveSlots promises.  Amounts are     *)
(* left out: a refund is due or it is not.                                  *)
(****************************************************************************)
EXTENDS Integers

CONSTANTS Bookings,
          PayTypes,       \* payment types in use, a subset of PaymentTypes
          Manual,         \* turf.bookingApprovalType = MANUAL
          Overnight,      \* the slot ends on the day after the booking date
          Handlers,       \* the operations that run, a subset of AllHandlers
          RetryAttempts,  \* attempts of a payment-retry job: 5 in the code
          MayCrash,       \* the server process may die
          LastMark        \* bound: the mark at which the clock stops

PaymentTypes == {"FULL_ONLINE", "HALF_ONLINE_HALF_CASH", "FULL_CASH"}
Hooks == {"payment.captured", "order.paid"}
Refunders == {"cancel", "reject"}
CheckIns == {"qr", "manual"}
AllHandlers == Hooks \cup Refunders \cup CheckIns \cup
    {"order", "confirm", "reconcile", "fail", "expire", "approve", "autocomplete", "noshow"}

ASSUME LifecycleAssumption ==
    /\ PayTypes \subseteq PaymentTypes /\ Handlers \subseteq AllHandlers
    /\ Manual \in BOOLEAN /\ Overnight \in BOOLEAN /\ MayCrash \in BOOLEAN
    /\ RetryAttempts \in Nat \ {0} /\ LastMark \in 0 .. 4

VARIABLES
    row,       \* bookings: the row of each booking
    locked,    \* slot_locks: does the booking's row still hold the slot
    keys,      \* Redis: idempotency keys set for the booking
    at,        \* the step each handler of each booking is about to take
    retry,     \* attempts left of the booking's payment-retry job, 0 if none
    captured,  \* Razorpay: was the booking's order paid
    refund,    \* Razorpay: the refund each refunding handler asked for
    awards,    \* times the booking was rewarded as a completed game, up to 2
    revived,   \* has the booking come back to life after it had ended
    clock      \* how far the time of the slot has come

vars == <<row, locked, keys, at, retry, captured, refund, awards, revived, clock>>

Live == {"PENDING", "PENDING_APPROVAL", "CONFIRMED"}
Over == {"CANCELLED", "REJECTED", "COMPLETED", "NO_SHOW"}

Row == [status : {"NONE"} \cup Live \cup Over,
        type : PaymentTypes,
        pay : {"PENDING", "SUCCESS", "FAILED", "REFUNDED"},
        refund : {"NONE", "INITIATED", "PROCESSED", "FAILED"},
        order : BOOLEAN,     \* razorpayOrderId is set
        paid : BOOLEAN]      \* razorpayPaymentId is set

Steps == {"idle", "write", "deny", "create", "release", "call",
          "processed", "pending", "failed"}

TypeOK ==
    /\ row \in [Bookings -> Row]
    /\ locked \in [Bookings -> BOOLEAN]
    /\ keys \in [Bookings -> SUBSET {"order", "confirm"}]
    /\ at \in [Bookings -> [Handlers -> Steps]]
    /\ retry \in [Bookings -> 0 .. RetryAttempts]
    /\ captured \in [Bookings -> BOOLEAN]
    /\ refund \in [Bookings -> [Refunders -> {"none", "pending", "processed", "failed"}]]
    /\ awards \in [Bookings -> 0 .. 2]
    /\ revived \in [Bookings -> BOOLEAN]
    /\ clock \in 0 .. 4

\* The marks of the clock: 0 earlier, 1 the ten minutes before the slot, 2 the
\* slot, 3 the ten minutes after it, 4 from twenty minutes after it on.
CancelOpen == clock <= 1
CheckInOpen == clock \in 1 .. 3
SlotEnded == clock >= 3
NoShowDue == clock = 4

Init ==
    /\ \E type \in [Bookings -> PayTypes] :
          row = [b \in Bookings |-> [status |-> "NONE", type |-> type[b], pay |-> "PENDING",
                                     refund |-> "NONE", order |-> FALSE, paid |-> FALSE]]
    /\ locked = [b \in Bookings |-> FALSE]
    /\ keys = [b \in Bookings |-> {}]
    /\ at = [b \in Bookings |-> [h \in Handlers |-> "idle"]]
    /\ retry = [b \in Bookings |-> 0]
    /\ captured = [b \in Bookings |-> FALSE]
    /\ refund = [b \in Bookings |-> [h \in Refunders |-> "none"]]
    /\ awards = [b \in Bookings |-> 0]
    /\ revived = [b \in Bookings |-> FALSE]
    /\ clock = 0

----------------------------------------------------------------------------
At(b, h, step) == h \in Handlers /\ at[b][h] = step
Goto(b, h, step) == at' = [at EXCEPT ![b][h] = step]
Status(b) == row[b].status

\* bookings.update by id
Update(b, new) ==
    /\ row' = [row EXCEPT ![b] = new]
    /\ revived' = [revived EXCEPT ![b] = @ \/ (Status(b) \in Over /\ new.status \in Live)]

\* releaseSlotLockForBooking deletes by booking and by exact slot: every row of
\* this slot goes.
ReleaseSlotLocks == locked' = [b \in Bookings |-> FALSE]

noRow == <<row, revived>>
noGateway == <<captured, refund>>
noRest == <<awards, clock>>

\* The await after the update: the handler is over when the rows are deleted.
ReleaseSlotLock(b, h) ==
    /\ At(b, h, "release")
    /\ ReleaseSlotLocks
    /\ Goto(b, h, "idle")
    /\ retry' = IF h = "reconcile" THEN [retry EXCEPT ![b] = 0] ELSE retry
    /\ UNCHANGED <<noRow, keys, noGateway, noRest>>

\* createBooking on a slot nobody holds, for a customer of its own.
CreateBooking(b) ==
    LET cash == row[b].type = "FULL_CASH"
    IN  /\ Status(b) = "NONE" /\ clock = 0
        /\ \A c \in Bookings : Status(c) \notin Live /\ ~locked[c]
        /\ Update(b, [row[b] EXCEPT !.status = IF ~cash THEN "PENDING"
                                               ELSE IF Manual THEN "PENDING_APPROVAL"
                                               ELSE "CONFIRMED"])
        /\ locked' = [locked EXCEPT ![b] = ~cash]
        /\ UNCHANGED <<keys, at, retry, noGateway, noRest>>

SlotLockExpires(b) ==
    /\ locked[b]
    /\ locked' = [locked EXCEPT ![b] = FALSE]
    /\ UNCHANGED <<noRow, keys, at, retry, noGateway, noRest>>

KeyExpires(b, key) ==
    /\ key \in keys[b]
    /\ keys' = [keys EXCEPT ![b] = @ \ {key}]
    /\ UNCHANGED <<noRow, locked, at, retry, noGateway, noRest>>

----------------------------------------------------------------------------
(* createRazorpayOrder.  Its early return of an order that exists changes   *)
(* nothing.  The idempotency key is never cleared, not even on failure.     *)

OrderRead(b) ==
    /\ At(b, "order", "idle")
    /\ Status(b) = "PENDING" /\ ~row[b].order
    /\ "order" \notin keys[b]
    /\ keys' = [keys EXCEPT ![b] = @ \cup {"order"}]
    /\ Goto(b, "order", "create")
    /\ UNCHANGED <<noRow, locked, retry, noGateway, noRest>>

OrderCreate(b) ==
    /\ At(b, "order", "create")
    /\ \/ Goto(b, "order", "write")
       \/ Goto(b, "order", "idle")     \* the gateway is away: 503
    /\ UNCHANGED <<noRow, locked, keys, retry, noGateway, noRest>>

OrderWrite(b) ==
    /\ At(b, "order", "write")
    /\ Update(b, [row[b] EXCEPT !.order = TRUE])
    /\ Goto(b, "order", "idle")
    /\ UNCHANGED <<locked, keys, retry, noGateway, noRest>>

\* External: the customer pays the order at Razorpay, whatever became of the
\* booking since the order was returned.
Capture(b) ==
    /\ row[b].order /\ ~captured[b]
    /\ captured' = [captured EXCEPT ![b] = TRUE]
    /\ UNCHANGED <<noRow, locked, keys, at, retry, refund, noRest>>

----------------------------------------------------------------------------
(* confirmOnlinePayment: the read with its checks, then the fetch of the    *)
(* order from Razorpay, then the write.                                     *)

ConfirmRead(b) ==
    LET s == Status(b)
    IN  /\ At(b, "confirm", "idle")
        /\ s # "NONE" /\ "confirm" \notin keys[b]
        /\ keys' = [keys EXCEPT ![b] = @ \cup {"confirm"}]
        /\ \/ s \in {"CONFIRMED", "COMPLETED"} /\ Goto(b, "confirm", "release")
           \/ s \notin {"CONFIRMED", "COMPLETED"} /\ UNCHANGED at    \* it threw
           \/ s = "PENDING" /\ ~row[b].paid /\ captured[b] /\ Goto(b, "confirm", "write")
           \/ s = "PENDING" /\ ~row[b].paid /\ Goto(b, "confirm", "deny")
        /\ UNCHANGED <<noRow, locked, retry, noGateway, noRest>>

PaidStatus(b) == IF row[b].type = "FULL_ONLINE" THEN "SUCCESS" ELSE "PENDING"

Paid(b, status) == [row[b] EXCEPT !.status = status, !.pay = PaidStatus(b),
                                  !.order = TRUE, !.paid = TRUE]

ConfirmWrite(b) ==
    /\ At(b, "confirm", "write")
    /\ Update(b, Paid(b, "CONFIRMED"))
    /\ Goto(b, "confirm", "release")
    /\ UNCHANGED <<locked, keys, retry, noGateway, noRest>>

\* A signature that does not verify ends the booking; its slot lock stays.
ConfirmDeny(b) ==
    /\ At(b, "confirm", "deny")
    /\ Update(b, [row[b] EXCEPT !.status = "CANCELLED", !.pay = "FAILED"])
    /\ Goto(b, "confirm", "idle")
    /\ UNCHANGED <<locked, keys, retry, noGateway, noRest>>

----------------------------------------------------------------------------
(* handleRazorpayWebhook.  Razorpay delivers each event at least once, in   *)
(* any order.                                                               *)

EnqueueRetry(b) == retry' = [retry EXCEPT ![b] = RetryAttempts]

\* payment.captured and order.paid: whatever is thrown queues a payment-retry.
HookRead(b, h) ==
    LET s == Status(b)
    IN  /\ h \in Hooks /\ At(b, h, "idle") /\ captured[b]
        /\ \/ /\ s \in {"CONFIRMED", "COMPLETED"}
              /\ Update(b, [row[b] EXCEPT !.paid = TRUE])
              /\ Goto(b, h, "release")
              /\ UNCHANGED retry
           \/ /\ s = "PENDING" /\ ~row[b].paid
              /\ Goto(b, h, "write")
              /\ UNCHANGED <<noRow, retry>>
           \/ /\ EnqueueRetry(b)    \* paid, not PENDING, or the database threw
              /\ UNCHANGED <<noRow, at>>
        /\ UNCHANGED <<locked, keys, noGateway, noRest>>

HookWrite(b, h) ==
    /\ h \in Hooks /\ At(b, h, "write")
    /\ \/ /\ Update(b, Paid(b, IF Manual THEN "PENDING_APPROVAL" ELSE "CONFIRMED"))
          /\ Goto(b, h, "release")
          /\ UNCHANGED retry
       \/ /\ EnqueueRetry(b)
          /\ Goto(b, h, "idle")
          /\ UNCHANGED noRow
    /\ UNCHANGED <<locked, keys, noGateway, noRest>>

RefundEvent(b, a, event) ==
    CASE event = "created"   -> refund[b][a] # "none"
      [] event = "processed" -> refund[b][a] = "processed"
      [] event = "failed"    -> refund[b][a] = "failed"

RefundHook(b, a, event) ==
    /\ RefundEvent(b, a, event)
    /\ Update(b,
         CASE event = "created"   -> [row[b] EXCEPT !.refund = "INITIATED"]
           [] event = "processed" -> [row[b] EXCEPT !.pay = "REFUNDED", !.refund = "PROCESSED"]
           [] event = "failed"    -> [row[b] EXCEPT
                 !.pay = IF row[b].type = "HALF_ONLINE_HALF_CASH" THEN "PENDING" ELSE "SUCCESS",
                 !.refund = "FAILED"])
    /\ UNCHANGED <<locked, keys, at, retry, noGateway, noRest>>

----------------------------------------------------------------------------
(* reconcilePayment, run by the payment-retry worker one job at a time.     *)

ReconcileRead(b) ==
    /\ At(b, "reconcile", "idle") /\ retry[b] > 0
    /\ IF Status(b) \in {"CONFIRMED", "COMPLETED"}
       THEN retry' = [retry EXCEPT ![b] = 0] /\ UNCHANGED at
       ELSE captured[b] /\ Goto(b, "reconcile", "write") /\ UNCHANGED retry
    /\ UNCHANGED <<noRow, locked, keys, noGateway, noRest>>

ReconcileWrite(b) ==
    /\ At(b, "reconcile", "write")
    /\ Update(b, [Paid(b, "CONFIRMED") EXCEPT !.order = row[b].order])
    /\ Goto(b, "reconcile", "release")
    /\ UNCHANGED <<locked, keys, retry, noGateway, noRest>>

\* Mutant: the attempts are not counted down to an end.
ReconcileFailsUncounted(b) ==
    /\ "reconcile" \in Handlers
    /\ retry' = [retry EXCEPT ![b] = @ - 1]
    /\ Goto(b, "reconcile", "idle")
    /\ UNCHANGED <<noRow, locked, keys, noGateway, noRest>>

\* Razorpay or the database is away, or the worker dies.
ReconcileFails(b) ==
    /\ "reconcile" \in Handlers /\ retry[b] > 0
    /\ retry' = [retry EXCEPT ![b] = @ - 1]
    /\ Goto(b, "reconcile", "idle")
    /\ UNCHANGED <<noRow, locked, keys, noGateway, noRest>>

----------------------------------------------------------------------------
(* failOnlinePayment, called by the customer, and handleBookingExpiration,  *)
(* run by the booking-expiry worker.                                        *)

GiveUpRead(b, h) ==
    /\ h \in {"fail", "expire"} /\ At(b, h, "idle")
    /\ Status(b) = "PENDING"
    /\ Goto(b, h, "write")
    /\ UNCHANGED <<noRow, locked, keys, retry, noGateway, noRest>>

\* Mutant: the booking is cancelled and its slot lock is left to expire.
GiveUpKeepsLock(b, h) ==
    /\ h \in {"fail", "expire"} /\ At(b, h, "write")
    /\ Update(b, [row[b] EXCEPT !.status = "CANCELLED", !.pay = "FAILED",
                                !.paid = IF h = "fail" THEN FALSE ELSE @])
    /\ Goto(b, h, "idle")
    /\ UNCHANGED <<locked, keys, retry, noGateway, noRest>>

GiveUpWrite(b, h) ==
    /\ h \in {"fail", "expire"} /\ At(b, h, "write")
    /\ Update(b, [row[b] EXCEPT !.status = "CANCELLED", !.pay = "FAILED",
                                !.paid = IF h = "fail" THEN FALSE ELSE @])
    /\ Goto(b, h, "release")
    /\ UNCHANGED <<locked, keys, retry, noGateway, noRest>>

----------------------------------------------------------------------------
(* cancelBooking and rejectBooking: a row-locked transaction, then the      *)
(* refund call outside it, then a write of what the call returned.          *)

\* Mutant: a deposit, whose payment status is PENDING, does not count as paid.
PaidInFull(b) == row[b].paid /\ row[b].pay = "SUCCESS"

PaidOnline(b) ==
    /\ row[b].paid
    /\ \/ row[b].pay = "SUCCESS"
       \/ row[b].type = "HALF_ONLINE_HALF_CASH" /\ row[b].pay = "PENDING"

\* Mutant: the refund is promised and never asked for.
EndBookingNoCall(b, h, status, due) ==
    /\ At(b, h, "idle")
    /\ Update(b, [row[b] EXCEPT !.status = status,
                                !.pay = IF @ = "PENDING" THEN "FAILED" ELSE @,
                                !.refund = IF due THEN "INITIATED" ELSE "NONE"])
    /\ ReleaseSlotLocks
    /\ Goto(b, h, "idle")
    /\ UNCHANGED <<keys, retry, noGateway, noRest>>

\* due: does the refund matrix leave anything to pay back.
EndBooking(b, h, status, due) ==
    /\ At(b, h, "idle")
    /\ Update(b, [row[b] EXCEPT !.status = status,
                                !.pay = IF @ = "PENDING" THEN "FAILED" ELSE @,
                                !.refund = IF due THEN "INITIATED" ELSE "NONE"])
    /\ ReleaseSlotLocks
    /\ Goto(b, h, IF due THEN "call" ELSE "idle")
    /\ UNCHANGED <<keys, retry, noGateway, noRest>>

\* Mutant: the status is looked at before the row is locked, not after.
CancelEndedBooking(b) ==
    /\ Status(b) # "NONE" /\ CancelOpen
    /\ EndBooking(b, "cancel", "CANCELLED", PaidOnline(b))

\* Everything back before the approval, by the hours left before the slot after.
CancelBooking(b) ==
    /\ Status(b) \in Live /\ CancelOpen
    /\ \E due \in BOOLEAN :
          /\ due => PaidOnline(b)
          /\ Status(b) = "PENDING_APPROVAL" /\ PaidOnline(b) => due
          /\ EndBooking(b, "cancel", "CANCELLED", due)

\* Mutant: the row lock is there, the look at the status is not.
RejectEndedBooking(b) ==
    /\ Status(b) \in {"PENDING_APPROVAL", "CANCELLED"}
    /\ EndBooking(b, "reject", "REJECTED", row[b].paid)

RejectBooking(b) ==
    /\ Status(b) = "PENDING_APPROVAL"
    /\ EndBooking(b, "reject", "REJECTED", PaidOnline(b))

\* Razorpay takes the refund and answers, or the answer is lost, or it refuses.
RefundCall(b, h) ==
    /\ h \in Refunders /\ At(b, h, "call")
    /\ \/ \E reply \in {"processed", "pending"} :
             /\ refund' = [refund EXCEPT ![b][h] = reply]
             /\ Goto(b, h, reply) \/ Goto(b, h, "failed")
       \/ Goto(b, h, "failed") /\ UNCHANGED refund
    /\ UNCHANGED <<noRow, locked, keys, retry, captured, noRest>>

\* Mutant: any reply that is not an error counts as processed.
RefundWriteProcessed(b, h) ==
    /\ h \in Refunders
    /\ \/ /\ At(b, h, "processed") \/ At(b, h, "pending")
          /\ Update(b, [row[b] EXCEPT !.pay = "REFUNDED", !.refund = "PROCESSED"])
       \/ /\ At(b, h, "failed")
          /\ Update(b, [row[b] EXCEPT !.refund = "FAILED"])
    /\ Goto(b, h, "idle")
    /\ UNCHANGED <<locked, keys, retry, noGateway, noRest>>

RefundWrite(b, h) ==
    /\ h \in Refunders
    /\ \/ /\ At(b, h, "processed")
          /\ Update(b, [row[b] EXCEPT !.pay = "REFUNDED", !.refund = "PROCESSED"])
       \/ /\ At(b, h, "pending")
          /\ Update(b, [row[b] EXCEPT !.pay = "REFUNDED", !.refund = "INITIATED"])
       \/ /\ At(b, h, "failed")
          /\ Update(b, [row[b] EXCEPT !.refund = "FAILED"])
    /\ Goto(b, h, "idle")
    /\ UNCHANGED <<locked, keys, retry, noGateway, noRest>>

\* External: Razorpay settles a refund that was pending.
RefundSettles(b, h) ==
    /\ refund[b][h] = "pending"
    /\ \E end \in {"processed", "failed"} : refund' = [refund EXCEPT ![b][h] = end]
    /\ UNCHANGED <<noRow, locked, keys, at, retry, captured, noRest>>

----------------------------------------------------------------------------
(* approveBooking *)

\* Mutant: the owner approves whatever is still live.
ApproveAnyLive(b) ==
    /\ At(b, "approve", "idle")
    /\ Status(b) \in Live
    /\ Goto(b, "approve", "write")
    /\ UNCHANGED <<noRow, locked, keys, retry, noGateway, noRest>>

ApproveRead(b) ==
    /\ At(b, "approve", "idle")
    /\ Status(b) = "PENDING_APPROVAL"
    /\ Goto(b, "approve", "write")
    /\ UNCHANGED <<noRow, locked, keys, retry, noGateway, noRest>>

ApproveWrite(b) ==
    /\ At(b, "approve", "write")
    /\ Update(b, [row[b] EXCEPT !.status = "CONFIRMED"])
    /\ Goto(b, "approve", "idle")
    /\ UNCHANGED <<locked, keys, retry, noGateway, noRest>>

----------------------------------------------------------------------------
(* verifyCheckInQr, manualCheckIn and autoCompleteOnlineBookings: a read,   *)
(* then an updateMany on condition that the booking is CONFIRMED; the count *)
(* of rows it changed decides whether the game is rewarded.                 *)

VisitDue(b, h) ==
    IF h = "autocomplete"
    THEN /\ row[b].type = "FULL_ONLINE" /\ row[b].pay = "SUCCESS"
         /\ SlotEnded \/ Overnight    \* its slot end has no next day
    ELSE CheckInOpen

VisitRead(b, h) ==
    /\ h \in CheckIns \cup {"autocomplete"} /\ At(b, h, "idle")
    /\ Status(b) = "CONFIRMED" /\ VisitDue(b, h)
    /\ Goto(b, h, "write")
    /\ UNCHANGED <<noRow, locked, keys, retry, noGateway, noRest>>

\* Mutant: update by id instead of updateMany on a CONFIRMED booking.
VisitWriteById(b, h) ==
    /\ h \in CheckIns \cup {"autocomplete"} /\ At(b, h, "write")
    /\ Update(b, [row[b] EXCEPT !.status = "COMPLETED"])
    /\ awards' = [awards EXCEPT ![b] = IF @ < 2 THEN @ + 1 ELSE @]
    /\ Goto(b, h, "idle")
    /\ UNCHANGED <<locked, keys, retry, noGateway, clock>>

VisitWrite(b, h) ==
    /\ h \in CheckIns \cup {"autocomplete"} /\ At(b, h, "write")
    /\ IF Status(b) = "CONFIRMED"
       THEN /\ Update(b, [row[b] EXCEPT !.status = "COMPLETED",
                                        !.pay = IF h \in CheckIns THEN "SUCCESS" ELSE @])
            /\ awards' = [awards EXCEPT ![b] = IF @ < 2 THEN @ + 1 ELSE @]
       ELSE UNCHANGED <<noRow, awards>>
    /\ Goto(b, h, "idle")
    /\ UNCHANGED <<locked, keys, retry, noGateway, clock>>

(* markNoShows works through the list it read; the admin's markAsNoShow asks*)
(* for no status at all.                                                    *)

NoShowRead(b) ==
    /\ At(b, "noshow", "idle")
    /\ Status(b) = "CONFIRMED" /\ NoShowDue
    /\ Goto(b, "noshow", "write")
    /\ UNCHANGED <<noRow, locked, keys, retry, noGateway, noRest>>

NoShowWrite(b) ==
    /\ At(b, "noshow", "write")
    /\ Update(b, [row[b] EXCEPT !.status = "NO_SHOW"])
    /\ Goto(b, "noshow", "idle")
    /\ UNCHANGED <<locked, keys, retry, noGateway, noRest>>

AdminNoShow(b) ==
    /\ "noshow" \in Handlers /\ Status(b) # "NONE"
    /\ Update(b, [row[b] EXCEPT !.status = "NO_SHOW"])
    /\ UNCHANGED <<locked, keys, at, retry, noGateway, noRest>>

----------------------------------------------------------------------------
\* The process dies: its handlers are gone, the queues and the database stay.
Crash ==
    /\ MayCrash
    /\ at' = [b \in Bookings |-> [h \in Handlers |-> "idle"]]
    /\ UNCHANGED <<noRow, locked, keys, retry, noGateway, noRest>>

Tick ==
    /\ clock < LastMark /\ clock' = clock + 1
    /\ UNCHANGED <<noRow, locked, keys, at, retry, noGateway, awards>>

Payment(b) ==
    \/ OrderRead(b) \/ OrderCreate(b) \/ OrderWrite(b) \/ Capture(b)
    \/ ConfirmRead(b) \/ ConfirmWrite(b) \/ ConfirmDeny(b)
    \/ \E h \in Hooks : HookRead(b, h) \/ HookWrite(b, h)
    \/ ReconcileRead(b) \/ ReconcileWrite(b) \/ ReconcileFails(b)
    \/ \E h \in {"fail", "expire"} : GiveUpRead(b, h) \/ GiveUpWrite(b, h)

Ending(b) ==
    \/ CancelBooking(b) \/ RejectBooking(b) \/ ApproveRead(b) \/ ApproveWrite(b)
    \/ \E h \in Refunders : RefundCall(b, h) \/ RefundWrite(b, h) \/ RefundSettles(b, h)
    \/ \E h \in Refunders, event \in {"created", "processed", "failed"} : RefundHook(b, h, event)

Visit(b) ==
    \/ \E h \in CheckIns \cup {"autocomplete"} : VisitRead(b, h) \/ VisitWrite(b, h)
    \/ NoShowRead(b) \/ NoShowWrite(b) \/ AdminNoShow(b)

Housekeeping(b) ==
    \/ CreateBooking(b) \/ SlotLockExpires(b)
    \/ \E h \in Handlers : ReleaseSlotLock(b, h)
    \/ \E key \in {"order", "confirm"} : KeyExpires(b, key)

Next ==
    \/ \E b \in Bookings : Housekeeping(b) \/ Payment(b) \/ Ending(b) \/ Visit(b)
    \/ Crash \/ Tick

Spec == Init /\ [][Next]_vars

----------------------------------------------------------------------------
(* Properties that hold *)

\* Money and status are written by different handlers, each on a row it read before:
\* still, an online booking that waits for the owner, is confirmed or was played is one
\* whose order was paid, and until it is revived its row says so: the payment id is
\* there, and the payment status is neither the FAILED of a handler that gave up nor
\* the REFUNDED of one that ended it.
ConfirmedIsPaid ==
    \A b \in Bookings : row[b].type # "FULL_CASH" =>
        /\ Status(b) \in {"PENDING_APPROVAL", "CONFIRMED", "COMPLETED"} => captured[b]
        /\ Status(b) \in {"PENDING_APPROVAL", "CONFIRMED"} =>
              revived[b] \/ (row[b].paid /\ row[b].pay = PaidStatus(b))

\* The customer's cancellation and the owner's rejection race: unless something
\* revives the booking between them, only one of them asks for a refund.
OneRefund ==
    \A b \in Bookings :
        refund[b]["cancel"] # "none" /\ refund[b]["reject"] # "none" => revived[b]

\* QR check-in, manual check-in and auto-complete may all have read CONFIRMED:
\* the game is rewarded once.
RewardedOnce == \A b \in Bookings : awards[b] > 1 => revived[b]

\* Cancellation and check-in both start from CONFIRMED, the one under a row lock, the
\* other on an earlier read: a game is rewarded or its price is asked back, never both.
PlayedOrRefunded ==
    \A b \in Bookings, h \in Refunders :
        awards[b] > 0 /\ refund[b][h] # "none" => revived[b]

\* A booking rejected after its payment was captured owes the money back: for a
\* deposit, too, whose payment status is still PENDING by then.
RejectedPaymentIsOwed ==
    \A b \in Bookings :
        Status(b) = "REJECTED" /\ captured[b] /\ ~revived[b] => row[b].refund # "NONE"

\* Until a booking is revived, and can be refunded anew, PROCESSED in its row means
\* that Razorpay did process the refund, however the replies and the three refund
\* events interleave.
ProcessedRefundIsReal ==
    \A b \in Bookings :
        row[b].refund = "PROCESSED" =>
            revived[b] \/ \E h \in Refunders : refund[b][h] = "processed"

\* A refund the row promises was asked of Razorpay, or the handler that promised it
\* is about to: as long as the process does not die between the two.
PromisedRefundIsRequested ==
    \A b \in Bookings :
        row[b].refund = "INITIATED" =>
            \E h \in Refunders : refund[b][h] # "none" \/ At(b, h, "call") \/ At(b, h, "failed")

\* A booking that expired holds its slot no longer once its handlers are done, also
\* when a payment was read before and is written after.  (After an invalid signature
\* it does: ConfirmDeny.)
EndedBookingHoldsNoSlot ==
    \A b \in Bookings :
        Status(b) = "CANCELLED" /\ (\A h \in Handlers : at[b][h] = "idle") => ~locked[b]

----------------------------------------------------------------------------
(* What the documentation says and the code does not do *)

\* A payment confirms a booking that is still PENDING: it never brings back one
\* that has ended.
EndedBookingStaysEnded ==
    [][\A b \in Bookings : Status(b) \in Over => Status(b)' \notin Live]_vars

\* No booking is completed before its check-in window opens: a slot that runs past
\* midnight is, whose end has no next day.
CompletedNotBeforeCheckIn ==
    \A b \in Bookings : Status(b) = "COMPLETED" => clock >= 1

\* On a turf with manual approval a paid booking waits for the owner: it becomes
\* CONFIRMED only when the owner approves it.
PaidBookingWaitsForOwner ==
    [][\A b \in Bookings :
          Manual /\ Status(b) # "CONFIRMED" /\ Status(b)' = "CONFIRMED" =>
              At(b, "approve", "write")]_vars

\* refundStatus goes NONE, INITIATED, PROCESSED or FAILED: it does not go back.
RefundStatusMovesForward ==
    [][\A b \in Bookings : row[b].refund = "PROCESSED" => row'[b].refund = "PROCESSED"]_vars

\* paymentStatus is REFUNDED only once Razorpay has processed the refund.
RefundedMeansProcessed ==
    \A b \in Bookings :
        row[b].pay = "REFUNDED" => \E h \in Refunders : refund[b][h] = "processed"

\* A failed payment attempt leaves the booking PENDING, to be paid again.
FailedPaymentCanBeRetried ==
    [][\A b \in Bookings :
          At(b, "fail", "write") /\ Status(b) = "PENDING" => Status(b)' # "CANCELLED"]_vars

\* The expiry worker cancels a booking that remained unpaid, never a paid one.
OnlyUnpaidBookingsExpire ==
    [][\A b \in Bookings :
          At(b, "expire", "write") /\ ~At(b, "expire", "write")' => ~row[b].paid]_vars
=============================================================================

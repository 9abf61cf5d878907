------------------------ MODULE BookingOutcomeProofs ------------------------
(****************************************************************************)
(* What a booking holds and owes: its slot lock, its refund and its money.  *)
(* Proofs about BookingLifecycle for any set of bookings and handlers; each *)
(* theorem names what it needs of them.                                     *)
(****************************************************************************)
EXTENDS BookingLifecycleProofs

Visitors == CheckIns \cup {"autocomplete"}
Payers == {"confirm", "reconcile"} \cup Hooks

----------------------------------------------------------------------------
(* What a step writes into the row of a booking.                            *)

SameType(b) == row'[b].type = row[b].type
SameRefund(b) == SameType(b) /\ row'[b].refund = row[b].refund
SameOrder(b) == SameRefund(b) /\ row'[b].order = row[b].order
SamePay(b) == row'[b].pay = row[b].pay /\ row'[b].paid = row[b].paid

\* Created: PENDING unless it is paid in cash.
Creates(b) ==
    /\ Status(b) = "NONE" /\ SameOrder(b) /\ SamePay(b)
    /\ Status(b)' \in Live
    /\ row[b].type = "FULL_CASH" => Status(b)' # "PENDING"
    /\ row[b].type # "FULL_CASH" => Status(b)' = "PENDING"

Orders(b) ==
    /\ At(b, "order", "write")
    /\ Status(b)' = Status(b) /\ SameRefund(b) /\ SamePay(b)

\* A payment, of any handler that writes one.
PaysFor(b) ==
    /\ \E h \in Payers : At(b, h, "write")
    /\ Status(b)' \in {"CONFIRMED", "PENDING_APPROVAL"} /\ SameRefund(b)
    /\ row'[b].pay = PaidStatus(b) /\ row'[b].paid

\* captured or paid, of a booking that was confirmed before.
Notes(b) ==
    /\ Status(b) \in {"CONFIRMED", "COMPLETED"} /\ Status(b)' = Status(b) /\ SameOrder(b)
    /\ row'[b].pay = row[b].pay /\ row'[b].paid

\* The signature is wrong, or the owner approves, or the customer does not come.
Decides(b) ==
    /\ Status(b) # "NONE" /\ SameOrder(b)
    /\ Status(b)' \in {"CANCELLED", "CONFIRMED", "NO_SHOW"}
    /\ Status(b)' = "CANCELLED" => "confirm" \in Handlers
    /\ Status(b)' = "CONFIRMED" => At(b, "approve", "write") /\ SamePay(b)

GivesUp(b) ==
    /\ \E h \in {"fail", "expire"} : At(b, h, "write") /\ Goto(b, h, "release")
    /\ Status(b)' = "CANCELLED" /\ SameOrder(b)

\* Cancelled or rejected, with a refund if it is due.
Ends(b) ==
    /\ Status(b) \in Live /\ Status(b)' \in {"CANCELLED", "REJECTED"}
    /\ SameType(b) /\ row'[b].order = row[b].order
    /\ row'[b].refund = "INITIATED" => \E h \in Refunders : At(b, h, "idle") /\ Goto(b, h, "call")
    /\ Status(b)' = "REJECTED" =>
          /\ Status(b) = "PENDING_APPROVAL"
          /\ PaidOnline(b) => row'[b].refund = "INITIATED"
    /\ ReleaseSlotLocks

\* What Razorpay says of a refund, in an event or in the answer to the call.
Reports(b) ==
    /\ Status(b)' = Status(b) /\ SameType(b) /\ row'[b].order = row[b].order
    /\ row'[b].refund # "NONE"
    /\ \E h \in Refunders :
          \/ refund[b][h] # "none" /\ UNCHANGED at
          \/ \E s \in {"processed", "pending", "failed"} :
                At(b, h, s) /\ (row'[b].refund = "INITIATED" => s = "pending")

Completes(b) ==
    /\ \E h \in Visitors : At(b, h, "write")
    /\ Status(b) = "CONFIRMED" /\ Status(b)' = "COMPLETED" /\ SameOrder(b)

Written(b) ==
    \/ Creates(b) \/ Orders(b) \/ PaysFor(b) \/ Notes(b) \/ Decides(b) \/ GivesUp(b)
    \/ Ends(b) \/ Reports(b) \/ Completes(b)

\* The step writes the row of b and no other.
WritesOnly(b) == Written(b) /\ \A c \in Bookings \ {b} : row'[c] = row[c]

LEMMA UpdateRow ==
    ASSUME TypeOK, NEW b \in Bookings, NEW new, Update(b, new)
    PROVE  row'[b] = new /\ Status(b)' = new.status /\ \A c \in Bookings \ {b} : row'[c] = row[c]
BY DEF TypeOK, Update, Status

LEMMA CreateWrites ==
    ASSUME TypeOK, NEW b \in Bookings, CreateBooking(b) PROVE WritesOnly(b)
<1> DEFINE s == IF ~(row[b].type = "FULL_CASH") THEN "PENDING"
                ELSE IF Manual THEN "PENDING_APPROVAL" ELSE "CONFIRMED"
           new == [row[b] EXCEPT !.status = s]
<1>1. Update(b, new) /\ Status(b) = "NONE"
    BY DEF CreateBooking
<1>2. /\ s \in Live
      /\ row[b].type = "FULL_CASH" => s # "PENDING"
      /\ row[b].type # "FULL_CASH" => s = "PENDING"
    BY DEF Live
<1> HIDE DEF s
<1>3. /\ new.status = s /\ new.type = row[b].type /\ new.pay = row[b].pay
      /\ new.refund = row[b].refund /\ new.order = row[b].order /\ new.paid = row[b].paid
    BY RowIsRow DEF Row
<1> HIDE DEF new
<1>4. row'[b] = new /\ Status(b)' = new.status /\ \A c \in Bookings \ {b} : row'[c] = row[c]
    BY <1>1, UpdateRow
<1>5. Creates(b)
    BY <1>1, <1>2, <1>3, <1>4 DEF Creates, SameOrder, SameRefund, SameType, SamePay
<1> QED BY <1>4, <1>5 DEF WritesOnly, Written

LEMMA OrderWritesRow ==
    ASSUME TypeOK, NEW b \in Bookings, OrderWrite(b) PROVE WritesOnly(b)
<1> DEFINE new == [row[b] EXCEPT !.order = TRUE]
<1>1. Update(b, new) /\ At(b, "order", "write")
    BY DEF OrderWrite
<1>3. /\ new.status = row[b].status /\ new.type = row[b].type /\ new.pay = row[b].pay
      /\ new.refund = row[b].refund /\ new.paid = row[b].paid
    BY RowIsRow DEF Row
<1> HIDE DEF new
<1>4. row'[b] = new /\ Status(b)' = new.status /\ \A c \in Bookings \ {b} : row'[c] = row[c]
    BY <1>1, UpdateRow
<1>5. Orders(b)
    BY <1>1, <1>3, <1>4 DEF Orders, SameRefund, SameType, SamePay, Status
<1> QED BY <1>4, <1>5 DEF WritesOnly, Written

LEMMA PaidFields ==
    ASSUME TypeOK, NEW b \in Bookings, NEW s
    PROVE  /\ Paid(b, s).status = s /\ Paid(b, s).type = row[b].type /\ Paid(b, s).pay = PaidStatus(b)
           /\ Paid(b, s).refund = row[b].refund /\ Paid(b, s).paid = TRUE
           /\ \A o : LET new == [Paid(b, s) EXCEPT !.order = o]
                     IN  /\ new.status = s /\ new.type = row[b].type /\ new.pay = PaidStatus(b)
                         /\ new.refund = row[b].refund /\ new.paid = TRUE
<1> DEFINE p == PaidStatus(b)
<1>1. Paid(b, s) = [row[b] EXCEPT !.status = s, !.pay = p, !.order = TRUE, !.paid = TRUE]
    BY DEF Paid
<1> HIDE DEF p
<1>2. row[b] \in Row
    BY RowIsRow
<1>3. /\ Paid(b, s).status = s /\ Paid(b, s).type = row[b].type /\ Paid(b, s).pay = p
      /\ Paid(b, s).refund = row[b].refund /\ Paid(b, s).paid = TRUE
    BY <1>1, <1>2 DEF Row
<1>4. ASSUME NEW o
      PROVE  LET new == [Paid(b, s) EXCEPT !.order = o]
             IN  /\ new.status = s /\ new.type = row[b].type /\ new.pay = p
                 /\ new.refund = row[b].refund /\ new.paid = TRUE
    BY <1>1, <1>2 DEF Row
<1> QED BY <1>3, <1>4 DEF p

LEMMA PaymentWritesRow ==
    ASSUME TypeOK, NEW b \in Bookings, NEW h \in Payers, At(b, h, "write"),
           NEW s \in {"CONFIRMED", "PENDING_APPROVAL"}, NEW o,
           Update(b, Paid(b, s)) \/ Update(b, [Paid(b, s) EXCEPT !.order = o])
    PROVE  WritesOnly(b)
<1>1. PICK new : /\ Update(b, new)
                 /\ new.status = s /\ new.type = row[b].type /\ new.pay = PaidStatus(b)
                 /\ new.refund = row[b].refund /\ new.paid = TRUE
    BY PaidFields
<1>2. row'[b] = new /\ Status(b)' = new.status /\ \A c \in Bookings \ {b} : row'[c] = row[c]
    BY <1>1, UpdateRow
<1>3. PaysFor(b)
    BY <1>1, <1>2 DEF PaysFor, SameRefund, SameType
<1> QED BY <1>2, <1>3 DEF WritesOnly, Written

LEMMA NoteWritesRow ==
    ASSUME TypeOK, NEW b \in Bookings, Status(b) \in {"CONFIRMED", "COMPLETED"},
           Update(b, [row[b] EXCEPT !.paid = TRUE])
    PROVE  WritesOnly(b)
<1> DEFINE new == [row[b] EXCEPT !.paid = TRUE]
<1>1. /\ new.status = row[b].status /\ new.type = row[b].type
      /\ new.refund = row[b].refund /\ new.order = row[b].order
      /\ new.pay = row[b].pay /\ new.paid = TRUE
    BY RowIsRow DEF Row
<1> HIDE DEF new
<1>2. row'[b] = new /\ Status(b)' = new.status /\ \A c \in Bookings \ {b} : row'[c] = row[c]
    BY UpdateRow DEF new
<1>3. Notes(b)
    BY <1>1, <1>2 DEF Notes, SameOrder, SameRefund, SameType, Status
<1> QED BY <1>2, <1>3 DEF WritesOnly, Written

LEMMA DecisionWritesRow ==
    ASSUME TypeOK, Unborn, NEW b \in Bookings,
           ConfirmDeny(b) \/ ApproveWrite(b) \/ NoShowWrite(b) \/ AdminNoShow(b)
    PROVE  WritesOnly(b)
<1>1. Status(b) # "NONE"
    BY Born DEF ConfirmDeny, ApproveWrite, NoShowWrite, AdminNoShow, Steps
<1>2. ASSUME NEW new, Update(b, new), new.type = row[b].type,
             new.refund = row[b].refund, new.order = row[b].order,
             new.status \in {"CANCELLED", "CONFIRMED", "NO_SHOW"},
             new.status = "CANCELLED" => "confirm" \in Handlers,
             new.status = "CONFIRMED" =>
                 At(b, "approve", "write") /\ new.pay = row[b].pay /\ new.paid = row[b].paid
      PROVE  WritesOnly(b)
    <2>1. row'[b] = new /\ Status(b)' = new.status /\ \A c \in Bookings \ {b} : row'[c] = row[c]
        BY <1>2, UpdateRow
    <2>2. Decides(b)
        BY <1>1, <1>2, <2>1 DEF Decides, SameOrder, SameRefund, SameType, SamePay
    <2> QED BY <2>1, <2>2 DEF WritesOnly, Written
<1>3. CASE ConfirmDeny(b)
    <2> DEFINE new == [row[b] EXCEPT !.status = "CANCELLED", !.pay = "FAILED"]
    <2>1. Update(b, new) /\ "confirm" \in Handlers
        BY <1>3 DEF ConfirmDeny, At
    <2>2. /\ new.status = "CANCELLED" /\ new.type = row[b].type
          /\ new.refund = row[b].refund /\ new.order = row[b].order
        BY RowIsRow DEF Row
    <2> HIDE DEF new
    <2> QED BY <1>2, <2>1, <2>2
<1>4. CASE ApproveWrite(b)
    <2> DEFINE new == [row[b] EXCEPT !.status = "CONFIRMED"]
    <2>1. Update(b, new) /\ At(b, "approve", "write")
        BY <1>4 DEF ApproveWrite
    <2>2. /\ new.status = "CONFIRMED" /\ new.type = row[b].type
          /\ new.refund = row[b].refund /\ new.order = row[b].order
          /\ new.pay = row[b].pay /\ new.paid = row[b].paid
        BY RowIsRow DEF Row
    <2> HIDE DEF new
    <2> QED BY <1>2, <2>1, <2>2
<1>5. CASE NoShowWrite(b) \/ AdminNoShow(b)
    <2> DEFINE new == [row[b] EXCEPT !.status = "NO_SHOW"]
    <2>1. Update(b, new)
        BY <1>5 DEF NoShowWrite, AdminNoShow
    <2>2. /\ new.status = "NO_SHOW" /\ new.type = row[b].type
          /\ new.refund = row[b].refund /\ new.order = row[b].order
        BY RowIsRow DEF Row
    <2> HIDE DEF new
    <2> QED BY <1>2, <2>1, <2>2
<1> QED BY <1>3, <1>4, <1>5

LEMMA GiveUpWritesRow ==
    ASSUME TypeOK, NEW b \in Bookings, NEW h \in {"fail", "expire"}, GiveUpWrite(b, h)
    PROVE  WritesOnly(b)
<1> DEFINE d == IF h = "fail" THEN FALSE ELSE row[b].paid
           new == [row[b] EXCEPT !.status = "CANCELLED", !.pay = "FAILED", !.paid = d]
<1>1. Update(b, new) /\ At(b, h, "write") /\ Goto(b, h, "release")
    BY DEF GiveUpWrite
<1> HIDE DEF d
<1>2. /\ new.status = "CANCELLED" /\ new.type = row[b].type
      /\ new.refund = row[b].refund /\ new.order = row[b].order
    BY RowIsRow DEF Row
<1> HIDE DEF new
<1>3. row'[b] = new /\ Status(b)' = new.status /\ \A c \in Bookings \ {b} : row'[c] = row[c]
    BY <1>1, UpdateRow
<1>4. GivesUp(b)
    BY <1>1, <1>2, <1>3 DEF GivesUp, SameOrder, SameRefund, SameType
<1> QED BY <1>3, <1>4 DEF WritesOnly, Written

LEMMA EndWritesRow ==
    ASSUME TypeOK, NEW b \in Bookings, CancelBooking(b) \/ RejectBooking(b)
    PROVE  WritesOnly(b)
<1>1. PICK h \in Refunders, s \in {"CANCELLED", "REJECTED"}, due \in BOOLEAN :
          /\ EndBooking(b, h, s, due)
          /\ s = "REJECTED" => Status(b) = "PENDING_APPROVAL" /\ (PaidOnline(b) => due)
    <2>1. CASE CancelBooking(b)
        BY <2>1 DEF CancelBooking, Refunders
    <2>2. CASE RejectBooking(b)
        BY <2>2 DEF RejectBooking, Refunders, PaidOnline
    <2> QED BY <2>1, <2>2
<1> DEFINE p == IF row[b].pay = "PENDING" THEN "FAILED" ELSE row[b].pay
           f == IF due THEN "INITIATED" ELSE "NONE"
           new == [row[b] EXCEPT !.status = s, !.pay = p, !.refund = f]
<1>2. Update(b, new) /\ At(b, h, "idle") /\ ReleaseSlotLocks /\ (due => Goto(b, h, "call"))
    BY <1>1 DEF EndBooking
<1>3. Status(b) \in Live
    BY DEF CancelBooking, RejectBooking, Live
<1>4. f = "INITIATED" <=> due
    OBVIOUS
<1> HIDE DEF p, f
<1>5. new.status = s /\ new.type = row[b].type /\ new.refund = f /\ new.order = row[b].order
    BY RowIsRow DEF Row
<1> HIDE DEF new
<1>6. row'[b] = new /\ Status(b)' = new.status /\ \A c \in Bookings \ {b} : row'[c] = row[c]
    BY <1>2, UpdateRow
<1>7. Ends(b)
    BY <1>1, <1>2, <1>3, <1>4, <1>5, <1>6 DEF Ends, SameType
<1> QED BY <1>6, <1>7 DEF WritesOnly, Written

LEMMA EventWritesRow ==
    ASSUME TypeOK, NEW b \in Bookings, NEW h \in Refunders,
           NEW event \in {"created", "processed", "failed"}, RefundHook(b, h, event)
    PROVE  WritesOnly(b)
<1> DEFINE p == IF row[b].type = "HALF_ONLINE_HALF_CASH" THEN "PENDING" ELSE "SUCCESS"
<1>1. refund[b][h] # "none" /\ UNCHANGED at
    BY DEF RefundHook, RefundEvent
<1>2. \/ Update(b, [row[b] EXCEPT !.refund = "INITIATED"])
      \/ Update(b, [row[b] EXCEPT !.pay = "REFUNDED", !.refund = "PROCESSED"])
      \/ Update(b, [row[b] EXCEPT !.pay = p, !.refund = "FAILED"])
    BY DEF RefundHook
<1> HIDE DEF p
<1>3. \A r \in {[row[b] EXCEPT !.refund = "INITIATED"],
                [row[b] EXCEPT !.pay = "REFUNDED", !.refund = "PROCESSED"],
                [row[b] EXCEPT !.pay = p, !.refund = "FAILED"]} :
          r.status = row[b].status /\ r.type = row[b].type /\ r.order = row[b].order /\ r.refund # "NONE"
    BY RowIsRow DEF Row
<1>4. PICK new : /\ Update(b, new)
                 /\ new.status = row[b].status /\ new.type = row[b].type
                 /\ new.order = row[b].order /\ new.refund # "NONE"
    BY <1>2, <1>3
<1>5. row'[b] = new /\ Status(b)' = new.status /\ \A c \in Bookings \ {b} : row'[c] = row[c]
    BY <1>4, UpdateRow
<1>6. Reports(b)
    BY <1>1, <1>4, <1>5 DEF Reports, SameType, Status
<1> QED BY <1>5, <1>6 DEF WritesOnly, Written

LEMMA AnswerWritesRow ==
    ASSUME TypeOK, NEW b \in Bookings, NEW h \in Refunders, RefundWrite(b, h)
    PROVE  WritesOnly(b)
<1>1. \/ At(b, h, "processed") /\ Update(b, [row[b] EXCEPT !.pay = "REFUNDED", !.refund = "PROCESSED"])
      \/ At(b, h, "pending") /\ Update(b, [row[b] EXCEPT !.pay = "REFUNDED", !.refund = "INITIATED"])
      \/ At(b, h, "failed") /\ Update(b, [row[b] EXCEPT !.refund = "FAILED"])
    BY DEF RefundWrite
<1>2. \A r \in {[row[b] EXCEPT !.pay = "REFUNDED", !.refund = "PROCESSED"],
                [row[b] EXCEPT !.pay = "REFUNDED", !.refund = "INITIATED"],
                [row[b] EXCEPT !.refund = "FAILED"]} :
          r.status = row[b].status /\ r.type = row[b].type /\ r.order = row[b].order /\ r.refund # "NONE"
    BY RowIsRow DEF Row
<1>3. /\ [row[b] EXCEPT !.pay = "REFUNDED", !.refund = "PROCESSED"].refund = "PROCESSED"
      /\ [row[b] EXCEPT !.refund = "FAILED"].refund = "FAILED"
    BY RowIsRow DEF Row
<1>4. ASSUME NEW new, Update(b, new), NEW s \in {"processed", "pending", "failed"}, At(b, h, s),
             new.refund = "INITIATED" => s = "pending", new.refund # "NONE",
             new.status = row[b].status, new.type = row[b].type, new.order = row[b].order
      PROVE  WritesOnly(b)
    <2>1. row'[b] = new /\ Status(b)' = new.status /\ \A c \in Bookings \ {b} : row'[c] = row[c]
        BY <1>4, UpdateRow
    <2>2. Reports(b)
        BY <1>4, <2>1 DEF Reports, SameType, Status
    <2> QED BY <2>1, <2>2 DEF WritesOnly, Written
<1>5. CASE At(b, h, "processed") /\ Update(b, [row[b] EXCEPT !.pay = "REFUNDED", !.refund = "PROCESSED"])
    BY <1>2, <1>3, <1>4, <1>5
<1>6. CASE At(b, h, "pending") /\ Update(b, [row[b] EXCEPT !.pay = "REFUNDED", !.refund = "INITIATED"])
    BY <1>2, <1>4, <1>6
<1>7. CASE At(b, h, "failed") /\ Update(b, [row[b] EXCEPT !.refund = "FAILED"])
    BY <1>2, <1>3, <1>4, <1>7
<1> QED BY <1>1, <1>5, <1>6, <1>7

LEMMA VisitWritesRow ==
    ASSUME TypeOK, NEW b \in Bookings, NEW h \in Visitors, VisitWrite(b, h)
    PROVE  WritesOnly(b) \/ UNCHANGED row
<1>1. CASE Status(b) # "CONFIRMED"
    BY <1>1 DEF VisitWrite, noRow
<1>2. CASE Status(b) = "CONFIRMED"
    <2> DEFINE p == IF h \in CheckIns THEN "SUCCESS" ELSE row[b].pay
               new == [row[b] EXCEPT !.status = "COMPLETED", !.pay = p]
    <2>1. Update(b, new) /\ At(b, h, "write")
        BY <1>2 DEF VisitWrite
    <2> HIDE DEF p
    <2>2. /\ new.status = "COMPLETED" /\ new.type = row[b].type
          /\ new.refund = row[b].refund /\ new.order = row[b].order
        BY RowIsRow DEF Row
    <2> HIDE DEF new
    <2>3. row'[b] = new /\ Status(b)' = new.status /\ \A c \in Bookings \ {b} : row'[c] = row[c]
        BY <2>1, UpdateRow
    <2>4. Completes(b)
        BY <1>2, <2>1, <2>2, <2>3 DEF Completes, SameOrder, SameRefund, SameType
    <2> QED BY <2>3, <2>4 DEF WritesOnly, Written
<1> QED BY <1>1, <1>2

\* Every step writes no row, or the row of one booking, in one of these ways.
LEMMA WrittenStep ==
    ASSUME TypeOK, Unborn, [Next]_vars
    PROVE  UNCHANGED row \/ \E b \in Bookings : WritesOnly(b)
<1>1. CASE UNCHANGED vars \/ Crash \/ Tick
    BY <1>1 DEF vars, Crash, Tick, noRow
<1>2. ASSUME NEW b \in Bookings, Housekeeping(b)
      PROVE  UNCHANGED row \/ WritesOnly(b)
    BY <1>2, CreateWrites DEF Housekeeping, SlotLockExpires, ReleaseSlotLock, KeyExpires, noRow
<1>3. ASSUME NEW b \in Bookings, Payment(b)
      PROVE  UNCHANGED row \/ WritesOnly(b)
    <2> USE DEF noRow
    <2>1. CASE OrderRead(b) \/ OrderCreate(b) \/ Capture(b) \/ ConfirmRead(b)
               \/ ReconcileRead(b) \/ ReconcileFails(b)
        BY <2>1 DEF OrderRead, OrderCreate, Capture, ConfirmRead, ReconcileRead, ReconcileFails
    <2>2. CASE OrderWrite(b) \/ ConfirmDeny(b)
        BY <2>2, OrderWritesRow, DecisionWritesRow
    <2>3. CASE ConfirmWrite(b)
        <3>1. At(b, "confirm", "write") /\ "confirm" \in Payers /\ Update(b, Paid(b, "CONFIRMED"))
            BY <2>3 DEF ConfirmWrite, Payers
        <3> QED BY <3>1, PaymentWritesRow
    <2>4. CASE ReconcileWrite(b)
        <3>1. /\ At(b, "reconcile", "write") /\ "reconcile" \in Payers
              /\ Update(b, [Paid(b, "CONFIRMED") EXCEPT !.order = row[b].order])
            BY <2>4 DEF ReconcileWrite, Payers
        <3> QED BY <3>1, PaymentWritesRow
    <2>5. ASSUME NEW h \in Hooks, HookRead(b, h) PROVE UNCHANGED row \/ WritesOnly(b)
        BY <2>5, NoteWritesRow DEF HookRead
    <2>6. ASSUME NEW h \in Hooks, HookWrite(b, h) PROVE UNCHANGED row \/ WritesOnly(b)
        <3> DEFINE s == IF Manual THEN "PENDING_APPROVAL" ELSE "CONFIRMED"
        <3>1. UNCHANGED row \/ Update(b, Paid(b, s))
            BY <2>6 DEF HookWrite
        <3>2. s \in {"CONFIRMED", "PENDING_APPROVAL"} /\ h \in Payers /\ At(b, h, "write")
            BY <2>6 DEF HookWrite, Payers
        <3> HIDE DEF s
        <3> QED BY <3>1, <3>2, PaymentWritesRow
    <2>7. ASSUME NEW h \in {"fail", "expire"}, GiveUpRead(b, h) \/ GiveUpWrite(b, h)
          PROVE  UNCHANGED row \/ WritesOnly(b)
        BY <2>7, GiveUpWritesRow DEF GiveUpRead
    <2> QED BY <1>3, <2>1, <2>2, <2>3, <2>4, <2>5, <2>6, <2>7 DEF Payment
<1>4. ASSUME NEW b \in Bookings, Ending(b)
      PROVE  UNCHANGED row \/ WritesOnly(b)
    <2> USE DEF noRow
    <2>1. CASE CancelBooking(b) \/ RejectBooking(b)
        BY <2>1, EndWritesRow
    <2>2. CASE ApproveRead(b) \/ ApproveWrite(b)
        BY <2>2, DecisionWritesRow DEF ApproveRead
    <2>3. ASSUME NEW h \in Refunders, RefundCall(b, h) \/ RefundWrite(b, h) \/ RefundSettles(b, h)
          PROVE  UNCHANGED row \/ WritesOnly(b)
        BY <2>3, AnswerWritesRow DEF RefundCall, RefundSettles
    <2>4. ASSUME NEW h \in Refunders, NEW event \in {"created", "processed", "failed"},
                 RefundHook(b, h, event)
          PROVE  WritesOnly(b)
        BY <2>4, EventWritesRow
    <2> QED BY <1>4, <2>1, <2>2, <2>3, <2>4 DEF Ending
<1>5. ASSUME NEW b \in Bookings, Visit(b)
      PROVE  UNCHANGED row \/ WritesOnly(b)
    <2> USE DEF noRow
    <2>1. ASSUME NEW h \in Visitors, VisitRead(b, h) \/ VisitWrite(b, h)
          PROVE  UNCHANGED row \/ WritesOnly(b)
        BY <2>1, VisitWritesRow DEF VisitRead
    <2>2. CASE NoShowRead(b) \/ NoShowWrite(b) \/ AdminNoShow(b)
        BY <2>2, DecisionWritesRow DEF NoShowRead
    <2> QED BY <1>5, <2>1, <2>2 DEF Visit, Visitors
<1> QED BY <1>1, <1>2, <1>3, <1>4, <1>5 DEF Next

----------------------------------------------------------------------------
(* Who moves, and to which step.                                            *)

\* What a handler has seen when it comes to its write.
Begins(b, h) ==
    \/ h = "order" /\ At(b, "order", "create")
    \/ h \in {"fail", "expire"} /\ Status(b) = "PENDING"
    \/ h \in {"confirm"} \cup Hooks /\ Status(b) = "PENDING" /\ captured[b]
    \/ h = "reconcile" /\ captured[b]
    \/ h \in Visitors /\ Status(b) = "CONFIRMED" /\ VisitDue(b, h)
    \/ h = "approve" /\ Status(b) = "PENDING_APPROVAL"
    \/ h = "noshow"

\* A refunding handler is called, gets an answer or none, and writes it.
RefundGoes(b, g, s) ==
    \/ At(b, g, "idle") /\ s \in {"idle", "call"} /\ UNCHANGED refund
    \/ /\ At(b, g, "call") /\ s \in {"processed", "pending", "failed"}
       /\ \/ s = "failed" /\ UNCHANGED refund
          \/ \E reply \in {"processed", "pending"} : refund' = [refund EXCEPT ![b][g] = reply]
    \/ /\ \E t \in {"processed", "pending", "failed", "release"} :
             At(b, g, t) /\ (t = "failed" => row'[b].refund = "FAILED")
       /\ s = "idle" /\ UNCHANGED refund

MovesTo(b, g, s) ==
    /\ Goto(b, g, s)
    /\ s = "write" => Begins(b, g)
    /\ s = "create" => g = "order" /\ Status(b) = "PENDING"
    /\ g \in {"fail", "expire"} /\ At(b, g, "release") => ReleaseSlotLocks
    /\ g \in Refunders => RefundGoes(b, g, s)
    /\ g \notin Refunders => UNCHANGED refund

\* One handler of the booking moves.
Moves(b) == \E g \in Handlers, s \in Steps : MovesTo(b, g, s)
Rests == UNCHANGED at /\ UNCHANGED refund

LEMMA NoRefunders ==
    \A g \in {"order", "confirm", "reconcile", "fail", "expire", "approve", "noshow"} \cup Hooks \cup Visitors :
        g \notin Refunders
BY DEF Refunders, Hooks, Visitors, CheckIns

LEMMA OrderMoves ==
    ASSUME NEW b \in Bookings, OrderRead(b) \/ OrderCreate(b) \/ OrderWrite(b)
    PROVE  Moves(b)
<1>1. "order" \in Handlers /\ "order" \notin Refunders /\ UNCHANGED refund
    BY NoRefunders DEF OrderRead, OrderCreate, OrderWrite, At, noGateway
<1>2. CASE OrderRead(b)
    BY <1>1, <1>2 DEF OrderRead, Moves, MovesTo, Steps
<1>3. CASE OrderCreate(b)
    BY <1>1, <1>3 DEF OrderCreate, Moves, MovesTo, Begins, Steps
<1>4. CASE OrderWrite(b)
    BY <1>1, <1>4 DEF OrderWrite, Moves, MovesTo, Steps
<1> QED BY <1>2, <1>3, <1>4

LEMMA ConfirmMoves ==
    ASSUME NEW b \in Bookings, ConfirmRead(b) \/ ConfirmWrite(b) \/ ConfirmDeny(b)
    PROVE  Moves(b) \/ Rests
<1>1. "confirm" \in Handlers /\ "confirm" \notin Refunders /\ UNCHANGED refund
    BY NoRefunders DEF ConfirmRead, ConfirmWrite, ConfirmDeny, At, noGateway
<1>2. CASE ConfirmRead(b)
    BY <1>1, <1>2 DEF ConfirmRead, Moves, MovesTo, Begins, Rests, Steps
<1>3. CASE ConfirmWrite(b) \/ ConfirmDeny(b)
    BY <1>1, <1>3 DEF ConfirmWrite, ConfirmDeny, Moves, MovesTo, Steps
<1> QED BY <1>2, <1>3

LEMMA HookMoves ==
    ASSUME NEW b \in Bookings, NEW h \in Hooks, HookRead(b, h) \/ HookWrite(b, h)
    PROVE  Moves(b) \/ Rests
<1>1. h \in Handlers /\ h \notin Refunders /\ h \notin {"fail", "expire"} /\ UNCHANGED refund
    BY NoRefunders DEF HookRead, HookWrite, At, noGateway, Hooks
<1>2. CASE HookRead(b, h)
    BY <1>1, <1>2 DEF HookRead, Moves, MovesTo, Begins, Rests, Steps, noRow
<1>3. CASE HookWrite(b, h)
    BY <1>1, <1>3 DEF HookWrite, Moves, MovesTo, Steps
<1> QED BY <1>2, <1>3

LEMMA ReconcileMoves ==
    ASSUME NEW b \in Bookings, ReconcileRead(b) \/ ReconcileWrite(b) \/ ReconcileFails(b)
    PROVE  Moves(b) \/ Rests
<1>1. "reconcile" \in Handlers /\ "reconcile" \notin Refunders /\ UNCHANGED refund
    BY NoRefunders DEF ReconcileRead, ReconcileWrite, ReconcileFails, At, noGateway
<1>2. CASE ReconcileRead(b)
    BY <1>1, <1>2 DEF ReconcileRead, Moves, MovesTo, Begins, Rests, Steps
<1>3. CASE ReconcileWrite(b) \/ ReconcileFails(b)
    BY <1>1, <1>3 DEF ReconcileWrite, ReconcileFails, Moves, MovesTo, Steps
<1> QED BY <1>2, <1>3

LEMMA GiveUpMoves ==
    ASSUME NEW b \in Bookings, NEW h \in {"fail", "expire"}, GiveUpRead(b, h) \/ GiveUpWrite(b, h)
    PROVE  Moves(b)
<1>1. h \in Handlers /\ h \notin Refunders /\ UNCHANGED refund
    BY NoRefunders DEF GiveUpRead, GiveUpWrite, At, noGateway
<1>2. CASE GiveUpRead(b, h)
    <2>1. ~At(b, h, "release")
        BY <1>2 DEF GiveUpRead, At
    <2> QED BY <1>1, <1>2, <2>1 DEF GiveUpRead, Moves, MovesTo, Begins, Steps
<1>3. CASE GiveUpWrite(b, h)
    <2>1. ~At(b, h, "release")
        BY <1>3 DEF GiveUpWrite, At
    <2> QED BY <1>1, <1>3, <2>1 DEF GiveUpWrite, Moves, MovesTo, Steps
<1> QED BY <1>2, <1>3

LEMMA ApproveMoves ==
    ASSUME NEW b \in Bookings,
           ApproveRead(b) \/ ApproveWrite(b) \/ NoShowRead(b) \/ NoShowWrite(b)
    PROVE  Moves(b)
<1>1. CASE ApproveRead(b) \/ ApproveWrite(b)
    <2>1. "approve" \in Handlers /\ "approve" \notin Refunders /\ UNCHANGED refund
        BY <1>1, NoRefunders DEF ApproveRead, ApproveWrite, At, noGateway
    <2> QED BY <1>1, <2>1 DEF ApproveRead, ApproveWrite, Moves, MovesTo, Begins, Steps
<1>2. CASE NoShowRead(b) \/ NoShowWrite(b)
    <2>1. "noshow" \in Handlers /\ "noshow" \notin Refunders /\ UNCHANGED refund
        BY <1>2, NoRefunders DEF NoShowRead, NoShowWrite, At, noGateway
    <2> QED BY <1>2, <2>1 DEF NoShowRead, NoShowWrite, Moves, MovesTo, Begins, Steps
<1> QED BY <1>1, <1>2

LEMMA VisitorMoves ==
    ASSUME NEW b \in Bookings, NEW h \in Visitors, VisitRead(b, h) \/ VisitWrite(b, h)
    PROVE  Moves(b)
<1>1. h \in Handlers /\ h \notin Refunders /\ h \notin {"fail", "expire"} /\ UNCHANGED refund
    BY NoRefunders DEF VisitRead, VisitWrite, At, noGateway, Visitors, CheckIns
<1>2. CASE VisitRead(b, h)
    BY <1>1, <1>2 DEF VisitRead, Moves, MovesTo, Begins, Steps
<1>3. CASE VisitWrite(b, h)
    BY <1>1, <1>3 DEF VisitWrite, Moves, MovesTo, Steps
<1> QED BY <1>2, <1>3

LEMMA ReleaseMoves ==
    ASSUME NEW b \in Bookings, NEW h \in Handlers, ReleaseSlotLock(b, h)
    PROVE  Moves(b)
<1>1. /\ Goto(b, h, "idle") /\ ReleaseSlotLocks /\ UNCHANGED refund /\ "idle" \in Steps
    BY DEF ReleaseSlotLock, noGateway, Steps
<1>2. RefundGoes(b, h, "idle")
    BY <1>1 DEF ReleaseSlotLock, RefundGoes
<1> QED BY <1>1, <1>2 DEF Moves, MovesTo

LEMMA EndMoves ==
    ASSUME NEW b \in Bookings, CancelBooking(b) \/ RejectBooking(b)
    PROVE  Moves(b)
<1>1. PICK h \in Refunders, s \in {"CANCELLED", "REJECTED"}, due \in BOOLEAN : EndBooking(b, h, s, due)
    BY DEF CancelBooking, RejectBooking, Refunders, PaidOnline
<1>2. PICK step \in {"call", "idle"} : Goto(b, h, step)
    BY <1>1 DEF EndBooking
<1>3. At(b, h, "idle") /\ h \in Handlers /\ UNCHANGED refund /\ h \notin {"fail", "expire"}
    BY <1>1 DEF EndBooking, At, noGateway, Refunders
<1>4. RefundGoes(b, h, step)
    BY <1>2, <1>3 DEF RefundGoes
<1> QED BY <1>2, <1>3, <1>4 DEF Moves, MovesTo, Steps

LEMMA CallMoves ==
    ASSUME TypeOK, NEW b \in Bookings, NEW h \in Refunders, RefundCall(b, h) \/ RefundWrite(b, h)
    PROVE  Moves(b)
<1>0. h \in Handlers /\ h \notin {"fail", "expire"}
    BY DEF RefundCall, RefundWrite, At, Refunders
<1>1. CASE RefundCall(b, h)
    <2>1. PICK s \in {"processed", "pending", "failed"} :
              /\ Goto(b, h, s)
              /\ \/ s = "failed" /\ UNCHANGED refund
                 \/ \E reply \in {"processed", "pending"} : refund' = [refund EXCEPT ![b][h] = reply]
        BY <1>1 DEF RefundCall
    <2>2. RefundGoes(b, h, s)
        BY <1>1, <2>1 DEF RefundCall, RefundGoes
    <2> QED BY <1>0, <2>1, <2>2 DEF Moves, MovesTo, Steps
<1>2. CASE RefundWrite(b, h)
    <2>1. Goto(b, h, "idle") /\ UNCHANGED refund
        BY <1>2 DEF RefundWrite, noGateway
    <2>2. CASE At(b, h, "processed") \/ At(b, h, "pending")
        BY <1>0, <2>1, <2>2 DEF RefundGoes, Moves, MovesTo, Steps
    <2>3. CASE At(b, h, "failed") /\ Update(b, [row[b] EXCEPT !.refund = "FAILED"])
        <3>1. row'[b] = [row[b] EXCEPT !.refund = "FAILED"]
            BY <2>3, UpdateRow
        <3>2. [row[b] EXCEPT !.refund = "FAILED"].refund = "FAILED"
            BY RowIsRow DEF Row
        <3> QED BY <1>0, <2>1, <2>3, <3>1, <3>2 DEF RefundGoes, Moves, MovesTo, Steps
    <2> QED BY <1>2, <2>2, <2>3 DEF RefundWrite
<1> QED BY <1>1, <1>2

\* Every step moves one handler, or none, or is the crash; and Razorpay may settle a refund.
LEMMA MoveStep ==
    ASSUME TypeOK, [Next]_vars
    PROVE  \/ Rests
           \/ Crash
           \/ \E b \in Bookings : Moves(b)
           \/ \E b \in Bookings, h \in Refunders : RefundSettles(b, h)
<1>1. CASE UNCHANGED vars \/ Tick
    BY <1>1 DEF vars, Tick, noGateway, Rests
<1>2. ASSUME NEW b \in Bookings, Housekeeping(b) PROVE Rests \/ Moves(b)
    BY <1>2, ReleaseMoves DEF Housekeeping, CreateBooking, SlotLockExpires, KeyExpires, noGateway, Rests
<1>3. ASSUME NEW b \in Bookings, Payment(b) PROVE Rests \/ Moves(b)
    <2>1. CASE Capture(b)
        BY <2>1 DEF Capture, Rests
    <2> QED BY <1>3, <2>1, OrderMoves, ConfirmMoves, HookMoves, ReconcileMoves, GiveUpMoves DEF Payment
<1>4. ASSUME NEW b \in Bookings, Ending(b)
      PROVE  Rests \/ Moves(b) \/ \E h \in Refunders : RefundSettles(b, h)
    <2>1. ASSUME NEW h, NEW event, RefundHook(b, h, event) PROVE Rests
        BY <2>1 DEF RefundHook, noGateway, Rests
    <2> QED BY <1>4, <2>1, EndMoves, ApproveMoves, CallMoves DEF Ending
<1>5. ASSUME NEW b \in Bookings, Visit(b) PROVE Rests \/ Moves(b)
    <2>1. CASE AdminNoShow(b)
        BY <2>1 DEF AdminNoShow, noGateway, Rests
    <2> QED BY <1>5, <2>1, ApproveMoves, VisitorMoves DEF Visit, Visitors
<1> QED BY <1>1, <1>2, <1>3, <1>4, <1>5 DEF Next

\* A handler that moves leaves the others where they are.
LEMMA GotoStep ==
    ASSUME TypeOK, NEW b \in Bookings, NEW g \in Handlers, NEW s \in Steps, Goto(b, g, s)
    PROVE  /\ at'[b][g] = s
           /\ \A c \in Bookings, h \in Handlers : c # b \/ h # g => at'[c][h] = at[c][h]
BY DEF TypeOK, Goto

LEMMA BeginStep ==
    ASSUME TypeOK, [Next]_vars, NEW b \in Bookings, NEW h
    PROVE  /\ At(b, h, "write")' => At(b, h, "write") \/ Begins(b, h)
           /\ At(b, h, "create")' => At(b, h, "create") \/ (h = "order" /\ Status(b) = "PENDING")
<1>1. CASE UNCHANGED at
    BY <1>1 DEF At
<1>2. CASE Crash
    BY <1>2 DEF Crash, At
<1>3. ASSUME NEW c \in Bookings, Moves(c)
      PROVE  /\ At(b, h, "write")' => At(b, h, "write") \/ Begins(b, h)
             /\ At(b, h, "create")' => At(b, h, "create") \/ (h = "order" /\ Status(b) = "PENDING")
    <2>1. PICK g \in Handlers, s \in Steps : MovesTo(c, g, s)
        BY <1>3 DEF Moves
    <2>2. /\ at'[c][g] = s
          /\ \A d \in Bookings, k \in Handlers : d # c \/ k # g => at'[d][k] = at[d][k]
        BY <2>1, GotoStep DEF MovesTo
    <2>3. CASE h \in Handlers /\ c = b /\ g = h
        BY <2>1, <2>2, <2>3 DEF At, MovesTo
    <2>4. CASE h \in Handlers /\ (c # b \/ g # h)
        BY <2>2, <2>4 DEF At
    <2> QED BY <2>3, <2>4 DEF At
<1> QED BY <1>1, <1>2, <1>3, MoveStep DEF Rests, RefundSettles

LEMMA FirstRows ==
    ASSUME Init, NEW b \in Bookings
    PROVE  row[b].status = "NONE" /\ row[b].refund = "NONE" /\ ~row[b].order
<1>1. PICK type \in [Bookings -> PayTypes] :
         row = [d \in Bookings |-> [status |-> "NONE", type |-> type[d], pay |-> "PENDING",
                                    refund |-> "NONE", order |-> FALSE, paid |-> FALSE]]
    BY DEF Init
<1> QED BY <1>1

----------------------------------------------------------------------------
(* The slot lock                                                            *)

\* A cancelled booking whose lock is left has a handler that is about to delete it.
LockedUntilReleased ==
    \A b \in Bookings :
        Status(b) = "CANCELLED" /\ locked[b] => \E h \in {"fail", "expire"} : At(b, h, "release")

\* Only a new booking takes the lock.
LEMMA LockStep ==
    ASSUME TypeOK, [Next]_vars, NEW b \in Bookings, locked'[b]
    PROVE  ~ReleaseSlotLocks /\ (locked[b] \/ CreateBooking(b))
<1>0. ~ReleaseSlotLocks
    BY DEF ReleaseSlotLocks
<1>1. ASSUME NEW c \in Bookings, Housekeeping(c) PROVE locked[b] \/ CreateBooking(b)
    <2>1. CASE CreateBooking(c)
        BY <2>1 DEF CreateBooking, TypeOK
    <2>2. CASE SlotLockExpires(c)
        BY <2>2 DEF SlotLockExpires, TypeOK
    <2>3. ASSUME NEW h, ReleaseSlotLock(c, h) PROVE FALSE
        BY <1>0, <2>3 DEF ReleaseSlotLock
    <2>4. ASSUME NEW key, KeyExpires(c, key) PROVE locked[b]
        BY <2>4 DEF KeyExpires
    <2> QED BY <1>1, <2>1, <2>2, <2>3, <2>4 DEF Housekeeping
<1>2. ASSUME NEW c \in Bookings, Payment(c) PROVE locked' = locked
    <2>1. CASE OrderRead(c) \/ OrderCreate(c) \/ OrderWrite(c) \/ Capture(c)
        BY <2>1 DEF OrderRead, OrderCreate, OrderWrite, Capture
    <2>2. CASE ConfirmRead(c) \/ ConfirmWrite(c) \/ ConfirmDeny(c)
        BY <2>2 DEF ConfirmRead, ConfirmWrite, ConfirmDeny
    <2>3. ASSUME NEW h, HookRead(c, h) \/ HookWrite(c, h) PROVE locked' = locked
        BY <2>3 DEF HookRead, HookWrite
    <2>4. CASE ReconcileRead(c) \/ ReconcileWrite(c) \/ ReconcileFails(c)
        BY <2>4 DEF ReconcileRead, ReconcileWrite, ReconcileFails
    <2>5. ASSUME NEW h, GiveUpRead(c, h) \/ GiveUpWrite(c, h) PROVE locked' = locked
        BY <2>5 DEF GiveUpRead, GiveUpWrite
    <2> QED BY <1>2, <2>1, <2>2, <2>3, <2>4, <2>5 DEF Payment
<1>3. ASSUME NEW c \in Bookings, Ending(c) PROVE locked' = locked
    <2>1. CASE CancelBooking(c) \/ RejectBooking(c)
        <3>1. ASSUME NEW h, NEW status, NEW due, EndBooking(c, h, status, due) PROVE locked' = locked
            BY <1>0, <3>1 DEF EndBooking
        <3> QED BY <2>1, <3>1 DEF CancelBooking, RejectBooking
    <2>2. ASSUME NEW h, RefundCall(c, h) \/ RefundWrite(c, h) \/ RefundSettles(c, h)
          PROVE  locked' = locked
        BY <2>2 DEF RefundCall, RefundWrite, RefundSettles
    <2>3. ASSUME NEW h, NEW event, RefundHook(c, h, event) PROVE locked' = locked
        BY <2>3 DEF RefundHook
    <2>4. CASE ApproveRead(c) \/ ApproveWrite(c)
        BY <2>4 DEF ApproveRead, ApproveWrite
    <2> QED BY <1>3, <2>1, <2>2, <2>3, <2>4 DEF Ending
<1>4. ASSUME NEW c \in Bookings, Visit(c) PROVE locked' = locked
    <2>1. ASSUME NEW h, VisitRead(c, h) \/ VisitWrite(c, h) PROVE locked' = locked
        BY <2>1 DEF VisitRead, VisitWrite
    <2> QED BY <1>4, <2>1 DEF Visit, NoShowRead, NoShowWrite, AdminNoShow
<1>5. ASSUME UNCHANGED vars \/ Crash \/ Tick PROVE locked' = locked
    BY <1>5 DEF vars, Crash, Tick
<1>6. locked' = locked \/ locked[b] \/ CreateBooking(b)
    BY <1>1, <1>2, <1>3, <1>4, <1>5 DEF Next
<1> QED BY <1>0, <1>6

LEMMA LockedStep ==
    ASSUME TypeOK, Unborn, ~MayCrash, "confirm" \notin Handlers, LockedUntilReleased, [Next]_vars
    PROVE  LockedUntilReleased'
<1> SUFFICES ASSUME NEW b \in Bookings, Status(b)' = "CANCELLED", locked'[b]
             PROVE  \E h \in {"fail", "expire"} : At(b, h, "release")'
    BY DEF LockedUntilReleased
<1>1. ~ReleaseSlotLocks /\ (locked[b] \/ CreateBooking(b))
    BY LockStep
<1>2. CASE GivesUp(b)
    <2>1. PICK h \in {"fail", "expire"} : At(b, h, "write") /\ Goto(b, h, "release")
        BY <1>2 DEF GivesUp
    <2>2. h \in Handlers /\ "release" \in Steps
        BY <2>1 DEF At, Steps
    <2>3. at'[b][h] = "release"
        BY <2>1, <2>2, GotoStep
    <2> QED BY <2>2, <2>3 DEF At
<1>3. CASE Status(b) = "CANCELLED"
    <2>1. ~CreateBooking(b)
        BY <1>3 DEF CreateBooking
    <2>2. PICK h \in {"fail", "expire"} : At(b, h, "release")
        BY <1>1, <1>3, <2>1 DEF LockedUntilReleased
    <2>3. ~Crash
        BY DEF Crash
    <2>4. ASSUME NEW c \in Bookings, Moves(c) PROVE At(b, h, "release")'
        <3>1. PICK g \in Handlers, s \in Steps : MovesTo(c, g, s)
            BY <2>4 DEF Moves
        <3>2. \A d \in Bookings, k \in Handlers : d # c \/ k # g => at'[d][k] = at[d][k]
            BY <3>1, GotoStep DEF MovesTo
        <3>3. c # b \/ g # h
            BY <1>1, <2>2, <3>1 DEF MovesTo
        <3> QED BY <2>2, <3>2, <3>3 DEF At
    <2>5. CASE UNCHANGED at
        BY <2>2, <2>5 DEF At
    <2> QED BY <2>3, <2>4, <2>5, MoveStep DEF Rests, RefundSettles
<1>4. Status(b) = "CANCELLED" \/ GivesUp(b)
    <2>1. CASE row'[b] = row[b]
        BY <2>1 DEF Status
    <2>2. CASE Written(b)
        <3>1. ~(Creates(b) \/ PaysFor(b) \/ Decides(b) \/ Completes(b))
            BY DEF Creates, PaysFor, Decides, Completes, Live
        <3>2. Orders(b) \/ Notes(b) \/ Reports(b) => Status(b) = "CANCELLED"
            BY DEF Orders, Notes, Reports
        <3>3. ~Ends(b)
            BY <1>1 DEF Ends
        <3> QED BY <2>2, <3>1, <3>2, <3>3 DEF Written
    <2> QED BY <2>1, <2>2, WrittenStep DEF WritesOnly
<1> QED BY <1>2, <1>3, <1>4

\* A cancelled booking's lock is gone when its handlers are: whichever handlers, retries and
\* bookings of the slot, as long as no process dies between the two writes and no signature
\* is refused (ConfirmDeny leaves the lock to expire).
THEOREM CancelledHoldsNoSlot ==
    ASSUME ~MayCrash, "confirm" \notin Handlers
    PROVE  Spec => []EndedBookingHoldsNoSlot
<1>1. Init => LockedUntilReleased
    BY DEF Init, LockedUntilReleased
<1>2. TypeOK /\ Unborn /\ LockedUntilReleased /\ [Next]_vars => LockedUntilReleased'
    BY LockedStep
<1>3. LockedUntilReleased => EndedBookingHoldsNoSlot
    <2> SUFFICES ASSUME LockedUntilReleased, NEW b \in Bookings, Status(b) = "CANCELLED",
                        \A h \in Handlers : at[b][h] = "idle", locked[b]
                 PROVE  FALSE
        BY DEF EndedBookingHoldsNoSlot
    <2> QED BY DEF LockedUntilReleased, At
<1> QED BY <1>1, <1>2, <1>3, TypesAndUnborn, PTL DEF Spec

----------------------------------------------------------------------------
(* The refund of a rejected booking                                         *)

\* A booking paid in cash is never PENDING, so nobody orders, takes or writes a payment of it.
CashIsNotPaid ==
    \A b \in Bookings : row[b].type = "FULL_CASH" =>
        /\ Status(b) # "PENDING" /\ ~row[b].order /\ ~captured[b]
        /\ ~At(b, "order", "create")
        /\ \A h \in {"order"} \cup Payers : ~At(b, h, "write")

\* Until it is revived, a booking has no refunding handler under way before it ends.
UnderRefund(b, h) ==
    refund[b][h] # "none" \/ \E s \in {"call", "processed", "pending", "failed"} : At(b, h, s)

RefundsTheEnded ==
    \A b \in Bookings, h \in Refunders : ~revived[b] /\ UnderRefund(b, h) => Status(b) \in Over

\* What waits for the owner is paid; what the owner rejected is owed.
OwedByTheRejection ==
    \A b \in Bookings : ~revived[b] /\ row[b].type # "FULL_CASH" =>
        /\ Status(b) = "PENDING_APPROVAL" => row[b].paid /\ row[b].pay = PaidStatus(b)
        /\ Status(b) = "REJECTED" => row[b].refund # "NONE"

LEMMA CaptureStep ==
    ASSUME TypeOK, [Next]_vars, NEW b \in Bookings
    PROVE  /\ captured'[b] => captured[b] \/ row[b].order
           /\ captured[b] => captured'[b]
<1>1. ASSUME NEW c \in Bookings, Housekeeping(c) PROVE captured' = captured
    BY <1>1 DEF Housekeeping, CreateBooking, SlotLockExpires, ReleaseSlotLock, KeyExpires, noGateway
<1>2. ASSUME NEW c \in Bookings, Payment(c), ~Capture(c) PROVE captured' = captured
    <2> USE DEF noGateway
    <2>1. CASE OrderRead(c) \/ OrderCreate(c) \/ OrderWrite(c)
        BY <2>1 DEF OrderRead, OrderCreate, OrderWrite
    <2>2. CASE ConfirmRead(c) \/ ConfirmWrite(c) \/ ConfirmDeny(c)
        BY <2>2 DEF ConfirmRead, ConfirmWrite, ConfirmDeny
    <2>3. ASSUME NEW h, HookRead(c, h) \/ HookWrite(c, h) PROVE captured' = captured
        BY <2>3 DEF HookRead, HookWrite
    <2>4. CASE ReconcileRead(c) \/ ReconcileWrite(c) \/ ReconcileFails(c)
        BY <2>4 DEF ReconcileRead, ReconcileWrite, ReconcileFails
    <2>5. ASSUME NEW h, GiveUpRead(c, h) \/ GiveUpWrite(c, h) PROVE captured' = captured
        BY <2>5 DEF GiveUpRead, GiveUpWrite
    <2> QED BY <1>2, <2>1, <2>2, <2>3, <2>4, <2>5 DEF Payment
<1>3. ASSUME NEW c \in Bookings, Capture(c)
      PROVE  /\ captured'[b] => captured[b] \/ row[b].order
             /\ captured[b] => captured'[b]
    BY <1>3 DEF Capture, TypeOK
<1>4. ASSUME NEW c \in Bookings, Ending(c) PROVE captured' = captured
    <2> USE DEF noGateway
    <2>1. ASSUME NEW h, NEW status, NEW due, EndBooking(c, h, status, due) PROVE captured' = captured
        BY <2>1 DEF EndBooking
    <2>2. ASSUME NEW h, RefundCall(c, h) \/ RefundWrite(c, h) \/ RefundSettles(c, h)
          PROVE  captured' = captured
        BY <2>2 DEF RefundCall, RefundWrite, RefundSettles
    <2>3. ASSUME NEW h, NEW event, RefundHook(c, h, event) PROVE captured' = captured
        BY <2>3 DEF RefundHook
    <2>4. CASE ApproveRead(c) \/ ApproveWrite(c)
        BY <2>4 DEF ApproveRead, ApproveWrite
    <2>5. CASE CancelBooking(c) \/ RejectBooking(c)
        BY <2>1, <2>5 DEF CancelBooking, RejectBooking
    <2> QED BY <1>4, <2>2, <2>3, <2>4, <2>5 DEF Ending
<1>5. ASSUME NEW c \in Bookings, Visit(c) PROVE captured' = captured
    <2>1. ASSUME NEW h, VisitRead(c, h) \/ VisitWrite(c, h) PROVE captured' = captured
        BY <2>1 DEF VisitRead, VisitWrite, noGateway
    <2> QED BY <1>5, <2>1 DEF Visit, NoShowRead, NoShowWrite, AdminNoShow, noGateway
<1>6. ASSUME UNCHANGED vars \/ Crash \/ Tick PROVE captured' = captured
    BY <1>6 DEF vars, Crash, Tick, noGateway
<1>7. captured' = captured \/ \E c \in Bookings : Capture(c)
    BY <1>1, <1>2, <1>4, <1>5, <1>6 DEF Next
<1> QED BY <1>3, <1>7

\* The type of a booking never changes.
LEMMA TypeStays ==
    ASSUME TypeOK, Unborn, [Next]_vars, NEW b \in Bookings
    PROVE  row'[b].type = row[b].type /\ (row'[b] = row[b] \/ Written(b))
<1>1. Written(b) => SameType(b)
    BY DEF Written, Creates, Orders, PaysFor, Notes, Decides, GivesUp, Ends, Reports, Completes,
           SameOrder, SameRefund
<1>2. row'[b] = row[b] \/ Written(b)
    BY WrittenStep DEF WritesOnly
<1> QED BY <1>1, <1>2 DEF SameType

LEMMA CashStep ==
    ASSUME TypeOK, Unborn, CashIsNotPaid, [Next]_vars PROVE CashIsNotPaid'
<1> SUFFICES ASSUME NEW b \in Bookings, row[b].type = "FULL_CASH"
             PROVE  /\ Status(b)' # "PENDING" /\ ~row'[b].order /\ ~captured'[b]
                    /\ ~At(b, "order", "create")'
                    /\ \A h \in {"order"} \cup Payers : ~At(b, h, "write")'
    BY TypeStays DEF CashIsNotPaid
<1>1. /\ Status(b) # "PENDING" /\ ~row[b].order /\ ~captured[b]
      /\ ~At(b, "order", "create")
      /\ \A h \in {"order"} \cup Payers : ~At(b, h, "write")
    BY DEF CashIsNotPaid
<1>2. ~captured'[b]
    BY <1>1, CaptureStep
<1>3. ~At(b, "order", "create")'
    BY <1>1, BeginStep
<1>4. ASSUME NEW h \in {"order"} \cup Payers PROVE ~At(b, h, "write")'
    <2>1. ~Begins(b, h)
        BY <1>1 DEF Begins, Payers, Visitors, CheckIns, Hooks
    <2> QED BY <1>1, <2>1, BeginStep
<1>5. Status(b)' # "PENDING" /\ ~row'[b].order
    <2>1. CASE row'[b] = row[b]
        BY <1>1, <2>1 DEF Status
    <2>2. CASE Written(b)
        <3>1. ~Orders(b) /\ ~PaysFor(b)
            BY <1>1 DEF Orders, PaysFor
        <3>2. CASE Creates(b)
            BY <1>1, <3>2 DEF Creates, SameOrder
        <3>3. CASE Notes(b) \/ Decides(b) \/ GivesUp(b) \/ Completes(b)
            BY <1>1, <3>3 DEF Notes, Decides, GivesUp, Completes, SameOrder
        <3>4. CASE Ends(b) \/ Reports(b)
            BY <1>1, <3>4 DEF Ends, Reports
        <3> QED BY <2>2, <3>1, <3>2, <3>3, <3>4 DEF Written
    <2> QED BY <2>1, <2>2, TypeStays
<1> QED BY <1>2, <1>3, <1>4, <1>5

\* A handler comes to its refund only when it ends the booking, and goes on with it.
LEMMA RefundingStep ==
    ASSUME TypeOK, Unborn, [Next]_vars, NEW b \in Bookings, NEW h \in Refunders, UnderRefund(b, h)'
    PROVE  UnderRefund(b, h) \/ Status(b)' \in Over
<1>1. /\ at \in [Bookings -> [Handlers -> Steps]]
      /\ refund \in [Bookings -> [Refunders -> Refunding]]
    BY DEF TypeOK, Refunding
<1>2. Asked(b, h)' => Asked(b, h) \/ Status(b)' \in Over
    BY AskStep DEF NobodyAsks, AsksForOne, Over
<1>3. CASE Rests
    BY <1>3 DEF Rests, UnderRefund, At
<1>4. CASE Crash
    BY <1>4 DEF Crash, UnderRefund, At, noGateway
<1>5. ASSUME NEW c \in Bookings, NEW g \in Refunders, RefundSettles(c, g)
      PROVE  UnderRefund(b, h)
    BY <1>1, <1>5 DEF RefundSettles, UnderRefund, At
<1>6. ASSUME NEW c \in Bookings, Moves(c) PROVE UnderRefund(b, h) \/ Status(b)' \in Over
    <2>1. PICK g \in Handlers, s \in Steps : MovesTo(c, g, s)
        BY <1>6 DEF Moves
    <2>2. /\ at'[c][g] = s
          /\ \A d \in Bookings, k \in Handlers : d # c \/ k # g => at'[d][k] = at[d][k]
        BY <2>1, GotoStep DEF MovesTo
    <2>3. CASE c = b /\ g = h
        <3>1. RefundGoes(b, h, s)
            BY <2>1, <2>3 DEF MovesTo
        <3>2. CASE At(b, h, "idle") /\ s \in {"idle", "call"} /\ UNCHANGED refund
            BY <1>2, <2>2, <2>3, <3>2 DEF UnderRefund, At, Asked
        <3>3. CASE At(b, h, "call")
            BY <3>3 DEF UnderRefund
        <3>4. CASE s = "idle" /\ UNCHANGED refund
            BY <2>2, <2>3, <3>4 DEF UnderRefund, At
        <3> QED BY <3>1, <3>2, <3>3, <3>4 DEF RefundGoes
    <2>4. CASE c # b \/ g # h
        <3>1. refund'[b][h] = refund[b][h]
            BY <1>1, <2>1, <2>4 DEF MovesTo, RefundGoes
        <3>2. h \in Handlers => at'[b][h] = at[b][h]
            BY <2>2, <2>4
        <3> QED BY <3>1, <3>2 DEF UnderRefund, At
    <2> QED BY <2>3, <2>4
<1> QED BY <1>3, <1>4, <1>5, <1>6, MoveStep

\* A booking that has ended stays ended until it is revived.
LEMMA RefundsStep ==
    ASSUME TypeOK, Unborn, RefundsTheEnded, [Next]_vars PROVE RefundsTheEnded'
<1> SUFFICES ASSUME NEW b \in Bookings, NEW h \in Refunders, ~revived'[b], UnderRefund(b, h)'
             PROVE  Status(b)' \in Over
    BY DEF RefundsTheEnded
<1>1. StatusMoves(b) /\ Status(b) \in Statuses /\ Status(b)' \in Statuses
    BY StatusStep, TypeStep, RowFields DEF TypeOK, Status, Statuses, Row
<1>2. ~revived[b]
    BY <1>1 DEF StatusMoves
<1>3. Status(b) \in Over => Status(b)' \in Over
    BY <1>1 DEF StatusMoves, Statuses, Over
<1> QED BY <1>2, <1>3, RefundingStep DEF RefundsTheEnded

LEMMA OwedStep ==
    ASSUME TypeOK, Unborn, CashIsNotPaid, RefundsTheEnded, OwedByTheRejection, [Next]_vars
    PROVE  OwedByTheRejection'
<1> SUFFICES ASSUME NEW b \in Bookings, ~revived'[b], row'[b].type # "FULL_CASH"
             PROVE  /\ Status(b)' = "PENDING_APPROVAL" => row'[b].paid /\ row'[b].pay = PaidStatus(b)'
                    /\ Status(b)' = "REJECTED" => row'[b].refund # "NONE"
    BY DEF OwedByTheRejection
<1>1. StatusMoves(b) /\ ~revived[b]
    BY StatusStep DEF StatusMoves
<1>2. row[b].type # "FULL_CASH" /\ PaidStatus(b)' = PaidStatus(b)
    BY TypeStays DEF PaidStatus
<1>3. /\ Status(b) = "PENDING_APPROVAL" => row[b].paid /\ row[b].pay = PaidStatus(b)
      /\ Status(b) = "REJECTED" => row[b].refund # "NONE"
    BY <1>1, <1>2 DEF OwedByTheRejection
<1>4. row[b].type \in {"FULL_ONLINE", "HALF_ONLINE_HALF_CASH"}
    BY <1>2 DEF TypeOK, Row, PaymentTypes
<1>5. CASE row'[b] = row[b]
    BY <1>2, <1>3, <1>5 DEF Status
<1>6. CASE Creates(b)
    BY <1>2, <1>6 DEF Creates
<1>7. CASE Orders(b)
    BY <1>2, <1>3, <1>7 DEF Orders, SameRefund, SamePay
<1>8. CASE PaysFor(b)
    BY <1>2, <1>8 DEF PaysFor
<1>9. CASE Notes(b) \/ Decides(b) \/ GivesUp(b) \/ Completes(b)
    BY <1>9 DEF Notes, Decides, GivesUp, Completes
<1>10. CASE Ends(b)
    <2>1. Status(b)' = "REJECTED" => PaidOnline(b)
        BY <1>3, <1>4, <1>10 DEF Ends, PaidOnline, PaidStatus
    <2> QED BY <1>10, <2>1 DEF Ends
<1>11. CASE Reports(b)
    <2>1. PICK h \in Refunders :
              \/ refund[b][h] # "none"
              \/ \E s \in {"processed", "pending", "failed"} : At(b, h, s)
        BY <1>11 DEF Reports
    <2>2. UnderRefund(b, h)
        BY <2>1 DEF UnderRefund
    <2>3. Status(b) \in Over
        BY <1>1, <2>2 DEF RefundsTheEnded
    <2> QED BY <1>11, <2>3 DEF Reports, Over
<1> QED BY <1>5, <1>6, <1>7, <1>8, <1>9, <1>10, <1>11, TypeStays DEF Written

LEMMA RefundInit == Init => CashIsNotPaid /\ RefundsTheEnded /\ OwedByTheRejection
<1> SUFFICES ASSUME Init, NEW b \in Bookings
             PROVE  /\ Status(b) = "NONE" /\ ~row[b].order /\ ~captured[b]
                    /\ \A h, s : At(b, h, s) => s = "idle"
                    /\ \A h \in Refunders : refund[b][h] = "none"
    BY DEF CashIsNotPaid, RefundsTheEnded, OwedByTheRejection, UnderRefund
<1>1. row[b].status = "NONE" /\ ~row[b].order
    BY FirstRows
<1>2. /\ at = [c \in Bookings |-> [h \in Handlers |-> "idle"]]
      /\ captured = [c \in Bookings |-> FALSE]
      /\ refund = [c \in Bookings |-> [h \in Refunders |-> "none"]]
    BY DEF Init
<1> QED BY <1>1, <1>2 DEF Status, At

\* Whatever the payment, its events, its reconciliation and the rejection interleave with, a
\* booking the owner rejects after its payment was captured is owed its money, deposits too.
THEOREM RejectedIsOwed == Spec => []RejectedPaymentIsOwed
<1> DEFINE Inv == CashIsNotPaid /\ RefundsTheEnded /\ OwedByTheRejection
<1>1. Init => Inv
    BY RefundInit
<1>2. TypeOK /\ Unborn /\ Inv /\ [Next]_vars => Inv'
    BY CashStep, RefundsStep, OwedStep
<1>3. Inv => RejectedPaymentIsOwed
    BY DEF CashIsNotPaid, OwedByTheRejection, RejectedPaymentIsOwed
<1> HIDE DEF Inv
<1> QED BY <1>1, <1>2, <1>3, TypesAndUnborn, PTL DEF Spec

----------------------------------------------------------------------------
(* The money of a confirmed booking                                         *)

Kept == {"PENDING_APPROVAL", "CONFIRMED", "COMPLETED"}

\* Whoever writes a payment has seen it, and whoever approves has seen a booking that
\* waited: a booking is not PENDING a second time.
MoneyIsThere ==
    \A b \in Bookings : row[b].type # "FULL_CASH" =>
        /\ Status(b) \in Kept => captured[b]
        /\ \A h \in Payers \cup {"approve"} : At(b, h, "write") => captured[b]

NotPendingAgain ==
    \A b \in Bookings : At(b, "approve", "write") => Status(b) \notin {"NONE", "PENDING"}

\* Until it is revived, what waits or is confirmed says that it is paid.
RowSaysPaid ==
    \A b \in Bookings :
        ~revived[b] /\ row[b].type # "FULL_CASH" /\ Status(b) \in {"PENDING_APPROVAL", "CONFIRMED"}
            => row[b].paid /\ row[b].pay = PaidStatus(b)

LEMMA MoneyStep ==
    ASSUME TypeOK, Unborn, MoneyIsThere, [Next]_vars PROVE MoneyIsThere'
<1> SUFFICES ASSUME NEW b \in Bookings, row[b].type # "FULL_CASH"
             PROVE  /\ Status(b)' \in Kept => captured'[b]
                    /\ \A h \in Payers \cup {"approve"} : At(b, h, "write")' => captured'[b]
    BY TypeStays DEF MoneyIsThere
<1>1. /\ Status(b) \in Kept => captured[b]
      /\ \A h \in Payers \cup {"approve"} : At(b, h, "write") => captured[b]
    BY DEF MoneyIsThere
<1>2. captured[b] => captured'[b]
    BY CaptureStep
<1>3. ASSUME NEW h \in Payers \cup {"approve"}, At(b, h, "write")' PROVE captured[b]
    <2>1. Begins(b, h) => captured[b]
        BY <1>1 DEF Begins, Payers, Visitors, CheckIns, Hooks, Kept
    <2> QED BY <1>1, <1>3, <2>1, BeginStep
<1>4. ASSUME Status(b)' \in Kept PROVE captured[b]
    <2>1. CASE row'[b] = row[b]
        BY <1>1, <1>4, <2>1 DEF Status
    <2>2. CASE Creates(b)
        BY <1>4, <2>2 DEF Creates, Kept
    <2>3. CASE PaysFor(b)
        BY <1>1, <2>3 DEF PaysFor
    <2>4. CASE Decides(b)
        BY <1>1, <1>4, <2>4 DEF Decides, Kept
    <2>5. CASE Orders(b) \/ Notes(b) \/ Reports(b) \/ Completes(b)
        BY <1>1, <1>4, <2>5 DEF Orders, Notes, Reports, Completes, Kept
    <2>6. CASE GivesUp(b) \/ Ends(b)
        BY <1>4, <2>6 DEF GivesUp, Ends, Kept
    <2> QED BY <2>1, <2>2, <2>3, <2>4, <2>5, <2>6, TypeStays DEF Written
<1> QED BY <1>2, <1>3, <1>4

LEMMA WaitedStep ==
    ASSUME TypeOK, Unborn, NotPendingAgain, [Next]_vars PROVE NotPendingAgain'
<1> SUFFICES ASSUME NEW b \in Bookings, At(b, "approve", "write")'
             PROVE  Status(b)' \notin {"NONE", "PENDING"}
    BY DEF NotPendingAgain
<1>1. Status(b) \notin {"NONE", "PENDING"}
    BY BeginStep DEF NotPendingAgain, Begins, Visitors, CheckIns, Hooks
<1>2. StatusMoves(b)
    BY StatusStep
<1>3. ASSUME Status(b)' = "PENDING" PROVE FALSE
    <2>1. CASE row'[b] = row[b]
        BY <1>1, <1>3, <2>1 DEF Status
    <2>2. CASE Creates(b) \/ Orders(b) \/ Notes(b) \/ Reports(b)
        BY <1>1, <1>3, <2>2 DEF Creates, Orders, Notes, Reports
    <2>3. CASE PaysFor(b) \/ Decides(b) \/ GivesUp(b) \/ Ends(b) \/ Completes(b)
        BY <1>3, <2>3 DEF PaysFor, Decides, GivesUp, Ends, Completes
    <2> QED BY <2>1, <2>2, <2>3, TypeStays DEF Written
<1> QED BY <1>1, <1>2, <1>3 DEF StatusMoves

LEMMA SaysPaidStep ==
    ASSUME TypeOK, Unborn, RefundsTheEnded, NotPendingAgain, RowSaysPaid, [Next]_vars
    PROVE  RowSaysPaid'
<1> SUFFICES ASSUME NEW b \in Bookings, ~revived'[b], row'[b].type # "FULL_CASH",
                    Status(b)' \in {"PENDING_APPROVAL", "CONFIRMED"}
             PROVE  row'[b].paid /\ row'[b].pay = PaidStatus(b)'
    BY DEF RowSaysPaid
<1>1. StatusMoves(b) /\ ~revived[b] /\ Status(b) \in Statuses
    BY StatusStep, RowFields DEF StatusMoves, Status
<1>2. row[b].type # "FULL_CASH" /\ PaidStatus(b)' = PaidStatus(b)
    BY TypeStays DEF PaidStatus
<1>3. Status(b) \in {"PENDING_APPROVAL", "CONFIRMED"} => row[b].paid /\ row[b].pay = PaidStatus(b)
    BY <1>1, <1>2 DEF RowSaysPaid
<1>4. CASE row'[b] = row[b]
    BY <1>2, <1>3, <1>4 DEF Status
<1>5. CASE Creates(b)
    BY <1>2, <1>5 DEF Creates
<1>6. CASE Orders(b) \/ Notes(b)
    BY <1>2, <1>3, <1>6 DEF Orders, Notes, SamePay
<1>7. CASE PaysFor(b)
    BY <1>2, <1>7 DEF PaysFor
<1>8. CASE Decides(b)
    <2>1. At(b, "approve", "write") /\ SamePay(b)
        BY <1>8 DEF Decides
    <2>2. Status(b) \in {"PENDING_APPROVAL", "CONFIRMED"}
        BY <1>1, <2>1 DEF NotPendingAgain, StatusMoves, Statuses, Live
    <2> QED BY <1>2, <1>3, <2>1, <2>2 DEF SamePay
<1>9. CASE GivesUp(b) \/ Ends(b) \/ Completes(b)
    BY <1>9 DEF GivesUp, Ends, Completes
<1>10. CASE Reports(b)
    <2>1. PICK h \in Refunders :
              \/ refund[b][h] # "none"
              \/ \E s \in {"processed", "pending", "failed"} : At(b, h, s)
        BY <1>10 DEF Reports
    <2>2. UnderRefund(b, h)
        BY <2>1 DEF UnderRefund
    <2>3. Status(b) \in Over
        BY <1>1, <2>2 DEF RefundsTheEnded
    <2> QED BY <1>10, <2>3 DEF Reports, Over
<1> QED BY <1>4, <1>5, <1>6, <1>7, <1>8, <1>9, <1>10, TypeStays DEF Written

LEMMA MoneyInit == Init => MoneyIsThere /\ NotPendingAgain /\ RowSaysPaid
<1> SUFFICES ASSUME Init, NEW b \in Bookings
             PROVE  Status(b) = "NONE" /\ \A h, s : At(b, h, s) => s = "idle"
    BY DEF MoneyIsThere, NotPendingAgain, RowSaysPaid, Kept
<1>1. row[b].status = "NONE"
    BY FirstRows
<1>2. at = [c \in Bookings |-> [h \in Handlers |-> "idle"]]
    BY DEF Init
<1> QED BY <1>1, <1>2 DEF Status, At

\* However order, confirmation, webhooks, reconciliation, approval, expiry and refunds
\* interleave, no online booking is waiting, confirmed or played whose order was not paid,
\* and the row of one that was not revived says that it was.
THEOREM ConfirmedWasPaid == Spec => []ConfirmedIsPaid
<1> DEFINE Inv == /\ RefundsTheEnded /\ MoneyIsThere /\ NotPendingAgain /\ RowSaysPaid
<1>1. Init => Inv
    BY RefundInit, MoneyInit
<1>2. TypeOK /\ Unborn /\ Inv /\ [Next]_vars => Inv'
    BY RefundsStep, MoneyStep, WaitedStep, SaysPaidStep
<1>3. Inv => ConfirmedIsPaid
    BY DEF MoneyIsThere, RowSaysPaid, ConfirmedIsPaid, Kept
<1> HIDE DEF Inv
<1> QED BY <1>1, <1>2, <1>3, TypesAndUnborn, PTL DEF Spec

----------------------------------------------------------------------------
(* The refund that was promised                                             *)

Requested(b, h) == refund[b][h] # "none" \/ At(b, h, "call") \/ At(b, h, "failed")

\* An answer that is not a failure is an answer to a request.
PromisesAreAsked ==
    \A b \in Bookings :
        /\ row[b].refund = "INITIATED" => \E h \in Refunders : Requested(b, h)
        /\ \A h \in Refunders : At(b, h, "pending") \/ At(b, h, "processed") => refund[b][h] # "none"

\* A request is not forgotten, except when its failure is written.
LEMMA RequestStep ==
    ASSUME TypeOK, ~MayCrash, [Next]_vars, NEW b \in Bookings, NEW h \in Refunders
    PROVE  /\ refund[b][h] # "none" => refund'[b][h] # "none"
           /\ Requested(b, h) => Requested(b, h)' \/ row'[b].refund = "FAILED"
           /\ \/ At(b, h, "pending")' \/ At(b, h, "processed")'
              => At(b, h, "pending") \/ At(b, h, "processed") \/ refund'[b][h] # "none"
<1>1. /\ at \in [Bookings -> [Handlers -> Steps]]
      /\ refund \in [Bookings -> [Refunders -> Refunding]]
    BY DEF TypeOK, Refunding
<1>2. CASE Rests
    BY <1>2 DEF Rests, Requested, At
<1>3. ASSUME NEW c \in Bookings, NEW g \in Refunders, RefundSettles(c, g)
      PROVE  at' = at /\ (refund[b][h] # "none" <=> refund'[b][h] # "none")
    BY <1>1, <1>3 DEF RefundSettles
<1>4. ASSUME NEW c \in Bookings, NEW g \in Refunders, RefundSettles(c, g)
      PROVE  /\ refund[b][h] # "none" => refund'[b][h] # "none"
             /\ Requested(b, h) => Requested(b, h)'
             /\ \/ At(b, h, "pending")' \/ At(b, h, "processed")'
                => At(b, h, "pending") \/ At(b, h, "processed")
    BY <1>3, <1>4 DEF Requested, At
<1>5. ASSUME NEW c \in Bookings, Moves(c)
      PROVE  /\ refund[b][h] # "none" => refund'[b][h] # "none"
             /\ Requested(b, h) => Requested(b, h)' \/ row'[b].refund = "FAILED"
             /\ \/ At(b, h, "pending")' \/ At(b, h, "processed")'
                => At(b, h, "pending") \/ At(b, h, "processed") \/ refund'[b][h] # "none"
    <2>1. PICK g \in Handlers, s \in Steps : MovesTo(c, g, s)
        BY <1>5 DEF Moves
    <2>2. /\ at'[c][g] = s
          /\ \A d \in Bookings, k \in Handlers : d # c \/ k # g => at'[d][k] = at[d][k]
        BY <2>1, GotoStep DEF MovesTo
    <2>3. CASE c = b /\ g = h
        <3>1. RefundGoes(b, h, s)
            BY <2>1, <2>3 DEF MovesTo
        <3>2. CASE At(b, h, "idle") /\ s \in {"idle", "call"} /\ UNCHANGED refund
            BY <2>2, <2>3, <3>2 DEF Requested, At
        <3>3. CASE At(b, h, "call") /\ s = "failed" /\ UNCHANGED refund
            BY <2>2, <2>3, <3>3 DEF Requested, At
        <3>4. ASSUME NEW reply \in {"processed", "pending"}, refund' = [refund EXCEPT ![b][h] = reply]
              PROVE  refund'[b][h] # "none"
            BY <1>1, <3>4
        <3>5. ASSUME NEW t \in {"processed", "pending", "failed", "release"}, At(b, h, t),
                     t = "failed" => row'[b].refund = "FAILED", s = "idle", UNCHANGED refund
              PROVE  /\ Requested(b, h) => Requested(b, h)' \/ row'[b].refund = "FAILED"
                     /\ ~At(b, h, "pending")' /\ ~At(b, h, "processed")'
            BY <2>2, <2>3, <3>5 DEF Requested, At
        <3> QED BY <3>1, <3>2, <3>3, <3>4, <3>5 DEF RefundGoes, Requested
    <2>4. CASE c # b \/ g # h
        <3>1. refund'[b][h] = refund[b][h]
            BY <1>1, <2>1, <2>4 DEF MovesTo, RefundGoes
        <3>2. h \in Handlers => at'[b][h] = at[b][h]
            BY <2>2, <2>4
        <3> QED BY <3>1, <3>2 DEF Requested, At
    <2> QED BY <2>3, <2>4
<1>6. ~Crash
    BY DEF Crash
<1> QED BY <1>2, <1>4, <1>5, <1>6, MoveStep

LEMMA PromisesStep ==
    ASSUME TypeOK, Unborn, ~MayCrash, PromisesAreAsked, [Next]_vars PROVE PromisesAreAsked'
<1>1. ASSUME NEW b \in Bookings, NEW h \in Refunders, At(b, h, "pending")' \/ At(b, h, "processed")'
      PROVE  refund'[b][h] # "none"
    BY <1>1, RequestStep DEF PromisesAreAsked
<1>2. ASSUME NEW b \in Bookings, row'[b].refund = "INITIATED"
      PROVE  \E h \in Refunders : Requested(b, h)'
    <2>1. CASE row[b].refund = "INITIATED"
        <3>1. PICK h \in Refunders : Requested(b, h)
            BY <2>1 DEF PromisesAreAsked
        <3> QED BY <1>2, <3>1, RequestStep
    <2>2. CASE Ends(b)
        <3>1. PICK h \in Refunders : At(b, h, "idle") /\ Goto(b, h, "call")
            BY <1>2, <2>2 DEF Ends
        <3>2. h \in Handlers /\ "call" \in Steps
            BY <3>1 DEF At, Steps
        <3>3. at'[b][h] = "call"
            BY <3>1, <3>2, GotoStep
        <3> QED BY <3>2, <3>3 DEF Requested, At
    <2>3. CASE Reports(b)
        <3>1. PICK h \in Refunders :
                  \/ refund[b][h] # "none"
                  \/ At(b, h, "pending")
            BY <1>2, <2>3 DEF Reports
        <3>2. refund[b][h] # "none"
            BY <3>1 DEF PromisesAreAsked
        <3> QED BY <3>2, RequestStep DEF Requested
    <2>4. CASE Creates(b) \/ Orders(b) \/ PaysFor(b) \/ Notes(b) \/ Decides(b) \/ GivesUp(b) \/ Completes(b)
        <3>1. SameRefund(b)
            BY <2>4 DEF Creates, Orders, PaysFor, Notes, Decides, GivesUp, Completes, SameOrder
        <3> QED BY <1>2, <2>1, <3>1 DEF SameRefund
    <2> QED BY <1>2, <2>1, <2>2, <2>3, <2>4, TypeStays DEF Written
<1> QED BY <1>1, <1>2 DEF PromisesAreAsked

LEMMA PromisesInit == Init => PromisesAreAsked
<1> SUFFICES ASSUME Init, NEW b \in Bookings
             PROVE  row[b].refund # "INITIATED" /\ \A h, s : At(b, h, s) => s = "idle"
    BY Zenon DEF PromisesAreAsked
<1>1. row[b].status = "NONE" /\ row[b].refund = "NONE"
    BY FirstRows
<1>2. at = [c \in Bookings |-> [h \in Handlers |-> "idle"]]
    BY DEF Init
<1> QED BY <1>1, <1>2 DEF Status, At

\* A refund that the row says was INITIATED was asked of Razorpay or is about to be, however
\* its answers, its events and the other handlers interleave: as long as no process dies
\* between the promise and the call.
THEOREM PromiseIsKept ==
    ASSUME ~MayCrash PROVE Spec => []PromisedRefundIsRequested
<1>1. Init => PromisesAreAsked
    BY PromisesInit
<1>2. TypeOK /\ Unborn /\ PromisesAreAsked /\ [Next]_vars => PromisesAreAsked'
    BY PromisesStep
<1>3. PromisesAreAsked => PromisedRefundIsRequested
    BY DEF PromisesAreAsked, PromisedRefundIsRequested, Requested
<1> QED BY <1>1, <1>2, <1>3, TypesAndUnborn, PTL DEF Spec
=============================================================================

----------------------- MODULE BookingLifecycleProofs -----------------------
(****************************************************************************)
(* Proofs about BookingLifecycle, for any set of bookings and handlers, any *)
(* clock bound and any number of retries, with and without crashes.         *)
(****************************************************************************)
EXTENDS BookingLifecycle, TLAPS

Statuses == {"NONE"} \cup Live \cup Over
Pays == {"PENDING", "SUCCESS", "FAILED", "REFUNDED"}
Refunds == {"NONE", "INITIATED", "PROCESSED", "FAILED"}
Gateway == {"none", "pending", "processed", "failed"}

\* A booking that does not exist yet has no handler, order, payment or refund.
Unborn ==
    \A b \in Bookings : Status(b) = "NONE" =>
        /\ \A h \in Handlers : at[b][h] = "idle"
        /\ ~row[b].order /\ ~captured[b] /\ retry[b] = 0
        /\ \A h \in Refunders : refund[b][h] = "none"

----------------------------------------------------------------------------
(* What a step does to the row of a booking: nothing, or it creates the     *)
(* booking, or it writes the row of one that exists.                        *)

Writes(b) == \E new \in Row : /\ Update(b, new)
                             /\ Status(b) # "NONE" /\ new.status # "NONE"

LEMMA RowFields ==
    ASSUME TypeOK, NEW b \in Bookings
    PROVE  /\ row[b] \in Row /\ Status(b) \in Statuses
           /\ row[b].pay \in Pays /\ row[b].refund \in Refunds
           /\ row[b].order \in BOOLEAN /\ row[b].paid \in BOOLEAN
BY DEF TypeOK, Row, Status, Statuses, Pays, Refunds

LEMMA RowIsRow == ASSUME TypeOK, NEW b \in Bookings PROVE row[b] \in Row
BY DEF TypeOK

\* Every write of a row gives it a row: one lemma per set of fields written.
LEMMA SetStatus ==
    ASSUME NEW r \in Row, NEW s \in Statuses
    PROVE  /\ [r EXCEPT !.status = s] \in Row
           /\ [r EXCEPT !.status = s].status = s
BY DEF Row, Statuses, Pays, Refunds

LEMMA SetOrder ==
    ASSUME NEW r \in Row, NEW o \in BOOLEAN
    PROVE  /\ [r EXCEPT !.order = o] \in Row
           /\ [r EXCEPT !.order = o].status = r.status
BY DEF Row, Statuses, Pays, Refunds

LEMMA SetPaid ==
    ASSUME NEW r \in Row, NEW d \in BOOLEAN
    PROVE  /\ [r EXCEPT !.paid = d] \in Row
           /\ [r EXCEPT !.paid = d].status = r.status
BY DEF Row, Statuses, Pays, Refunds

LEMMA SetRefund ==
    ASSUME NEW r \in Row, NEW f \in Refunds
    PROVE  /\ [r EXCEPT !.refund = f] \in Row
           /\ [r EXCEPT !.refund = f].status = r.status
BY DEF Row, Statuses, Pays, Refunds

LEMMA SetPayRefund ==
    ASSUME NEW r \in Row, NEW p \in Pays, NEW f \in Refunds
    PROVE  /\ [r EXCEPT !.pay = p, !.refund = f] \in Row
           /\ [r EXCEPT !.pay = p, !.refund = f].status = r.status
BY DEF Row, Statuses, Pays, Refunds

LEMMA SetStatusPay ==
    ASSUME NEW r \in Row, NEW s \in Statuses, NEW p \in Pays
    PROVE  /\ [r EXCEPT !.status = s, !.pay = p] \in Row
           /\ [r EXCEPT !.status = s, !.pay = p].status = s
BY DEF Row, Statuses, Pays, Refunds

LEMMA SetStatusPayPaid ==
    ASSUME NEW r \in Row, NEW s \in Statuses, NEW p \in Pays, NEW d \in BOOLEAN
    PROVE  /\ [r EXCEPT !.status = s, !.pay = p, !.paid = d] \in Row
           /\ [r EXCEPT !.status = s, !.pay = p, !.paid = d].status = s
BY DEF Row, Statuses, Pays, Refunds

LEMMA SetStatusPayRefund ==
    ASSUME NEW r \in Row, NEW s \in Statuses, NEW p \in Pays, NEW f \in Refunds
    PROVE  /\ [r EXCEPT !.status = s, !.pay = p, !.refund = f] \in Row
           /\ [r EXCEPT !.status = s, !.pay = p, !.refund = f].status = s
BY DEF Row, Statuses, Pays, Refunds

LEMMA SetPayment ==
    ASSUME NEW r \in Row, NEW s \in Statuses, NEW p \in Pays, NEW o \in BOOLEAN, NEW d \in BOOLEAN
    PROVE  /\ [r EXCEPT !.status = s, !.pay = p, !.order = o, !.paid = d] \in Row
           /\ [r EXCEPT !.status = s, !.pay = p, !.order = o, !.paid = d].status = s
BY DEF Row, Statuses, Pays, Refunds

\* A handler that is under way belongs to a booking that exists.
LEMMA Born ==
    ASSUME Unborn, NEW b \in Bookings, NEW h, NEW s \in Steps \ {"idle"}, At(b, h, s)
    PROVE  Status(b) # "NONE"
BY DEF Unborn, At, Steps

\* One lemma per operation that writes the row.
LEMMA OrderWrites ==
    ASSUME TypeOK, Unborn, NEW b \in Bookings, OrderWrite(b) PROVE Writes(b)
<1>1. Status(b) # "NONE"
    BY Born DEF OrderWrite, Steps
<1> DEFINE new == [row[b] EXCEPT !.order = TRUE]
<1>2. new \in Row /\ new.status = Status(b)
    BY RowFields, SetOrder DEF Status
<1>3. Update(b, new)
    BY DEF OrderWrite
<1> QED BY <1>1, <1>2, <1>3 DEF Writes

LEMMA PaidRow ==
    ASSUME TypeOK, NEW b \in Bookings, NEW s \in Live
    PROVE  Paid(b, s) \in Row /\ Paid(b, s).status = s
<1>1. s \in Statuses /\ PaidStatus(b) \in Pays
    BY DEF Statuses, PaidStatus, Pays
<1>2. row[b] \in Row /\ TRUE \in BOOLEAN
    BY RowIsRow
<1> QED BY <1>1, <1>2, SetPayment, ZenonT(60) DEF Paid

LEMMA ConfirmWrites ==
    ASSUME TypeOK, Unborn, NEW b \in Bookings, ConfirmWrite(b) \/ ConfirmDeny(b)
    PROVE  Writes(b)
<1>1. Status(b) # "NONE"
    BY Born DEF ConfirmWrite, ConfirmDeny, Steps
<1>2. CASE ConfirmWrite(b)
    <2>1. Paid(b, "CONFIRMED") \in Row /\ Paid(b, "CONFIRMED").status # "NONE"
        BY PaidRow DEF Live
    <2>2. Update(b, Paid(b, "CONFIRMED"))
        BY <1>2 DEF ConfirmWrite
    <2> QED BY <1>1, <2>1, <2>2 DEF Writes
<1>3. CASE ConfirmDeny(b)
    <2> DEFINE new == [row[b] EXCEPT !.status = "CANCELLED", !.pay = "FAILED"]
    <2>1. "CANCELLED" \in Statuses /\ "FAILED" \in Pays
        BY DEF Statuses, Over, Pays
    <2>3. new \in Row /\ new.status = "CANCELLED"
        BY <2>1, RowIsRow, SetStatusPay
    <2>2. Update(b, new)
        BY <1>3 DEF ConfirmDeny
    <2> QED BY <1>1, <2>2, <2>3 DEF Writes
<1> QED BY <1>2, <1>3

LEMMA HookReadWrites ==
    ASSUME TypeOK, Unborn, NEW b \in Bookings, NEW h \in Hooks, HookRead(b, h)
    PROVE  Writes(b) \/ UNCHANGED noRow
<1>1. Status(b) # "NONE"
    BY DEF HookRead, Unborn
<1> DEFINE new == [row[b] EXCEPT !.paid = TRUE]
<1>2. new \in Row /\ new.status = Status(b)
    BY RowFields, SetPaid DEF Status
<1>3. Update(b, new) \/ UNCHANGED noRow
    BY DEF HookRead, noRow
<1> QED BY <1>1, <1>2, <1>3 DEF Writes

LEMMA HookWriteWrites ==
    ASSUME TypeOK, Unborn, NEW b \in Bookings, NEW h \in Hooks, HookWrite(b, h)
    PROVE  Writes(b) \/ UNCHANGED noRow
<1>1. Status(b) # "NONE"
    BY Born DEF HookWrite, Steps
<1> DEFINE s == IF Manual THEN "PENDING_APPROVAL" ELSE "CONFIRMED"
<1>2. s \in Live /\ s # "NONE"
    BY DEF Live
<1>3. Update(b, Paid(b, s)) \/ UNCHANGED noRow
    BY DEF HookWrite, noRow
<1> HIDE DEF s
<1>4. Paid(b, s) \in Row /\ Paid(b, s).status = s
    BY <1>2, PaidRow
<1> QED BY <1>1, <1>2, <1>3, <1>4 DEF Writes

LEMMA RefundHookWrites ==
    ASSUME TypeOK, Unborn, NEW b \in Bookings, NEW h \in Refunders,
           NEW event \in {"created", "processed", "failed"}, RefundHook(b, h, event)
    PROVE  Writes(b)
<1>1. Status(b) # "NONE"
    BY DEF RefundHook, RefundEvent, Unborn
<1>2. row[b] \in Row
    BY RowFields
<1>3. CASE event = "created"
    <2> DEFINE new == [row[b] EXCEPT !.refund = "INITIATED"]
    <2>1. new \in Row /\ new.status = Status(b)
        <3>1. "INITIATED" \in Refunds
            BY DEF Refunds
        <3> QED BY <1>2, <3>1, SetRefund DEF Status
    <2>2. Update(b, new)
        BY <1>3 DEF RefundHook
    <2> QED BY <1>1, <2>1, <2>2 DEF Writes
<1>4. CASE event = "processed"
    <2> DEFINE new == [row[b] EXCEPT !.pay = "REFUNDED", !.refund = "PROCESSED"]
    <2>1. new \in Row /\ new.status = Status(b)
        <3>1. "REFUNDED" \in Pays /\ "PROCESSED" \in Refunds
            BY DEF Pays, Refunds
        <3> QED BY <1>2, <3>1, SetPayRefund DEF Status
    <2>2. Update(b, new)
        BY <1>4 DEF RefundHook
    <2> QED BY <1>1, <2>1, <2>2 DEF Writes
<1>5. CASE event = "failed"
    <2> DEFINE p == IF row[b].type = "HALF_ONLINE_HALF_CASH" THEN "PENDING" ELSE "SUCCESS"
               new == [row[b] EXCEPT !.pay = p, !.refund = "FAILED"]
    <2>1. new \in Row /\ new.status = Status(b)
        <3>1. p \in Pays /\ "FAILED" \in Refunds
            BY DEF Pays, Refunds
        <3> HIDE DEF p
        <3> QED BY <1>2, <3>1, SetPayRefund DEF Status
    <2>2. Update(b, new)
        BY <1>5 DEF RefundHook
    <2> QED BY <1>1, <2>1, <2>2 DEF Writes
<1> QED BY <1>3, <1>4, <1>5

LEMMA ReconcileWrites ==
    ASSUME TypeOK, Unborn, NEW b \in Bookings, ReconcileWrite(b) PROVE Writes(b)
<1>1. Status(b) # "NONE"
    BY Born DEF ReconcileWrite, Steps
<1> DEFINE new == [Paid(b, "CONFIRMED") EXCEPT !.order = row[b].order]
<1>2. new \in Row /\ new.status # "NONE"
    <2>1. Paid(b, "CONFIRMED") \in Row /\ Paid(b, "CONFIRMED").status = "CONFIRMED"
        BY PaidRow DEF Live
    <2> QED BY <2>1, RowFields, SetOrder
<1>3. Update(b, new)
    BY DEF ReconcileWrite
<1> QED BY <1>1, <1>2, <1>3 DEF Writes

LEMMA GiveUpWrites ==
    ASSUME TypeOK, Unborn, NEW b \in Bookings, NEW h \in {"fail", "expire"}, GiveUpWrite(b, h)
    PROVE  Writes(b)
<1>1. Status(b) # "NONE"
    BY Born DEF GiveUpWrite, Steps
<1> DEFINE d == IF h = "fail" THEN FALSE ELSE row[b].paid
           new == [row[b] EXCEPT !.status = "CANCELLED", !.pay = "FAILED", !.paid = d]
<1>2. Update(b, new)
    BY DEF GiveUpWrite
<1>3. d \in BOOLEAN
    BY RowFields
<1> HIDE DEF d
<1>4. new \in Row /\ new.status # "NONE"
    <2>1. "CANCELLED" \in Statuses /\ "FAILED" \in Pays
        BY DEF Statuses, Over, Pays
    <2>2. new \in Row /\ new.status = "CANCELLED"
        <3>1. row[b] \in Row
            BY RowIsRow
        <3>2. \A x \in Statuses, y \in Pays, z \in BOOLEAN :
                 LET u == [row[b] EXCEPT !.status = x, !.pay = y, !.paid = z]
                 IN  u \in Row /\ u.status = x
            BY <3>1, SetStatusPayPaid, Zenon
        <3> QED BY <1>3, <2>1, <3>2, Zenon
    <2> QED BY <2>2
<1> QED BY <1>1, <1>2, <1>4 DEF Writes

LEMMA EndBookingWrites ==
    ASSUME TypeOK, NEW b \in Bookings, Status(b) # "NONE", NEW h,
           NEW s \in {"CANCELLED", "REJECTED"}, NEW due, EndBooking(b, h, s, due)
    PROVE  Writes(b)
<1> DEFINE p == IF row[b].pay = "PENDING" THEN "FAILED" ELSE row[b].pay
           f == IF due THEN "INITIATED" ELSE "NONE"
           new == [row[b] EXCEPT !.status = s, !.pay = p, !.refund = f]
<1>1. Update(b, new)
    BY DEF EndBooking
<1>2. p \in Pays /\ f \in Refunds
    BY RowFields DEF Pays, Refunds
<1> HIDE DEF p, f
<1>3. s \in Statuses /\ s # "NONE"
    BY DEF Statuses, Over
<1>5. row[b] \in Row
    BY RowIsRow
<1>4. new \in Row /\ new.status = s
    <2>1. \A x \in Statuses, y \in Pays, z \in Refunds :
             LET u == [row[b] EXCEPT !.status = x, !.pay = y, !.refund = z]
             IN  u \in Row /\ u.status = x
        BY <1>5, SetStatusPayRefund, Zenon
    <2> QED BY <1>2, <1>3, <2>1, Zenon
<1> QED BY <1>1, <1>3, <1>4 DEF Writes

LEMMA EndingWrites ==
    ASSUME TypeOK, NEW b \in Bookings, CancelBooking(b) \/ RejectBooking(b)
    PROVE  Writes(b)
<1>1. Status(b) # "NONE"
    BY DEF CancelBooking, RejectBooking, Live
<1>2. CASE CancelBooking(b)
    <2>1. PICK due \in BOOLEAN : EndBooking(b, "cancel", "CANCELLED", due)
        BY <1>2 DEF CancelBooking
    <2> QED BY <1>1, <2>1, EndBookingWrites
<1>3. CASE RejectBooking(b)
    <2>1. EndBooking(b, "reject", "REJECTED", PaidOnline(b))
        BY <1>3 DEF RejectBooking
    <2> QED BY <1>1, <2>1, EndBookingWrites
<1> QED BY <1>2, <1>3

LEMMA RefundWrites ==
    ASSUME TypeOK, Unborn, NEW b \in Bookings, NEW h \in Refunders, RefundWrite(b, h)
    PROVE  Writes(b)
<1>1. Status(b) # "NONE"
    BY Born DEF RefundWrite, Steps
<1>2. row[b] \in Row
    BY RowFields
<1>3. ASSUME NEW f \in Refunds, Update(b, [row[b] EXCEPT !.pay = "REFUNDED", !.refund = f])
      PROVE  Writes(b)
    <2> DEFINE new == [row[b] EXCEPT !.pay = "REFUNDED", !.refund = f]
    <2>1. new \in Row /\ new.status = Status(b)
        <3>1. "REFUNDED" \in Pays
            BY DEF Pays
        <3> QED BY <1>2, <3>1, SetPayRefund DEF Status
    <2> QED BY <1>1, <1>3, <2>1 DEF Writes
<1>4. ASSUME Update(b, [row[b] EXCEPT !.refund = "FAILED"]) PROVE Writes(b)
    <2> DEFINE new == [row[b] EXCEPT !.refund = "FAILED"]
    <2>1. new \in Row /\ new.status = Status(b)
        <3>1. "FAILED" \in Refunds
            BY DEF Refunds
        <3> QED BY <1>2, <3>1, SetRefund DEF Status
    <2> QED BY <1>1, <1>4, <2>1 DEF Writes
<1> QED BY <1>3, <1>4 DEF RefundWrite, Refunds

\* Writes that set the status and nothing else.
LEMMA StatusWrites ==
    ASSUME TypeOK, Unborn, NEW b \in Bookings,
           ApproveWrite(b) \/ NoShowWrite(b) \/ AdminNoShow(b)
    PROVE  Writes(b)
<1>1. Status(b) # "NONE"
    BY Born DEF ApproveWrite, NoShowWrite, AdminNoShow, Steps
<1>2. PICK s \in {"CONFIRMED", "NO_SHOW"} : Update(b, [row[b] EXCEPT !.status = s])
    BY DEF ApproveWrite, NoShowWrite, AdminNoShow
<1> DEFINE new == [row[b] EXCEPT !.status = s]
<1>3. new \in Row /\ new.status # "NONE"
    <2>1. s \in Statuses /\ s # "NONE"
        BY DEF Statuses, Live, Over
    <2>2. new \in Row /\ new.status = s
        BY <2>1, RowFields, SetStatus
    <2> QED BY <2>1, <2>2
<1> QED BY <1>1, <1>2, <1>3 DEF Writes

LEMMA VisitWrites ==
    ASSUME TypeOK, NEW b \in Bookings, NEW h, VisitWrite(b, h)
    PROVE  Writes(b) \/ UNCHANGED noRow
<1>1. CASE Status(b) # "CONFIRMED"
    BY <1>1 DEF VisitWrite, noRow
<1>2. CASE Status(b) = "CONFIRMED"
    <2> DEFINE p == IF h \in CheckIns THEN "SUCCESS" ELSE row[b].pay
               new == [row[b] EXCEPT !.status = "COMPLETED", !.pay = p]
    <2>1. Update(b, new)
        BY <1>2 DEF VisitWrite
    <2>2. p \in Pays
        BY RowFields DEF Pays
    <2> HIDE DEF p
    <2>3. new \in Row /\ new.status # "NONE"
        <3>1. "COMPLETED" \in Statuses
            BY DEF Statuses, Over
        <3>2. new \in Row /\ new.status = "COMPLETED"
            BY <2>2, <3>1, RowIsRow, SetStatusPay
        <3> QED BY <3>2
    <2> QED BY <1>2, <2>1, <2>3 DEF Writes
<1> QED BY <1>1, <1>2

LEMMA PaymentWrites ==
    ASSUME TypeOK, Unborn, NEW b \in Bookings, Payment(b)
    PROVE  Writes(b) \/ UNCHANGED noRow
<1>1. CASE OrderWrite(b) \/ ConfirmWrite(b) \/ ConfirmDeny(b) \/ ReconcileWrite(b)
    BY <1>1, OrderWrites, ConfirmWrites, ReconcileWrites
<1>2. CASE \E h \in Hooks : HookRead(b, h) \/ HookWrite(b, h)
    BY <1>2, HookReadWrites, HookWriteWrites
<1>3. CASE \E h \in {"fail", "expire"} : GiveUpRead(b, h) \/ GiveUpWrite(b, h)
    BY <1>3, GiveUpWrites DEF GiveUpRead
<1>4. CASE OrderRead(b) \/ OrderCreate(b) \/ Capture(b) \/ ConfirmRead(b)
           \/ ReconcileRead(b) \/ ReconcileFails(b)
    BY <1>4 DEF OrderRead, OrderCreate, Capture, ConfirmRead, ReconcileRead, ReconcileFails
<1> QED BY <1>1, <1>2, <1>3, <1>4 DEF Payment

LEMMA OwnerWrites ==
    ASSUME TypeOK, Unborn, NEW b \in Bookings, Ending(b)
    PROVE  Writes(b) \/ UNCHANGED noRow
<1>1. CASE CancelBooking(b) \/ RejectBooking(b)
    BY <1>1, EndingWrites
<1>2. CASE ApproveRead(b) \/ ApproveWrite(b)
    BY <1>2, StatusWrites DEF ApproveRead
<1>3. CASE \E h \in Refunders : RefundCall(b, h) \/ RefundWrite(b, h) \/ RefundSettles(b, h)
    BY <1>3, RefundWrites DEF RefundCall, RefundSettles
<1>4. CASE \E h \in Refunders, event \in {"created", "processed", "failed"} :
              RefundHook(b, h, event)
    BY <1>4, RefundHookWrites
<1> QED BY <1>1, <1>2, <1>3, <1>4 DEF Ending

LEMMA VisitingWrites ==
    ASSUME TypeOK, Unborn, NEW b \in Bookings, Visit(b)
    PROVE  Writes(b) \/ UNCHANGED noRow
<1>1. CASE \E h \in CheckIns \cup {"autocomplete"} : VisitRead(b, h) \/ VisitWrite(b, h)
    BY <1>1, VisitWrites DEF VisitRead
<1>2. CASE NoShowRead(b) \/ NoShowWrite(b) \/ AdminNoShow(b)
    BY <1>2, StatusWrites DEF NoShowRead
<1> QED BY <1>1, <1>2 DEF Visit

\* Every step leaves all rows alone, or creates one booking, or writes one row
\* of a booking that exists.
LEMMA RowStep ==
    ASSUME TypeOK, Unborn, [Next]_vars
    PROVE  \/ UNCHANGED noRow
           \/ \E b \in Bookings : CreateBooking(b) \/ Writes(b)
<1>1. CASE UNCHANGED vars
    BY <1>1 DEF vars, noRow
<1>2. CASE Crash \/ Tick
    BY <1>2 DEF Crash, Tick
<1>3. ASSUME NEW b \in Bookings, Housekeeping(b)
      PROVE  CreateBooking(b) \/ UNCHANGED noRow
    BY <1>3 DEF Housekeeping, SlotLockExpires, ReleaseSlotLock, KeyExpires
<1>4. ASSUME NEW b \in Bookings, Payment(b) \/ Ending(b) \/ Visit(b)
      PROVE  Writes(b) \/ UNCHANGED noRow
    BY <1>4, PaymentWrites, OwnerWrites, VisitingWrites
<1> QED BY <1>1, <1>2, <1>3, <1>4 DEF Next

----------------------------------------------------------------------------
(* What a written row does to the status and to the revived flag.           *)

LEMMA UpdateStatus ==
    ASSUME TypeOK, NEW b \in Bookings, NEW new \in Row, Update(b, new)
    PROVE  /\ row' \in [Bookings -> Row] /\ revived' \in [Bookings -> BOOLEAN]
           /\ \A c \in Bookings \ {b} : row'[c] = row[c] /\ revived'[c] = revived[c]
           /\ row'[b] = new /\ Status(b)' = new.status
           /\ revived'[b] = (revived[b] \/ (Status(b) \in Over /\ new.status \in Live))
<1>1. row' = [row EXCEPT ![b] = new] /\ row \in [Bookings -> Row]
    BY DEF Update, TypeOK
<1>2. /\ revived' = [revived EXCEPT
             ![b] = revived[b] \/ (Status(b) \in Over /\ new.status \in Live)]
      /\ revived \in [Bookings -> BOOLEAN]
    BY DEF Update, TypeOK
<1>3. row' \in [Bookings -> Row] /\ revived' \in [Bookings -> BOOLEAN]
    BY <1>1, <1>2
<1>4. row'[b] = new /\ \A c \in Bookings \ {b} : row'[c] = row[c]
    BY <1>1
<1>5. /\ revived'[b] = (revived[b] \/ (Status(b) \in Over /\ new.status \in Live))
      /\ \A c \in Bookings \ {b} : revived'[c] = revived[c]
    BY <1>2, Zenon
<1> QED BY <1>3, <1>4, <1>5 DEF Status

LEMMA CreatedRow ==
    ASSUME TypeOK, NEW b \in Bookings, CreateBooking(b)
    PROVE  \E new \in Row : Update(b, new) /\ new.status \in Live
<1> DEFINE s == IF ~(row[b].type = "FULL_CASH") THEN "PENDING"
                ELSE IF Manual THEN "PENDING_APPROVAL" ELSE "CONFIRMED"
           new == [row[b] EXCEPT !.status = s]
<1>1. Update(b, new)
    BY DEF CreateBooking
<1>2. s \in Live /\ s \in Statuses
    BY DEF Live, Statuses
<1> HIDE DEF s
<1>3. new \in Row /\ new.status = s
    BY <1>2, RowIsRow, SetStatus
<1> QED BY <1>1, <1>2, <1>3

\* How the status of a booking may change in one step.
StatusMoves(b) ==
    /\ revived[b] => revived'[b]
    /\ Status(b) \in Over /\ Status(b)' \in Live => revived'[b]
    /\ Status(b)' \in Live /\ Status(b) \notin Live => CreateBooking(b) \/ revived'[b]
    /\ Status(b) # "NONE" => Status(b)' # "NONE"
    /\ Status(b)' = "NONE" => row'[b] = row[b]

LEMMA StatusStep ==
    ASSUME TypeOK, Unborn, [Next]_vars
    PROVE  /\ row' \in [Bookings -> Row] /\ revived' \in [Bookings -> BOOLEAN]
           /\ \A b \in Bookings : StatusMoves(b)
<1>1. CASE UNCHANGED noRow
    BY <1>1 DEF TypeOK, noRow, StatusMoves, Status, Live, Over
<1>2. ASSUME NEW c \in Bookings, CreateBooking(c)
      PROVE  /\ row' \in [Bookings -> Row] /\ revived' \in [Bookings -> BOOLEAN]
             /\ \A b \in Bookings : StatusMoves(b)
    <2>1. PICK new \in Row : Update(c, new) /\ new.status \in Live
        BY <1>2, CreatedRow
    <2>2. Status(c) = "NONE"
        BY <1>2 DEF CreateBooking
    <2>3. /\ row' \in [Bookings -> Row] /\ revived' \in [Bookings -> BOOLEAN]
          /\ \A d \in Bookings \ {c} : row'[d] = row[d] /\ revived'[d] = revived[d]
          /\ row'[c] = new /\ Status(c)' = new.status
          /\ revived'[c] = (revived[c] \/ (Status(c) \in Over /\ new.status \in Live))
        BY <2>1, UpdateStatus
    <2>4. StatusMoves(c)
        BY <1>2, <2>1, <2>2, <2>3 DEF StatusMoves, Live, Over
    <2>5. ASSUME NEW b \in Bookings \ {c} PROVE StatusMoves(b)
        BY <2>3, <2>5 DEF StatusMoves, Status, Live, Over
    <2> QED BY <2>3, <2>4, <2>5
<1>3. ASSUME NEW c \in Bookings, Writes(c)
      PROVE  /\ row' \in [Bookings -> Row] /\ revived' \in [Bookings -> BOOLEAN]
             /\ \A b \in Bookings : StatusMoves(b)
    <2>1. PICK new \in Row : Update(c, new) /\ Status(c) # "NONE" /\ new.status # "NONE"
        BY <1>3 DEF Writes
    <2>2. Status(c) \in Statuses
        BY RowFields
    <2>3. /\ row' \in [Bookings -> Row] /\ revived' \in [Bookings -> BOOLEAN]
          /\ \A d \in Bookings \ {c} : row'[d] = row[d] /\ revived'[d] = revived[d]
          /\ row'[c] = new /\ Status(c)' = new.status
          /\ revived'[c] = (revived[c] \/ (Status(c) \in Over /\ new.status \in Live))
        BY <2>1, UpdateStatus
    <2>4. StatusMoves(c)
        BY <2>1, <2>2, <2>3 DEF StatusMoves, Statuses
    <2>5. ASSUME NEW b \in Bookings \ {c} PROVE StatusMoves(b)
        BY <2>3, <2>5 DEF StatusMoves, Status, Live, Over
    <2> QED BY <2>3, <2>4, <2>5
<1> QED BY <1>1, <1>2, <1>3, RowStep

----------------------------------------------------------------------------
(* What a step does to everything but the rows.                             *)

Refunding == {"none", "pending", "processed", "failed"}

FlagsOK ==
    /\ locked \in [Bookings -> BOOLEAN]
    /\ keys \in [Bookings -> SUBSET {"order", "confirm"}]
    /\ awards \in [Bookings -> 0 .. 2]
    /\ clock \in 0 .. 4

HandlersOK ==
    /\ at \in [Bookings -> [Handlers -> Steps]]
    /\ retry \in [Bookings -> 0 .. RetryAttempts]
    /\ captured \in [Bookings -> BOOLEAN]
    /\ refund \in [Bookings -> [Refunders -> Refunding]]

\* The step of a handler touches the handlers, the jobs and the payments of its
\* own booking only, which exists.
Own(b) ==
    /\ HandlersOK'
    /\ Status(b) # "NONE"
    /\ \A c \in Bookings \ {b} :
          /\ at'[c] = at[c] /\ retry'[c] = retry[c]
          /\ captured'[c] = captured[c] /\ refund'[c] = refund[c]

noHandlers == <<at, retry, captured, refund>>

\* A handler moves on; it leaves everything; it moves on or not and writes its job.
LEMMA Moved ==
    ASSUME TypeOK, NEW b \in Bookings, Status(b) # "NONE",
           NEW h \in Handlers, NEW s \in Steps, Goto(b, h, s),
           UNCHANGED <<retry, captured, refund>>
    PROVE  Own(b)
BY DEF TypeOK, Goto, Own, HandlersOK, Refunding

LEMMA Stayed ==
    ASSUME TypeOK, NEW b \in Bookings, Status(b) # "NONE", UNCHANGED noHandlers
    PROVE  Own(b)
BY DEF TypeOK, noHandlers, Own, HandlersOK, Refunding

LEMMA MovedJob ==
    ASSUME TypeOK, NEW b \in Bookings, Status(b) # "NONE",
           NEW n \in 0 .. RetryAttempts, retry' = [retry EXCEPT ![b] = n],
           UNCHANGED at \/ \E h \in Handlers, s \in Steps : Goto(b, h, s),
           UNCHANGED <<captured, refund>>
    PROVE  Own(b)
<1>1. CASE UNCHANGED at
    BY <1>1 DEF TypeOK, Own, HandlersOK, Refunding
<1>2. ASSUME NEW h \in Handlers, NEW s \in Steps, Goto(b, h, s) PROVE Own(b)
    BY <1>2 DEF TypeOK, Goto, Own, HandlersOK, Refunding
<1> QED BY <1>1, <1>2

LEMMA OrderOwn ==
    ASSUME TypeOK, Unborn, NEW b \in Bookings,
           OrderRead(b) \/ OrderCreate(b) \/ OrderWrite(b) \/ Capture(b)
    PROVE  Own(b)
<1>1. Status(b) # "NONE"
    BY Born DEF OrderRead, OrderCreate, OrderWrite, Capture, Unborn, Steps
<1>2. CASE OrderRead(b) \/ OrderCreate(b) \/ OrderWrite(b)
    BY <1>1, <1>2, Moved DEF OrderRead, OrderCreate, OrderWrite, At, Steps, noGateway
<1>3. CASE Capture(b)
    BY <1>1, <1>3 DEF Capture, TypeOK, Own, HandlersOK, Refunding
<1> QED BY <1>2, <1>3

LEMMA ConfirmOwn ==
    ASSUME TypeOK, Unborn, NEW b \in Bookings,
           ConfirmRead(b) \/ ConfirmWrite(b) \/ ConfirmDeny(b)
    PROVE  Own(b)
<1>1. Status(b) # "NONE"
    BY Born DEF ConfirmRead, ConfirmWrite, ConfirmDeny, Steps
<1>2. CASE ConfirmWrite(b) \/ ConfirmDeny(b)
    BY <1>1, <1>2, Moved DEF ConfirmWrite, ConfirmDeny, At, Steps, noGateway
<1>3. CASE ConfirmRead(b)
    <2>1. "confirm" \in Handlers /\ UNCHANGED <<retry, captured, refund>>
        BY <1>3 DEF ConfirmRead, At, noGateway
    <2>2. CASE UNCHANGED at
        BY <1>1, <2>1, <2>2, Stayed DEF noHandlers
    <2>3. CASE \E s \in {"release", "write", "deny"} : Goto(b, "confirm", s)
        BY <1>1, <2>1, <2>3, Moved DEF Steps
    <2> QED BY <1>3, <2>2, <2>3 DEF ConfirmRead
<1> QED BY <1>2, <1>3

LEMMA HookOwn ==
    ASSUME TypeOK, Unborn, NEW b \in Bookings, NEW h \in Hooks,
           HookRead(b, h) \/ HookWrite(b, h)
    PROVE  Own(b)
<1>1. Status(b) # "NONE"
    BY Born DEF HookRead, HookWrite, Unborn, Steps
<1>2. h \in Handlers /\ UNCHANGED <<captured, refund>>
    BY DEF HookRead, HookWrite, At, noGateway
<1>3. CASE UNCHANGED retry
    <2>1. \E s \in Steps : Goto(b, h, s) \/ UNCHANGED at
        BY DEF HookRead, HookWrite, Steps
    <2> QED BY <1>1, <1>2, <1>3, <2>1, Moved, Stayed DEF noHandlers
<1>4. CASE EnqueueRetry(b)
    <2>1. RetryAttempts \in 0 .. RetryAttempts
        BY LifecycleAssumption
    <2>2. UNCHANGED at \/ \E g \in Handlers, s \in Steps : Goto(b, g, s)
        BY <1>2 DEF HookRead, HookWrite, Steps
    <2> QED BY <1>1, <1>2, <1>4, <2>1, <2>2, MovedJob DEF EnqueueRetry
<1> QED BY <1>3, <1>4 DEF HookRead, HookWrite

LEMMA ReconcileOwn ==
    ASSUME TypeOK, Unborn, NEW b \in Bookings,
           ReconcileRead(b) \/ ReconcileWrite(b) \/ ReconcileFails(b)
    PROVE  Own(b)
<1>1. Status(b) # "NONE"
    BY Born DEF ReconcileRead, ReconcileWrite, ReconcileFails, Unborn, Steps
<1>2. retry[b] \in 0 .. RetryAttempts /\ RetryAttempts \in Nat
    BY LifecycleAssumption DEF TypeOK
<1>3. 0 \in 0 .. RetryAttempts
    BY <1>2
<1>4. CASE ReconcileRead(b)
    <2>1. "reconcile" \in Handlers /\ UNCHANGED <<captured, refund>>
        BY <1>4 DEF ReconcileRead, At, noGateway
    <2>2. CASE retry' = [retry EXCEPT ![b] = 0] /\ UNCHANGED at
        BY <1>1, <1>3, <2>1, <2>2, MovedJob
    <2>3. CASE Goto(b, "reconcile", "write") /\ UNCHANGED retry
        BY <1>1, <2>1, <2>3, Moved DEF Steps
    <2> QED BY <1>4, <2>2, <2>3 DEF ReconcileRead
<1>5. CASE ReconcileWrite(b)
    BY <1>1, <1>5, Moved DEF ReconcileWrite, At, Steps, noGateway
<1>6. CASE ReconcileFails(b)
    <2>1. /\ UNCHANGED <<captured, refund>> /\ retry' = [retry EXCEPT ![b] = retry[b] - 1]
          /\ \E g \in Handlers, s \in Steps : Goto(b, g, s)
        BY <1>6 DEF ReconcileFails, noGateway, Steps
    <2>2. retry[b] - 1 \in 0 .. RetryAttempts
        BY <1>2, <1>6 DEF ReconcileFails
    <2> QED BY <1>1, <2>1, <2>2, MovedJob
<1> QED BY <1>4, <1>5, <1>6

LEMMA GiveUpOwn ==
    ASSUME TypeOK, Unborn, NEW b \in Bookings, NEW h \in {"fail", "expire"},
           GiveUpRead(b, h) \/ GiveUpWrite(b, h)
    PROVE  Own(b)
<1>1. Status(b) # "NONE"
    BY Born DEF GiveUpRead, GiveUpWrite, Steps
<1> QED BY <1>1, Moved DEF GiveUpRead, GiveUpWrite, At, Steps, noGateway

LEMMA EndBookingOwn ==
    ASSUME TypeOK, NEW b \in Bookings, CancelBooking(b) \/ RejectBooking(b)
    PROVE  Own(b)
<1>1. Status(b) # "NONE"
    BY DEF CancelBooking, RejectBooking, Live
<1>2. ASSUME NEW h, NEW s, NEW due, EndBooking(b, h, s, due)
      PROVE  Own(b)
    <2>1. h \in Handlers /\ UNCHANGED <<retry, captured, refund>>
        BY <1>2 DEF EndBooking, At, noGateway
    <2>2. \E step \in Steps : Goto(b, h, step)
        BY <1>2 DEF EndBooking, Steps
    <2> QED BY <1>1, <2>1, <2>2, Moved
<1> QED BY <1>2 DEF CancelBooking, RejectBooking

LEMMA RefundOwn ==
    ASSUME TypeOK, Unborn, NEW b \in Bookings, NEW h \in Refunders,
           RefundCall(b, h) \/ RefundWrite(b, h) \/ RefundSettles(b, h)
    PROVE  Own(b)
<1>1. Status(b) # "NONE"
    BY Born DEF RefundCall, RefundWrite, RefundSettles, Unborn, Steps
<1>2. CASE RefundWrite(b, h)
    BY <1>1, <1>2, Moved DEF RefundWrite, At, Steps, noGateway
<1>3. CASE RefundSettles(b, h)
    BY <1>1, <1>3 DEF RefundSettles, TypeOK, Own, HandlersOK, Refunding
<1>4. CASE RefundCall(b, h)
    <2>1. h \in Handlers /\ UNCHANGED <<retry, captured>>
        BY <1>4 DEF RefundCall, At
    <2>2. PICK s \in {"processed", "pending", "failed"} : Goto(b, h, s)
        BY <1>4 DEF RefundCall
    <2>3. \/ UNCHANGED refund
          \/ \E reply \in {"processed", "pending"} : refund' = [refund EXCEPT ![b][h] = reply]
        BY <1>4 DEF RefundCall
    <2>4. CASE UNCHANGED refund
        BY <1>1, <2>1, <2>2, <2>4, Moved DEF Steps
    <2>5. ASSUME NEW reply \in {"processed", "pending"}, refund' = [refund EXCEPT ![b][h] = reply]
          PROVE  Own(b)
        BY <1>1, <2>1, <2>2, <2>5 DEF Goto, Steps, TypeOK, Own, HandlersOK, Refunding
    <2> QED BY <2>3, <2>4, <2>5
<1> QED BY <1>2, <1>3, <1>4

LEMMA OwnerOwn ==
    ASSUME TypeOK, Unborn, NEW b \in Bookings, ApproveRead(b) \/ ApproveWrite(b)
    PROVE  Own(b)
<1>1. Status(b) # "NONE"
    BY Born DEF ApproveRead, ApproveWrite, Steps
<1> QED BY <1>1, Moved DEF ApproveRead, ApproveWrite, At, Steps, noGateway

LEMMA VisitOwn ==
    ASSUME TypeOK, Unborn, NEW b \in Bookings, Visit(b)
    PROVE  Own(b)
<1>1. ASSUME NEW h, VisitRead(b, h) \/ VisitWrite(b, h)
      PROVE  Own(b)
    <2>1. Status(b) # "NONE"
        BY <1>1, Born DEF VisitRead, VisitWrite, Steps
    <2> QED BY <1>1, <2>1, Moved DEF VisitRead, VisitWrite, At, Steps, noGateway
<1>2. CASE NoShowRead(b) \/ NoShowWrite(b)
    <2>1. Status(b) # "NONE"
        BY <1>2, Born DEF NoShowRead, NoShowWrite, Steps
    <2> QED BY <1>2, <2>1, Moved DEF NoShowRead, NoShowWrite, At, Steps, noGateway
<1>3. CASE AdminNoShow(b)
    BY <1>3, Stayed DEF AdminNoShow, noGateway, noHandlers
<1> QED BY <1>1, <1>2, <1>3 DEF Visit

LEMMA ReleaseOwn ==
    ASSUME TypeOK, Unborn, NEW b \in Bookings, NEW h, ReleaseSlotLock(b, h)
    PROVE  Own(b)
<1>1. Status(b) # "NONE"
    BY Born DEF ReleaseSlotLock, Steps
<1>2. h \in Handlers /\ Goto(b, h, "idle") /\ UNCHANGED <<captured, refund>>
    BY DEF ReleaseSlotLock, At, noGateway
<1>3. CASE UNCHANGED retry
    BY <1>1, <1>2, <1>3, Moved DEF Steps
<1>4. CASE retry' = [retry EXCEPT ![b] = 0]
    <2>1. 0 \in 0 .. RetryAttempts
        BY LifecycleAssumption
    <2>2. \E g \in Handlers, s \in Steps : Goto(b, g, s)
        BY <1>2 DEF Steps
    <2> QED BY <1>1, <1>2, <1>4, <2>1, <2>2, MovedJob
<1> QED BY <1>3, <1>4 DEF ReleaseSlotLock

\* Every step is a step of one booking that exists, or of none, or the crash that
\* ends every handler.
LEMMA HandlerStep ==
    ASSUME TypeOK, Unborn, [Next]_vars
    PROVE  UNCHANGED noHandlers \/ Crash \/ \E b \in Bookings : Own(b)
<1>1. CASE UNCHANGED vars \/ Tick
    BY <1>1 DEF vars, Tick, noHandlers, noGateway
<1>2. ASSUME NEW b \in Bookings, Housekeeping(b)
      PROVE  UNCHANGED noHandlers \/ Own(b)
    BY <1>2, ReleaseOwn DEF Housekeeping, CreateBooking, SlotLockExpires, KeyExpires,
                            noHandlers, noGateway
<1>3. ASSUME NEW b \in Bookings, Payment(b) PROVE Own(b)
    BY <1>3, OrderOwn, ConfirmOwn, HookOwn, ReconcileOwn, GiveUpOwn DEF Payment
<1>4. ASSUME NEW b \in Bookings, Ending(b) PROVE UNCHANGED noHandlers \/ Own(b)
    <2>1. CASE \E h \in Refunders, event \in {"created", "processed", "failed"} :
                  RefundHook(b, h, event)
        BY <2>1 DEF RefundHook, noHandlers, noGateway
    <2> QED BY <1>4, <2>1, EndBookingOwn, RefundOwn, OwnerOwn DEF Ending
<1> QED BY <1>1, <1>2, <1>3, <1>4, VisitOwn DEF Next

LEMMA PaymentFlags ==
    ASSUME TypeOK, NEW b \in Bookings, Payment(b) PROVE FlagsOK'
<1> USE DEF noRest, TypeOK, FlagsOK
<1>1. CASE OrderRead(b)
    BY <1>1 DEF OrderRead
<1>2. CASE ConfirmRead(b)
    BY <1>2 DEF ConfirmRead
<1>3. CASE OrderCreate(b) \/ OrderWrite(b) \/ Capture(b) \/ ConfirmWrite(b) \/ ConfirmDeny(b)
    BY <1>3 DEF OrderCreate, OrderWrite, Capture, ConfirmWrite, ConfirmDeny
<1>4. ASSUME NEW h, HookRead(b, h) \/ HookWrite(b, h) PROVE FlagsOK'
    BY <1>4 DEF HookRead, HookWrite
<1>5. CASE ReconcileRead(b) \/ ReconcileWrite(b) \/ ReconcileFails(b)
    BY <1>5 DEF ReconcileRead, ReconcileWrite, ReconcileFails
<1>6. ASSUME NEW h, GiveUpRead(b, h) \/ GiveUpWrite(b, h) PROVE FlagsOK'
    BY <1>6 DEF GiveUpRead, GiveUpWrite
<1> QED BY <1>1, <1>2, <1>3, <1>4, <1>5, <1>6 DEF Payment

LEMMA EndingFlags ==
    ASSUME TypeOK, NEW b \in Bookings, Ending(b) PROVE FlagsOK'
<1> USE DEF noRest, TypeOK, FlagsOK
<1>1. ASSUME NEW h, NEW s, NEW due, EndBooking(b, h, s, due) PROVE FlagsOK'
    BY <1>1 DEF EndBooking, ReleaseSlotLocks
<1>2. CASE CancelBooking(b) \/ RejectBooking(b)
    BY <1>1, <1>2 DEF CancelBooking, RejectBooking
<1>3. CASE ApproveRead(b) \/ ApproveWrite(b)
    BY <1>3 DEF ApproveRead, ApproveWrite
<1>4. ASSUME NEW h, RefundCall(b, h) \/ RefundWrite(b, h) \/ RefundSettles(b, h) PROVE FlagsOK'
    BY <1>4 DEF RefundCall, RefundWrite, RefundSettles
<1>5. ASSUME NEW h, NEW event, RefundHook(b, h, event) PROVE FlagsOK'
    BY <1>5 DEF RefundHook
<1> QED BY <1>2, <1>3, <1>4, <1>5 DEF Ending

LEMMA VisitFlags ==
    ASSUME TypeOK, NEW b \in Bookings, Visit(b) PROVE FlagsOK'
<1>1. ASSUME NEW h, VisitRead(b, h) PROVE FlagsOK'
    BY <1>1 DEF VisitRead, noRest, TypeOK, FlagsOK
<1>2. ASSUME NEW h, VisitWrite(b, h) PROVE FlagsOK'
    <2>1. UNCHANGED <<locked, keys, clock>>
        BY <1>2 DEF VisitWrite
    <2>2. CASE awards' = [awards EXCEPT ![b] = IF @ < 2 THEN @ + 1 ELSE @]
        BY <2>1, <2>2 DEF TypeOK, FlagsOK
    <2>3. CASE UNCHANGED awards
        BY <2>1, <2>3 DEF TypeOK, FlagsOK
    <2> QED BY <1>2, <2>2, <2>3 DEF VisitWrite
<1>3. CASE NoShowRead(b) \/ NoShowWrite(b) \/ AdminNoShow(b)
    BY <1>3 DEF NoShowRead, NoShowWrite, AdminNoShow, noRest, TypeOK, FlagsOK
<1> QED BY <1>1, <1>2, <1>3 DEF Visit

LEMMA HousekeepingFlags ==
    ASSUME TypeOK, NEW b \in Bookings, Housekeeping(b) PROVE FlagsOK'
<1> USE DEF noRest, TypeOK, FlagsOK
<1>1. CASE CreateBooking(b)
    <2>1. UNCHANGED <<keys, awards, clock>>
        BY <1>1 DEF CreateBooking
    <2>2. \E held \in BOOLEAN : locked' = [locked EXCEPT ![b] = held]
        BY <1>1 DEF CreateBooking
    <2> QED BY <2>1, <2>2
<1>2. CASE SlotLockExpires(b)
    BY <1>2 DEF SlotLockExpires
<1>3. ASSUME NEW h, ReleaseSlotLock(b, h) PROVE FlagsOK'
    BY <1>3 DEF ReleaseSlotLock, ReleaseSlotLocks
<1>4. ASSUME NEW key, KeyExpires(b, key) PROVE FlagsOK'
    BY <1>4 DEF KeyExpires
<1> QED BY <1>1, <1>2, <1>3, <1>4 DEF Housekeeping

LEMMA FlagsStep ==
    ASSUME TypeOK, [Next]_vars PROVE FlagsOK'
<1>1. CASE UNCHANGED vars
    BY <1>1 DEF vars, TypeOK, FlagsOK
<1>2. CASE Crash
    BY <1>2 DEF Crash, noRest, TypeOK, FlagsOK
<1>3. CASE Tick
    BY <1>3, LifecycleAssumption DEF Tick, TypeOK, FlagsOK
<1> QED BY <1>1, <1>2, <1>3, PaymentFlags, EndingFlags, VisitFlags, HousekeepingFlags DEF Next

----------------------------------------------------------------------------
(* Types                                                                    *)

LEMMA TypeParts ==
    TypeOK <=> /\ row \in [Bookings -> Row] /\ revived \in [Bookings -> BOOLEAN]
               /\ HandlersOK /\ FlagsOK
BY DEF TypeOK, HandlersOK, FlagsOK, Refunding

LEMMA TypeInit == Init => TypeOK /\ Unborn
<1> SUFFICES ASSUME Init PROVE TypeOK /\ Unborn
    OBVIOUS
<1>1. PICK type \in [Bookings -> PayTypes] :
         row = [b \in Bookings |-> [status |-> "NONE", type |-> type[b], pay |-> "PENDING",
                                    refund |-> "NONE", order |-> FALSE, paid |-> FALSE]]
    BY DEF Init
<1>2. \A b \in Bookings : type[b] \in PaymentTypes
    BY LifecycleAssumption
<1>3. row \in [Bookings -> Row]
    BY <1>1, <1>2 DEF Row
<1>4. HandlersOK /\ FlagsOK /\ revived \in [Bookings -> BOOLEAN]
    BY LifecycleAssumption DEF Init, HandlersOK, FlagsOK, Steps, Refunding
<1>5. \A b \in Bookings : ~row[b].order
    BY <1>1
<1>6. Unborn
    BY <1>5 DEF Init, Unborn
<1> QED BY <1>3, <1>4, <1>6, TypeParts

LEMMA SameHandlers == ASSUME TypeOK, UNCHANGED noHandlers PROVE HandlersOK'
BY DEF TypeOK, HandlersOK, noHandlers, Refunding

LEMMA CrashTypes == ASSUME TypeOK, Crash PROVE HandlersOK'
BY DEF TypeOK, Crash, noGateway, HandlersOK, Steps, Refunding

LEMMA TypeStep == ASSUME TypeOK, Unborn, [Next]_vars PROVE TypeOK'
<1>1. HandlersOK'
    BY HandlerStep, SameHandlers, CrashTypes DEF Own
<1>2. row' \in [Bookings -> Row] /\ revived' \in [Bookings -> BOOLEAN]
    BY StatusStep
<1>3. FlagsOK'
    BY FlagsStep
<1> QED BY <1>1, <1>2, <1>3 DEF TypeOK, HandlersOK, FlagsOK, Refunding

LEMMA UnbornStep == ASSUME TypeOK, Unborn, [Next]_vars PROVE Unborn'
<1> SUFFICES ASSUME NEW b \in Bookings, Status(b)' = "NONE"
             PROVE  /\ \A h \in Handlers : at'[b][h] = "idle"
                    /\ ~row'[b].order /\ ~captured'[b] /\ retry'[b] = 0
                    /\ \A h \in Refunders : refund'[b][h] = "none"
    BY DEF Unborn
<1>1. row'[b] = row[b] /\ Status(b) = "NONE"
    BY StatusStep DEF StatusMoves
<1>2. /\ \A h \in Handlers : at[b][h] = "idle"
      /\ ~row[b].order /\ ~captured[b] /\ retry[b] = 0
      /\ \A h \in Refunders : refund[b][h] = "none"
    BY <1>1 DEF Unborn
<1>3. CASE UNCHANGED noHandlers
    BY <1>1, <1>2, <1>3 DEF noHandlers
<1>4. CASE Crash
    BY <1>1, <1>2, <1>4 DEF Crash, noGateway
<1>5. CASE \E c \in Bookings : Own(c)
    BY <1>1, <1>2, <1>5 DEF Own
<1> QED BY <1>3, <1>4, <1>5, HandlerStep

\* Every variable keeps its type: the row of a booking stays a row whatever writes
\* it, and the handlers of a booking that does not exist stay idle.
THEOREM TypesAndUnborn == Spec => [](TypeOK /\ Unborn)
<1>1. TypeOK /\ Unborn /\ [Next]_vars => (TypeOK /\ Unborn)'
    BY TypeStep, UnbornStep
<1> QED BY <1>1, TypeInit, PTL DEF Spec

\* The type invariant of the runs, for any set of bookings and handlers.
THEOREM TypeCorrect == Spec => []TypeOK
BY TypesAndUnborn, PTL

----------------------------------------------------------------------------
(* The reward                                                               *)

\* Unless it was revived, a rewarded booking was rewarded once and has ended.
Rewarded ==
    \A b \in Bookings : ~revived[b] /\ awards[b] > 0 => awards[b] = 1 /\ Status(b) \in Over

\* The reward of a booking is counted by the step that completes it and no other.
LEMMA AwardStep ==
    ASSUME TypeOK, [Next]_vars
    PROVE  \/ UNCHANGED awards
           \/ \E b \in Bookings :
                 /\ Status(b) = "CONFIRMED" /\ Status(b)' = "COMPLETED"
                 /\ awards' = [awards EXCEPT ![b] = IF @ < 2 THEN @ + 1 ELSE @]
<1>1. CASE UNCHANGED vars \/ Crash \/ Tick
    BY <1>1 DEF vars, Crash, Tick, noRest
<1>2. ASSUME NEW b \in Bookings, Housekeeping(b) PROVE UNCHANGED awards
    BY <1>2 DEF Housekeeping, CreateBooking, SlotLockExpires, ReleaseSlotLock, KeyExpires, noRest
<1>3. ASSUME NEW b \in Bookings, Payment(b) PROVE UNCHANGED awards
    <2> USE DEF noRest
    <2>1. CASE OrderRead(b) \/ OrderCreate(b) \/ OrderWrite(b) \/ Capture(b)
        BY <2>1 DEF OrderRead, OrderCreate, OrderWrite, Capture
    <2>2. CASE ConfirmRead(b) \/ ConfirmWrite(b) \/ ConfirmDeny(b)
        BY <2>2 DEF ConfirmRead, ConfirmWrite, ConfirmDeny
    <2>3. ASSUME NEW h, HookRead(b, h) \/ HookWrite(b, h) PROVE UNCHANGED awards
        BY <2>3 DEF HookRead, HookWrite
    <2>4. CASE ReconcileRead(b) \/ ReconcileWrite(b) \/ ReconcileFails(b)
        BY <2>4 DEF ReconcileRead, ReconcileWrite, ReconcileFails
    <2>5. ASSUME NEW h, GiveUpRead(b, h) \/ GiveUpWrite(b, h) PROVE UNCHANGED awards
        BY <2>5 DEF GiveUpRead, GiveUpWrite
    <2> QED BY <1>3, <2>1, <2>2, <2>3, <2>4, <2>5 DEF Payment
<1>4. ASSUME NEW b \in Bookings, Ending(b) PROVE UNCHANGED awards
    <2> USE DEF noRest
    <2>1. CASE CancelBooking(b) \/ RejectBooking(b)
        BY <2>1 DEF CancelBooking, RejectBooking, EndBooking
    <2>2. ASSUME NEW h, RefundCall(b, h) \/ RefundWrite(b, h) \/ RefundSettles(b, h)
          PROVE  UNCHANGED awards
        BY <2>2 DEF RefundCall, RefundWrite, RefundSettles
    <2>3. ASSUME NEW h, NEW event, RefundHook(b, h, event) PROVE UNCHANGED awards
        BY <2>3 DEF RefundHook
    <2>4. CASE ApproveRead(b) \/ ApproveWrite(b)
        BY <2>4 DEF ApproveRead, ApproveWrite
    <2> QED BY <1>4, <2>1, <2>2, <2>3, <2>4 DEF Ending
<1>5. ASSUME NEW b \in Bookings, NEW h, VisitWrite(b, h)
      PROVE  \/ UNCHANGED awards
             \/ /\ Status(b) = "CONFIRMED" /\ Status(b)' = "COMPLETED"
                /\ awards' = [awards EXCEPT ![b] = IF @ < 2 THEN @ + 1 ELSE @]
    <2>1. CASE Status(b) = "CONFIRMED"
        <3> DEFINE p == IF h \in CheckIns THEN "SUCCESS" ELSE row[b].pay
                   new == [row[b] EXCEPT !.status = "COMPLETED", !.pay = p]
        <3>1. Update(b, new) /\ awards' = [awards EXCEPT ![b] = IF @ < 2 THEN @ + 1 ELSE @]
            BY <1>5, <2>1 DEF VisitWrite
        <3>2. p \in Pays /\ "COMPLETED" \in Statuses
            BY RowFields DEF Pays, Statuses, Over
        <3> HIDE DEF p
        <3>3. new \in Row /\ new.status = "COMPLETED"
            BY <3>2, RowIsRow, SetStatusPay
        <3>4. Status(b)' = "COMPLETED"
            BY <3>1, <3>3, UpdateStatus
        <3> QED BY <2>1, <3>1, <3>4
    <2> QED BY <1>5, <2>1 DEF VisitWrite
<1>6. ASSUME NEW b \in Bookings, Visit(b), \A h : ~VisitWrite(b, h) PROVE UNCHANGED awards
    BY <1>6 DEF Visit, VisitRead, NoShowRead, NoShowWrite, AdminNoShow, noRest
<1> QED BY <1>1, <1>2, <1>3, <1>4, <1>5, <1>6 DEF Next

LEMMA RewardedStep ==
    ASSUME TypeOK, Unborn, Rewarded, [Next]_vars PROVE Rewarded'
<1> SUFFICES ASSUME NEW b \in Bookings, ~revived'[b], awards'[b] > 0
             PROVE  awards'[b] = 1 /\ Status(b)' \in Over
    BY DEF Rewarded
<1>1. /\ StatusMoves(b) /\ Status(b) \in Statuses /\ Status(b)' \in Statuses
      /\ awards \in [Bookings -> 0 .. 2]
    BY StatusStep, TypeStep, RowFields DEF TypeOK, Status, Statuses, Row
<1>2. ~revived[b]
    BY <1>1 DEF StatusMoves
<1>3. CASE awards'[b] = awards[b]
    <2>1. awards[b] = 1 /\ Status(b) \in Over
        BY <1>2, <1>3 DEF Rewarded
    <2> QED BY <1>1, <1>3, <2>1 DEF StatusMoves, Statuses, Over
<1>4. CASE /\ Status(b) = "CONFIRMED" /\ Status(b)' = "COMPLETED"
           /\ awards' = [awards EXCEPT ![b] = IF @ < 2 THEN @ + 1 ELSE @]
    <2>1. awards[b] = 0
        BY <1>1, <1>2, <1>4 DEF Rewarded, Over
    <2> QED BY <1>1, <1>4, <2>1 DEF Over
<1>5. awards'[b] = awards[b] \/ (/\ Status(b) = "CONFIRMED" /\ Status(b)' = "COMPLETED"
                                 /\ awards' = [awards EXCEPT ![b] = IF @ < 2 THEN @ + 1 ELSE @])
    BY <1>1, AwardStep
<1> QED BY <1>3, <1>4, <1>5

\* However many check-ins and auto-completions read the booking as CONFIRMED, its
\* game is rewarded once, unless it was revived.
THEOREM RewardOnce == Spec => []RewardedOnce
<1>1. Init => Rewarded
    BY DEF Init, Rewarded
<1>2. TypeOK /\ Unborn /\ Rewarded /\ [Next]_vars => Rewarded'
    BY RewardedStep
<1>3. TypeOK /\ Rewarded => RewardedOnce
    BY DEF TypeOK, Rewarded, RewardedOnce
<1> QED BY <1>1, <1>2, <1>3, TypesAndUnborn, PTL DEF Spec

----------------------------------------------------------------------------
(* The refund                                                               *)

\* The handler has asked Razorpay for a refund, or is about to.
Asked(b, h) == refund[b][h] # "none" \/ At(b, h, "call")

\* A refund is asked for by a handler that ended the booking, and by both only when
\* the booking was revived between them.
AskedByTheEnd ==
    \A b \in Bookings : ~revived[b] =>
        /\ \A h \in Refunders : Asked(b, h) => Status(b) \in Over
        /\ ~(Asked(b, "cancel") /\ Asked(b, "reject"))

\* The step lets no refunding handler come to its call.
NobodyAsks == \A b \in Bookings, h \in Refunders : Asked(b, h)' => Asked(b, h)

\* The step ends the booking, and only the handler that ends it comes to its call.
AsksForOne(b, g) ==
    /\ Status(b) \in Live /\ Status(b)' \in {"CANCELLED", "REJECTED"}
    /\ \A c \in Bookings, h \in Refunders :
          Asked(c, h)' => Asked(c, h) \/ (c = b /\ h = g)

LEMMA StaysQuiet == ASSUME UNCHANGED <<at, refund>> PROVE NobodyAsks
BY DEF NobodyAsks, Asked, At

LEMMA MovesQuiet ==
    ASSUME TypeOK, NEW b \in Bookings, NEW g, NEW s \in Steps \ {"call"}, Goto(b, g, s),
           UNCHANGED refund
    PROVE  NobodyAsks
<1> SUFFICES ASSUME NEW c \in Bookings, NEW h \in Refunders, Asked(c, h)'
             PROVE  Asked(c, h)
    BY DEF NobodyAsks
<1>1. at \in [Bookings -> [Handlers -> Steps]] /\ at' = [at EXCEPT ![b][g] = s] /\ s # "call"
    BY DEF TypeOK, Goto
<1>2. ASSUME h \in Handlers, at'[c][h] = "call" PROVE at[c][h] = "call"
    BY <1>1, <1>2
<1> QED BY <1>2 DEF Asked, At

LEMMA PaymentQuiet ==
    ASSUME TypeOK, NEW b \in Bookings, Payment(b) PROVE NobodyAsks
<1> USE DEF noGateway, Steps
<1>1. CASE OrderRead(b) \/ OrderCreate(b) \/ OrderWrite(b)
    BY <1>1, MovesQuiet DEF OrderRead, OrderCreate, OrderWrite
<1>2. CASE Capture(b)
    BY <1>2, StaysQuiet DEF Capture
<1>3. CASE ConfirmRead(b) \/ ConfirmWrite(b) \/ ConfirmDeny(b)
    BY <1>3, MovesQuiet, StaysQuiet DEF ConfirmRead, ConfirmWrite, ConfirmDeny
<1>4. ASSUME NEW h, HookRead(b, h) \/ HookWrite(b, h) PROVE NobodyAsks
    BY <1>4, MovesQuiet, StaysQuiet DEF HookRead, HookWrite
<1>5. CASE ReconcileRead(b) \/ ReconcileWrite(b) \/ ReconcileFails(b)
    BY <1>5, MovesQuiet, StaysQuiet DEF ReconcileRead, ReconcileWrite, ReconcileFails
<1>6. ASSUME NEW h, GiveUpRead(b, h) \/ GiveUpWrite(b, h) PROVE NobodyAsks
    BY <1>6, MovesQuiet DEF GiveUpRead, GiveUpWrite
<1> QED BY <1>1, <1>2, <1>3, <1>4, <1>5, <1>6 DEF Payment

LEMMA VisitQuiet ==
    ASSUME TypeOK, NEW b \in Bookings, Visit(b) PROVE NobodyAsks
<1> USE DEF noGateway, Steps
<1>1. ASSUME NEW h, VisitRead(b, h) \/ VisitWrite(b, h) PROVE NobodyAsks
    BY <1>1, MovesQuiet DEF VisitRead, VisitWrite
<1>2. CASE NoShowRead(b) \/ NoShowWrite(b)
    BY <1>2, MovesQuiet DEF NoShowRead, NoShowWrite
<1>3. CASE AdminNoShow(b)
    BY <1>3, StaysQuiet DEF AdminNoShow
<1> QED BY <1>1, <1>2, <1>3 DEF Visit

LEMMA HousekeepingQuiet ==
    ASSUME TypeOK, NEW b \in Bookings, Housekeeping(b) PROVE NobodyAsks
<1> USE DEF noGateway, Steps
<1>1. CASE CreateBooking(b) \/ SlotLockExpires(b) \/ \E key \in {"order", "confirm"} : KeyExpires(b, key)
    BY <1>1, StaysQuiet DEF CreateBooking, SlotLockExpires, KeyExpires
<1>2. ASSUME NEW h, ReleaseSlotLock(b, h) PROVE NobodyAsks
    BY <1>2, MovesQuiet DEF ReleaseSlotLock
<1> QED BY <1>1, <1>2 DEF Housekeeping

\* A refunding handler that is past its call, or at it, has asked already.
LEMMA RefundQuiet ==
    ASSUME TypeOK, NEW b \in Bookings, NEW g \in Refunders,
           RefundCall(b, g) \/ RefundWrite(b, g) \/ RefundSettles(b, g)
    PROVE  NobodyAsks
<1>1. CASE RefundWrite(b, g)
    BY <1>1, MovesQuiet DEF RefundWrite, noGateway, Steps
<1>2. ASSUME UNCHANGED at \/ \E s \in Steps \ {"call"} : Goto(b, g, s),
             UNCHANGED refund \/ \E r : refund' = [refund EXCEPT ![b][g] = r],
             Asked(b, g)
      PROVE  NobodyAsks
    <2> SUFFICES ASSUME NEW c \in Bookings, NEW h \in Refunders, Asked(c, h)',
                        ~(c = b /\ h = g)
                 PROVE  Asked(c, h)
        BY <1>2 DEF NobodyAsks
    <2>1. refund \in [Bookings -> [Refunders -> Gateway]] /\ at \in [Bookings -> [Handlers -> Steps]]
        BY DEF TypeOK, Gateway
    <2>2. refund'[c][h] = refund[c][h]
        BY <1>2, <2>1
    <2>3. h \in Handlers => at'[c][h] = at[c][h]
        BY <1>2, <2>1 DEF Goto
    <2> QED BY <2>2, <2>3 DEF Asked, At
<1>3. CASE RefundCall(b, g)
    BY <1>2, <1>3 DEF RefundCall, Asked, Steps
<1>4. CASE RefundSettles(b, g)
    BY <1>2, <1>4 DEF RefundSettles, Asked
<1> QED BY <1>1, <1>3, <1>4

LEMMA EndBookingAsks ==
    ASSUME TypeOK, NEW b \in Bookings, Status(b) \in Live, NEW g \in Refunders,
           NEW s \in {"CANCELLED", "REJECTED"}, NEW due, EndBooking(b, g, s, due)
    PROVE  AsksForOne(b, g)
<1> DEFINE p == IF row[b].pay = "PENDING" THEN "FAILED" ELSE row[b].pay
           f == IF due THEN "INITIATED" ELSE "NONE"
           new == [row[b] EXCEPT !.status = s, !.pay = p, !.refund = f]
<1>1. Update(b, new)
    BY DEF EndBooking
<1>2. p \in Pays /\ f \in Refunds
    BY RowFields DEF Pays, Refunds
<1> HIDE DEF p, f
<1>3. s \in Statuses /\ s \in Over /\ row[b] \in Row
    BY RowIsRow DEF Statuses, Over
<1>4. new \in Row /\ new.status = s
    <2>1. \A x \in Statuses, y \in Pays, z \in Refunds :
             LET u == [row[b] EXCEPT !.status = x, !.pay = y, !.refund = z]
             IN  u \in Row /\ u.status = x
        BY <1>3, SetStatusPayRefund, Zenon
    <2> QED BY <1>2, <1>3, <2>1, Zenon
<1>5. Status(b)' = s
    BY <1>1, <1>4, UpdateStatus
<1>6. ASSUME NEW c \in Bookings, NEW h \in Refunders, Asked(c, h)', ~(c = b /\ h = g)
      PROVE  Asked(c, h)
    <2>1. at \in [Bookings -> [Handlers -> Steps]]
        BY DEF TypeOK
    <2>2. h \in Handlers => at'[c][h] = at[c][h]
        BY <1>6, <2>1 DEF EndBooking, Goto
    <2> QED BY <1>6, <2>2 DEF Asked, At, EndBooking, noGateway
<1> QED BY <1>3, <1>5, <1>6 DEF AsksForOne

\* Only the end of a booking brings a handler to its refund call.
LEMMA AskStep ==
    ASSUME TypeOK, [Next]_vars
    PROVE  NobodyAsks \/ \E b \in Bookings, g \in Refunders : AsksForOne(b, g)
<1>1. CASE UNCHANGED vars \/ Tick
    BY <1>1, StaysQuiet DEF vars, Tick, noGateway
<1>2. CASE Crash
    BY <1>2 DEF Crash, noGateway, NobodyAsks, Asked, At
<1>3. ASSUME NEW b \in Bookings, CancelBooking(b)
      PROVE  AsksForOne(b, "cancel")
    BY <1>3, EndBookingAsks DEF CancelBooking, Refunders
<1>4. ASSUME NEW b \in Bookings, RejectBooking(b)
      PROVE  AsksForOne(b, "reject")
    BY <1>4, EndBookingAsks DEF RejectBooking, Refunders, Live
<1>5. ASSUME NEW b \in Bookings, Ending(b), ~CancelBooking(b), ~RejectBooking(b)
      PROVE  NobodyAsks
    <2>1. CASE ApproveRead(b) \/ ApproveWrite(b)
        BY <2>1, MovesQuiet DEF ApproveRead, ApproveWrite, noGateway, Steps
    <2>2. ASSUME NEW h, NEW event, RefundHook(b, h, event) PROVE NobodyAsks
        BY <2>2, StaysQuiet DEF RefundHook, noGateway
    <2> QED BY <1>5, <2>1, <2>2, RefundQuiet DEF Ending
<1>6. "cancel" \in Refunders /\ "reject" \in Refunders
    BY DEF Refunders
<1> QED BY <1>1, <1>2, <1>3, <1>4, <1>5, <1>6, PaymentQuiet, VisitQuiet, HousekeepingQuiet DEF Next

LEMMA AskedStep ==
    ASSUME TypeOK, Unborn, AskedByTheEnd, [Next]_vars PROVE AskedByTheEnd'
<1> SUFFICES ASSUME NEW b \in Bookings, ~revived'[b]
             PROVE  /\ \A h \in Refunders : Asked(b, h)' => Status(b)' \in Over
                    /\ ~(Asked(b, "cancel")' /\ Asked(b, "reject")')
    BY DEF AskedByTheEnd
<1>1. /\ StatusMoves(b) /\ Status(b) \in Statuses /\ Status(b)' \in Statuses
      /\ "cancel" \in Refunders /\ "reject" \in Refunders
    BY StatusStep, TypeStep, RowFields DEF TypeOK, Status, Statuses, Row, Refunders
<1>2. ~revived[b]
    BY <1>1 DEF StatusMoves
<1>3. /\ \A h \in Refunders : Asked(b, h) => Status(b) \in Over
      /\ ~(Asked(b, "cancel") /\ Asked(b, "reject"))
    BY <1>2 DEF AskedByTheEnd
<1>4. Status(b) \in Over => Status(b)' \in Over
    BY <1>1 DEF StatusMoves, Statuses, Over
<1>5. CASE \A h \in Refunders : Asked(b, h)' => Asked(b, h)
    BY <1>1, <1>3, <1>4, <1>5
<1>6. ASSUME NEW g \in Refunders, AsksForOne(b, g)
      PROVE  /\ \A h \in Refunders : Asked(b, h)' => Status(b)' \in Over
             /\ ~(Asked(b, "cancel")' /\ Asked(b, "reject")')
    <2>1. Status(b) \in Live /\ Status(b)' \in Over
        BY <1>6 DEF AsksForOne, Over
    <2>2. \A h \in Refunders : ~Asked(b, h)
        BY <1>3, <2>1 DEF Live, Over
    <2>3. \A h \in Refunders : Asked(b, h)' => h = g
        BY <1>6, <2>2 DEF AsksForOne
    <2>4. "cancel" # "reject"
        OBVIOUS
    <2> QED BY <1>1, <2>1, <2>3, <2>4
<1>7. \/ \A h \in Refunders : Asked(b, h)' => Asked(b, h)
      \/ \E g \in Refunders : AsksForOne(b, g)
    BY AskStep DEF NobodyAsks, AsksForOne
<1> QED BY <1>5, <1>6, <1>7

\* Whatever the cancellation and the rejection of a booking interleave with, and
\* whichever replies are lost, both ask for a refund only when it was revived between.
THEOREM RefundedOnce == Spec => []OneRefund
<1>1. Init => AskedByTheEnd
    BY DEF Init, AskedByTheEnd, Asked, At, Refunders
<1>2. TypeOK /\ Unborn /\ AskedByTheEnd /\ [Next]_vars => AskedByTheEnd'
    BY AskedStep
<1>3. TypeOK /\ AskedByTheEnd => OneRefund
    BY DEF TypeOK, AskedByTheEnd, OneRefund, Asked
<1> QED BY <1>1, <1>2, <1>3, TypesAndUnborn, PTL DEF Spec

\* Unless it was revived, a rewarded booking is not refunded.
RewardedNotAsked ==
    \A b \in Bookings : ~revived[b] /\ awards[b] > 0 => \A h \in Refunders : ~Asked(b, h)

LEMMA RewardedNotAskedStep ==
    ASSUME TypeOK, Unborn, Rewarded, AskedByTheEnd, RewardedNotAsked, [Next]_vars
    PROVE  RewardedNotAsked'
<1> SUFFICES ASSUME NEW b \in Bookings, ~revived'[b], awards'[b] > 0,
                    NEW h \in Refunders, Asked(b, h)'
             PROVE  FALSE
    BY DEF RewardedNotAsked
<1>1. ~revived[b] /\ awards \in [Bookings -> 0 .. 2]
    BY StatusStep DEF StatusMoves, TypeOK
<1>2. CASE awards[b] > 0
    <2>1. ~Asked(b, h) /\ Status(b) \in Over
        BY <1>1, <1>2 DEF RewardedNotAsked, Rewarded
    <2> QED BY <2>1, AskStep DEF NobodyAsks, AsksForOne, Live, Over
<1>3. CASE awards[b] = 0
    <2>1. Status(b) = "CONFIRMED" /\ Status(b)' = "COMPLETED"
        BY <1>1, <1>3, AwardStep
    <2>2. ~Asked(b, h)
        BY <1>1, <2>1 DEF AskedByTheEnd, Over
    <2> QED BY <2>1, <2>2, AskStep DEF NobodyAsks, AsksForOne
<1> QED BY <1>1, <1>2, <1>3

\* However a cancellation or a rejection interleaves with the check-ins and the
\* auto-completion, the game is rewarded or refunded and not both, unless it was revived.
THEOREM PlayedOrPaidBack == Spec => []PlayedOrRefunded
<1> DEFINE Inv == Rewarded /\ AskedByTheEnd /\ RewardedNotAsked
<1>1. Init => Inv
    BY DEF Init, Rewarded, RewardedNotAsked, AskedByTheEnd, Asked, At, Refunders
<1>2. TypeOK /\ Unborn /\ Inv /\ [Next]_vars => Inv'
    BY RewardedStep, AskedStep, RewardedNotAskedStep
<1>3. TypeOK /\ Inv => PlayedOrRefunded
    BY DEF TypeOK, RewardedNotAsked, PlayedOrRefunded, Asked
<1> HIDE DEF Inv
<1> QED BY <1>1, <1>2, <1>3, TypesAndUnborn, PTL DEF Spec

----------------------------------------------------------------------------
(* PROCESSED                                                                *)

\* Unless the booking was revived, PROCESSED in its row is Razorpay's; a handler that
\* was told "processed" still has that refund, and one before its call has none.
ProcessedByRazorpay ==
    \A b \in Bookings : ~revived[b] =>
        /\ row[b].refund = "PROCESSED" => \E h \in Refunders : refund[b][h] = "processed"
        /\ \A h \in Refunders : At(b, h, "processed") => refund[b][h] = "processed"
        /\ \A h \in Refunders : At(b, h, "call") => refund[b][h] = "none"

\* The step writes PROCESSED into no row.
NoneProcessed == \A c \in Bookings : row'[c].refund = "PROCESSED" => row[c].refund = "PROCESSED"

\* It brings no handler to its call or to "processed" either.
NoneAdvances ==
    \A c \in Bookings, h \in Refunders :
        /\ At(c, h, "call")' => At(c, h, "call")
        /\ At(c, h, "processed")' => At(c, h, "processed")

LEMMA SameRows == ASSUME UNCHANGED noRow PROVE NoneProcessed
BY DEF noRow, NoneProcessed

LEMMA OtherFields ==
    ASSUME TypeOK, NEW b \in Bookings, NEW new, Update(b, new),
           new.refund = "PROCESSED" => row[b].refund = "PROCESSED"
    PROVE  NoneProcessed
<1>1. row' = [row EXCEPT ![b] = new] /\ row \in [Bookings -> Row]
    BY DEF Update, TypeOK
<1>2. \A c \in Bookings : row'[c] = IF c = b THEN new ELSE row[c]
    BY <1>1
<1> QED BY <1>2 DEF NoneProcessed

\* The fields that are written: status, payment status, order and payment.
LEMMA KeepsRefund ==
    ASSUME TypeOK, NEW b \in Bookings
    PROVE  /\ \A s : [row[b] EXCEPT !.status = s].refund = row[b].refund
           /\ \A o : [row[b] EXCEPT !.order = o].refund = row[b].refund
           /\ \A d : [row[b] EXCEPT !.paid = d].refund = row[b].refund
           /\ \A s, p : [row[b] EXCEPT !.status = s, !.pay = p].refund = row[b].refund
BY RowIsRow DEF Row

LEMMA PaidKeeps ==
    ASSUME TypeOK, NEW b \in Bookings, NEW s \in Live
    PROVE  /\ Paid(b, s).refund = row[b].refund
           /\ \A o : [Paid(b, s) EXCEPT !.order = o].refund = row[b].refund
<1>1. Paid(b, s) \in Row
    BY PaidRow
<1>2. Paid(b, s).refund = row[b].refund
    BY RowIsRow DEF Paid, Row
<1> QED BY <1>1, <1>2 DEF Row

LEMMA PaymentRows ==
    ASSUME TypeOK, NEW b \in Bookings, Payment(b) PROVE NoneProcessed
<1>1. CASE UNCHANGED noRow
    BY <1>1, SameRows
<1>2. CASE OrderWrite(b)
    BY <1>2, OtherFields, KeepsRefund DEF OrderWrite
<1>3. CASE ConfirmWrite(b) \/ ConfirmDeny(b)
    <2>1. "CONFIRMED" \in Live /\ TRUE \in BOOLEAN
        BY DEF Live
    <2>2. \/ Update(b, Paid(b, "CONFIRMED"))
          \/ Update(b, [row[b] EXCEPT !.status = "CANCELLED", !.pay = "FAILED"])
        BY <1>3 DEF ConfirmWrite, ConfirmDeny
    <2>3. /\ Paid(b, "CONFIRMED").refund = row[b].refund
          /\ [row[b] EXCEPT !.status = "CANCELLED", !.pay = "FAILED"].refund = row[b].refund
        BY <2>1, KeepsRefund, PaidKeeps
    <2> QED BY <2>2, <2>3, OtherFields
<1>4. ASSUME NEW h, HookRead(b, h) \/ HookWrite(b, h) PROVE NoneProcessed
    <2> DEFINE s == IF Manual THEN "PENDING_APPROVAL" ELSE "CONFIRMED"
    <2>1. s \in Live
        BY DEF Live
    <2>2. \/ UNCHANGED noRow
          \/ Update(b, [row[b] EXCEPT !.paid = TRUE])
          \/ Update(b, Paid(b, s))
        BY <1>4 DEF HookRead, HookWrite, noRow
    <2> HIDE DEF s
    <2>3. /\ Paid(b, s).refund = row[b].refund
          /\ [row[b] EXCEPT !.paid = TRUE].refund = row[b].refund
        BY <2>1, KeepsRefund, PaidKeeps
    <2> QED BY <2>2, <2>3, SameRows, OtherFields
<1>5. CASE ReconcileWrite(b)
    BY <1>5, OtherFields, PaidKeeps, RowFields DEF ReconcileWrite, Live
<1>6. ASSUME NEW h, GiveUpWrite(b, h) PROVE NoneProcessed
    <2> DEFINE d == IF h = "fail" THEN FALSE ELSE row[b].paid
    <2>1. Update(b, [row[b] EXCEPT !.status = "CANCELLED", !.pay = "FAILED", !.paid = d])
        BY <1>6 DEF GiveUpWrite
    <2> HIDE DEF d
    <2>2. [row[b] EXCEPT !.status = "CANCELLED", !.pay = "FAILED", !.paid = d].refund = row[b].refund
        BY RowIsRow DEF Row
    <2> QED BY <2>1, <2>2, OtherFields
<1>7. \/ UNCHANGED noRow \/ OrderWrite(b) \/ ConfirmWrite(b) \/ ConfirmDeny(b)
      \/ (\E h : HookRead(b, h) \/ HookWrite(b, h)) \/ ReconcileWrite(b)
      \/ \E h : GiveUpWrite(b, h)
    BY DEF Payment, OrderRead, OrderCreate, Capture, ConfirmRead, ReconcileRead,
           ReconcileFails, GiveUpRead, noRow
<1> QED BY <1>1, <1>2, <1>3, <1>4, <1>5, <1>6, <1>7

LEMMA VisitRows ==
    ASSUME TypeOK, NEW b \in Bookings, Visit(b) PROVE NoneProcessed
<1>1. CASE UNCHANGED noRow
    BY <1>1, SameRows
<1>2. CASE NoShowWrite(b) \/ AdminNoShow(b)
    BY <1>2, OtherFields, KeepsRefund DEF NoShowWrite, AdminNoShow
<1>3. ASSUME NEW h, VisitWrite(b, h) PROVE NoneProcessed
    <2> DEFINE p == IF h \in CheckIns THEN "SUCCESS" ELSE row[b].pay
    <2>1. \/ UNCHANGED noRow
          \/ Update(b, [row[b] EXCEPT !.status = "COMPLETED", !.pay = p])
        BY <1>3 DEF VisitWrite
    <2> HIDE DEF p
    <2>2. [row[b] EXCEPT !.status = "COMPLETED", !.pay = p].refund = row[b].refund
        BY RowIsRow DEF Row
    <2> QED BY <2>1, <2>2, SameRows, OtherFields
<1>4. UNCHANGED noRow \/ NoShowWrite(b) \/ AdminNoShow(b) \/ \E h : VisitWrite(b, h)
    BY DEF Visit, VisitRead, NoShowRead
<1> QED BY <1>1, <1>2, <1>3, <1>4

LEMMA HousekeepingRows ==
    ASSUME TypeOK, NEW b \in Bookings, Housekeeping(b) PROVE NoneProcessed
<1>1. CASE CreateBooking(b)
    <2> DEFINE s == IF ~(row[b].type = "FULL_CASH") THEN "PENDING"
                    ELSE IF Manual THEN "PENDING_APPROVAL" ELSE "CONFIRMED"
    <2>1. Update(b, [row[b] EXCEPT !.status = s])
        BY <1>1 DEF CreateBooking
    <2> HIDE DEF s
    <2> QED BY <2>1, OtherFields, KeepsRefund
<1>2. CASE UNCHANGED noRow
    BY <1>2, SameRows
<1>3. CreateBooking(b) \/ UNCHANGED noRow
    BY DEF Housekeeping, SlotLockExpires, ReleaseSlotLock, KeyExpires
<1> QED BY <1>1, <1>2, <1>3

\* Handlers that neither end the booking nor refund it.
LEMMA StaysPut == ASSUME UNCHANGED at PROVE NoneAdvances
BY DEF NoneAdvances, At

LEMMA MovesBy ==
    ASSUME TypeOK, NEW b \in Bookings, NEW g, NEW s \in Steps \ {"call", "processed"}, Goto(b, g, s)
    PROVE  NoneAdvances
<1> SUFFICES ASSUME NEW c \in Bookings, NEW h \in Refunders
             PROVE  /\ At(c, h, "call")' => At(c, h, "call")
                    /\ At(c, h, "processed")' => At(c, h, "processed")
    BY DEF NoneAdvances
<1>1. /\ at \in [Bookings -> [Handlers -> Steps]] /\ at' = [at EXCEPT ![b][g] = s]
      /\ s # "call" /\ s # "processed"
    BY DEF TypeOK, Goto
<1>2. h \in Handlers => /\ at'[c][h] = "call" => at[c][h] = "call"
                        /\ at'[c][h] = "processed" => at[c][h] = "processed"
    BY <1>1
<1> QED BY <1>2 DEF At

LEMMA PaymentMoves ==
    ASSUME TypeOK, NEW b \in Bookings, Payment(b) PROVE NoneAdvances /\ UNCHANGED refund
<1> USE DEF noGateway, Steps
<1>1. CASE OrderRead(b) \/ OrderCreate(b) \/ OrderWrite(b)
    BY <1>1, MovesBy DEF OrderRead, OrderCreate, OrderWrite
<1>2. CASE Capture(b)
    BY <1>2, StaysPut DEF Capture
<1>3. CASE ConfirmRead(b) \/ ConfirmWrite(b) \/ ConfirmDeny(b)
    BY <1>3, MovesBy, StaysPut DEF ConfirmRead, ConfirmWrite, ConfirmDeny
<1>4. ASSUME NEW h, HookRead(b, h) \/ HookWrite(b, h) PROVE NoneAdvances /\ UNCHANGED refund
    BY <1>4, MovesBy, StaysPut DEF HookRead, HookWrite
<1>5. CASE ReconcileRead(b) \/ ReconcileWrite(b) \/ ReconcileFails(b)
    BY <1>5, MovesBy, StaysPut DEF ReconcileRead, ReconcileWrite, ReconcileFails
<1>6. ASSUME NEW h, GiveUpRead(b, h) \/ GiveUpWrite(b, h) PROVE NoneAdvances /\ UNCHANGED refund
    BY <1>6, MovesBy DEF GiveUpRead, GiveUpWrite
<1> QED BY <1>1, <1>2, <1>3, <1>4, <1>5, <1>6 DEF Payment

LEMMA VisitMoves ==
    ASSUME TypeOK, NEW b \in Bookings, Visit(b) PROVE NoneAdvances /\ UNCHANGED refund
<1> USE DEF noGateway, Steps
<1>1. ASSUME NEW h, VisitRead(b, h) \/ VisitWrite(b, h) PROVE NoneAdvances /\ UNCHANGED refund
    BY <1>1, MovesBy DEF VisitRead, VisitWrite
<1>2. CASE NoShowRead(b) \/ NoShowWrite(b)
    BY <1>2, MovesBy DEF NoShowRead, NoShowWrite
<1>3. CASE AdminNoShow(b)
    BY <1>3, StaysPut DEF AdminNoShow
<1> QED BY <1>1, <1>2, <1>3 DEF Visit

LEMMA HousekeepingMoves ==
    ASSUME TypeOK, NEW b \in Bookings, Housekeeping(b) PROVE NoneAdvances /\ UNCHANGED refund
<1> USE DEF noGateway, Steps
<1>1. CASE CreateBooking(b) \/ SlotLockExpires(b) \/ \E key \in {"order", "confirm"} : KeyExpires(b, key)
    BY <1>1, StaysPut DEF CreateBooking, SlotLockExpires, KeyExpires
<1>2. ASSUME NEW h, ReleaseSlotLock(b, h) PROVE NoneAdvances /\ UNCHANGED refund
    BY <1>2, MovesBy DEF ReleaseSlotLock
<1> QED BY <1>1, <1>2 DEF Housekeeping

----------------------------------------------------------------------------
(* The steps of the refund itself, and the invariant.                       *)

\* What a step of the refund of b does, but for the step that ends b.
RefundMoves(b, g) == RefundCall(b, g) \/ RefundWrite(b, g) \/ RefundSettles(b, g)

\* The step ends b and brings g, and no other, to its call.
EndsFor(b, g) ==
    /\ Status(b) \in Live /\ NoneProcessed /\ UNCHANGED refund
    /\ \A c \in Bookings, h \in Refunders :
          /\ At(c, h, "call")' => At(c, h, "call") \/ (c = b /\ h = g)
          /\ At(c, h, "processed")' => At(c, h, "processed")

LEMMA EndBookingEnds ==
    ASSUME TypeOK, NEW b \in Bookings, Status(b) \in Live, NEW g \in Refunders,
           NEW s, NEW due, EndBooking(b, g, s, due)
    PROVE  EndsFor(b, g)
<1> DEFINE p == IF row[b].pay = "PENDING" THEN "FAILED" ELSE row[b].pay
           f == IF due THEN "INITIATED" ELSE "NONE"
           new == [row[b] EXCEPT !.status = s, !.pay = p, !.refund = f]
<1>1. Update(b, new)
    BY DEF EndBooking
<1>2. f # "PROCESSED"
    OBVIOUS
<1> HIDE DEF p, f
<1>3. new.refund = f
    BY RowIsRow DEF Row
<1>4. NoneProcessed
    BY <1>1, <1>2, <1>3, OtherFields
<1>5. at \in [Bookings -> [Handlers -> Steps]] /\ UNCHANGED refund
    BY DEF TypeOK, EndBooking, noGateway
<1>6. PICK step \in {"call", "idle"} : at' = [at EXCEPT ![b][g] = step]
    BY DEF EndBooking, Goto
<1>7. ASSUME NEW c \in Bookings, NEW h \in Refunders
      PROVE  /\ At(c, h, "call")' => At(c, h, "call") \/ (c = b /\ h = g)
             /\ At(c, h, "processed")' => At(c, h, "processed")
    <2>1. h \in Handlers =>
             /\ at'[c][h] = "call" => at[c][h] = "call" \/ (c = b /\ h = g)
             /\ at'[c][h] = "processed" => at[c][h] = "processed"
        BY <1>5, <1>6
    <2> QED BY <2>1 DEF At
<1> QED BY <1>4, <1>5, <1>7 DEF EndsFor

\* Every step leaves the refunds alone, or ends a booking, or is one of its refund.
LEMMA ProcessStep ==
    ASSUME TypeOK, [Next]_vars
    PROVE  \/ NoneProcessed /\ NoneAdvances /\ UNCHANGED refund
           \/ \E b \in Bookings, g \in Refunders : EndsFor(b, g)
           \/ \E b \in Bookings, g \in Refunders : RefundMoves(b, g)
           \/ \E b \in Bookings, g \in Refunders, event \in {"created", "processed", "failed"} :
                 RefundHook(b, g, event)
<1>1. CASE UNCHANGED vars \/ Tick
    BY <1>1, StaysPut, SameRows DEF vars, Tick, noGateway, noRow
<1>2. CASE Crash
    BY <1>2, SameRows DEF Crash, noGateway, NoneAdvances, At
<1>3. ASSUME NEW b \in Bookings, CancelBooking(b)
      PROVE  EndsFor(b, "cancel")
    BY <1>3, EndBookingEnds DEF CancelBooking, Refunders
<1>4. ASSUME NEW b \in Bookings, RejectBooking(b)
      PROVE  EndsFor(b, "reject")
    BY <1>4, EndBookingEnds DEF RejectBooking, Refunders, Live
<1>5. ASSUME NEW b \in Bookings, ApproveRead(b) \/ ApproveWrite(b)
      PROVE  NoneProcessed /\ NoneAdvances /\ UNCHANGED refund
    <2>1. NoneAdvances /\ UNCHANGED refund
        BY <1>5, MovesBy DEF ApproveRead, ApproveWrite, noGateway, Steps
    <2>2. UNCHANGED noRow \/ Update(b, [row[b] EXCEPT !.status = "CONFIRMED"])
        BY <1>5 DEF ApproveRead, ApproveWrite
    <2> QED BY <2>1, <2>2, SameRows, OtherFields, KeepsRefund
<1>6. "cancel" \in Refunders /\ "reject" \in Refunders
    BY DEF Refunders
<1>7. ASSUME NEW b \in Bookings, Ending(b)
      PROVE  \/ NoneProcessed /\ NoneAdvances /\ UNCHANGED refund
             \/ \E g \in Refunders : EndsFor(b, g)
             \/ \E g \in Refunders : RefundMoves(b, g)
             \/ \E g \in Refunders, event \in {"created", "processed", "failed"} :
                   RefundHook(b, g, event)
    BY <1>3, <1>4, <1>5, <1>6, <1>7 DEF Ending, RefundMoves
<1>8. ASSUME NEW b \in Bookings, Housekeeping(b) \/ Payment(b) \/ Visit(b)
      PROVE  NoneProcessed /\ NoneAdvances /\ UNCHANGED refund
    BY <1>8, PaymentRows, VisitRows, HousekeepingRows, PaymentMoves, VisitMoves, HousekeepingMoves
<1> QED BY <1>1, <1>2, <1>7, <1>8 DEF Next

\* What ProcessedByRazorpay says of one booking.
ByRazorpay(b) ==
    /\ row[b].refund = "PROCESSED" => \E h \in Refunders : refund[b][h] = "processed"
    /\ \A h \in Refunders : At(b, h, "processed") => refund[b][h] = "processed"
    /\ \A h \in Refunders : At(b, h, "call") => refund[b][h] = "none"

\* A handler makes its call with no refund asked for, so none that was processed is lost.
LEMMA MovesByRazorpay ==
    ASSUME TypeOK, NEW b \in Bookings, ByRazorpay(b),
           NEW c \in Bookings, NEW g \in Refunders, RefundMoves(c, g)
    PROVE  ByRazorpay(b)'
<1>1. /\ at \in [Bookings -> [Handlers -> Steps]] /\ row \in [Bookings -> Row]
      /\ refund \in [Bookings -> [Refunders -> Gateway]]
    BY DEF TypeOK, Gateway
<1>2. CASE RefundCall(c, g)
    <2>1. at[c][g] = "call" /\ g \in Handlers /\ UNCHANGED row
        BY <1>2 DEF RefundCall, At, noRow
    <2>2. \/ \E reply \in {"processed", "pending"} :
                /\ refund' = [refund EXCEPT ![c][g] = reply]
                /\ at' = [at EXCEPT ![c][g] = reply] \/ at' = [at EXCEPT ![c][g] = "failed"]
          \/ at' = [at EXCEPT ![c][g] = "failed"] /\ UNCHANGED refund
        BY <1>2 DEF RefundCall, Goto
    <2>3. c = b => refund[b][g] = "none"
        BY <2>1 DEF ByRazorpay, At
    <2>4. \A h \in Refunders : refund[b][h] = "processed" => refund'[b][h] = "processed"
        BY <1>1, <2>2, <2>3
    <2>5. ASSUME NEW h \in Refunders, h \in Handlers
          PROVE  /\ at'[b][h] = "processed" => refund'[b][h] = "processed"
                 /\ at'[b][h] = "call" => refund'[b][h] = "none"
        <3>1. CASE c = b /\ h = g
            BY <1>1, <2>2, <2>5, <3>1
        <3>2. CASE ~(c = b /\ h = g)
            <4>1. at'[b][h] = at[b][h] /\ refund'[b][h] = refund[b][h]
                BY <1>1, <2>2, <2>5, <3>2
            <4> QED BY <2>5, <4>1 DEF ByRazorpay, At
        <3> QED BY <3>1, <3>2
    <2> QED BY <2>1, <2>4, <2>5 DEF ByRazorpay, At
<1>3. CASE RefundSettles(c, g)
    <2>1. PICK end \in {"processed", "failed"} : refund' = [refund EXCEPT ![c][g] = end]
        BY <1>3 DEF RefundSettles
    <2>2. refund[c][g] = "pending" /\ UNCHANGED <<row, at>>
        BY <1>3 DEF RefundSettles, noRow
    <2>3. \A h \in Refunders : /\ refund[b][h] = "processed" => refund'[b][h] = "processed"
                               /\ refund[b][h] = "none" => refund'[b][h] = "none"
        BY <1>1, <2>1, <2>2
    <2> QED BY <2>2, <2>3 DEF ByRazorpay, At
<1>4. CASE RefundWrite(c, g)
    <2>1. at' = [at EXCEPT ![c][g] = "idle"] /\ UNCHANGED refund
        BY <1>4 DEF RefundWrite, Goto, noGateway
    <2>2. \A h \in Refunders : h \in Handlers => at'[b][h] = at[b][h] \/ at'[b][h] = "idle"
        BY <1>1, <2>1
    <2>3. row'[b].refund = "PROCESSED" => \E h \in Refunders : refund[b][h] = "processed"
        <3>1. CASE c # b
            <4>1. row'[b] = row[b]
                BY <1>1, <1>4, <3>1 DEF RefundWrite, Update
            <4> QED BY <4>1 DEF ByRazorpay
        <3>2. CASE At(b, g, "processed")
            BY <3>2 DEF ByRazorpay
        <3>3. CASE c = b /\ ~At(b, g, "processed")
            <4>1. \/ row' = [row EXCEPT ![b] = [row[b] EXCEPT !.pay = "REFUNDED",
                                                             !.refund = "INITIATED"]]
                  \/ row' = [row EXCEPT ![b] = [row[b] EXCEPT !.refund = "FAILED"]]
                BY <1>4, <3>3 DEF RefundWrite, Update
            <4>2. row[b] \in Row
                BY <1>1
            <4>3. /\ [row[b] EXCEPT !.pay = "REFUNDED", !.refund = "INITIATED"].refund = "INITIATED"
                  /\ [row[b] EXCEPT !.refund = "FAILED"].refund = "FAILED"
                BY <4>2 DEF Row
            <4>4. row'[b].refund # "PROCESSED"
                BY <1>1, <4>1, <4>3
            <4> QED BY <4>4
        <3> QED BY <3>1, <3>2, <3>3
    <2> QED BY <2>1, <2>2, <2>3 DEF ByRazorpay, At
<1> QED BY <1>2, <1>3, <1>4 DEF RefundMoves

\* Razorpay sends refund.processed for a refund it processed.
LEMMA HookByRazorpay ==
    ASSUME TypeOK, NEW b \in Bookings, ByRazorpay(b), NEW c \in Bookings, NEW g \in Refunders,
           NEW event \in {"created", "processed", "failed"}, RefundHook(c, g, event)
    PROVE  ByRazorpay(b)'
<1>1. UNCHANGED <<at, refund>> /\ row \in [Bookings -> Row]
    BY DEF RefundHook, TypeOK, noGateway
<1>2. row'[b].refund = "PROCESSED" => \E h \in Refunders : refund[b][h] = "processed"
    <2>1. CASE c # b
        <3>1. row'[b] = row[b]
            BY <1>1, <2>1 DEF RefundHook, Update
        <3> QED BY <3>1 DEF ByRazorpay
    <2>2. CASE c = b /\ event = "processed"
        BY <2>2 DEF RefundHook, RefundEvent
    <2>3. CASE c = b /\ event = "created"
        <3>1. row' = [row EXCEPT ![b] = [row[b] EXCEPT !.refund = "INITIATED"]]
            BY <2>3 DEF RefundHook, Update
        <3>2. [row[b] EXCEPT !.refund = "INITIATED"].refund = "INITIATED"
            BY <1>1 DEF Row
        <3> QED BY <1>1, <3>1, <3>2
    <2>4. CASE c = b /\ event = "failed"
        <3> DEFINE p == IF row[b].type = "HALF_ONLINE_HALF_CASH" THEN "PENDING" ELSE "SUCCESS"
        <3>1. row' = [row EXCEPT ![b] = [row[b] EXCEPT !.pay = p, !.refund = "FAILED"]]
            BY <2>4 DEF RefundHook, Update
        <3> HIDE DEF p
        <3>2. [row[b] EXCEPT !.pay = p, !.refund = "FAILED"].refund = "FAILED"
            BY <1>1 DEF Row
        <3> QED BY <1>1, <3>1, <3>2
    <2> QED BY <2>1, <2>2, <2>3, <2>4
<1> QED BY <1>1, <1>2 DEF ByRazorpay, At

LEMMA ProcessedStep ==
    ASSUME TypeOK, Unborn, AskedByTheEnd, ProcessedByRazorpay, [Next]_vars
    PROVE  ProcessedByRazorpay'
<1> SUFFICES ASSUME NEW b \in Bookings, ~revived'[b] PROVE ByRazorpay(b)'
    BY DEF ProcessedByRazorpay, ByRazorpay
<1>1. ~revived[b]
    BY StatusStep DEF StatusMoves
<1>2. ByRazorpay(b)
    BY <1>1 DEF ProcessedByRazorpay, ByRazorpay
<1>3. CASE NoneProcessed /\ NoneAdvances /\ UNCHANGED refund
    BY <1>2, <1>3 DEF NoneProcessed, NoneAdvances, ByRazorpay
<1>4. ASSUME NEW c \in Bookings, NEW g \in Refunders, EndsFor(c, g) PROVE ByRazorpay(b)'
    <2>1. c = b => refund[b][g] = "none"
        BY <1>1, <1>4 DEF EndsFor, AskedByTheEnd, Asked, Live, Over
    <2> QED BY <1>2, <1>4, <2>1 DEF EndsFor, NoneProcessed, ByRazorpay
<1>5. ASSUME NEW c \in Bookings, NEW g \in Refunders, RefundMoves(c, g) PROVE ByRazorpay(b)'
    BY <1>2, <1>5, MovesByRazorpay
<1>6. ASSUME NEW c \in Bookings, NEW g \in Refunders,
             NEW event \in {"created", "processed", "failed"}, RefundHook(c, g, event)
      PROVE  ByRazorpay(b)'
    BY <1>2, <1>6, HookByRazorpay
<1> QED BY <1>3, <1>4, <1>5, <1>6, ProcessStep

\* Unless the booking was revived, its row says PROCESSED only when Razorpay processed
\* a refund of it, however replies, crashes and refund events interleave.
THEOREM ProcessedIsReal == Spec => []ProcessedRefundIsReal
<1>1. Init => AskedByTheEnd /\ ProcessedByRazorpay
    <2> SUFFICES ASSUME Init PROVE AskedByTheEnd /\ ProcessedByRazorpay
        OBVIOUS
    <2>1. \A b \in Bookings : row[b].refund = "NONE"
        <3>1. PICK type \in [Bookings -> PayTypes] :
                 row = [b \in Bookings |-> [status |-> "NONE", type |-> type[b], pay |-> "PENDING",
                                            refund |-> "NONE", order |-> FALSE, paid |-> FALSE]]
            BY DEF Init
        <3> QED BY <3>1
    <2>2. \A b \in Bookings, h \in Refunders :
             ~At(b, h, "call") /\ ~At(b, h, "processed") /\ refund[b][h] = "none"
        BY DEF Init, At
    <2> QED BY <2>1, <2>2 DEF AskedByTheEnd, ProcessedByRazorpay, Asked, Refunders
<1>2. TypeOK /\ Unborn /\ AskedByTheEnd /\ [Next]_vars => AskedByTheEnd'
    BY AskedStep
<1>3. TypeOK /\ Unborn /\ AskedByTheEnd /\ ProcessedByRazorpay /\ [Next]_vars
          => ProcessedByRazorpay'
    BY ProcessedStep
<1>4. TypeOK /\ ProcessedByRazorpay => ProcessedRefundIsReal
    BY DEF TypeOK, ProcessedByRazorpay, ProcessedRefundIsReal
<1> QED BY <1>1, <1>2, <1>3, <1>4, TypesAndUnborn, PTL DEF Spec

=============================================================================

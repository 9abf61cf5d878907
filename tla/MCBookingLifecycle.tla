------------------------- MODULE MCBookingLifecycle -------------------------
(****************************************************************************)
(* The sets of operations that run together in the runs of BookingLifecycle.*)
(****************************************************************************)
EXTENDS BookingLifecycle, TLC

ApprovalHandlers == {"order", "confirm", "payment.captured", "reconcile",
                     "approve", "reject", "cancel"}
VisitHandlers == {"order", "confirm", "fail", "expire", "qr", "manual", "autocomplete",
                  "noshow", "cancel"}
SlotHandlers == {"order", "payment.captured", "order.paid", "reconcile", "expire"}

Symmetric == Permutations(Bookings)
=============================================================================

----------------------------- MODULE MCWaitlist -----------------------------
(****************************************************************************)
(* The users of the calls in the run of Waitlist.                           *)
(****************************************************************************)
EXTENDS Waitlist, TLC

CONSTANTS w1, w2, w3, b1, b2, u1, u2, u3

\* The first booking is u3's.  Two others want to wait, one of them calls twice and
\* books when the slot is offered.
ThreeUsers == w1 :> u1 @@ w2 :> u2 @@ w3 :> u1 @@ b1 :> u3 @@ b2 :> u1
=============================================================================

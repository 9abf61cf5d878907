--------------------------- MODULE WaitlistProofs ---------------------------
(****************************************************************************)
(* Theorems about Waitlist, for any numbers of joins, bookings, users, jobs *)
(* and attempts.                                                            *)
(****************************************************************************)
EXTENDS Waitlist, FiniteSetTheorems, TLAPS

Handlers == Calls \cup Bookings

\* An entry that was read, and one that is about to be written, was created.
Picked ==
    \A x \in Handlers :
        /\ pick[x] # None => entry[pick[x]] # "NONE"
        /\ at[x] \in {"notify", "enqueue", "claim"} => pick[x] # None

\* What findFirst found stays true until the update: entries are created behind the
\* others, and none goes back to WAITING.
FirstPicked == \A x \in Handlers : at[x] = "notify" => earlier[pick[x]] \cap Waiting = {}

Unborn == \A c \in Calls : at[c] \in {"join", "check", "create"} => entry[c] = "NONE"

History == \A c \in Calls : \A d \in earlier[c] : entry[d] # "NONE"

\* A job that runs has an attempt left.
Counted == \A c \in Calls : at[c] \in JobSteps => attempts[c] < JobAttempts

OrderInv == TypeOK /\ Picked /\ FirstPicked /\ Unborn /\ History /\ Counted

----------------------------------------------------------------------------
LEMMA OrderInit == Init => OrderInv
<1> SUFFICES ASSUME Init PROVE OrderInv
  OBVIOUS
<1>1. /\ at \in [Handlers -> {"join", "start"}]
      /\ pick \in [Handlers -> {None}]
  BY DEF Init, Handlers
<1>2. /\ entry \in [Calls -> {"NONE"}] /\ earlier \in [Calls -> {{}}]
      /\ jobs \in [Calls -> {0}] /\ attempts \in [Calls -> {0}]
      /\ open = {} /\ again = {} /\ live = {} /\ lost = FALSE
  BY DEF Init
<1>3. 0 \in 0 .. MaxJobs /\ 0 \in 0 .. JobAttempts /\ FALSE \in BOOLEAN
  BY WaitlistAssumption
<1>4. TypeOK
  BY <1>1, <1>2, <1>3 DEF TypeOK, Handlers, JoinSteps, JobSteps, BookingSteps
<1>5. Picked /\ FirstPicked /\ Counted
  BY <1>1, <1>2 DEF Picked, FirstPicked, Counted, Handlers, JobSteps
<1>6. Unborn /\ History
  BY <1>2 DEF Unborn, History
<1> QED BY <1>4, <1>5, <1>6 DEF OrderInv

LEMMA OrderStep == OrderInv /\ [Next]_vars => OrderInv'
<1> SUFFICES ASSUME OrderInv, [Next]_vars PROVE OrderInv'
  OBVIOUS
<1> USE WaitlistAssumption
    DEF OrderInv, TypeOK, Picked, FirstPicked, Unborn, History, Counted, Handlers,
        JoinSteps, JobSteps, BookingSteps, Goto, SetEntry, jobVars, Waiting, Ended
<1>1. CASE UNCHANGED vars
  BY <1>1 DEF vars
<1>2. ASSUME NEW c \in Calls, JoinRead(c) PROVE OrderInv'
  BY <1>2 DEF JoinRead
<1>3. ASSUME NEW c \in Calls, JoinCheck(c) PROVE OrderInv'
  BY <1>3 DEF JoinCheck
<1>4. ASSUME NEW c \in Calls, JoinCreate(c) PROVE OrderInv'
  BY <1>4 DEF JoinCreate, Entries
<1>5. ASSUME NEW c \in Calls, WindowCloses(c) PROVE OrderInv'
  BY <1>5 DEF WindowCloses
<1>6. ASSUME NEW b \in Bookings, ClaimRead(b) PROVE OrderInv'
  BY <1>6 DEF ClaimRead
<1>7. ASSUME NEW b \in Bookings, Insert(b) PROVE OrderInv'
  <2>1. \E step \in {"booked", "claim", "over"} :
           /\ at' = [at EXCEPT ![b] = step]
           /\ step = "claim" => pick[b] # None
           /\ live' \in {live, {b}}
    BY <1>7 DEF Insert
  <2>2. at[b] = "insert" /\ UNCHANGED <<entry, earlier, open, again, pick, jobs, attempts, lost>>
    BY <1>7 DEF Insert
  <2> QED BY <2>1, <2>2
<1>8. ASSUME NEW b \in Bookings, ClaimWrite(b) PROVE OrderInv'
  BY <1>8 DEF ClaimWrite
<1>9. ASSUME NEW b \in Bookings, CancelBooking(b) \/ BookingEnds(b) PROVE OrderInv'
  BY <1>9 DEF CancelBooking, BookingEnds
<1>10. ASSUME NEW x \in Handlers, OfferFind(x) PROVE OrderInv'
  BY <1>10 DEF OfferFind, First
<1>11. ASSUME NEW x \in Handlers, OfferNotify(x) PROVE OrderInv'
  BY <1>11 DEF OfferNotify
<1>12. ASSUME NEW x \in Handlers, OfferEnqueue(x) PROVE OrderInv'
  BY <1>12 DEF OfferEnqueue
<1>13. ASSUME NEW b \in Bookings, HandlerDies(b) PROVE OrderInv'
  BY <1>13 DEF HandlerDies
<1>14. ASSUME NEW w \in Calls, JobStart(w) PROVE OrderInv'
  BY <1>14 DEF JobStart
<1>15. ASSUME NEW w \in Calls, JobExpire(w) PROVE OrderInv'
  BY <1>15 DEF JobExpire
<1>16. ASSUME NEW w \in Calls, JobFails(w) PROVE OrderInv'
  BY <1>16 DEF JobFails
<1> QED
  BY <1>1, <1>2, <1>3, <1>4, <1>5, <1>6, <1>7, <1>8, <1>9, <1>10, <1>11, <1>12, <1>13,
     <1>14, <1>15, <1>16
     DEF Next, JoinWaitlist, Job, CreateBooking, Offer

\* Every variable keeps its type, whoever runs.
THEOREM TypeCorrect == Spec => []TypeOK
<1>1. Init => OrderInv
  BY OrderInit
<1>2. OrderInv /\ [Next]_vars => OrderInv'
  BY OrderStep
<1>3. OrderInv => TypeOK
  BY DEF OrderInv
<1> QED BY <1>1, <1>2, <1>3, PTL DEF Spec

\* First come, first served, for any number of customers: the two reads and writes
\* that make an offer interleave with joins, other offers and jobs.
THEOREM FirstComeFirstServed == Spec => OfferedInOrder
<1>1. Init => OrderInv
  BY OrderInit
<1>2. OrderInv /\ [Next]_vars => OrderInv'
  BY OrderStep
<1> DEFINE Fair(w) == entry[w] = "WAITING" /\ entry'[w] = "NOTIFIED" => earlier[w] \cap Waiting = {}
<1>3. OrderInv /\ [Next]_vars => [\A w \in Calls : Fair(w)]_vars
  <2> SUFFICES ASSUME OrderInv, Next, NEW w \in Calls,
                      entry[w] = "WAITING", entry'[w] = "NOTIFIED"
               PROVE  earlier[w] \cap Waiting = {}
    OBVIOUS
  <2>1. entry \in [Calls -> {"NONE", "WAITING", "NOTIFIED", "CLAIMED", "EXPIRED"}]
    BY DEF OrderInv, TypeOK
  <2>2. ASSUME NEW x \in Handlers, OfferNotify(x) PROVE earlier[w] \cap Waiting = {}
    <3>1. entry' = [entry EXCEPT ![pick[x]] = "NOTIFIED"] /\ at[x] = "notify"
      BY <2>2 DEF OfferNotify, SetEntry
    <3>2. pick[x] = w
      BY <3>1, <2>1
    <3>3. at[x] = "notify" => earlier[pick[x]] \cap Waiting = {}
      BY DEF OrderInv, FirstPicked
    <3> QED BY <3>1, <3>2, <3>3
  <2>3. ASSUME NEW c \in Calls, JoinWaitlist(c) \/ JobStart(c) \/ JobExpire(c)
                                \/ JobFails(c) \/ WindowCloses(c)
        PROVE  FALSE
    BY <2>1, <2>3 DEF JoinWaitlist, JoinRead, JoinCheck, JoinCreate, JobStart, JobExpire,
                      JobFails, WindowCloses, SetEntry
  <2>4. ASSUME NEW b \in Bookings, CreateBooking(b) \/ CancelBooking(b) \/ BookingEnds(b)
                                   \/ HandlerDies(b)
        PROVE  FALSE
    BY <2>1, <2>4 DEF CreateBooking, ClaimRead, Insert, ClaimWrite, CancelBooking, BookingEnds,
                      HandlerDies, SetEntry
  <2>5. ASSUME NEW x \in Handlers, OfferFind(x) \/ OfferEnqueue(x) PROVE FALSE
    BY <2>1, <2>5 DEF OfferFind, OfferEnqueue
  <2> QED BY <2>2, <2>3, <2>4, <2>5 DEF Next, Job, Offer, Handlers
<1> QED BY <1>1, <1>2, <1>3, PTL DEF Spec, OfferedInOrder

----------------------------------------------------------------------------
(* One offer per cancellation.  Each offer that is out, and each job that has ended  *)
(* one and not yet made the next, was paid for by another cancellation.              *)

Owed ==
    {c \in Calls : at[c] \in {"find", "notify"} \/ (at[c] = "expire" /\ entry[c] # "NOTIFIED")}

\* Cancellations that have made their offer, or never will.
Spent == {b \in Bookings : at[b] \in {"enqueue", "offered"}}

Balanced == Cardinality(Offered) + Cardinality(Owed) <= Cardinality(Spent)

\* The moves that keep a balance: owe less or spend more; end an offer and owe one;
\* make the offer that was owed; make an offer for a cancellation.
LEMMA Moves ==
    ASSUME NEW A, NEW B, NEW C, NEW A2, NEW B2, NEW C2,
           IsFiniteSet(A), IsFiniteSet(B), IsFiniteSet(C2),
           Cardinality(A) + Cardinality(B) <= Cardinality(C),
           \/ A2 = A /\ B2 \subseteq B /\ C \subseteq C2
           \/ \E p \in A : A2 = A \ {p} /\ B2 \subseteq B \cup {p} /\ C2 = C
           \/ \E p : \E x \in B : A2 = A \cup {p} /\ B2 \subseteq B \ {x} /\ C2 = C
           \/ \E p, x : x \notin C /\ A2 = A \cup {p} /\ B2 \subseteq B /\ C2 = C \cup {x}
    PROVE  Cardinality(A2) + Cardinality(B2) <= Cardinality(C2)
<1>1. CASE A2 = A /\ B2 \subseteq B /\ C \subseteq C2
  <2>1. IsFiniteSet(B2) /\ IsFiniteSet(C) /\ Cardinality(B2) <= Cardinality(B)
        /\ Cardinality(C) <= Cardinality(C2)
    BY <1>1, FS_Subset
  <2>2. /\ Cardinality(A) \in Nat /\ Cardinality(B) \in Nat /\ Cardinality(B2) \in Nat
        /\ Cardinality(C) \in Nat /\ Cardinality(C2) \in Nat
    BY <2>1, FS_CardinalityType
  <2> QED BY <1>1, <2>1, <2>2
<1>2. ASSUME NEW p \in A, A2 = A \ {p}, B2 \subseteq B \cup {p}, C2 = C
      PROVE  Cardinality(A2) + Cardinality(B2) <= Cardinality(C2)
  <2>1. IsFiniteSet(A2) /\ Cardinality(A2) = Cardinality(A) - 1
    BY <1>2, FS_RemoveElement
  <2>2. IsFiniteSet(B \cup {p}) /\ Cardinality(B \cup {p}) \in {Cardinality(B), Cardinality(B) + 1}
    BY FS_AddElement
  <2>3. IsFiniteSet(B2) /\ Cardinality(B2) <= Cardinality(B \cup {p})
    BY <1>2, <2>2, FS_Subset
  <2>4. /\ Cardinality(A) \in Nat /\ Cardinality(B) \in Nat /\ Cardinality(B2) \in Nat
        /\ Cardinality(A2) \in Nat /\ Cardinality(C2) \in Nat
    BY <2>1, <2>3, FS_CardinalityType
  <2> QED BY <1>2, <2>1, <2>2, <2>3, <2>4
<1>3. ASSUME NEW p, NEW x \in B, A2 = A \cup {p}, B2 \subseteq B \ {x}, C2 = C
      PROVE  Cardinality(A2) + Cardinality(B2) <= Cardinality(C2)
  <2>1. IsFiniteSet(A2) /\ Cardinality(A2) \in {Cardinality(A), Cardinality(A) + 1}
    BY <1>3, FS_AddElement
  <2>2. IsFiniteSet(B \ {x}) /\ Cardinality(B \ {x}) = Cardinality(B) - 1
    BY FS_RemoveElement
  <2>3. IsFiniteSet(B2) /\ Cardinality(B2) <= Cardinality(B \ {x})
    BY <1>3, <2>2, FS_Subset
  <2>4. /\ Cardinality(A) \in Nat /\ Cardinality(B) \in Nat /\ Cardinality(B2) \in Nat
        /\ Cardinality(A2) \in Nat /\ Cardinality(C2) \in Nat
    BY <2>1, <2>3, FS_CardinalityType
  <2> QED BY <1>3, <2>1, <2>2, <2>3, <2>4
<1>4. ASSUME NEW p, NEW x, x \notin C, A2 = A \cup {p}, B2 \subseteq B, C2 = C \cup {x}
      PROVE  Cardinality(A2) + Cardinality(B2) <= Cardinality(C2)
  <2>1. IsFiniteSet(A2) /\ Cardinality(A2) \in {Cardinality(A), Cardinality(A) + 1}
    BY <1>4, FS_AddElement
  <2>2. IsFiniteSet(C)
    BY <1>4, FS_Subset
  <2>3. Cardinality(C2) = Cardinality(C) + 1
    BY <1>4, <2>2, FS_AddElement
  <2>4. IsFiniteSet(B2) /\ Cardinality(B2) <= Cardinality(B)
    BY <1>4, FS_Subset
  <2>5. /\ Cardinality(A) \in Nat /\ Cardinality(B) \in Nat /\ Cardinality(B2) \in Nat
        /\ Cardinality(A2) \in Nat /\ Cardinality(C) \in Nat
    BY <2>1, <2>2, <2>4, FS_CardinalityType
  <2> QED BY <2>1, <2>3, <2>4, <2>5
<1> QED BY <1>1, <1>2, <1>3, <1>4

LEMMA BalanceInit == Init => Balanced
<1> SUFFICES ASSUME Init PROVE Balanced
  OBVIOUS
<1>1. Offered = {} /\ Owed = {} /\ Spent = {}
  BY WaitlistAssumption DEF Init, Offered, Owed, Spent
<1>2. Cardinality({}) = 0
  BY FS_EmptySet
<1> QED BY <1>1, <1>2 DEF Balanced

LEMMA BalanceStep == OrderInv /\ Balanced /\ [Next]_vars => Balanced'
<1> SUFFICES ASSUME OrderInv, Balanced, [Next]_vars PROVE Balanced'
  OBVIOUS
<1>a. IsFiniteSet(Offered) /\ IsFiniteSet(Owed) /\ IsFiniteSet(Spent')
  <2>1. Offered \subseteq Calls /\ Owed \subseteq Calls /\ Spent' \subseteq Bookings
    BY DEF Offered, Owed, Spent
  <2> QED BY <2>1, CallsAreFinite, FS_Subset
<1> DEFINE OwesLess == Offered' = Offered /\ Owed' \subseteq Owed /\ Spent \subseteq Spent'
           EndsOffer == \E p \in Offered : /\ Offered' = Offered \ {p} /\ Owed' \subseteq Owed \cup {p}
                                         /\ Spent' = Spent
           PassesOn == \E p : \E x \in Owed : /\ Offered' = Offered \cup {p} /\ Owed' \subseteq Owed \ {x}
                                            /\ Spent' = Spent
           Offers == \E p, x : /\ x \notin Spent /\ Offered' = Offered \cup {p} /\ Owed' \subseteq Owed
                              /\ Spent' = Spent \cup {x}
           Move == OwesLess \/ EndsOffer \/ PassesOn \/ Offers
<1>b. /\ entry \in [Calls -> {"NONE", "WAITING", "NOTIFIED", "CLAIMED", "EXPIRED"}]
      /\ at \in [Handlers -> JoinSteps \cup JobSteps \cup BookingSteps]
      /\ pick \in [Handlers -> Calls \cup {None}]
  BY DEF OrderInv, TypeOK, Handlers
<1>c. /\ \A x \in Handlers : at[x] \in {"notify", "enqueue", "claim"} => pick[x] \in Calls
      /\ \A c \in Calls : at[c] \in {"join", "check", "create"} => entry[c] = "NONE"
  BY <1>b DEF OrderInv, Picked, Unborn
<1>d. Calls \cap Bookings = {}
  BY WaitlistAssumption
<1> USE <1>b, <1>c, <1>d DEF Offered, Owed, Spent, Goto, SetEntry, Handlers, Ended
<1>1. ASSUME UNCHANGED vars PROVE OwesLess
  BY <1>1 DEF vars
<1>2. ASSUME NEW c \in Calls, JoinWaitlist(c) \/ WindowCloses(c) PROVE OwesLess
  BY <1>2 DEF JoinWaitlist, JoinRead, JoinCheck, JoinCreate, WindowCloses
<1>3. ASSUME NEW b \in Bookings, ClaimRead(b) \/ CancelBooking(b) \/ BookingEnds(b) PROVE OwesLess
  BY <1>3 DEF ClaimRead, CancelBooking, BookingEnds
<1>4. ASSUME NEW b \in Bookings, Insert(b) PROVE OwesLess
  BY <1>4 DEF Insert
<1>5. ASSUME NEW b \in Bookings, ClaimWrite(b) PROVE OwesLess \/ EndsOffer
  <2>1. CASE entry[pick[b]] = "NOTIFIED"
    BY <1>5, <2>1 DEF ClaimWrite
  <2>2. CASE entry[pick[b]] # "NOTIFIED"
    BY <1>5, <2>2 DEF ClaimWrite
  <2> QED BY <2>1, <2>2
<1>6. ASSUME NEW b \in Bookings, HandlerDies(b) PROVE OwesLess
  BY <1>6 DEF HandlerDies
<1>7. ASSUME NEW x \in Handlers, OfferFind(x) \/ OfferEnqueue(x) PROVE OwesLess
  BY <1>7 DEF OfferFind, OfferEnqueue
<1>8. ASSUME NEW b \in Bookings, OfferNotify(b) PROVE Offers
  BY <1>8 DEF OfferNotify
<1>9. ASSUME NEW w \in Calls, OfferNotify(w) PROVE PassesOn
  BY <1>9 DEF OfferNotify
<1>10. ASSUME NEW w \in Calls, JobStart(w) \/ JobFails(w) PROVE OwesLess
  BY <1>10 DEF JobStart, JobFails, JobSteps
<1>11. ASSUME NEW w \in Calls, JobExpire(w) PROVE OwesLess \/ EndsOffer
  <2>1. CASE entry[w] = "NOTIFIED"
    BY <1>11, <2>1 DEF JobExpire
  <2>2. CASE entry[w] # "NOTIFIED"
    BY <1>11, <2>2 DEF JobExpire
  <2> QED BY <2>1, <2>2
<1>12. Move
  <2> HIDE DEF OwesLess, EndsOffer, PassesOn, Offers, Offered, Owed, Spent
  <2>1. CASE UNCHANGED vars
    BY <2>1, <1>1
  <2>2. CASE Next
    BY <2>2, <1>2, <1>3, <1>4, <1>5, <1>6, <1>7, <1>8, <1>9, <1>10, <1>11
       DEF Next, Job, CreateBooking, Offer
  <2> QED BY <2>1, <2>2
<1> QED
  <2> HIDE DEF Offered, Owed, Spent
  <2> QED BY <1>12, <1>a, Moves DEF Balanced

\* However cancellations, jobs, retries and claims interleave, and whoever dies
\* between two steps, no more offers are out than cancellations happened.
THEOREM OffersArePaidFor == Spec => []OneOfferPerCancellation
<1>1. Init => OrderInv /\ Balanced
  BY OrderInit, BalanceInit
<1>2. OrderInv /\ Balanced /\ [Next]_vars => (OrderInv /\ Balanced)'
  BY OrderStep, BalanceStep
<1>3. OrderInv /\ Balanced => OneOfferPerCancellation
  <2>1. /\ Spent \subseteq Cancelled /\ Cancelled \subseteq Bookings
        /\ Owed \subseteq Calls /\ Offered \subseteq Calls
    BY DEF Spent, Cancelled, Owed, Offered
  <2>2. /\ IsFiniteSet(Cancelled) /\ IsFiniteSet(Owed) /\ IsFiniteSet(Offered)
        /\ Cardinality(Spent) <= Cardinality(Cancelled) /\ IsFiniteSet(Spent)
    BY <2>1, CallsAreFinite, FS_Subset
  <2>3. /\ Cardinality(Owed) \in Nat /\ Cardinality(Offered) \in Nat
        /\ Cardinality(Spent) \in Nat /\ Cardinality(Cancelled) \in Nat
    BY <2>2, FS_CardinalityType
  <2> QED BY <2>2, <2>3 DEF Balanced, OneOfferPerCancellation
<1> QED BY <1>1, <1>2, <1>3, PTL DEF Spec
=============================================================================

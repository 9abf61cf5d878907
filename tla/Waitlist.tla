------------------------------ MODULE Waitlist ------------------------------
(****************************************************************************)
(* The waitlist of one slot: joinWaitlist, the offer cancelBooking makes to *)
(* the first customer waiting, the waitlist-expiry worker that passes an    *)
(* unanswered offer on, and createBooking, which claims an offer.  None of  *)
(* them takes a lock on the waitlist: each read and each write is a step.   *)
(*                                                                          *)
(* Bookings of one slot run createBooking one at a time, under the lease of *)
(* SlotReservation, and hold the slot as ExclusiveSlots promises.  The end  *)
(* of the booking is its cancellation, with the offer, or another end       *)
(* (expiry, rejection), without.                                            *)
(****************************************************************************)
EXTENDS Integers, FiniteSets

CONSTANTS Calls,        \* calls of joinWaitlist; a call creates at most one entry
          Bookings,     \* calls of createBooking
          Users,
          Who,          \* the user of each call
          JobAttempts,  \* attempts of a waitlist-expiry job: 3 in the code
          MayFail,      \* a handler may throw or die between two steps
          MaxJobs,      \* bound: jobs of one entry
          None

ASSUME WaitlistAssumption ==
    /\ Who \in [Calls \cup Bookings -> Users]
    /\ Calls \cap Bookings = {} /\ None \notin Calls
    /\ JobAttempts \in Nat \ {0} /\ MaxJobs \in Nat \ {0}
    /\ MayFail \in BOOLEAN

\* OneOfferPerCancellation counts them.
ASSUME CallsAreFinite == IsFiniteSet(Calls) /\ IsFiniteSet(Bookings)

VARIABLES
    entry,     \* waitlists.status of the entry each call created
    earlier,   \* the entries created before it: the order of createdAt
    open,      \* the entries whose expiresAt lies ahead
    again,     \* the entries that were notified more than once
    live,      \* the bookings that hold the slot
    at,        \* the step of each call, booking and job about to be taken
    pick,      \* the entry a booking or a job has read
    jobs,      \* the delayed expire-waitlist jobs of each entry
    attempts,  \* attempts its running job has used up
    lost       \* did a handler end between two writes that belong together

vars == <<entry, earlier, open, again, live, at, pick, jobs, attempts, lost>>
jobVars == <<jobs, attempts>>

\* An entry is also the name of its call and of the job that expires it: a call is
\* at "join", "check", "create", "joined", its job then at one of JobSteps.
JoinSteps == {"join", "check", "create", "joined"}
JobSteps == {"expire", "find", "notify", "enqueue", "retry"}
BookingSteps == {"start", "insert", "claim", "booked", "find", "notify", "enqueue", "offered", "over"}

Active == {"WAITING", "NOTIFIED"}
Entries == {c \in Calls : entry[c] # "NONE"}

TypeOK ==
    /\ entry \in [Calls -> {"NONE", "WAITING", "NOTIFIED", "CLAIMED", "EXPIRED"}]
    /\ earlier \in [Calls -> SUBSET Calls]
    /\ open \subseteq Calls /\ again \subseteq Calls
    /\ live \subseteq Bookings
    /\ at \in [Calls \cup Bookings -> JoinSteps \cup JobSteps \cup BookingSteps]
    /\ pick \in [Calls \cup Bookings -> Calls \cup {None}]
    /\ jobs \in [Calls -> 0 .. MaxJobs]
    /\ attempts \in [Calls -> 0 .. JobAttempts]
    /\ lost \in BOOLEAN

Init ==
    /\ entry = [c \in Calls |-> "NONE"]
    /\ earlier = [c \in Calls |-> {}]
    /\ open = {} /\ again = {} /\ live = {}
    /\ at = [x \in Calls \cup Bookings |-> IF x \in Calls THEN "join" ELSE "start"]
    /\ pick = [x \in Calls \cup Bookings |-> None]
    /\ jobs = [c \in Calls |-> 0]
    /\ attempts = [c \in Calls |-> 0]
    /\ lost = FALSE

----------------------------------------------------------------------------
Goto(x, step) == at' = [at EXCEPT ![x] = step]
SetEntry(w, status) == entry' = [entry EXCEPT ![w] = status]

\* expiresAt passes.
WindowCloses(w) ==
    /\ w \in open
    /\ open' = open \ {w}
    /\ UNCHANGED <<entry, earlier, again, live, at, pick, jobVars, lost>>

----------------------------------------------------------------------------
(* joinWaitlist *)

\* Only a slot that is booked can be waited for.
JoinRead(c) ==
    /\ at[c] = "join" /\ live # {}
    /\ Goto(c, "check")
    /\ UNCHANGED <<entry, earlier, open, again, live, pick, jobVars, lost>>

\* The customer must not be on the waitlist already.
JoinCheck(c) ==
    /\ at[c] = "check"
    /\ Goto(c, IF \E d \in Calls : Who[d] = Who[c] /\ entry[d] \in Active
               THEN "joined" ELSE "create")
    /\ UNCHANGED <<entry, earlier, open, again, live, pick, jobVars, lost>>

JoinCreate(c) ==
    /\ at[c] = "create"
    /\ SetEntry(c, "WAITING")
    /\ earlier' = [earlier EXCEPT ![c] = Entries]
    /\ Goto(c, "joined")
    /\ UNCHANGED <<open, again, live, pick, jobVars, lost>>

----------------------------------------------------------------------------
(* createBooking on the slot, with the lease in its hands. *)

\* activeWaitlistClaim: an offer of this customer that is still open.
ClaimRead(b) ==
    /\ at[b] = "start"
    /\ \A c \in Bookings : at[c] \notin {"insert", "claim"}
    /\ LET offers == {w \in open : entry[w] = "NOTIFIED" /\ Who[w] = Who[b]}
       IN  \/ \E w \in offers : pick' = [pick EXCEPT ![b] = w]
           \/ offers = {} /\ UNCHANGED pick
    /\ Goto(b, "insert")
    /\ UNCHANGED <<entry, earlier, open, again, live, jobVars, lost>>

\* The transaction, or an answer that the slot is taken or the request refused.
Insert(b) ==
    /\ at[b] = "insert"
    /\ \/ /\ live = {}
          /\ live' = {b}
          /\ Goto(b, IF pick[b] = None THEN "booked" ELSE "claim")
       \/ /\ Goto(b, "over")
          /\ UNCHANGED live
    /\ UNCHANGED <<entry, earlier, open, again, pick, jobVars, lost>>

\* The update names the entry by id.
ClaimWrite(b) ==
    /\ at[b] = "claim"
    /\ SetEntry(pick[b], "CLAIMED")
    /\ Goto(b, "booked")
    /\ UNCHANGED <<earlier, open, again, live, pick, jobVars, lost>>

\* The transaction of cancelBooking; the offer comes after its commit.
CancelBooking(b) ==
    /\ at[b] = "booked" /\ b \in live
    /\ live' = live \ {b}
    /\ Goto(b, "find")
    /\ UNCHANGED <<entry, earlier, open, again, pick, jobVars, lost>>

\* Expiry, rejection: no offer is made.
BookingEnds(b) ==
    /\ at[b] = "booked" /\ b \in live
    /\ live' = live \ {b}
    /\ Goto(b, "over")
    /\ UNCHANGED <<entry, earlier, open, again, pick, jobVars, lost>>

----------------------------------------------------------------------------
(* The offer: made by a cancellation, passed on by a job.                   *)

Waiting == {w \in Calls : entry[w] = "WAITING"}
First(w) == w \in Waiting /\ earlier[w] \cap Waiting = {}

Ended(x) == IF x \in Calls THEN "joined" ELSE "offered"

\* Mutant: findFirst without orderBy.
OfferFindAny(x) ==
    /\ at[x] = "find"
    /\ \/ \E w \in Waiting : pick' = [pick EXCEPT ![x] = w] /\ Goto(x, "notify")
       \/ Waiting = {} /\ Goto(x, Ended(x)) /\ UNCHANGED pick
    /\ UNCHANGED <<entry, earlier, open, again, live, jobVars, lost>>

OfferFind(x) ==
    /\ at[x] = "find"
    /\ \/ \E w \in Calls : First(w) /\ pick' = [pick EXCEPT ![x] = w] /\ Goto(x, "notify")
       \/ Waiting = {} /\ Goto(x, Ended(x)) /\ UNCHANGED pick
    /\ UNCHANGED <<entry, earlier, open, again, live, jobVars, lost>>

\* The update by id: ten minutes from now on.
OfferNotify(x) ==
    /\ at[x] = "notify"
    /\ SetEntry(pick[x], "NOTIFIED")
    /\ open' = open \cup {pick[x]}
    /\ again' = IF entry[pick[x]] = "WAITING" THEN again ELSE again \cup {pick[x]}
    /\ Goto(x, "enqueue")
    /\ UNCHANGED <<earlier, live, pick, jobVars, lost>>

\* Mutant: the job of the next one is not queued.
OfferEnqueueNothing(x) ==
    /\ at[x] = "enqueue"
    /\ Goto(x, Ended(x))
    /\ UNCHANGED <<entry, earlier, open, again, live, pick, jobVars, lost>>

OfferEnqueue(x) ==
    /\ at[x] = "enqueue" /\ jobs[pick[x]] < MaxJobs
    /\ jobs' = [jobs EXCEPT ![pick[x]] = @ + 1]
    /\ Goto(x, Ended(x))
    /\ UNCHANGED <<entry, earlier, open, again, live, pick, attempts, lost>>

\* createBooking throws after its transaction, or a cancellation's offer does (it
\* is caught and logged), or the process dies.
HandlerDies(b) ==
    /\ MayFail /\ at[b] \in {"claim", "find", "notify", "enqueue"}
    /\ Goto(b, IF at[b] = "claim" THEN "booked" ELSE "offered")
    /\ lost' = TRUE
    /\ UNCHANGED <<entry, earlier, open, again, live, pick, jobVars>>

----------------------------------------------------------------------------
(* WaitlistExpiryWorker.process *)

\* A job's delay ends with the window of the offer it was queued for; an entry that
\* was notified again has a window beyond that.
JobStart(w) ==
    /\ \/ /\ at[w] = "joined" /\ jobs[w] > 0 /\ (w \notin open \/ w \in again)
          /\ jobs' = [jobs EXCEPT ![w] = @ - 1]
          /\ attempts' = [attempts EXCEPT ![w] = 0]
       \/ /\ at[w] = "retry"
          /\ UNCHANGED jobVars
    /\ Goto(w, IF entry[w] = "NOTIFIED" THEN "expire" ELSE "joined")
    /\ UNCHANGED <<entry, earlier, open, again, live, pick, lost>>

\* Mutant: the worker passes the offer on and leaves its entry NOTIFIED.
JobExpireNothing(w) ==
    /\ at[w] = "expire"
    /\ Goto(w, "find")
    /\ UNCHANGED <<entry, earlier, open, again, live, pick, jobVars, lost>>

\* Mutant: the worker expires its entry and looks for nobody.
JobExpireAlone(w) ==
    /\ at[w] = "expire"
    /\ SetEntry(w, "EXPIRED")
    /\ Goto(w, "joined")
    /\ UNCHANGED <<earlier, open, again, live, pick, jobVars, lost>>

\* The update to EXPIRED, by id.
JobExpire(w) ==
    /\ at[w] = "expire"
    /\ SetEntry(w, "EXPIRED")
    /\ Goto(w, "find")
    /\ UNCHANGED <<earlier, open, again, live, pick, jobVars, lost>>

\* Mutant: a job has no last attempt.
JobFailsForever(w) ==
    /\ MayFail /\ at[w] \in JobSteps \ {"retry"}
    /\ attempts' = [attempts EXCEPT ![w] = @ + 1]
    /\ Goto(w, "retry")
    /\ UNCHANGED <<entry, earlier, open, again, live, pick, jobs, lost>>

\* BullMQ runs it again from the start; once the entry is EXPIRED that does nothing.
JobFails(w) ==
    /\ MayFail /\ at[w] \in JobSteps \ {"retry"}
    /\ attempts' = [attempts EXCEPT ![w] = @ + 1]
    /\ Goto(w, IF attempts[w] + 1 < JobAttempts THEN "retry" ELSE "joined")
    /\ lost' = (lost \/ at[w] \in {"find", "notify", "enqueue"} \/ attempts[w] + 1 = JobAttempts)
    /\ UNCHANGED <<entry, earlier, open, again, live, pick, jobs>>

----------------------------------------------------------------------------
JoinWaitlist(c) == JoinRead(c) \/ JoinCheck(c) \/ JoinCreate(c)
CreateBooking(b) == ClaimRead(b) \/ Insert(b) \/ ClaimWrite(b)
Offer(x) == OfferFind(x) \/ OfferNotify(x) \/ OfferEnqueue(x)
Job(w) == JobStart(w) \/ JobExpire(w) \/ Offer(w)

Next ==
    \/ \E c \in Calls : JoinWaitlist(c) \/ Job(c) \/ JobFails(c) \/ WindowCloses(c)
    \/ \E b \in Bookings : \/ CreateBooking(b) \/ CancelBooking(b) \/ BookingEnds(b)
                           \/ Offer(b) \/ HandlerDies(b)

Spec == Init /\ [][Next]_vars

\* Handlers and jobs run on, and time passes.
FairSpec ==
    /\ Spec
    /\ \A c \in Calls : WF_vars(Job(c)) /\ WF_vars(WindowCloses(c))
    /\ \A b \in Bookings : WF_vars(Offer(b))

----------------------------------------------------------------------------
(* Properties *)

\* First come, first served: an offer goes to an entry only when nobody who joined
\* before it still waits, whatever offers and joins interleave.
OfferedInOrder ==
    [][\A w \in Calls : entry[w] = "WAITING" /\ entry'[w] = "NOTIFIED" =>
          earlier[w] \cap Waiting = {}]_vars

\* A cancellation sets off one offer, which is passed on: however the cancellations,
\* jobs, retries and late claims interleave, no more offers are out than
\* cancellations happened.
Cancelled == {b \in Bookings : at[b] \in {"find", "notify", "enqueue", "offered"}}
Offered == {w \in Calls : entry[w] = "NOTIFIED"}

OneOfferPerCancellation == Cardinality(Offered) <= Cardinality(Cancelled)

\* An unanswered offer ends: its job was queued, and expires it or finds it claimed,
\* unless a handler ended between two of its writes.
OfferEnds == \A w \in Calls : entry[w] = "NOTIFIED" ~> (entry[w] # "NOTIFIED" \/ lost)

\* While an offer is out, the customers behind it are served: the chain ends with a
\* claim or when nobody waits any more, again unless a handler is lost.
OfferIsPassedOn ==
    \A w \in Calls :
        entry[w] = "WAITING" /\ Offered # {} ~>
            \/ entry[w] # "WAITING" \/ lost
            \/ \E c \in Calls : entry[c] = "CLAIMED"

----------------------------------------------------------------------------
(* Races the code does not rule out *)

\* A customer is on the waitlist of the slot once.  Two calls at the same time both
\* find no entry and create one each.
OneActiveEntry ==
    \A c, d \in Calls :
        entry[c] \in Active /\ entry[d] \in Active /\ Who[c] = Who[d] => c = d

\* What was claimed stays claimed.  The worker reads NOTIFIED and writes EXPIRED by
\* id: a claim in between, at the end of the ten minutes, is overwritten.
ClaimIsFinal == [][\A w \in Calls : entry[w] = "CLAIMED" => entry'[w] = "CLAIMED"]_vars
=============================================================================

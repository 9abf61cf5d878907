----------------------------- MODULE RateLimits -----------------------------
(****************************************************************************)
(* The two ways requests are counted in Redis: a counter that a first       *)
(* request starts and that runs out after the window (RateLimiterService),  *)
(* and a sorted set of the requests of the last window (the sliding limit). *)
(* Redis runs each command at once; a request uses several, and its process *)
(* may die between two.  A request whose command fails, or that comes while *)
(* Redis cannot be reached, passes.                                         *)
(*                                                                          *)
(* Time goes in ticks; members, passed requests and failures are counted by *)
(* their age.                                                               *)
(****************************************************************************)
EXTENDS Integers, FiniteSets, Sums

CONSTANTS Limit,       \* requests that may pass in a window
          Span,        \* ticks in a window
          LimitCalls,  \* the requests served at a time
          MaxMembers,  \* bound: members of the sliding key
          MaxErrors    \* bound: failures of each kind in a window

ASSUME LimitsAssumption ==
    /\ Limit \in Nat \ {0} /\ Span \in Nat \ {0}
    /\ MaxMembers \in Nat /\ MaxErrors \in Nat
    /\ IsFiniteSet(LimitCalls)

VARIABLES
    counter,    \* rate_limit:{key}: count (0: no key), ticks to live (0: no expiry)
    members,    \* the sliding key's members
    limitCall,  \* the requests: the step, the age of the member it added
    passes,      \* passed requests of the last window, by the counter
    slides,      \* ... and by the sliding limit
    passErrors,  \* those of the passed that Redis failed, of the counter
    slideErrors  \* ... and of the sliding limit

limitVars == <<counter, members, limitCall, passes, slides, passErrors, slideErrors>>

Ages == 0 .. Span - 1
Nobody == [age \in Ages |-> 0]
Total(tally) == SumOver(tally, Ages)
Older(tally) == [age \in Ages |-> IF age = 0 THEN 0 ELSE tally[age - 1]]
IdleLimit == [at |-> "idle", age |-> 0]

LimitsTypeOK ==
    /\ counter \in [count : 0 .. Limit + 1, ttl : 0 .. Span]
    /\ {members, passes, slides, passErrors, slideErrors} \subseteq [Ages -> Nat]
    /\ limitCall \in [LimitCalls -> [at : {"idle", "expire", "undo"}, age : 0 .. Span]]

LimitsInit ==
    /\ counter = [count |-> 0, ttl |-> 0]
    /\ members = Nobody
    /\ limitCall = [c \in LimitCalls |-> IdleLimit]
    /\ passes = Nobody
    /\ slides = Nobody
    /\ passErrors = Nobody
    /\ slideErrors = Nobody

----------------------------------------------------------------------------
LimitAnswer(c) == limitCall' = [limitCall EXCEPT ![c] = IdleLimit]
OneMore(tally) == [tally EXCEPT ![0] = @ + 1]
Passes(count) == passes' = IF count <= Limit THEN OneMore(passes) ELSE passes

\* A count above the limit is as good as any other.
Incremented == [counter EXCEPT !.count = IF @ > Limit THEN @ ELSE @ + 1]

\* INCR.  Only the request that starts the counter gives it an expiry.
Increment(c) ==
    /\ limitCall[c].at = "idle"
    /\ counter' = Incremented
    /\ IF counter'.count = 1
       THEN limitCall' = [limitCall EXCEPT ![c].at = "expire"] /\ UNCHANGED passes
       ELSE Passes(counter'.count) /\ UNCHANGED limitCall
    /\ UNCHANGED <<members, slides, passErrors, slideErrors>>

\* PEXPIRE
SetExpiry(c) ==
    /\ limitCall[c].at = "expire"
    /\ counter' = [counter EXCEPT !.ttl = Span]
    /\ Passes(1)
    /\ LimitAnswer(c)
    /\ UNCHANGED <<members, slides, passErrors, slideErrors>>

\* INCR or PEXPIRE fails, done or not: the request passes.  A count of 1 whose PEXPIRE
\* failed has no expiry.
CounterFails(c) ==
    /\ Total(passErrors) < MaxErrors
    /\ \/ limitCall[c].at = "idle" /\ counter' \in {counter, Incremented} /\ UNCHANGED limitCall
       \/ limitCall[c].at = "expire" /\ counter' \in {counter, [counter EXCEPT !.ttl = Span]} /\ LimitAnswer(c)
    /\ passes' = OneMore(passes)
    /\ passErrors' = OneMore(passErrors)
    /\ UNCHANGED <<members, slides, slideErrors>>

\* Mutant: the members are counted before the request's own is added.
SlideCountsFirst(c) ==
    /\ limitCall[c].at = "idle"
    /\ Total(members) < MaxMembers
    /\ members' = OneMore(members)
    /\ IF Total(members) > Limit
       THEN limitCall' = [limitCall EXCEPT ![c] = [at |-> "undo", age |-> 0]] /\ UNCHANGED slides
       ELSE slides' = OneMore(slides) /\ UNCHANGED limitCall
    /\ UNCHANGED <<counter, passes, passErrors, slideErrors>>

\* zAdd, zRemRangeByScore and zCard in one MULTI; the member of a request that is over the
\* limit is removed afterwards.
Slide(c) ==
    /\ limitCall[c].at = "idle"
    /\ Total(members) < MaxMembers
    /\ members' = OneMore(members)
    /\ IF Total(members') > Limit
       THEN limitCall' = [limitCall EXCEPT ![c] = [at |-> "undo", age |-> 0]] /\ UNCHANGED slides
       ELSE slides' = OneMore(slides) /\ UNCHANGED limitCall
    /\ UNCHANGED <<counter, passes, passErrors, slideErrors>>

\* zRem; the member may be too old already.
Removed(c) == IF limitCall[c].age = Span THEN members
              ELSE [members EXCEPT ![limitCall[c].age] = @ - 1]
UndoSlide(c) ==
    /\ limitCall[c].at = "undo"
    /\ members' = Removed(c)
    /\ LimitAnswer(c)
    /\ UNCHANGED <<counter, passes, slides, passErrors, slideErrors>>

\* The MULTI or the zRem fails, done or not: the request passes, also the one whose count was
\* above the limit.
SlideFails(c) ==
    /\ Total(slideErrors) < MaxErrors
    /\ \/ /\ limitCall[c].at = "idle" /\ Total(members) < MaxMembers
          /\ members' \in {members, OneMore(members)} /\ UNCHANGED limitCall
       \/ limitCall[c].at = "undo" /\ members' \in {members, Removed(c)} /\ LimitAnswer(c)
    /\ slides' = OneMore(slides)
    /\ slideErrors' = OneMore(slideErrors)
    /\ UNCHANGED <<counter, passes, passErrors>>

\* The process dies: what its first command did stays, and nobody passes.
LimitCallEnds(c) ==
    /\ limitCall[c].at # "idle"
    /\ LimitAnswer(c)
    /\ UNCHANGED <<counter, members, passes, slides, passErrors, slideErrors>>

\* Members as old as the window are removed before the next count.
Tick ==
    /\ counter' = IF counter.ttl = 1 THEN [count |-> 0, ttl |-> 0]
                  ELSE [counter EXCEPT !.ttl = IF @ > 0 THEN @ - 1 ELSE 0]
    /\ members' = Older(members)
    /\ passes' = Older(passes)
    /\ slides' = Older(slides)
    /\ passErrors' = Older(passErrors)
    /\ slideErrors' = Older(slideErrors)
    /\ limitCall' = [c \in LimitCalls |-> IF limitCall[c].at # "undo" \/ limitCall[c].age = Span
                                          THEN limitCall[c] ELSE [limitCall[c] EXCEPT !.age = @ + 1]]

LimitsNext ==
    \/ \E c \in LimitCalls :
          \/ Increment(c) \/ SetExpiry(c) \/ CounterFails(c)
          \/ Slide(c) \/ UndoSlide(c) \/ SlideFails(c)
          \/ LimitCallEnds(c)
    \/ Tick

LimitsSpec == LimitsInit /\ [][LimitsNext]_limitVars

----------------------------------------------------------------------------
(* Properties *)

\* What the limiter keeps of "3 req/phone/10min" in any ten minutes.  Under the sliding limit
\* no more than the limit pass, and one for each request that Redis failed.  The counter's
\* windows are not sliding, each begins with a request: just before it runs out and just after
\* the limit pass each, so that twice the limit is what holds.
LimitHolds ==
    /\ Total(slides) <= Limit + Total(slideErrors)
    /\ Total(passes) <= 2 * Limit + Total(passErrors)

\* What RateLimiterService's comments say of the counter, a "sliding window rate limiter" of
\* "3 req/phone/10min".  Refuted: see the README.
CounterSlides == Total(passes) <= Limit + Total(passErrors)
=============================================================================

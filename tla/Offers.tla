-------------------------------- MODULE Offers --------------------------------
(****************************************************************************)
(* owner-crm.service: an owner sends an offer to the past customers of one  *)
(* turf, or of all of them, at most twice a day for each turf.  A request   *)
(* counts the offers logged in the last 24 hours, looks for the customers,  *)
(* sends, and writes the log entry last.  A large audience is left to the   *)
(* worker of the notification queue.                                        *)
(****************************************************************************)
EXTENDS Naturals, Sequences, FiniteSets

CONSTANTS Turfs,        \* the owner's turfs
          Guests,       \* customers who booked them
          OfferCalls,   \* requests to send an offer that overlap
          HighVolume,   \* audiences above this go to the queue (100 in the code)
          MaxOffers     \* bound: offers sent in 24 hours

ASSUME OffersAssumption ==
    /\ HighVolume \in Nat /\ MaxOffers \in Nat
    /\ IsFiniteSet(Guests) /\ IsFiniteSet(OfferCalls)

MaxBroadcasts == 2

VARIABLES
    willing,    \* past customers whom offers may reach: active, not banned, alerts on
    offers,     \* the offers sent in the last 24 hours, oldest first
    offerCall   \* the owner's requests: turfs, customers reached, the place of the offer sent

offerVars == <<willing, offers, offerCall>>

Requests == {{t} : t \in Turfs} \cup {Turfs}
IdleOffer == [at |-> "idle", turfs |-> {}, reach |-> 0, offer |-> 0]

OffersTypeOK ==
    /\ willing \subseteq Guests
    /\ Len(offers) <= MaxOffers
    /\ \A i \in 1 .. Len(offers) : offers[i] \in [turfs : Requests, logged : BOOLEAN]
    /\ \A c \in OfferCalls :
          /\ offerCall[c].at \in {"idle", "audience", "send", "log"}
          /\ offerCall[c].offer \in 0 .. Len(offers)

OffersInit ==
    /\ willing = Guests
    /\ offers = <<>>
    /\ offerCall = [c \in OfferCalls |-> IdleOffer]

----------------------------------------------------------------------------
(* The owner's request *)

\* Mutant: an offer for all turfs counts for none of them.
LoggedForOne(t) == {i \in 1 .. Len(offers) : offers[i].logged /\ offers[i].turfs = {t}}

Logged(t) == {i \in 1 .. Len(offers) : offers[i].logged /\ t \in offers[i].turfs}

AskOffer(c) ==
    /\ offerCall[c].at = "idle"
    /\ \E turfs \in Requests :
          /\ \A t \in turfs : Cardinality(Logged(t)) < MaxBroadcasts
          /\ offerCall' = [offerCall EXCEPT ![c] = [IdleOffer EXCEPT !.at = "audience", !.turfs = turfs]]
    /\ UNCHANGED <<willing, offers>>

\* Those who booked one of the turfs, whom offers may reach, and whom the owner picked.
\* Nobody: the request ends, and leaves no entry in the log.
FindAudience(c) ==
    /\ offerCall[c].at = "audience"
    /\ \E reach \in 0 .. Cardinality(willing) :
          offerCall' = [offerCall EXCEPT ![c] = IF reach = 0 THEN IdleOffer
                                                ELSE [@ EXCEPT !.at = "send", !.reach = reach]]
    /\ UNCHANGED <<willing, offers>>

IsSent(c) ==
    /\ offers' = Append(offers, [turfs |-> offerCall[c].turfs, logged |-> FALSE])
    /\ offerCall' = [offerCall EXCEPT ![c].at = "log", ![c].reach = 0, ![c].offer = Len(offers')]

\* The copies for the inboxes and the devices are asked for together.  The devices may fail
\* and end the request after the copies were written.
SendOffer(c) ==
    /\ offerCall[c].at = "send" /\ Len(offers) < MaxOffers
    /\ offerCall[c].reach <= HighVolume
    /\ \/ IsSent(c)
       \/ /\ offers' = Append(offers, [turfs |-> offerCall[c].turfs, logged |-> FALSE])
          /\ offerCall' = [offerCall EXCEPT ![c] = IdleOffer]
    /\ UNCHANGED willing

\* The worker of the queue sends it later.
QueueOffer(c) ==
    /\ offerCall[c].at = "send" /\ Len(offers) < MaxOffers
    /\ offerCall[c].reach > HighVolume
    /\ IsSent(c)
    /\ UNCHANGED willing

LogOffer(c) ==
    /\ offerCall[c].at = "log"
    /\ offers' = [offers EXCEPT ![offerCall[c].offer].logged = TRUE]
    /\ offerCall' = [offerCall EXCEPT ![c] = IdleOffer]
    /\ UNCHANGED willing

\* A query fails, or the server stops.
OfferCallFails(c) ==
    /\ offerCall[c].at # "idle"
    /\ offerCall' = [offerCall EXCEPT ![c] = IdleOffer]
    /\ UNCHANGED <<willing, offers>>

----------------------------------------------------------------------------
\* updatePreferences, updateNotificationSettings, an account suspended, deleted or restored.
SetWilling ==
    /\ \E g \in Guests : willing' = IF g \in willing THEN willing \ {g} ELSE willing \cup {g}
    /\ UNCHANGED <<offers, offerCall>>

\* The oldest offers leave the 24 hours; an offer is logged long before that.
OffersAge ==
    \E n \in 1 .. Len(offers) :
        /\ \A c \in OfferCalls : offerCall[c].offer = 0 \/ offerCall[c].offer > n
        /\ offers' = SubSeq(offers, n + 1, Len(offers))
        /\ offerCall' = [c \in OfferCalls |->
                            [offerCall[c] EXCEPT !.offer = IF @ = 0 THEN 0 ELSE @ - n]]
        /\ UNCHANGED willing

OffersNext ==
    \/ \E c \in OfferCalls :
          \/ AskOffer(c) \/ FindAudience(c) \/ SendOffer(c)
          \/ QueueOffer(c) \/ LogOffer(c) \/ OfferCallFails(c)
    \/ SetWilling
    \/ OffersAge

OffersSpec == OffersInit /\ [][OffersNext]_offerVars

----------------------------------------------------------------------------
(* Properties *)

Recent(t) == {i \in 1 .. Len(offers) : t \in offers[i].turfs}

\* Sent, and never to be logged: the request ended between the two.
Uncounted == {i \in 1 .. Len(offers) : ~offers[i].logged /\ \A c \in OfferCalls : offerCall[c].offer # i}

\* "Turf has already reached the maximum limit of 2 promotional broadcasts in the last 24
\* hours": an offer for all turfs counts for each of them, and what a turf sees in a day goes
\* above two only by the requests that counted the log at the same time, and by offers whose
\* request ended before it wrote the log.
OffersAreLimited ==
    \A t \in Turfs : Cardinality(Recent(t) \ Uncounted)
                        <= MaxBroadcasts + Cardinality(OfferCalls) - 1

\* The limit as the answer to the owner states it: the code does not keep it.
TwoOffersADay == \A t \in Turfs : Cardinality(Recent(t)) <= MaxBroadcasts
=============================================================================

------------------------------ MODULE MCAccounts ------------------------------
(****************************************************************************)
(* Small instances of six modules that share no state: one-time codes, the  *)
(* MPIN, sessions, rate limits, cached views and push tokens.  A behaviour  *)
(* is one of one module, chosen at the start; the others keep their first   *)
(* state.                                                                   *)
(****************************************************************************)
EXTENDS OtpLogin, MpinLock, Sessions, RateLimits, CachedViews,
        PushDevices, TLC

CONSTANT Parts   \* the modules to run

VARIABLE part

\* The home page in one behaviour, the customer's own profile in the other.
MCWatch == {{"home:activeTurfs"}, {"auth:getMe"}}

vars == <<part, otpVars, mpinVars, sessionVars, limitVars, viewVars, pushVars>>

Init ==
    /\ part \in Parts
    /\ OtpInit /\ MpinInit /\ SessionsInit /\ LimitsInit /\ PushInit
    /\ ViewsInit /\ (part # "views" => watched = {"auth:getMe"} /\ turfRow.status = "ACTIVE")

Next ==
    \/ /\ part = "otp" /\ OtpNext
       /\ UNCHANGED <<part, mpinVars, sessionVars, limitVars, viewVars, pushVars>>
    \/ /\ part = "mpin" /\ MpinNext
       /\ UNCHANGED <<part, otpVars, sessionVars, limitVars, viewVars, pushVars>>
    \/ /\ part = "sessions" /\ SessionsNext
       /\ UNCHANGED <<part, otpVars, mpinVars, limitVars, viewVars, pushVars>>
    \/ /\ part = "limits" /\ LimitsNext
       /\ UNCHANGED <<part, otpVars, mpinVars, sessionVars, viewVars, pushVars>>
    \/ /\ part = "views" /\ ViewsNext
       /\ UNCHANGED <<part, otpVars, mpinVars, sessionVars, limitVars, pushVars>>
    \/ /\ part = "push" /\ PushNext
       /\ UNCHANGED <<part, otpVars, mpinVars, sessionVars, limitVars, viewVars>>

Spec == Init /\ [][Next]_vars /\ SessionsFairness

\* Every variable of the six modules has its type.
TypeOK ==
    /\ part = "otp" => OtpTypeOK
    /\ part = "mpin" => MpinTypeOK
    /\ part = "sessions" => SessionsTypeOK
    /\ part = "limits" => LimitsTypeOK
    /\ part = "views" => ViewsTypeOK
    /\ part = "push" => PushTypeOK
=============================================================================

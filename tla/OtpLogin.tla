------------------------------ MODULE OtpLogin ------------------------------
(****************************************************************************)
(* One-time codes for one phone number: the login of its customer, and the  *)
(* change of another account's number to this one.  The code that was sent, *)
(* the count of wrong codes, the lock and the cooldown are keys in Redis,   *)
(* read and written by steps of their own; keys deleted one after the other *)
(* are deleted by one step.  The two purposes keep their codes apart and    *)
(* share the count and the lock.                                            *)
(*                                                                          *)
(* A key may run out at any time; the count outlives the codes it counted   *)
(* (fifteen minutes against three, both set when a wrong code is entered).  *)
(****************************************************************************)
EXTENDS Integers, FiniteSets

CONSTANTS OtpCalls,     \* the requests served at a time
          WrongLimit,   \* wrong codes that lock the phone: 5
          MaxCodes,     \* bound: codes ever sent
          MaxWrong,     \* bound: wrong codes entered, since nothing was under way
          NoOtp

ASSUME OtpAssumption ==
    /\ WrongLimit \in Nat \ {0} /\ MaxCodes \in Nat /\ MaxWrong \in Nat
    /\ IsFiniteSet(OtpCalls)

Purposes == {"login", "change"}

VARIABLES
    otp,        \* otp:{phone}:login, otp:{authId}:phone-change
    wrongs,     \* otp_verify_attempts:{phone}
    locked,     \* otp_verify_attempts:{phone}:lock
    cooling,    \* the cooldown key
    holder,     \* the account the phone belongs to: own, other, or none
    verified,   \* otp:verified:{authId}: accounts that may be deleted
    codes,      \* codes ever sent
    otpCall,    \* the requests
    newest,     \* the code sent last for each purpose, 0 once it was accepted
    entered,    \* wrong codes since nothing was under way
    otpMixed    \* did requests overlap

otpKeys == <<otp, wrongs, locked, cooling>>
otpVars == <<otpKeys, holder, verified, codes, otpCall, newest, entered, otpMixed>>

OtpSteps == {"idle", "cool", "find", "send", "read", "wrong", "mark", "clear", "back", "free",
             "clean", "open"}
IdleOtp == [at |-> "idle", for |-> "login", who |-> "none", code |-> 0, attempts |-> 0, n |-> 0]

OtpTypeOK ==
    /\ \A p \in Purposes : otp[p] # NoOtp =>
          otp[p].code \in 1 .. codes /\ otp[p].attempts \in 0 .. WrongLimit - 1
    /\ wrongs \in 0 .. WrongLimit - 1
    /\ locked \in BOOLEAN /\ cooling \in BOOLEAN /\ otpMixed \in BOOLEAN
    /\ holder \in {"none", "own", "other"} /\ verified \subseteq {"own", "other"}
    /\ codes \in 0 .. MaxCodes
    /\ \A c \in OtpCalls : otpCall[c].at \in OtpSteps /\ otpCall[c].for \in Purposes
    /\ newest \in [Purposes -> 0 .. codes]
    /\ entered \in 0 .. MaxWrong

OtpInit ==
    /\ otp = [p \in Purposes |-> NoOtp]
    /\ wrongs = 0 /\ locked = FALSE /\ cooling = FALSE
    /\ holder = "none" /\ verified = {}
    /\ codes = 0 /\ newest = [p \in Purposes |-> 0]
    /\ otpCall = [c \in OtpCalls |-> IdleOtp]
    /\ entered = 0 /\ otpMixed = FALSE

----------------------------------------------------------------------------
Others(c) == \E d \in OtpCalls \ {c} : otpCall[d].at # "idle"

OtpGoes(c, step) == otpCall' = [otpCall EXCEPT ![c].at = step] /\ UNCHANGED otpMixed
OtpForgets(c, step) ==
    /\ otpCall' = [otpCall EXCEPT ![c] = [IdleOtp EXCEPT !.at = step, !.for = otpCall[c].for]]
    /\ UNCHANGED otpMixed
OtpAnswer(c) == otpCall' = [otpCall EXCEPT ![c] = IdleOtp] /\ UNCHANGED otpMixed

\* Both look at the lock first, and go on with what they saw.
OtpStart(c, p, step) ==
    /\ otpCall[c].at = "idle" /\ ~locked
    /\ otpCall' = [otpCall EXCEPT ![c] = [IdleOtp EXCEPT !.at = step, !.for = p]]
    /\ otpMixed' = (otpMixed \/ Others(c))

(* login, resendOtp, requestPhoneChange *)

\* A change is refused for a phone that is somebody else's, a resend for one that is nobody's.
RequestOtp(c) ==
    /\ \E p \in Purposes : OtpStart(c, p, "cool") /\ (p = "change" => holder # "own")
    /\ UNCHANGED <<otpKeys, holder, verified, codes, newest, entered>>

\* enforceOtpRateLimits, as far as the phone's cooldown is concerned.
CoolDown(c) ==
    /\ otpCall[c].at = "cool"
    /\ IF cooling THEN OtpAnswer(c) ELSE OtpGoes(c, IF otpCall[c].for = "login" THEN "find" ELSE "send")
    /\ cooling' = TRUE
    /\ UNCHANGED <<otp, wrongs, locked, holder, verified, codes, newest, entered>>

\* The first login creates the account; another may have got there first, the phone is unique.
FindAccount(c) ==
    /\ otpCall[c].at = "find"
    /\ OtpGoes(c, "send")
    /\ holder' = IF holder = "none" THEN "own" ELSE holder
    /\ UNCHANGED <<otpKeys, verified, codes, newest, entered>>

NewOtp(code) == [code |-> code, attempts |-> 0]

\* The key is written, the message goes out.  A code sent again starts its attempts anew.
SendOtp(c) ==
    /\ otpCall[c].at = "send" /\ codes < MaxCodes
    /\ codes' = codes + 1
    /\ otp' = [otp EXCEPT ![otpCall[c].for] = NewOtp(codes')]
    /\ newest' = [newest EXCEPT ![otpCall[c].for] = codes']
    /\ OtpAnswer(c)
    /\ UNCHANGED <<wrongs, locked, cooling, holder, verified, entered>>

----------------------------------------------------------------------------
(* verifyOtp, verifyPhoneChange *)

VerifyOtp(c) ==
    /\ \E p \in Purposes : OtpStart(c, p, "read")
    /\ UNCHANGED <<otpKeys, holder, verified, codes, newest, entered>>

\* Reads the account and the code; the one that was entered is it, or is not.
ReadOtp(c) ==
    /\ otpCall[c].at = "read"
    /\ LET p == otpCall[c].for
           who == IF p = "change" THEN "other" ELSE holder
           found == otp[p] # NoOtp /\ who # "none"
           right(step) == [otpCall EXCEPT ![c] = [@ EXCEPT !.at = step, !.who = who,
                                                           !.code = otp[p].code]]
           wrong == [otpCall EXCEPT ![c] = [@ EXCEPT !.at = "wrong", !.code = otp[p].code,
                                                     !.attempts = otp[p].attempts + 1]]
       IN  \/ ~found /\ OtpAnswer(c) /\ UNCHANGED entered
           \/ /\ found /\ otpCall' = right(IF p = "change" THEN "free" ELSE "clean")
              /\ UNCHANGED <<entered, otpMixed>>
           \/ /\ found /\ entered < MaxWrong /\ otpCall' = wrong
              /\ entered' = entered + 1 /\ UNCHANGED otpMixed
    /\ UNCHANGED <<otpKeys, holder, verified, codes, newest>>

ReadWrongs(c) ==
    /\ otpCall[c].at = "wrong"
    /\ otpCall' = [otpCall EXCEPT ![c].at = "mark", ![c].n = wrongs]
    /\ UNCHANGED <<otpKeys, holder, verified, codes, newest, entered, otpMixed>>

\* Mutant: one wrong code too few locks the phone.
MarkWrongEarly(c) ==
    /\ otpCall[c].at = "mark"
    /\ IF otpCall[c].n + 2 >= WrongLimit
       THEN locked' = TRUE /\ UNCHANGED wrongs /\ OtpForgets(c, "clear")
       ELSE /\ wrongs' = otpCall[c].n + 1 /\ UNCHANGED <<locked, otpMixed>>
            /\ otpCall' = [otpCall EXCEPT ![c].at = "back", ![c].n = 0]
    /\ UNCHANGED <<otp, cooling, holder, verified, codes, newest, entered>>

MarkWrong(c) ==
    /\ otpCall[c].at = "mark"
    /\ IF otpCall[c].n + 1 >= WrongLimit
       THEN locked' = TRUE /\ UNCHANGED wrongs /\ OtpForgets(c, "clear")
       ELSE /\ wrongs' = otpCall[c].n + 1 /\ UNCHANGED <<locked, otpMixed>>
            /\ otpCall' = [otpCall EXCEPT ![c].at = "back", ![c].n = 0]
    /\ UNCHANGED <<otp, cooling, holder, verified, codes, newest, entered>>

\* The phone is locked: the count and the code are deleted.
ClearLocked(c) ==
    /\ otpCall[c].at = "clear"
    /\ wrongs' = 0
    /\ otp' = [otp EXCEPT ![otpCall[c].for] = NoOtp]
    /\ OtpAnswer(c)
    /\ UNCHANGED <<locked, cooling, holder, verified, codes, newest, entered>>

\* The code that was read is written back with one attempt more, or deleted.
WriteBack(c) ==
    /\ otpCall[c].at = "back"
    /\ otp' = [otp EXCEPT ![otpCall[c].for] =
                 IF otpCall[c].attempts >= WrongLimit THEN NoOtp
                 ELSE [code |-> otpCall[c].code, attempts |-> otpCall[c].attempts]]
    /\ OtpAnswer(c)
    /\ UNCHANGED <<wrongs, locked, cooling, holder, verified, codes, newest, entered>>

\* The number must still be free; if not the code stays.
CheckFree(c) ==
    /\ otpCall[c].at = "free"
    /\ IF holder = "own" THEN OtpAnswer(c) ELSE OtpGoes(c, "clean")
    /\ UNCHANGED <<otpKeys, holder, verified, codes, newest, entered>>

\* Mutant: the code stays.
CleanUpKeepsCode(c) ==
    /\ otpCall[c].at = "clean"
    /\ wrongs' = 0 /\ locked' = FALSE
    /\ newest' = [newest EXCEPT ![otpCall[c].for] = IF @ = otpCall[c].code THEN 0 ELSE @]
    /\ verified' = verified \cup {otpCall[c].who}
    /\ OtpForgets(c, "open")
    /\ UNCHANGED <<otp, cooling, holder, codes, entered>>

\* The right code: the code, the count and the lock are deleted.
CleanUp(c) ==
    /\ otpCall[c].at = "clean"
    /\ otp' = [otp EXCEPT ![otpCall[c].for] = NoOtp]
    /\ wrongs' = 0 /\ locked' = FALSE
    /\ newest' = [newest EXCEPT ![otpCall[c].for] = IF @ = otpCall[c].code THEN 0 ELSE @]
    /\ verified' = verified \cup {otpCall[c].who}
    /\ OtpForgets(c, "open")
    /\ UNCHANGED <<cooling, holder, codes, entered>>

\* The session is created; or the number becomes the other account's, and if it was given
\* away since, the update throws.
OpenSession(c) ==
    /\ otpCall[c].at = "open"
    /\ holder' = IF otpCall[c].for = "change" /\ holder = "none" THEN "other" ELSE holder
    /\ OtpAnswer(c)
    /\ UNCHANGED <<otpKeys, verified, codes, newest, entered>>

----------------------------------------------------------------------------
\* deleteAccount: the phone belongs to nobody.
DeleteAccount ==
    /\ holder \in verified
    /\ verified' = verified \ {holder}
    /\ holder' = "none"
    /\ UNCHANGED <<otpKeys, codes, otpCall, newest, entered, otpMixed>>

OtpQuiet == \A c \in OtpCalls : otpCall[c].at = "idle"

OtpKeyExpires ==
    /\ \/ \E p \in Purposes : otp[p] # NoOtp /\ otp' = [otp EXCEPT ![p] = NoOtp]
          /\ UNCHANGED <<wrongs, locked, cooling, verified>>
       \/ /\ wrongs # 0 /\ \A c \in OtpCalls : otpCall[c].at # "back"
          /\ \A p \in Purposes : otp[p] # NoOtp => otp[p].attempts = 0
          /\ wrongs' = 0 /\ UNCHANGED <<otp, locked, cooling, verified>>
       \/ locked /\ locked' = FALSE /\ UNCHANGED <<otp, wrongs, cooling, verified>>
       \/ cooling /\ cooling' = FALSE /\ UNCHANGED <<otp, wrongs, locked, verified>>
       \/ verified # {} /\ verified' = {} /\ UNCHANGED <<otp, wrongs, locked, cooling>>
    /\ entered' = IF OtpQuiet /\ wrongs' = 0 /\ ~locked' THEN 0 ELSE entered
    /\ UNCHANGED <<holder, codes, otpCall, newest, otpMixed>>

OtpNext ==
    \/ \E c \in OtpCalls :
          \/ RequestOtp(c) \/ CoolDown(c) \/ FindAccount(c) \/ SendOtp(c)
          \/ VerifyOtp(c) \/ ReadOtp(c) \/ ReadWrongs(c) \/ MarkWrong(c)
          \/ ClearLocked(c) \/ WriteBack(c)
          \/ CheckFree(c) \/ CleanUp(c) \/ OpenSession(c)
    \/ DeleteAccount
    \/ OtpKeyExpires

OtpSpec == OtpInit /\ [][OtpNext]_otpVars

----------------------------------------------------------------------------
(* Properties *)

\* "Too many failed verification attempts. Verification locked for 15 minutes.": whatever
\* requests overlap, and however the two purposes mix, a phone is locked only after five
\* wrong codes.
LockIsEarned == locked => entered >= WrongLimit

\* While requests come one at a time, a code that is sent again, written back after a wrong
\* entry, or sent for the other purpose meanwhile never brings an older code back: the code
\* that would be accepted is the newest of its purpose, and has not been accepted before.
\* (Requests that overlap may write an older code back.)
NewestCodeOnly ==
    ~otpMixed => \A p \in Purposes : otp[p] # NoOtp => otp[p].code = newest[p]
=============================================================================

---------------------------- MODULE AccountsProofs ----------------------------
(****************************************************************************)
(* What is proved of the ways into an account - one-time codes, the MPIN,   *)
(* sessions - and of the rate limits, the cached views and the push tokens, *)
(* for every limit, every window and any number of requests, processes,     *)
(* sessions, writers, tokens and devices.                                   *)
(****************************************************************************)
EXTENDS MCAccounts, SumFacts, SequenceTheorems

(* One-time codes.  A wrong code is counted by steps that come after it is  *)
(* found wrong, and requests overlap: the invariant bounds what the count   *)
(* is, and what it will be when all that was found wrong is in it, by the   *)
(* wrong codes that were entered.  While requests come one at a time, the   *)
(* code a request is going to write back is the newest.                     *)

OtpKey == [code : 1 .. codes, attempts : 0 .. WrongLimit - 1]
OtpEntry == [at : OtpSteps, for : Purposes, who : {"none", "own", "other"},
             code : 0 .. codes, attempts : Nat, n : Nat]

\* The call has read a code, and has found whose number it is.
HasCode(k) == k.at \in {"wrong", "mark", "back"} => k.code # 0
HasAccount(k) == k.at \in {"free", "clean"} => k.who # "none"

OtpShape ==
    /\ otp \in [Purposes -> {NoOtp} \cup OtpKey]
    /\ wrongs \in 0 .. WrongLimit - 1 /\ entered \in 0 .. MaxWrong
    /\ locked \in BOOLEAN /\ cooling \in BOOLEAN /\ otpMixed \in BOOLEAN
    /\ holder \in {"none", "own", "other"} /\ verified \subseteq {"own", "other"}
    /\ codes \in 0 .. MaxCodes /\ newest \in [Purposes -> 0 .. codes]
    /\ otpCall \in [OtpCalls -> OtpEntry]
    /\ \A c \in OtpCalls : HasCode(otpCall[c]) /\ HasAccount(otpCall[c])

\* Wrong codes entered, and not in the count yet.
Uncounted == {c \in OtpCalls : otpCall[c].at \in {"wrong", "mark"}}

\* What the count will be when they are in it is no more than was entered.
WrongsAreEntered ==
    /\ wrongs + Cardinality(Uncounted) <= entered
    /\ \A c \in OtpCalls : otpCall[c].at = "mark" => otpCall[c].n + Cardinality(Uncounted) <= entered
    /\ LockIsEarned

\* Without overlap, a request that will write its code back has the newest.
OneAtATime == \A c, d \in OtpCalls : otpCall[c].at # "idle" /\ otpCall[d].at # "idle" => c = d
HoldsNewest(k) == k.at \in {"wrong", "mark", "back"} => k.code = newest[k.for]
CodesAreNewest ==
    ~otpMixed =>
       /\ OneAtATime
       /\ \A p \in Purposes : otp[p] # NoOtp => otp[p].code = newest[p]
       /\ \A c \in OtpCalls : HoldsNewest(otpCall[c])

OtpInv == OtpShape /\ WrongsAreEntered /\ CodesAreNewest

----------------------------------------------------------------------------
(* A request's step: what becomes of its entry                              *)

\* The entry of one request is replaced.
Becomes(c, k) ==
    /\ otpCall'[c] = k
    /\ \A d \in OtpCalls \ {c} : otpCall'[d] = otpCall[d]

LEMMA EntryStep ==
    ASSUME OtpShape, NEW c \in OtpCalls, NEW k, otpCall' = [otpCall EXCEPT ![c] = k]
    PROVE  Becomes(c, k)
BY DEF OtpShape, Becomes

LEMMA EntryFields ==
    ASSUME OtpShape, NEW c \in OtpCalls
    PROVE  /\ otpCall[c] \in OtpEntry
           /\ otpCall[c].at \in OtpSteps /\ otpCall[c].for \in Purposes
           /\ otpCall[c].who \in {"none", "own", "other"} /\ otpCall[c].code \in 0 .. codes
           /\ otpCall[c].attempts \in Nat /\ otpCall[c].n \in Nat
           /\ IdleOtp \in OtpEntry /\ IdleOtp.at = "idle"
BY DEF OtpShape, OtpEntry, IdleOtp, OtpSteps, Purposes

LEMMA ForgottenEntry ==
    ASSUME OtpShape, NEW p \in Purposes, NEW step \in OtpSteps \ {"wrong", "mark", "back", "free", "clean"}
    PROVE  LET k == [IdleOtp EXCEPT !.at = step, !.for = p]
           IN  k \in OtpEntry /\ k.at = step /\ k.for = p /\ HasCode(k) /\ HasAccount(k)
<1> DEFINE k == [IdleOtp EXCEPT !.at = step, !.for = p]
<1>1. 0 \in 0 .. codes /\ "idle" \in OtpSteps /\ "login" \in Purposes
    BY DEF OtpShape, OtpSteps, Purposes
<1>2. IdleOtp \in OtpEntry
    BY <1>1 DEF IdleOtp, OtpEntry
<1>3. k \in OtpEntry /\ k.at = step /\ k.for = p
    BY <1>2 DEF OtpEntry
<1> HIDE DEF k
<1>4. HasCode(k) /\ HasAccount(k)
    BY <1>3 DEF HasCode, HasAccount
<1> QED BY <1>3, <1>4 DEF k

LEMMA GoingEntry ==
    ASSUME NEW k \in OtpEntry, k.at \notin {"wrong", "mark", "back", "free", "clean"}
    PROVE  HasCode(k) /\ HasAccount(k)
BY DEF HasCode, HasAccount

LEMMA MovedEntry ==
    ASSUME OtpShape, NEW c \in OtpCalls, NEW step \in OtpSteps
    PROVE  LET k == [otpCall[c] EXCEPT !.at = step]
           IN  /\ k \in OtpEntry /\ k.at = step /\ k.for = otpCall[c].for
               /\ k.code = otpCall[c].code /\ k.who = otpCall[c].who /\ k.n = otpCall[c].n
<1>1. otpCall[c] \in OtpEntry
    BY EntryFields
<1> QED BY <1>1 DEF OtpEntry

\* The entry is replaced by one of a request that goes on.
Replaces(c, k) ==
    /\ otpCall' = [otpCall EXCEPT ![c] = k]
    /\ k \in OtpEntry /\ HasCode(k) /\ HasAccount(k)

LEMMA ShapeStep ==
    ASSUME OtpShape, NEW c \in OtpCalls, NEW k, Replaces(c, k), codes' = codes
    PROVE  /\ otpCall' \in [OtpCalls -> OtpEntry']
           /\ \A d \in OtpCalls : (HasCode(otpCall[d]) /\ HasAccount(otpCall[d]))'
           /\ OtpKey' = OtpKey /\ Becomes(c, k)
<1>1. OtpEntry' = OtpEntry /\ OtpKey' = OtpKey
    BY DEF OtpEntry, OtpKey
<1>2. otpCall' \in [OtpCalls -> OtpEntry]
    BY DEF OtpShape, Replaces
<1>4. Becomes(c, k)
    BY EntryStep DEF Replaces
<1>3. ASSUME NEW d \in OtpCalls PROVE (HasCode(otpCall[d]) /\ HasAccount(otpCall[d]))'
    BY <1>3, <1>4 DEF Replaces, Becomes, OtpShape, HasCode, HasAccount
<1> QED BY <1>1, <1>2, <1>3, <1>4

LEMMA UncountedFacts ==
    ASSUME OtpShape
    PROVE  IsFiniteSet(Uncounted) /\ Cardinality(Uncounted) \in Nat
BY OtpAssumption, FS_Subset, FS_CardinalityType DEF Uncounted

\* The count, when the entry of one request is replaced.
LEMMA CountStep ==
    ASSUME OtpInv, OtpShape', NEW c \in OtpCalls, NEW k, Becomes(c, k),
           \/ /\ k.at \in {"wrong", "mark"} <=> otpCall[c].at \in {"wrong", "mark"}
              /\ entered' = entered /\ wrongs' <= wrongs /\ (k.at = "mark" => k.n = wrongs)
              /\ locked' => locked
           \/ /\ k.at = "wrong" /\ otpCall[c].at = "read"
              /\ entered' = entered + 1 /\ wrongs' = wrongs /\ locked' = locked
           \/ /\ otpCall[c].at = "mark" /\ k.at \in {"back", "clear"}
              /\ entered' = entered /\ wrongs' \in {wrongs, otpCall[c].n + 1}
              /\ locked' => locked \/ otpCall[c].n + 1 >= WrongLimit
    PROVE  WrongsAreEntered'
<1> DEFINE u == Cardinality(Uncounted)
<1>a. IsFiniteSet(Uncounted) /\ u \in Nat
    BY UncountedFacts DEF OtpInv
<1>b. Uncounted' \subseteq OtpCalls
    BY DEF Uncounted
<1>c. u' \in Nat
    BY <1>b, OtpAssumption, FS_Subset, FS_CardinalityType
<1>d. /\ wrongs \in Nat /\ wrongs' \in Nat /\ entered \in Nat /\ entered' \in Nat
      /\ WrongLimit \in Nat
    BY OtpAssumption DEF OtpInv, OtpShape
<1>1. /\ IsFiniteSet(Uncounted) /\ u \in Nat /\ u' \in Nat
      /\ wrongs \in Nat /\ wrongs' \in Nat /\ entered \in Nat /\ entered' \in Nat
      /\ WrongLimit \in Nat /\ otpCall[c].n \in Nat
    BY <1>a, <1>c, <1>d, EntryFields DEF OtpInv
<1>2. /\ wrongs + u <= entered
      /\ \A d \in OtpCalls : otpCall[d].at = "mark" => otpCall[d].n + u <= entered
      /\ locked => entered >= WrongLimit
    BY DEF OtpInv, WrongsAreEntered, LockIsEarned
<1>3. \A d \in OtpCalls \ {c} : otpCall'[d] = otpCall[d] /\ otpCall[d].n \in Nat
    BY EntryFields DEF Becomes, OtpInv
<1>4. otpCall'[c] = k /\ k.n \in Nat
    BY DEF Becomes, OtpShape, OtpEntry
<1>5. CASE /\ k.at \in {"wrong", "mark"} <=> otpCall[c].at \in {"wrong", "mark"}
           /\ entered' = entered /\ wrongs' <= wrongs /\ (k.at = "mark" => k.n = wrongs)
           /\ locked' => locked
    <2>1. Uncounted' = Uncounted
        BY <1>3, <1>4, <1>5 DEF Uncounted
    <2>2. u' = u
        BY <2>1
    <2>3. wrongs' + u' <= entered'
        BY <1>1, <1>2, <1>5, <2>2
    <2>4. \A d \in OtpCalls : otpCall'[d].at = "mark" => otpCall'[d].n + u' <= entered'
        BY <1>2, <1>3, <1>4, <1>5, <2>2
    <2>5. locked' => entered' >= WrongLimit
        BY <1>2, <1>5
    <2> QED BY <2>3, <2>4, <2>5 DEF WrongsAreEntered, LockIsEarned
<1>6. CASE /\ k.at = "wrong" /\ otpCall[c].at = "read"
           /\ entered' = entered + 1 /\ wrongs' = wrongs /\ locked' = locked
    <2>1. Uncounted' = Uncounted \cup {c} /\ c \notin Uncounted
        BY <1>3, <1>4, <1>6 DEF Uncounted
    <2>2. u' = u + 1
        BY <1>1, <2>1, FS_AddElement
    <2>3. wrongs' + u' <= entered'
        BY <1>1, <1>2, <1>6, <2>2
    <2>4. \A d \in OtpCalls : otpCall'[d].at = "mark" => otpCall'[d].n + u' <= entered'
        BY <1>1, <1>2, <1>3, <1>4, <1>6, <2>2
    <2>5. locked' => entered' >= WrongLimit
        BY <1>1, <1>2, <1>6
    <2> QED BY <2>3, <2>4, <2>5 DEF WrongsAreEntered, LockIsEarned
<1>7. CASE /\ otpCall[c].at = "mark" /\ k.at \in {"back", "clear"}
           /\ entered' = entered /\ wrongs' \in {wrongs, otpCall[c].n + 1}
           /\ locked' => locked \/ otpCall[c].n + 1 >= WrongLimit
    <2>1. Uncounted' = Uncounted \ {c} /\ c \in Uncounted
        BY <1>3, <1>4, <1>7 DEF Uncounted
    <2>2. u' = u - 1 /\ u >= 1
        <3>1. u' = u - 1
            BY <1>1, <2>1, FS_RemoveElement
        <3> QED BY <1>1, <3>1
    <2>3. wrongs' + u' <= entered'
        BY <1>1, <1>2, <1>7, <2>2
    <2>4. \A d \in OtpCalls : otpCall'[d].at = "mark" => otpCall'[d].n + u' <= entered'
        BY <1>1, <1>2, <1>3, <1>4, <1>7, <2>2
    <2>5. locked' => entered' >= WrongLimit
        BY <1>1, <1>2, <1>7, <2>2
    <2> QED BY <2>3, <2>4, <2>5 DEF WrongsAreEntered, LockIsEarned
<1> QED BY <1>5, <1>6, <1>7

\* The codes, when the entry of one request is replaced.
LEMMA CodeStep ==
    ASSUME OtpInv, NEW c \in OtpCalls, NEW k, Becomes(c, k),
           ~otpMixed' => ~otpMixed /\ (otpCall[c].at = "idle" => ~Others(c)),
           ~otpMixed' /\ OneAtATime /\ CodesAreNewest =>
              /\ \A p \in Purposes : otp'[p] # NoOtp => otp'[p].code = newest'[p]
              /\ k.at \in {"wrong", "mark", "back"} => k.code = newest'[k.for]
    PROVE  CodesAreNewest'
<1> SUFFICES ASSUME ~otpMixed'
             PROVE  /\ OneAtATime'
                    /\ \A p \in Purposes : otp'[p] # NoOtp => otp'[p].code = newest'[p]
                    /\ \A d \in OtpCalls : HoldsNewest(otpCall[d])'
    BY DEF CodesAreNewest
<1>1. OneAtATime /\ CodesAreNewest
    BY DEF OtpInv, CodesAreNewest
<1>2. \A d \in OtpCalls \ {c} : otpCall[d].at = "idle"
    BY <1>1 DEF OneAtATime, Others
<1>3. \A d \in OtpCalls \ {c} : otpCall'[d].at = "idle"
    BY <1>2 DEF Becomes
<1>4. OneAtATime'
    BY <1>3 DEF OneAtATime
<1>5. \A d \in OtpCalls : HoldsNewest(otpCall[d])'
    BY <1>1, <1>3 DEF HoldsNewest, Becomes
<1> QED BY <1>1, <1>4, <1>5

----------------------------------------------------------------------------
(* One lemma per kind of step                                               *)

\* A step of a request that counts no code and holds none afterwards.
LEMMA QuietOtpStep ==
    ASSUME OtpInv, NEW c \in OtpCalls, NEW k, Replaces(c, k),
           otpCall[c].at \notin {"wrong", "mark"}, k.at \notin {"wrong", "mark", "back"},
           otpMixed' \in BOOLEAN, cooling' \in BOOLEAN, holder' \in {"none", "own", "other"},
           ~otpMixed' => ~otpMixed /\ (otpCall[c].at = "idle" => ~Others(c)),
           UNCHANGED <<otp, wrongs, locked, verified, codes, newest, entered>>
    PROVE  OtpInv'
<1>1. OtpShape
    BY DEF OtpInv
<1>2. /\ otpCall' \in [OtpCalls -> OtpEntry']
      /\ \A d \in OtpCalls : (HasCode(otpCall[d]) /\ HasAccount(otpCall[d]))'
      /\ OtpKey' = OtpKey /\ Becomes(c, k)
    BY <1>1, ShapeStep
<1>3. OtpShape'
    BY <1>1, <1>2 DEF OtpShape
<1>4. WrongsAreEntered'
    <2>1. wrongs' <= wrongs
        BY <1>1 DEF OtpShape
    <2> QED BY <1>2, <1>3, <2>1, CountStep
<1>5. CodesAreNewest'
    BY <1>2, CodeStep DEF CodesAreNewest
<1> QED BY <1>3, <1>4, <1>5 DEF OtpInv

LEMMA StartOtpStep ==
    ASSUME OtpInv, NEW c \in OtpCalls, NEW p \in Purposes, NEW step \in {"cool", "read"},
           OtpStart(c, p, step), UNCHANGED <<otpKeys, holder, verified, codes, newest, entered>>
    PROVE  OtpInv'
<1> DEFINE k == [IdleOtp EXCEPT !.at = step, !.for = p]
<1>1. OtpShape /\ step \in OtpSteps \ {"wrong", "mark", "back", "free", "clean"}
    BY DEF OtpInv, OtpSteps
<1>2. k \in OtpEntry /\ k.at = step /\ HasCode(k) /\ HasAccount(k)
    BY <1>1, ForgottenEntry, Zenon
<1>3. /\ otpCall[c].at = "idle" /\ otpCall' = [otpCall EXCEPT ![c] = k]
      /\ otpMixed' = (otpMixed \/ Others(c))
    BY DEF OtpStart
<1>4. otpMixed' \in BOOLEAN
    BY <1>1, <1>3 DEF OtpShape, Others
<1>5. cooling' \in BOOLEAN /\ holder' \in {"none", "own", "other"}
    BY <1>1 DEF OtpShape, otpKeys
<1> HIDE DEF k
<1> QED BY <1>2, <1>3, <1>4, <1>5, QuietOtpStep DEF Replaces, otpKeys

\* OtpAnswer and OtpGoes to a step that holds no code.
LEMMA AnswerStep ==
    ASSUME OtpInv, NEW c \in OtpCalls, otpCall[c].at \notin {"idle", "wrong", "mark"},
           OtpAnswer(c), cooling' \in BOOLEAN, holder' \in {"none", "own", "other"},
           UNCHANGED <<otp, wrongs, locked, verified, codes, newest, entered>>
    PROVE  OtpInv'
<1>1. OtpShape
    BY DEF OtpInv
<1>2. Replaces(c, IdleOtp) /\ IdleOtp.at = "idle" /\ otpMixed' = otpMixed
    BY <1>1, EntryFields DEF Replaces, HasCode, HasAccount, OtpAnswer
<1>3. otpMixed' \in BOOLEAN
    BY <1>1, <1>2 DEF OtpShape
<1> QED BY <1>2, <1>3, QuietOtpStep

LEMMA GoesStep ==
    ASSUME OtpInv, NEW c \in OtpCalls, otpCall[c].at \notin {"idle", "wrong", "mark"},
           NEW step \in {"find", "send", "clean"}, OtpGoes(c, step),
           step = "clean" => otpCall[c].at = "free",
           cooling' \in BOOLEAN, holder' \in {"none", "own", "other"},
           UNCHANGED <<otp, wrongs, locked, verified, codes, newest, entered>>
    PROVE  OtpInv'
<1> DEFINE k == [otpCall[c] EXCEPT !.at = step]
<1>1. OtpShape /\ step \in OtpSteps
    BY DEF OtpInv, OtpSteps
<1>2. k \in OtpEntry /\ k.at = step /\ k.who = otpCall[c].who
    BY <1>1, MovedEntry
<1>3. otpCall' = [otpCall EXCEPT ![c] = k] /\ otpMixed' = otpMixed
    BY DEF OtpGoes
<1> HIDE DEF k
<1>4. HasCode(k) /\ HasAccount(k)
    BY <1>1, <1>2 DEF HasCode, HasAccount, OtpShape
<1>5. otpMixed' \in BOOLEAN
    BY <1>1, <1>3 DEF OtpShape
<1> QED BY <1>2, <1>3, <1>4, <1>5, QuietOtpStep DEF Replaces

LEMMA QuietSteps ==
    ASSUME OtpInv, NEW c \in OtpCalls,
           \/ RequestOtp(c) \/ VerifyOtp(c) \/ CoolDown(c) \/ FindAccount(c)
           \/ CheckFree(c) \/ OpenSession(c)
    PROVE  OtpInv'
<1>1. cooling \in BOOLEAN /\ holder \in {"none", "own", "other"}
    BY DEF OtpInv, OtpShape
<1>2. CASE RequestOtp(c)
    BY <1>2, StartOtpStep DEF RequestOtp
<1>3. CASE VerifyOtp(c)
    BY <1>3, StartOtpStep DEF VerifyOtp
<1>4. CASE CoolDown(c)
    <2>1. OtpAnswer(c) \/ \E step \in {"find", "send"} : OtpGoes(c, step)
        BY <1>4 DEF CoolDown
    <2> QED BY <1>1, <1>4, <2>1, AnswerStep, GoesStep DEF CoolDown
<1>5. CASE FindAccount(c)
    BY <1>1, <1>5, GoesStep DEF FindAccount, otpKeys
<1>6. CASE CheckFree(c)
    BY <1>1, <1>6, AnswerStep, GoesStep DEF CheckFree, otpKeys
<1>7. CASE OpenSession(c)
    BY <1>1, <1>7, AnswerStep DEF OpenSession, otpKeys
<1> QED BY <1>2, <1>3, <1>4, <1>5, <1>6, <1>7

LEMMA SendStep ==
    ASSUME OtpInv, NEW c \in OtpCalls, SendOtp(c) PROVE OtpInv'
<1>1. OtpShape
    BY DEF OtpInv
<1>2. /\ otpCall[c].at = "send" /\ codes' = codes + 1 /\ codes' \in 1 .. MaxCodes
      /\ otpCall' = [otpCall EXCEPT ![c] = IdleOtp] /\ UNCHANGED <<otpMixed, wrongs, locked, entered>>
      /\ otp' = [otp EXCEPT ![otpCall[c].for] = NewOtp(codes')]
      /\ newest' = [newest EXCEPT ![otpCall[c].for] = codes']
    BY <1>1, OtpAssumption DEF SendOtp, OtpAnswer, OtpShape
<1>3. OtpEntry \subseteq OtpEntry' /\ OtpKey \subseteq OtpKey' /\ NewOtp(codes') \in OtpKey'
    <2>1. 0 .. codes \subseteq 0 .. codes' /\ 1 .. codes \subseteq 1 .. codes' /\ codes' \in 1 .. codes'
        BY <1>1, <1>2, OtpAssumption DEF OtpShape
    <2>2. 0 \in 0 .. WrongLimit - 1
        BY OtpAssumption
    <2>3. OtpEntry \subseteq OtpEntry' /\ OtpKey \subseteq OtpKey'
        BY <2>1 DEF OtpEntry, OtpKey
    <2> QED BY <2>1, <2>2, <2>3 DEF NewOtp, OtpKey
<1>4. Becomes(c, IdleOtp) /\ IdleOtp \in OtpEntry /\ IdleOtp.at = "idle" /\ otpCall[c].for \in Purposes
    BY <1>1, <1>2, EntryStep, EntryFields
<1>5. OtpShape'
    <2>1. otp' \in [Purposes -> {NoOtp} \cup OtpKey']
        BY <1>1, <1>2, <1>3 DEF OtpShape
    <2>2. newest' \in [Purposes -> 0 .. codes']
        <3>1. newest \in [Purposes -> 0 .. codes] /\ codes \in Nat
            BY <1>1, OtpAssumption DEF OtpShape
        <3>2. 0 .. codes \subseteq 0 .. codes' /\ codes' \in 0 .. codes'
            BY <1>2, <3>1
        <3> QED BY <1>2, <3>1, <3>2
    <2>3. otpCall' \in [OtpCalls -> OtpEntry']
        BY <1>1, <1>2, <1>3, <1>4 DEF OtpShape
    <2>4. \A d \in OtpCalls : (HasCode(otpCall[d]) /\ HasAccount(otpCall[d]))'
        BY <1>1, <1>4 DEF OtpShape, Becomes, HasCode, HasAccount
    <2>5. codes' \in 0 .. MaxCodes
        BY <1>2, OtpAssumption
    <2> QED BY <1>1, <1>2, <2>1, <2>2, <2>3, <2>4, <2>5 DEF OtpShape, SendOtp
<1>6. WrongsAreEntered'
    <2>1. wrongs' <= wrongs
        BY <1>1, <1>2 DEF OtpShape
    <2> QED BY <1>2, <1>4, <1>5, <2>1, CountStep
<1>7. CodesAreNewest'
    <2>1. ASSUME ~otpMixed', CodesAreNewest, NEW p \in Purposes, otp'[p] # NoOtp
          PROVE  otp'[p].code = newest'[p]
        <3>1. CASE p = otpCall[c].for
            <4>1. otp'[p] = NewOtp(codes') /\ newest'[p] = codes'
                BY <1>1, <1>2, <3>1 DEF OtpShape
            <4> QED BY <4>1 DEF NewOtp
        <3>2. CASE p # otpCall[c].for
            <4>1. otp'[p] = otp[p] /\ newest'[p] = newest[p]
                BY <1>1, <1>2, <3>2 DEF OtpShape
            <4> QED BY <1>2, <2>1, <4>1 DEF CodesAreNewest
        <3> QED BY <3>1, <3>2
    <2> QED BY <1>2, <1>4, <2>1, CodeStep
<1> QED BY <1>5, <1>6, <1>7 DEF OtpInv

LEMMA CodeReadStep ==
    ASSUME OtpInv, NEW c \in OtpCalls, ReadOtp(c) PROVE OtpInv'
<1> DEFINE p == otpCall[c].for
           who == IF p = "change" THEN "other" ELSE holder
           step == IF p = "change" THEN "free" ELSE "clean"
           right == [otpCall[c] EXCEPT !.at = step, !.who = who, !.code = otp[p].code]
           wrong == [otpCall[c] EXCEPT !.at = "wrong", !.code = otp[p].code, !.attempts = otp[p].attempts + 1]
<1>1. OtpShape /\ otpCall[c].at = "read" /\ otpCall[c] \in OtpEntry /\ p \in Purposes
    BY EntryFields DEF OtpInv, ReadOtp
<1>2. ASSUME otp[p] # NoOtp
      PROVE  /\ otp[p] \in OtpKey /\ otp[p].code \in 0 .. codes /\ otp[p].code # 0
             /\ otp[p].attempts + 1 \in Nat
    BY <1>1, <1>2, OtpAssumption DEF OtpShape, OtpKey
<1>3. step \in {"free", "clean"} /\ who \in {"none", "own", "other"}
    BY <1>1 DEF OtpShape
<1> HIDE DEF p, who, step
<1>4. CASE OtpAnswer(c) /\ UNCHANGED entered
    BY <1>1, <1>4, AnswerStep DEF ReadOtp, OtpShape, otpKeys
<1>5. CASE /\ otp[p] # NoOtp /\ who # "none"
           /\ otpCall' = [otpCall EXCEPT ![c] = right] /\ UNCHANGED <<entered, otpMixed>>
    <2> DEFINE x == otp[p].code
    <2>3. step \in OtpSteps /\ x \in 0 .. codes /\ x # 0
        BY <1>2, <1>3, <1>5 DEF OtpSteps
    <2> HIDE DEF x
    <2>4. LET r == [otpCall[c] EXCEPT !.at = step, !.who = who, !.code = x]
          IN  r \in OtpEntry /\ r.at = step /\ r.who = who /\ r.code = x
        BY <1>1, <1>3, <2>3 DEF OtpEntry
    <2>1. right \in OtpEntry /\ right.at = step /\ right.who = who /\ right.code = x
        BY <2>4 DEF x
    <2> HIDE DEF right
    <2>2. Replaces(c, right) /\ right.at \notin {"idle", "wrong", "mark", "back"}
        BY <1>3, <1>5, <2>1, <2>3 DEF Replaces, HasCode, HasAccount
    <2> QED BY <1>1, <1>5, <2>2, QuietOtpStep DEF ReadOtp, OtpShape, otpKeys
<1>6. CASE /\ otp[p] # NoOtp /\ otpCall' = [otpCall EXCEPT ![c] = wrong]
           /\ entered < MaxWrong /\ entered' = entered + 1 /\ UNCHANGED otpMixed
    <2>1. /\ wrong \in OtpEntry /\ wrong.at = "wrong" /\ wrong.code = otp[p].code
          /\ wrong.for = otpCall[c].for
        BY <1>1, <1>2, <1>6 DEF OtpEntry, OtpSteps
    <2> HIDE DEF wrong
    <2>2. Replaces(c, wrong)
        BY <1>2, <1>6, <2>1 DEF Replaces, HasCode, HasAccount
    <2>3. UNCHANGED <<otp, wrongs, locked, cooling, holder, verified, codes, newest>>
        BY DEF ReadOtp, otpKeys
    <2>4. /\ otpCall' \in [OtpCalls -> OtpEntry'] /\ OtpKey' = OtpKey /\ Becomes(c, wrong)
          /\ \A d \in OtpCalls : (HasCode(otpCall[d]) /\ HasAccount(otpCall[d]))'
        BY <1>1, <2>2, <2>3, ShapeStep
    <2>5. entered' \in 0 .. MaxWrong
        BY <1>1, <1>6, OtpAssumption DEF OtpShape
    <2>6. OtpShape'
        BY <1>1, <1>6, <2>3, <2>4, <2>5 DEF OtpShape
    <2>7. WrongsAreEntered'
        BY <1>1, <1>6, <2>1, <2>3, <2>4, <2>6, CountStep
    <2>8. ASSUME CodesAreNewest, ~otpMixed'
          PROVE  /\ \A q \in Purposes : otp'[q] # NoOtp => otp'[q].code = newest'[q]
                 /\ wrong.code = newest'[wrong.for]
        BY <1>1, <1>6, <2>1, <2>3, <2>8 DEF CodesAreNewest, p
    <2>9. CodesAreNewest'
        BY <1>1, <1>6, <2>4, <2>8, CodeStep
    <2> QED BY <2>6, <2>7, <2>9 DEF OtpInv
<1>7. \/ OtpAnswer(c) /\ UNCHANGED entered
      \/ /\ otp[p] # NoOtp /\ who # "none"
         /\ otpCall' = [otpCall EXCEPT ![c] = right] /\ UNCHANGED <<entered, otpMixed>>
      \/ /\ otp[p] # NoOtp /\ otpCall' = [otpCall EXCEPT ![c] = wrong]
         /\ entered < MaxWrong /\ entered' = entered + 1 /\ UNCHANGED otpMixed
    BY DEF ReadOtp, p, who, step
<1> QED BY <1>4, <1>5, <1>6, <1>7

LEMMA ReadWrongsStep ==
    ASSUME OtpInv, NEW c \in OtpCalls, ReadWrongs(c) PROVE OtpInv'
<1> DEFINE k == [otpCall[c] EXCEPT !.at = "mark", !.n = wrongs]
<1>1. OtpShape /\ otpCall[c].at = "wrong" /\ otpCall[c] \in OtpEntry /\ wrongs \in Nat
    BY EntryFields, OtpAssumption DEF OtpInv, ReadWrongs, OtpShape
<1>2. otpCall' = [otpCall EXCEPT ![c] = k]
    BY DEF ReadWrongs
<1>3. /\ k \in OtpEntry /\ k.at = "mark" /\ k.n = wrongs /\ k.for = otpCall[c].for
      /\ k.code = otpCall[c].code
    BY <1>1 DEF OtpEntry, OtpSteps
<1> HIDE DEF k
<1>4. HasCode(otpCall[c])
    BY <1>1 DEF OtpShape
<1>5. Replaces(c, k)
    BY <1>1, <1>2, <1>3, <1>4 DEF Replaces, HasCode, HasAccount
<1>6. UNCHANGED <<otp, wrongs, locked, cooling, holder, verified, codes, newest, entered, otpMixed>>
    BY DEF ReadWrongs, otpKeys
<1>7. /\ otpCall' \in [OtpCalls -> OtpEntry'] /\ OtpKey' = OtpKey /\ Becomes(c, k)
      /\ \A d \in OtpCalls : (HasCode(otpCall[d]) /\ HasAccount(otpCall[d]))'
    BY <1>1, <1>5, <1>6, ShapeStep
<1>8. OtpShape'
    BY <1>1, <1>6, <1>7 DEF OtpShape
<1>9. WrongsAreEntered'
    BY <1>1, <1>3, <1>6, <1>7, <1>8, CountStep
<1>10. ASSUME CodesAreNewest, ~otpMixed'
       PROVE  /\ \A q \in Purposes : otp'[q] # NoOtp => otp'[q].code = newest'[q]
              /\ k.code = newest'[k.for]
    BY <1>1, <1>3, <1>6, <1>10 DEF CodesAreNewest, HoldsNewest
<1>11. CodesAreNewest'
    BY <1>1, <1>6, <1>7, <1>10, CodeStep
<1> QED BY <1>8, <1>9, <1>11 DEF OtpInv

LEMMA MarkStep ==
    ASSUME OtpInv, NEW c \in OtpCalls, MarkWrong(c) PROVE OtpInv'
<1>1. /\ OtpShape /\ otpCall[c].at = "mark" /\ otpCall[c] \in OtpEntry
      /\ otpCall[c].n \in Nat /\ otpCall[c].for \in Purposes /\ WrongLimit \in Nat
    BY EntryFields, OtpAssumption DEF OtpInv, MarkWrong
<1>2. UNCHANGED <<otp, cooling, holder, verified, codes, newest, entered, otpMixed>>
    BY DEF MarkWrong, OtpForgets
<1>3. CASE otpCall[c].n + 1 >= WrongLimit
    <2>0. PICK goal \in Purposes : goal = otpCall[c].for
        BY <1>1
    <2> DEFINE k == [IdleOtp EXCEPT !.at = "clear", !.for = goal]
    <2>1. otpCall' = [otpCall EXCEPT ![c] = k] /\ locked' = TRUE /\ wrongs' = wrongs
        BY <1>3, <2>0 DEF MarkWrong, OtpForgets
    <2>2. "clear" \in OtpSteps \ {"wrong", "mark", "back", "free", "clean"}
        BY DEF OtpSteps
    <2>a. IdleOtp \in OtpEntry
        BY <1>1, EntryFields
    <2>b. k \in OtpEntry /\ k.at = "clear"
        BY <2>a, <2>2 DEF OtpEntry
    <2>3. k \in OtpEntry /\ k.at = "clear" /\ HasCode(k) /\ HasAccount(k)
        <3> HIDE DEF k
        <3> QED BY <2>b, GoingEntry
    <2> HIDE DEF k
    <2>4. /\ otpCall' \in [OtpCalls -> OtpEntry'] /\ OtpKey' = OtpKey /\ Becomes(c, k)
          /\ \A d \in OtpCalls : (HasCode(otpCall[d]) /\ HasAccount(otpCall[d]))'
        BY <1>1, <1>2, <2>1, <2>3, ShapeStep DEF Replaces
    <2>5. OtpShape'
        BY <1>1, <1>2, <2>1, <2>4 DEF OtpShape
    <2>6. WrongsAreEntered'
        BY <1>1, <1>2, <1>3, <2>1, <2>3, <2>4, <2>5, CountStep
    <2>7. CodesAreNewest'
        BY <1>1, <1>2, <2>3, <2>4, CodeStep DEF CodesAreNewest
    <2> QED BY <2>5, <2>6, <2>7 DEF OtpInv
<1>4. CASE ~(otpCall[c].n + 1 >= WrongLimit)
    <2> DEFINE k == [otpCall[c] EXCEPT !.at = "back", !.n = 0]
    <2>1. /\ otpCall' = [otpCall EXCEPT ![c] = k] /\ locked' = locked
          /\ wrongs' = otpCall[c].n + 1
        BY <1>4 DEF MarkWrong
    <2>2. "back" \in OtpSteps
        BY DEF OtpSteps
    <2>3. /\ k \in OtpEntry /\ k.at = "back" /\ k.code = otpCall[c].code
          /\ k.for = otpCall[c].for
        BY <1>1, <2>2 DEF OtpEntry
    <2> HIDE DEF k
    <2>8. HasCode(k) /\ HasAccount(k)
        BY <1>1, <2>3 DEF OtpShape, HasCode, HasAccount
    <2>4. /\ otpCall' \in [OtpCalls -> OtpEntry'] /\ OtpKey' = OtpKey /\ Becomes(c, k)
          /\ \A d \in OtpCalls : (HasCode(otpCall[d]) /\ HasAccount(otpCall[d]))'
        BY <1>1, <1>2, <2>1, <2>3, <2>8, ShapeStep DEF Replaces
    <2>9. wrongs' \in 0 .. WrongLimit - 1
        BY <1>1, <1>4, <2>1
    <2>5. OtpShape'
        BY <1>1, <1>2, <2>1, <2>4, <2>9 DEF OtpShape
    <2>6. WrongsAreEntered'
        BY <1>1, <1>2, <2>1, <2>3, <2>4, <2>5, CountStep
    <2>10. ASSUME CodesAreNewest, ~otpMixed'
           PROVE  /\ \A q \in Purposes : otp'[q] # NoOtp => otp'[q].code = newest'[q]
                  /\ k.code = newest'[k.for]
        BY <1>1, <1>2, <2>3, <2>10 DEF CodesAreNewest, HoldsNewest
    <2>7. CodesAreNewest'
        BY <1>1, <1>2, <2>4, <2>10, CodeStep
    <2> QED BY <2>5, <2>6, <2>7 DEF OtpInv
<1> QED BY <1>3, <1>4

\* The code that a step deletes or writes back is that of the request's purpose.
LEMMA KeyStep ==
    ASSUME OtpShape, NEW q \in Purposes, NEW key \in {NoOtp} \cup OtpKey,
           otp' = [otp EXCEPT ![q] = key]
    PROVE  /\ otp' \in [Purposes -> {NoOtp} \cup OtpKey]
           /\ otp'[q] = key /\ \A p \in Purposes \ {q} : otp'[p] = otp[p]
BY DEF OtpShape

LEMMA ClearStep ==
    ASSUME OtpInv, NEW c \in OtpCalls, ClearLocked(c) PROVE OtpInv'
<1>1. OtpShape /\ otpCall[c].at = "clear" /\ otpCall[c].for \in Purposes
    BY EntryFields DEF OtpInv, ClearLocked
<1>2. /\ UNCHANGED <<locked, cooling, holder, verified, codes, newest, entered, otpMixed>>
      /\ otpCall' = [otpCall EXCEPT ![c] = IdleOtp] /\ wrongs' = 0
      /\ otp' = [otp EXCEPT ![otpCall[c].for] = NoOtp]
    BY DEF ClearLocked, OtpAnswer
<1>3. Replaces(c, IdleOtp) /\ IdleOtp.at = "idle"
    BY <1>1, <1>2, EntryFields DEF Replaces, HasCode, HasAccount
<1>4. /\ otpCall' \in [OtpCalls -> OtpEntry'] /\ OtpKey' = OtpKey /\ Becomes(c, IdleOtp)
      /\ \A d \in OtpCalls : (HasCode(otpCall[d]) /\ HasAccount(otpCall[d]))'
    BY <1>1, <1>2, <1>3, ShapeStep
<1>5. /\ otp' \in [Purposes -> {NoOtp} \cup OtpKey]
      /\ otp'[otpCall[c].for] = NoOtp /\ \A p \in Purposes \ {otpCall[c].for} : otp'[p] = otp[p]
    BY <1>1, <1>2, KeyStep
<1>6. wrongs' \in 0 .. WrongLimit - 1 /\ wrongs' <= wrongs
    BY <1>1, <1>2, OtpAssumption DEF OtpShape
<1>7. OtpShape'
    BY <1>1, <1>2, <1>4, <1>5, <1>6 DEF OtpShape
<1>8. WrongsAreEntered'
    BY <1>1, <1>2, <1>3, <1>4, <1>6, <1>7, CountStep
<1>9. CodesAreNewest'
    BY <1>1, <1>2, <1>3, <1>4, <1>5, CodeStep DEF CodesAreNewest
<1> QED BY <1>7, <1>8, <1>9 DEF OtpInv

LEMMA WriteBackStep ==
    ASSUME OtpInv, NEW c \in OtpCalls, WriteBack(c) PROVE OtpInv'
<1> DEFINE key == IF otpCall[c].attempts >= WrongLimit THEN NoOtp
                  ELSE [code |-> otpCall[c].code, attempts |-> otpCall[c].attempts]
<1>1. /\ OtpShape /\ otpCall[c].at = "back" /\ otpCall[c].for \in Purposes
      /\ otpCall[c].code \in 0 .. codes /\ otpCall[c].attempts \in Nat
    BY EntryFields DEF OtpInv, WriteBack
<1>2. /\ UNCHANGED <<wrongs, locked, cooling, holder, verified, codes, newest, entered, otpMixed>>
      /\ otpCall' = [otpCall EXCEPT ![c] = IdleOtp]
      /\ otp' = [otp EXCEPT ![otpCall[c].for] = key]
    BY DEF WriteBack, OtpAnswer
<1>3. key \in {NoOtp} \cup OtpKey /\ (key = NoOtp \/ key.code = otpCall[c].code)
    <2>1. otpCall[c].code # 0
        BY <1>1 DEF OtpShape, HasCode
    <2>2. codes \in Nat /\ WrongLimit \in Nat
        BY <1>1, OtpAssumption DEF OtpShape
    <2>3. otpCall[c].code \in 1 .. codes
        BY <1>1, <2>1, <2>2
    <2>4. CASE otpCall[c].attempts >= WrongLimit
        BY <2>4
    <2>5. CASE ~(otpCall[c].attempts >= WrongLimit)
        <3>1. otpCall[c].attempts \in 0 .. WrongLimit - 1
            BY <1>1, <2>2, <2>5
        <3> QED BY <2>3, <2>5, <3>1 DEF OtpKey
    <2> QED BY <2>4, <2>5
<1> HIDE DEF key
<1>4. Replaces(c, IdleOtp) /\ IdleOtp.at = "idle"
    BY <1>1, <1>2, EntryFields DEF Replaces, HasCode, HasAccount
<1>5. /\ otpCall' \in [OtpCalls -> OtpEntry'] /\ OtpKey' = OtpKey /\ Becomes(c, IdleOtp)
      /\ \A d \in OtpCalls : (HasCode(otpCall[d]) /\ HasAccount(otpCall[d]))'
    BY <1>1, <1>2, <1>4, ShapeStep
<1>6. /\ otp' \in [Purposes -> {NoOtp} \cup OtpKey]
      /\ otp'[otpCall[c].for] = key /\ \A p \in Purposes \ {otpCall[c].for} : otp'[p] = otp[p]
    BY <1>1, <1>2, <1>3, KeyStep
<1>7. OtpShape'
    BY <1>1, <1>2, <1>5, <1>6 DEF OtpShape
<1>8. WrongsAreEntered'
    <2>1. wrongs' <= wrongs
        BY <1>1, <1>2 DEF OtpShape
    <2> QED BY <1>1, <1>2, <1>4, <1>5, <1>7, <2>1, CountStep
<1>9. ASSUME CodesAreNewest, ~otpMixed', NEW p \in Purposes, otp'[p] # NoOtp
      PROVE  otp'[p].code = newest'[p]
    <2>1. HoldsNewest(otpCall[c]) /\ (otp[p] # NoOtp => otp[p].code = newest[p])
        BY <1>2, <1>9 DEF CodesAreNewest
    <2> QED BY <1>1, <1>2, <1>3, <1>6, <1>9, <2>1 DEF HoldsNewest
<1>10. CodesAreNewest'
    BY <1>1, <1>2, <1>4, <1>5, <1>9, CodeStep
<1> QED BY <1>7, <1>8, <1>10 DEF OtpInv

LEMMA CleanUpStep ==
    ASSUME OtpInv, NEW c \in OtpCalls, CleanUp(c) PROVE OtpInv'
<1>0. PICK goal \in Purposes : goal = otpCall[c].for
    BY EntryFields DEF OtpInv
<1> DEFINE k == [IdleOtp EXCEPT !.at = "open", !.for = goal]
           new == IF newest[otpCall[c].for] = otpCall[c].code THEN 0 ELSE newest[otpCall[c].for]
<1>1. OtpShape /\ otpCall[c].at = "clean" /\ otpCall[c].for \in Purposes /\ otpCall[c] \in OtpEntry
    BY EntryFields DEF OtpInv, CleanUp
<1>2. /\ UNCHANGED <<cooling, holder, codes, entered, otpMixed>>
      /\ otpCall' = [otpCall EXCEPT ![c] = k] /\ wrongs' = 0 /\ locked' = FALSE
      /\ otp' = [otp EXCEPT ![otpCall[c].for] = NoOtp]
      /\ newest' = [newest EXCEPT ![otpCall[c].for] = new]
      /\ verified' = verified \cup {otpCall[c].who}
    BY <1>0 DEF CleanUp, OtpForgets
<1>3. new \in 0 .. codes
    BY <1>1 DEF OtpShape
<1>4. verified' \subseteq {"own", "other"}
    BY <1>1, <1>2, EntryFields DEF OtpShape, HasAccount
<1>5. "open" \in OtpSteps \ {"wrong", "mark", "back", "free", "clean"}
    BY DEF OtpSteps
<1>a. IdleOtp \in OtpEntry
    BY <1>1, EntryFields
<1>b. k \in OtpEntry /\ k.at = "open"
    BY <1>0, <1>1, <1>a, <1>5 DEF OtpEntry
<1>6. k \in OtpEntry /\ k.at = "open" /\ HasCode(k) /\ HasAccount(k)
    <2> HIDE DEF k
    <2> QED BY <1>b, GoingEntry
<1> HIDE DEF k, new
<1>7. /\ otpCall' \in [OtpCalls -> OtpEntry'] /\ OtpKey' = OtpKey /\ Becomes(c, k)
      /\ \A d \in OtpCalls : (HasCode(otpCall[d]) /\ HasAccount(otpCall[d]))'
    BY <1>1, <1>2, <1>6, ShapeStep DEF Replaces
<1>8. /\ otp' \in [Purposes -> {NoOtp} \cup OtpKey]
      /\ otp'[otpCall[c].for] = NoOtp /\ \A p \in Purposes \ {otpCall[c].for} : otp'[p] = otp[p]
    BY <1>1, <1>2, KeyStep
<1>9. /\ newest' \in [Purposes -> 0 .. codes]
      /\ \A p \in Purposes \ {otpCall[c].for} : newest'[p] = newest[p]
    BY <1>1, <1>2, <1>3 DEF OtpShape
<1>10. wrongs' \in 0 .. WrongLimit - 1 /\ wrongs' <= wrongs
    BY <1>1, <1>2, OtpAssumption DEF OtpShape
<1>11. OtpShape'
    BY <1>1, <1>2, <1>4, <1>7, <1>8, <1>9, <1>10 DEF OtpShape
<1>12. WrongsAreEntered'
    BY <1>1, <1>2, <1>6, <1>7, <1>10, <1>11, CountStep
<1>13. CodesAreNewest'
    BY <1>1, <1>2, <1>6, <1>7, <1>8, <1>9, CodeStep DEF CodesAreNewest
<1> QED BY <1>11, <1>12, <1>13 DEF OtpInv

LEMMA DeleteStep ==
    ASSUME OtpInv, DeleteAccount PROVE OtpInv'
<1>1. /\ UNCHANGED <<otp, wrongs, locked, cooling, codes, otpCall, newest, entered, otpMixed>>
      /\ holder' = "none" /\ verified' \subseteq verified
    BY DEF DeleteAccount, otpKeys
<1>2. OtpShape'
    BY <1>1 DEF OtpInv, OtpShape, OtpKey, OtpEntry, HasCode, HasAccount
<1>3. Uncounted' = Uncounted
    BY <1>1 DEF Uncounted
<1>4. WrongsAreEntered'
    BY <1>1, <1>3 DEF OtpInv, WrongsAreEntered, LockIsEarned
<1>5. CodesAreNewest'
    BY <1>1 DEF OtpInv, CodesAreNewest, OneAtATime, HoldsNewest
<1> QED BY <1>2, <1>4, <1>5 DEF OtpInv

LEMMA ExpireStep ==
    ASSUME OtpInv, OtpKeyExpires PROVE OtpInv'
<1>1. OtpShape
    BY DEF OtpInv
<1>2. /\ UNCHANGED <<holder, codes, otpCall, newest, otpMixed>>
      /\ wrongs' \in {0, wrongs} /\ locked' \in {FALSE, locked} /\ cooling' \in {FALSE, cooling}
      /\ verified' \in {{}, verified}
      /\ \/ entered' = entered
         \/ entered' = 0 /\ OtpQuiet /\ wrongs' = 0 /\ ~locked'
    BY DEF OtpKeyExpires
<1>3. otp' = otp \/ \E p \in Purposes : otp' = [otp EXCEPT ![p] = NoOtp]
    BY DEF OtpKeyExpires
<1>4. /\ otp' \in [Purposes -> {NoOtp} \cup OtpKey]
      /\ \A p \in Purposes : otp'[p] \in {NoOtp, otp[p]}
    <2>1. CASE otp' = otp
        BY <1>1, <2>1 DEF OtpShape
    <2>2. ASSUME NEW q \in Purposes, otp' = [otp EXCEPT ![q] = NoOtp]
          PROVE  /\ otp' \in [Purposes -> {NoOtp} \cup OtpKey]
                 /\ \A p \in Purposes : otp'[p] \in {NoOtp, otp[p]}
        BY <1>1, <2>2, KeyStep
    <2> QED BY <1>3, <2>1, <2>2
<1>5. OtpKey' = OtpKey /\ OtpEntry' = OtpEntry
    BY <1>2 DEF OtpKey, OtpEntry
<1>6. OtpShape'
    <2>1. wrongs' \in 0 .. WrongLimit - 1 /\ entered' \in 0 .. MaxWrong
        BY <1>1, <1>2, OtpAssumption DEF OtpShape
    <2>2. /\ locked' \in BOOLEAN /\ cooling' \in BOOLEAN /\ otpMixed' \in BOOLEAN
          /\ verified' \subseteq {"own", "other"}
        BY <1>1, <1>2 DEF OtpShape
    <2> QED BY <1>1, <1>2, <1>4, <1>5, <2>1, <2>2 DEF OtpShape, HasCode, HasAccount
<1>7. WrongsAreEntered'
    <2>1. Uncounted' = Uncounted
        BY <1>2 DEF Uncounted
    <2>2. CASE entered' = entered
        <3>1. Cardinality(Uncounted) \in Nat /\ wrongs \in Nat /\ wrongs' <= wrongs
            BY <1>1, <1>2, UncountedFacts, OtpAssumption DEF OtpShape
        <3>2. wrongs' \in Nat /\ entered \in Nat
            BY <1>1, <1>2, OtpAssumption DEF OtpShape
        <3>3. wrongs' + Cardinality(Uncounted) <= entered
            BY <3>1, <3>2 DEF OtpInv, WrongsAreEntered
        <3>4. \A c \in OtpCalls : otpCall'[c].at = "mark" =>
                 otpCall'[c].n + Cardinality(Uncounted) <= entered
            BY <1>2 DEF OtpInv, WrongsAreEntered
        <3>5. locked' => entered >= WrongLimit
            BY <1>2 DEF OtpInv, WrongsAreEntered, LockIsEarned
        <3> QED BY <2>1, <2>2, <3>3, <3>4, <3>5 DEF WrongsAreEntered, LockIsEarned
    <2>3. CASE entered' = 0 /\ OtpQuiet /\ wrongs' = 0 /\ ~locked'
        <3>1. Uncounted = {} /\ \A c \in OtpCalls : otpCall'[c].at # "mark"
            BY <1>2, <2>3 DEF OtpQuiet, Uncounted
        <3>2. Cardinality(Uncounted) = 0
            BY <3>1, FS_EmptySet
        <3> QED BY <2>1, <2>3, <3>1, <3>2 DEF WrongsAreEntered, LockIsEarned
    <2> QED BY <1>2, <2>2, <2>3
<1>8. CodesAreNewest'
    BY <1>2, <1>4 DEF OtpInv, CodesAreNewest, OneAtATime, HoldsNewest
<1> QED BY <1>6, <1>7, <1>8 DEF OtpInv

LEMMA OtpInvInit == OtpInit => OtpInv
<1> SUFFICES ASSUME OtpInit PROVE OtpInv OBVIOUS
<1>1. codes = 0 /\ otpCall = [c \in OtpCalls |-> IdleOtp] /\ IdleOtp.at = "idle"
    BY DEF OtpInit, IdleOtp
<1>2. IdleOtp \in OtpEntry
    BY <1>1 DEF OtpEntry, IdleOtp, OtpSteps, Purposes
<1>3. \A c \in OtpCalls : otpCall[c].at = "idle"
    BY <1>1
<1>4. 0 \in 0 .. WrongLimit - 1 /\ 0 \in 0 .. MaxWrong /\ 0 \in 0 .. MaxCodes /\ 0 \in 0 .. 0
    BY OtpAssumption
<1>5. OtpShape
    BY <1>1, <1>2, <1>3, <1>4 DEF OtpInit, OtpShape, HasCode, HasAccount
<1>6. Uncounted = {}
    BY <1>3 DEF Uncounted
<1>7. Cardinality(Uncounted) = 0
    BY <1>6, FS_EmptySet
<1>8. WrongsAreEntered
    BY <1>3, <1>7 DEF OtpInit, WrongsAreEntered, LockIsEarned
<1>9. CodesAreNewest
    BY <1>3 DEF OtpInit, CodesAreNewest, OneAtATime, HoldsNewest
<1> QED BY <1>5, <1>8, <1>9 DEF OtpInv

LEMMA OtpInvStep == OtpInv /\ [OtpNext]_otpVars => OtpInv'
<1> SUFFICES ASSUME OtpInv, [OtpNext]_otpVars PROVE OtpInv' OBVIOUS
<1>1. CASE UNCHANGED otpVars
    <2>1. UNCHANGED <<otp, wrongs, locked, cooling, holder, verified, codes, otpCall, newest, entered, otpMixed>>
        BY <1>1 DEF otpVars, otpKeys
    <2>2. OtpShape'
        BY <2>1 DEF OtpInv, OtpShape, OtpKey, OtpEntry, HasCode, HasAccount
    <2>3. Uncounted' = Uncounted
        BY <2>1 DEF Uncounted
    <2>4. WrongsAreEntered'
        BY <2>1, <2>3 DEF OtpInv, WrongsAreEntered, LockIsEarned
    <2>5. CodesAreNewest'
        BY <2>1 DEF OtpInv, CodesAreNewest, OneAtATime, HoldsNewest
    <2> QED BY <2>2, <2>4, <2>5 DEF OtpInv
<1> QED BY <1>1, QuietSteps, SendStep, CodeReadStep, ReadWrongsStep, MarkStep, ClearStep, WriteBackStep,
           CleanUpStep, DeleteStep, ExpireStep DEF OtpNext

\* The shape of keys and requests, the bound on the count, and the newest codes.
THEOREM OtpInvariant == OtpSpec => []OtpInv
<1> QED BY OtpInvInit, OtpInvStep, PTL DEF OtpSpec

\* "Too many failed verification attempts. Verification locked for 15 minutes.": a phone is
\* locked only after as many wrong codes as the limit says, however requests overlap and
\* however the two purposes, which share the count, mix: for every limit.
THEOREM LockEarned == OtpSpec => []LockIsEarned
<1>1. OtpInv => LockIsEarned
    BY DEF OtpInv, WrongsAreEntered
<1> QED BY <1>1, OtpInvariant, PTL

\* While requests come one at a time, the code that would be accepted is the newest of its
\* purpose and has not been accepted, however often codes are sent again, entered wrongly,
\* written back, and run out.
THEOREM NewestCode == OtpSpec => []NewestCodeOnly
<1>1. OtpInv => NewestCodeOnly
    BY DEF OtpInv, CodesAreNewest, NewestCodeOnly
<1> QED BY <1>1, OtpInvariant, PTL

\* The variables have their types.
THEOREM OtpTypes == OtpSpec => []OtpTypeOK
<1>1. OtpInv => OtpTypeOK
    <2> SUFFICES ASSUME OtpInv PROVE OtpTypeOK OBVIOUS
    <2>1. \A p \in Purposes : otp[p] # NoOtp =>
             otp[p].code \in 1 .. codes /\ otp[p].attempts \in 0 .. WrongLimit - 1
        BY DEF OtpInv, OtpShape, OtpKey
    <2>2. \A c \in OtpCalls : otpCall[c].at \in OtpSteps /\ otpCall[c].for \in Purposes
        BY EntryFields DEF OtpInv
    <2> QED BY <2>1, <2>2 DEF OtpInv, OtpShape, OtpTypeOK
<1> QED BY <1>1, OtpInvariant, PTL

----------------------------------------------------------------------------
(* The MPIN's lock.  The property speaks of the moments without a request;  *)
(* the invariant says what a request under way has read, and that a wrong   *)
(* MPIN is counted by its second step.                                      *)

MpinRow == [set : BOOLEAN, failed : 0 .. MpinLimit, lock : LockStates]
MpinSteps == {"idle", "right", "wrong", "create", "change", "reset", "spend"}

MpinShape ==
    /\ mpin \in MpinRow
    /\ resetOk \in BOOLEAN /\ mpinMixed \in BOOLEAN
    /\ guesses \in 0 .. MaxGuesses
    /\ mpinCall \in [MpinCalls -> [at : MpinSteps, row : MpinRow]]

\* No two requests are served at a time.
Alone == \A c, d \in MpinCalls : mpinCall[c].at # "idle" /\ mpinCall[d].at # "idle" => c = d

\* A request that verifies has read the row as it is, and not locked.
ReadsRow == \A c \in MpinCalls : mpinCall[c].at \in {"right", "wrong"} => mpinCall[c].row = mpin /\ mpin.lock # "locked"

\* The row has counted so many wrong MPINs, or locks, or has locked and will lock at the next.
Counted(wrong) ==
    /\ mpin.lock = "none" => mpin.failed = wrong /\ wrong < MpinLimit
    /\ mpin.lock # "none" => mpin.failed = MpinLimit

CountsGuesses ==
    /\ (\A c \in MpinCalls : mpinCall[c].at # "wrong") => Counted(guesses)
    /\ (\E c \in MpinCalls : mpinCall[c].at = "wrong") => Counted(guesses - 1)

MpinInv == MpinShape /\ (~mpinMixed => Alone /\ ReadsRow /\ CountsGuesses)

----------------------------------------------------------------------------
(* The steps *)

LEMMA MpinRows == NoMpin \in MpinRow /\ NewMpin \in MpinRow /\ NewMpin.failed = 0 /\ NewMpin.lock = "none"
  <1>1. 0 \in 0 .. MpinLimit /\ "none" \in LockStates BY MpinAssumption DEF LockStates
  <1>2. NoMpin \in MpinRow BY <1>1 DEF NoMpin, MpinRow
  <1>3. NoMpin.failed = 0 /\ NoMpin.lock = "none" BY DEF NoMpin
  <1>4. NewMpin \in MpinRow /\ NewMpin.failed = NoMpin.failed /\ NewMpin.lock = NoMpin.lock
    BY <1>2 DEF NewMpin, MpinRow
  <1> QED BY <1>2, <1>3, <1>4

LEMMA IdleIsARequest == IdleMpin \in [at : MpinSteps, row : MpinRow] /\ IdleMpin.at = "idle"
  BY MpinRows DEF IdleMpin, MpinSteps

LEMMA MpinInvInit == MpinInit => MpinInv
  <1> SUFFICES ASSUME MpinInit PROVE MpinInv OBVIOUS
  <1>1. mpinCall \in [MpinCalls -> [at : MpinSteps, row : MpinRow]] /\ \A c \in MpinCalls : mpinCall[c].at = "idle"
    BY IdleIsARequest DEF MpinInit
  <1>2. 0 \in 0 .. MaxGuesses BY MpinAssumption
  <1>4. MpinShape BY <1>1, <1>2, MpinRows DEF MpinInit, MpinShape
  <1>3. Counted(guesses) BY MpinAssumption DEF MpinInit, Counted, NoMpin
  <1> QED BY <1>1, <1>3, <1>4 DEF MpinInv, Alone, ReadsRow, CountsGuesses

\* A request begins: alone, or the others are known to overlap.
LEMMA StartStep ==
    ASSUME MpinInv, NEW c \in MpinCalls, NEW step \in MpinSteps \ {"idle"}, StartMpin(c, step),
           step \in {"right", "wrong"} => mpin.lock # "locked",
           guesses' = IF step = "wrong" THEN guesses + 1 ELSE guesses,
           guesses' \in 0 .. MaxGuesses
    PROVE  MpinInv'
  <1>0. MpinShape BY DEF MpinInv
  <1>1. [at |-> step, row |-> mpin] \in [at : MpinSteps, row : MpinRow] BY <1>0 DEF MpinShape
  <1>2. mpinCall' = [mpinCall EXCEPT ![c] = [at |-> step, row |-> mpin]] /\ mpin' = mpin /\ resetOk' = resetOk
    BY DEF StartMpin
  <1>3. mpinCall'[c] = [at |-> step, row |-> mpin] /\ \A d \in MpinCalls \ {c} : mpinCall'[d] = mpinCall[d]
    BY <1>0, <1>2 DEF MpinShape
  <1>4. mpinMixed' \in BOOLEAN BY <1>0 DEF StartMpin, MpinShape
  <1>5. mpinCall' \in [MpinCalls -> [at : MpinSteps, row : MpinRow]] BY <1>0, <1>1, <1>2 DEF MpinShape
  <1>6. MpinShape' BY <1>0, <1>2, <1>4, <1>5 DEF MpinShape
  <1>7. ASSUME ~mpinMixed' PROVE (Alone /\ ReadsRow /\ CountsGuesses)'
    <2>1. ~mpinMixed /\ \A d \in MpinCalls : mpinCall[d].at = "idle" BY <1>7 DEF StartMpin
    <2>2. \A d \in MpinCalls \ {c} : mpinCall'[d].at = "idle" BY <1>3, <2>1
    <2>3. mpinCall'[c].at = step /\ mpinCall'[c].row = mpin BY <1>3
    <2>4. Alone' /\ ReadsRow' BY <1>2, <2>2, <2>3 DEF Alone, ReadsRow
    <2>5. Counted(guesses) BY <2>1 DEF MpinInv, CountsGuesses
    <2>6. guesses \in Int BY <1>0 DEF MpinShape
    <2>7. CountsGuesses' BY <1>2, <2>2, <2>3, <2>5, <2>6 DEF CountsGuesses, Counted
    <2> QED BY <2>4, <2>7
  <1> QED BY <1>6, <1>7 DEF MpinInv

\* A request ends or goes on: the others are as they were.
LEMMA EndStep ==
    ASSUME MpinInv, NEW c \in MpinCalls, mpinCall[c].at # "idle",
           NEW next \in [at : MpinSteps, row : MpinRow], next.at \in {"idle", "spend"},
           mpinCall' = [mpinCall EXCEPT ![c] = next],
           mpinMixed' = mpinMixed, resetOk' \in BOOLEAN, mpin' \in MpinRow, guesses' \in 0 .. MaxGuesses,
           ~mpinMixed => Counted(guesses)'
    PROVE  MpinInv'
  <1>0. MpinShape BY DEF MpinInv
  <1>1. mpinCall' \in [MpinCalls -> [at : MpinSteps, row : MpinRow]] BY <1>0 DEF MpinShape
  <1>2. MpinShape' BY <1>0, <1>1 DEF MpinShape
  <1>3. mpinCall'[c] = next /\ \A d \in MpinCalls \ {c} : mpinCall'[d] = mpinCall[d] BY <1>0 DEF MpinShape
  <1>4. ASSUME ~mpinMixed PROVE (Alone /\ ReadsRow /\ CountsGuesses)'
    <2>1. \A d \in MpinCalls \ {c} : mpinCall'[d].at = "idle" BY <1>3, <1>4 DEF MpinInv, Alone
    <2>2. Alone' /\ ReadsRow' BY <1>3, <2>1 DEF Alone, ReadsRow
    <2>3. CountsGuesses' BY <1>3, <1>4, <2>1 DEF CountsGuesses
    <2> QED BY <2>2, <2>3
  <1> QED BY <1>2, <1>4 DEF MpinInv

\* A wrong MPIN is written: one more is counted, or it locks.
LEMMA FailureStep ==
    ASSUME MpinInv, NEW c \in MpinCalls, WriteFailure(c)
    PROVE  MpinInv'
  <1>0. MpinShape BY DEF MpinInv
  <1>1. mpinCall[c].at = "wrong" /\ mpin' = AfterFailure(c) /\ mpinMixed' = mpinMixed
          /\ mpinCall' = [mpinCall EXCEPT ![c] = IdleMpin] /\ resetOk' = resetOk /\ guesses' = guesses
    BY DEF WriteFailure, MpinAnswer
  <1>2. mpinCall[c].row.failed \in 0 .. MpinLimit /\ mpin \in MpinRow BY <1>0 DEF MpinShape, MpinRow
  <1>3. CASE mpinCall[c].row.failed + 1 >= MpinLimit
    <2>1. mpin' = [mpin EXCEPT !.failed = MpinLimit, !.lock = "locked"] BY <1>1, <1>3 DEF AfterFailure
    <2>2. mpin' \in MpinRow /\ mpin'.failed = MpinLimit /\ mpin'.lock = "locked"
      <3>1. MpinLimit \in 0 .. MpinLimit /\ "locked" \in LockStates BY MpinAssumption DEF LockStates
      <3> QED BY <1>2, <2>1, <3>1 DEF MpinRow
    <2>3. Counted(guesses)' BY <2>2 DEF Counted
    <2> QED BY <1>0, <1>1, <2>2, <2>3, IdleIsARequest, EndStep DEF MpinShape
  <1>4. CASE ~(mpinCall[c].row.failed + 1 >= MpinLimit)
    <2>1. mpin' = [mpin EXCEPT !.failed = mpinCall[c].row.failed + 1, !.lock = "none"] BY <1>1, <1>4 DEF AfterFailure
    <2>2. mpin' \in MpinRow /\ mpin'.failed = mpinCall[c].row.failed + 1 /\ mpin'.lock = "none"
      <3>1. mpinCall[c].row.failed + 1 \in 0 .. MpinLimit /\ "none" \in LockStates
        BY <1>2, <1>4, MpinAssumption DEF LockStates
      <3> QED BY <1>2, <2>1, <3>1 DEF MpinRow
    <2>3. ASSUME ~mpinMixed PROVE Counted(guesses)'
      <3>1. mpinCall[c].row = mpin BY <1>1, <2>3 DEF MpinInv, ReadsRow
      <3>2. Counted(guesses - 1) BY <1>1, <2>3 DEF MpinInv, CountsGuesses
      <3>3. mpin.failed # MpinLimit BY <1>2, <1>4, <3>1, MpinAssumption
      <3>4. mpin.failed = guesses - 1 BY <3>2, <3>3 DEF Counted
      <3>5. guesses \in Int BY <1>0 DEF MpinShape
      <3>6. mpin'.failed = guesses /\ guesses < MpinLimit BY <1>2, <1>4, <2>2, <3>1, <3>4, <3>5, MpinAssumption
      <3> QED BY <1>1, <2>2, <3>6 DEF Counted
    <2> QED BY <1>0, <1>1, <2>2, <2>3, IdleIsARequest, EndStep DEF MpinShape
  <1> QED BY <1>3, <1>4

\* A right MPIN forgets the wrong ones before it.
LEMMA SuccessStep ==
    ASSUME MpinInv, NEW c \in MpinCalls, WriteSuccess(c)
    PROVE  MpinInv'
  <1>0. MpinShape BY DEF MpinInv
  <1>1. mpinCall[c].at = "right" /\ guesses' = 0 /\ mpinMixed' = mpinMixed
          /\ mpinCall' = [mpinCall EXCEPT ![c] = IdleMpin] /\ resetOk' = resetOk
    BY DEF WriteSuccess, MpinAnswer
  <1>2. mpin \in MpinRow /\ 0 \in 0 .. MaxGuesses BY <1>0, MpinAssumption DEF MpinShape
  <1>3. CASE mpinCall[c].row.failed > 0 \/ mpinCall[c].row.lock # "none"
    <2>1. mpin' = [mpin EXCEPT !.failed = 0, !.lock = "none"] BY <1>3 DEF WriteSuccess
    <2>2. mpin' \in MpinRow /\ mpin'.failed = 0 /\ mpin'.lock = "none"
      <3>1. 0 \in 0 .. MpinLimit /\ "none" \in LockStates BY MpinAssumption DEF LockStates
      <3> QED BY <1>2, <2>1, <3>1 DEF MpinRow
    <2>3. Counted(guesses)' BY <1>1, <2>2, MpinAssumption DEF Counted
    <2> QED BY <1>0, <1>1, <1>2, <2>2, <2>3, IdleIsARequest, EndStep DEF MpinShape
  <1>4. CASE ~(mpinCall[c].row.failed > 0 \/ mpinCall[c].row.lock # "none")
    <2>1. mpin' = mpin BY <1>4 DEF WriteSuccess
    <2>2. ASSUME ~mpinMixed PROVE Counted(guesses)'
      <3>1. mpinCall[c].row = mpin BY <1>1, <2>2 DEF MpinInv, ReadsRow
      <3>2. mpin.failed = 0 /\ mpin.lock = "none" BY <1>2, <1>4, <3>1 DEF MpinRow
      <3> QED BY <1>1, <2>1, <3>2, MpinAssumption DEF Counted
    <2> QED BY <1>0, <1>1, <1>2, <2>1, <2>2, IdleIsARequest, EndStep DEF MpinShape
  <1> QED BY <1>3, <1>4

\* Without a wrong MPIN under way the row has counted them all.
LEMMA NoneUnderWay ==
    ASSUME MpinInv, ~mpinMixed, NEW c \in MpinCalls, mpinCall[c].at \notin {"idle", "wrong"}
    PROVE  Counted(guesses)
  <1>1. \A d \in MpinCalls : mpinCall[d].at # "wrong" BY DEF MpinInv, Alone
  <1> QED BY <1>1 DEF MpinInv, CountsGuesses

LEMMA OtherStep ==
    ASSUME MpinInv, NEW c \in MpinCalls, WriteCreated(c) \/ WriteChanged(c) \/ SpendReset(c)
    PROVE  MpinInv'
  <1>0. MpinShape BY DEF MpinInv
  <1>1. CASE WriteCreated(c)
    <2>1. mpinCall[c].at = "create" /\ guesses' = guesses /\ mpinMixed' = mpinMixed
            /\ mpinCall' = [mpinCall EXCEPT ![c] = IdleMpin] /\ resetOk' = resetOk
            /\ mpin' = [mpin EXCEPT !.set = TRUE]
      BY <1>1 DEF WriteCreated, MpinAnswer
    <2>2. mpin' \in MpinRow /\ mpin'.failed = mpin.failed /\ mpin'.lock = mpin.lock
      BY <1>0, <2>1 DEF MpinShape, MpinRow
    <2>3. ~mpinMixed => Counted(guesses)' BY <2>1, <2>2, NoneUnderWay DEF Counted
    <2> QED BY <1>0, <2>1, <2>2, <2>3, IdleIsARequest, EndStep DEF MpinShape
  <1>2. CASE WriteChanged(c)
    <2>1. mpinCall[c].at \in {"change", "reset"} /\ guesses' = 0 /\ mpin' = NewMpin /\ resetOk' = resetOk
            /\ mpinMixed' = mpinMixed
      BY <1>2 DEF WriteChanged, MpinAnswer
    <2>2. Counted(guesses)' BY <2>1, MpinRows, MpinAssumption DEF Counted
    <2>3. mpin' \in MpinRow /\ guesses' \in 0 .. MaxGuesses /\ resetOk' \in BOOLEAN
      BY <1>0, <2>1, MpinRows, MpinAssumption DEF MpinShape
    <2>4. mpinCall[c] \in [at : MpinSteps, row : MpinRow] BY <1>0 DEF MpinShape
    <2>5. CASE mpinCall[c].at = "reset"
      <3>1. mpinCall' = [mpinCall EXCEPT ![c] = [mpinCall[c] EXCEPT !.at = "spend"]] BY <1>2, <2>5 DEF WriteChanged
      <3>2. [mpinCall[c] EXCEPT !.at = "spend"] \in [at : MpinSteps, row : MpinRow]
              /\ [mpinCall[c] EXCEPT !.at = "spend"].at = "spend"
        BY <2>4 DEF MpinSteps
      <3> QED BY <2>1, <2>2, <2>3, <2>5, <3>1, <3>2, EndStep
    <2>6. CASE mpinCall[c].at # "reset"
      <3>1. mpinCall' = [mpinCall EXCEPT ![c] = IdleMpin] BY <1>2, <2>6 DEF WriteChanged, MpinAnswer
      <3> QED BY <2>1, <2>2, <2>3, <3>1, IdleIsARequest, EndStep
    <2> QED BY <2>5, <2>6
  <1>3. CASE SpendReset(c)
    <2>1. mpinCall[c].at = "spend" /\ guesses' = guesses /\ mpinMixed' = mpinMixed
            /\ mpinCall' = [mpinCall EXCEPT ![c] = IdleMpin] /\ resetOk' = FALSE /\ mpin' = mpin
      BY <1>3 DEF SpendReset, MpinAnswer
    <2>2. ~mpinMixed => Counted(guesses)' BY <2>1, NoneUnderWay DEF Counted
    <2>3. mpin' \in MpinRow /\ guesses' \in 0 .. MaxGuesses /\ resetOk' \in BOOLEAN BY <1>0, <2>1 DEF MpinShape
    <2> QED BY <2>1, <2>2, <2>3, IdleIsARequest, EndStep
  <1> QED BY <1>1, <1>2, <1>3

\* Time ends a lock, and not while a request has read the row unlocked.
LEMMA TimeStep ==
    ASSUME MpinInv, AuthorizeReset \/ MpinTimePasses
    PROVE  MpinInv'
  <1>0. MpinShape BY DEF MpinInv
  <1>1. mpinCall' = mpinCall /\ guesses' = guesses /\ mpinMixed' = mpinMixed /\ resetOk' \in BOOLEAN
    BY <1>0 DEF AuthorizeReset, MpinTimePasses, MpinShape
  <1>2. CASE mpin' = mpin
    BY <1>0, <1>1, <1>2 DEF MpinInv, MpinShape, Alone, ReadsRow, CountsGuesses, Counted
  <1>3. CASE mpin.lock = "locked" /\ mpin' = [mpin EXCEPT !.lock = "over"]
    <2>1. mpin' \in MpinRow /\ mpin'.failed = mpin.failed /\ mpin'.lock = "over"
      BY <1>0, <1>3 DEF MpinShape, MpinRow, LockStates
    <2>2. MpinShape' BY <1>0, <1>1, <2>1 DEF MpinShape
    <2>3. ASSUME ~mpinMixed PROVE (Alone /\ ReadsRow /\ CountsGuesses)'
      <3>1. \A c \in MpinCalls : mpinCall[c].at \notin {"right", "wrong"} BY <1>3, <2>3 DEF MpinInv, ReadsRow
      <3>2. Counted(guesses) BY <2>3, <3>1 DEF MpinInv, CountsGuesses
      <3>3. Counted(guesses)' BY <1>1, <1>3, <2>1, <3>2 DEF Counted
      <3>4. Alone' BY <1>1, <2>3 DEF MpinInv, Alone
      <3> QED BY <1>1, <3>1, <3>3, <3>4 DEF ReadsRow, CountsGuesses
    <2> QED BY <1>1, <2>2, <2>3 DEF MpinInv
  <1> QED BY <1>2, <1>3 DEF AuthorizeReset, MpinTimePasses

----------------------------------------------------------------------------
(* The theorems *)

LEMMA MpinInvStep == MpinInv /\ [MpinNext]_mpinVars => MpinInv'
  <1> SUFFICES ASSUME MpinInv, [MpinNext]_mpinVars PROVE MpinInv' OBVIOUS
  <1>0. MpinShape BY DEF MpinInv
  <1>1. ASSUME NEW c \in MpinCalls, CreateMpin(c) PROVE MpinInv'
    <2>1. StartMpin(c, "create") /\ guesses' = guesses BY <1>1 DEF CreateMpin
    <2>2. guesses' \in 0 .. MaxGuesses /\ "create" \in MpinSteps \ {"idle"} BY <1>0, <2>1 DEF MpinShape, MpinSteps
    <2> QED BY <2>1, <2>2, StartStep
  <1>2. ASSUME NEW c \in MpinCalls, EnterMpin(c) PROVE MpinInv'
    <2>0. mpin.lock # "locked" BY <1>2 DEF EnterMpin
    <2>1. ASSUME NEW step \in {"right", "change"}, StartMpin(c, step), UNCHANGED guesses PROVE MpinInv'
      <3>1. guesses' \in 0 .. MaxGuesses /\ step \in MpinSteps \ {"idle"} BY <1>0, <2>1 DEF MpinShape, MpinSteps
      <3> QED BY <2>0, <2>1, <3>1, StartStep
    <2>2. ASSUME StartMpin(c, "wrong"), guesses < MaxGuesses, guesses' = guesses + 1 PROVE MpinInv'
      <3>1. guesses' \in 0 .. MaxGuesses /\ "wrong" \in MpinSteps \ {"idle"}
        BY <1>0, <2>2, MpinAssumption DEF MpinShape, MpinSteps
      <3> QED BY <2>0, <2>2, <3>1, StartStep
    <2> QED BY <1>2, <2>1, <2>2 DEF EnterMpin
  <1>3. ASSUME NEW c \in MpinCalls, ResetMpin(c) PROVE MpinInv'
    <2>1. StartMpin(c, "reset") /\ guesses' = guesses BY <1>3 DEF ResetMpin
    <2>2. guesses' \in 0 .. MaxGuesses /\ "reset" \in MpinSteps \ {"idle"} BY <1>0, <2>1 DEF MpinShape, MpinSteps
    <2> QED BY <2>1, <2>2, StartStep
  <1>4. ASSUME NEW c \in MpinCalls, WriteFailure(c) PROVE MpinInv' BY <1>4, FailureStep
  <1>5. ASSUME NEW c \in MpinCalls, WriteSuccess(c) PROVE MpinInv' BY <1>5, SuccessStep
  <1>6. ASSUME NEW c \in MpinCalls, WriteCreated(c) \/ WriteChanged(c) \/ SpendReset(c) PROVE MpinInv'
    BY <1>6, OtherStep
  <1>7. CASE AuthorizeReset \/ MpinTimePasses BY <1>7, TimeStep
  <1>8. CASE UNCHANGED mpinVars
    BY <1>8 DEF mpinVars, MpinInv, MpinShape, Alone, ReadsRow, CountsGuesses, Counted
  <1> QED BY <1>1, <1>2, <1>3, <1>4, <1>5, <1>6, <1>7, <1>8 DEF MpinNext

\* The variables have their types, and one request at a time misses no wrong MPIN.
THEOREM MpinInvariant == MpinSpec => []MpinInv
  <1> QED BY MpinInvInit, MpinInvStep, PTL DEF MpinSpec

\* While requests come one at a time, the MPIN is locked from the wrong one that reaches the
\* limit on, whatever was created, changed, reset or waited for in between: for every limit.
THEOREM WrongMpinsLock == MpinSpec => []FiveWrongMpinsLock
  <1>1. MpinInv => FiveWrongMpinsLock
    <2> SUFFICES ASSUME MpinInv, ~mpinMixed, \A c \in MpinCalls : mpinCall[c].at = "idle", mpin.lock = "none"
                 PROVE  guesses < MpinLimit /\ mpin.failed = guesses
      BY DEF FiveWrongMpinsLock
    <2>1. Counted(guesses) BY DEF MpinInv, CountsGuesses
    <2> QED BY <2>1 DEF Counted
  <1> QED BY <1>1, MpinInvariant, PTL

----------------------------------------------------------------------------
(* How long a session lasts.  Most requests of a session never reach its    *)
(* row; the invariant says why the row is nevertheless at most a day        *)
(* behind: a process remembers only sessions whose row was fresh, or was    *)
(* about to be extended, and forgets them before the day is over.           *)

SessionRow == [is : {"none", "live", "revoked", "deleted"}, left : 0 .. IdleWindow]
Entry == [at : {"find", "admit", "extend"}, left : 0 .. IdleWindow, of : SessionIds, by : Processes]

SessionShape ==
    /\ session \in [SessionIds -> SessionRow]
    /\ remembered \in [Processes -> SUBSET SessionIds]
    /\ guard \in [GuardCalls -> {IdleGuard} \cup Entry]
    /\ unused \in [SessionIds -> 0 .. IdleWindow + 1]
    /\ tokenAge \in [SessionIds -> 0 .. TokenLife]
    /\ missed \subseteq SessionIds

Extending(s) == \E c \in GuardCalls : guard[c].at = "extend" /\ guard[c].of = s

\* Of a session in the database.
InTime(s) ==
    /\ session[s].is = "none" => unused[s] = 0
    /\ session[s].is # "none" /\ session[s].left > 0 => session[s].left + unused[s] <= IdleWindow
    /\ session[s].is # "none" /\ s \notin missed /\ ~Extending(s) => session[s].left + unused[s] >= IdleWindow - 1

\* Of a request that has read the row, and of one that is to extend it.
ReadInTime(c) ==
    /\ guard[c].at = "admit" => guard[c].left <= session[guard[c].of].left
    /\ guard[c].at = "extend" => unused[guard[c].of] = 0

\* Of a session that is let in without a look at its row.
Fresh(s) == session[s].left >= IdleWindow - 1 \/ s \in missed \/ Extending(s)

SessionInv ==
    /\ SessionShape
    /\ \A s \in SessionIds : InTime(s)
    /\ \A c \in GuardCalls : ReadInTime(c)
    /\ \A p \in Processes : \A s \in remembered[p] : Fresh(s)

----------------------------------------------------------------------------
(* The requests *)

\* What can stand in guard.
LEMMA GuardEntries ==
    ASSUME NEW g \in {IdleGuard} \cup Entry, g.at # "idle"
    PROVE  g \in Entry
  BY DEF IdleGuard

LEMMA IdleIsNoEntry == IdleGuard.at = "idle"
  BY DEF IdleGuard

LEMMA SessionInvInit == SessionsInit => SessionInv
  <1> SUFFICES ASSUME SessionsInit PROVE SessionInv OBVIOUS
  <1>0. IdleWindow \in Nat /\ TokenLife \in Nat BY SessionsAssumption
  <1>1. SessionShape BY <1>0 DEF SessionsInit, SessionShape, SessionRow
  <1>2. \A s \in SessionIds : InTime(s) BY DEF SessionsInit, InTime
  <1>3. \A c \in GuardCalls : ReadInTime(c) BY DEF SessionsInit, ReadInTime, IdleGuard
  <1> QED BY <1>1, <1>2, <1>3 DEF SessionInv, SessionsInit

\* A session is opened, logged out or deleted: its row alone changes.
LEMMA OpenStep ==
    ASSUME SessionInv, NEW s \in SessionIds, OpenNewSession(s)
    PROVE  SessionInv'
  <1>0. SessionShape /\ IdleWindow \in Nat BY SessionsAssumption DEF SessionInv
  <1>1. /\ session[s].is = "none"
        /\ session' = [session EXCEPT ![s] = [is |-> "live", left |-> IdleWindow]]
        /\ UNCHANGED <<remembered, guard, unused, tokenAge, missed>>
    BY DEF OpenNewSession
  <1>2. SessionShape' BY <1>0, <1>1 DEF SessionShape, SessionRow
  <1>3. session'[s].is = "live" /\ session'[s].left = IdleWindow BY <1>0, <1>1 DEF SessionShape
  <1>4. \A t \in SessionIds \ {s} : session'[t] = session[t] BY <1>0, <1>1 DEF SessionShape
  <1>5. \A t \in SessionIds : session[t].left \in 0 .. IdleWindow /\ unused[t] \in Nat /\ session'[t].left >= session[t].left
    BY <1>0, <1>3, <1>4 DEF SessionShape, SessionRow
  <1>6. \A t \in SessionIds : Extending(t)' <=> Extending(t) BY <1>1 DEF Extending
  <1>7. ASSUME NEW t \in SessionIds PROVE InTime(t)'
    <2>1. CASE t = s
      <3>1. unused[s] = 0 BY <1>1 DEF SessionInv, InTime
      <3> QED BY <1>0, <1>1, <1>3, <2>1, <3>1 DEF InTime
    <2>2. CASE t # s
      <3>1. InTime(t) BY DEF SessionInv
      <3> QED BY <1>1, <1>4, <1>6, <2>2, <3>1 DEF InTime
    <2> QED BY <2>1, <2>2
  <1>8. ASSUME NEW c \in GuardCalls PROVE ReadInTime(c)'
    <2>1. ReadInTime(c) BY DEF SessionInv
    <2>2. guard[c].at = "admit" => guard[c].of \in SessionIds /\ guard[c].left \in Int
      <3>1. guard[c] \in {IdleGuard} \cup Entry BY <1>0 DEF SessionShape
      <3> QED BY <3>1, GuardEntries DEF Entry
    <2> QED BY <1>0, <1>1, <1>5, <2>1, <2>2 DEF ReadInTime
  <1>9. ASSUME NEW p \in Processes, NEW t \in remembered'[p] PROVE Fresh(t)'
    <2>1. t \in SessionIds /\ t \in remembered[p] BY <1>0, <1>1, <1>9 DEF SessionShape
    <2>2. Fresh(t) BY <2>1 DEF SessionInv
    <2> QED BY <1>0, <1>1, <1>5, <1>6, <2>1, <2>2 DEF Fresh
  <1> QED BY <1>2, <1>7, <1>8, <1>9 DEF SessionInv

LEMMA SessionEndStep ==
    ASSUME SessionInv, NEW s \in SessionIds, LogOut(s) \/ LoseSession(s)
    PROVE  SessionInv'
  <1>0. SessionShape BY DEF SessionInv
  <1>1. PICK is \in {"revoked", "deleted"} : session' = [session EXCEPT ![s].is = is]
    BY DEF LogOut, LoseSession
  <1>2. session[s].is # "none" /\ UNCHANGED <<remembered, guard, unused, tokenAge, missed>> BY DEF LogOut, LoseSession
  <1>3. \A t \in SessionIds : session'[t].left = session[t].left /\ (session'[t].is = "none" <=> session[t].is = "none")
    BY <1>0, <1>1, <1>2 DEF SessionShape, SessionRow
  <1>4. session' \in [SessionIds -> SessionRow] BY <1>0, <1>1 DEF SessionShape, SessionRow
  <1>5. SessionShape' BY <1>0, <1>2, <1>4 DEF SessionShape
  <1>6. \A t \in SessionIds : InTime(t)' BY <1>2, <1>3 DEF SessionInv, InTime, Extending
  <1>7. ASSUME NEW c \in GuardCalls PROVE ReadInTime(c)'
    <2>1. ReadInTime(c) BY DEF SessionInv
    <2>2. guard[c].at = "admit" => guard[c].of \in SessionIds
      <3>1. guard[c] \in {IdleGuard} \cup Entry BY <1>0 DEF SessionShape
      <3> QED BY <3>1, GuardEntries DEF Entry
    <2> QED BY <1>2, <1>3, <2>1, <2>2 DEF ReadInTime
  <1>8. ASSUME NEW p \in Processes, NEW t \in remembered'[p] PROVE Fresh(t)'
    <2>1. t \in SessionIds /\ t \in remembered[p] BY <1>0, <1>2, <1>8 DEF SessionShape
    <2>2. Fresh(t) BY <2>1 DEF SessionInv
    <2> QED BY <1>2, <1>3, <2>1, <2>2 DEF Fresh, Extending
  <1> QED BY <1>5, <1>6, <1>7, <1>8 DEF SessionInv

\* A session is let in on a process's word: its row is fresh.
LEMMA RememberedStep ==
    ASSUME SessionInv, NEW s \in SessionIds, NEW p \in Processes, s \in remembered[p],
           unused' = [unused EXCEPT ![s] = 0], UNCHANGED <<session, remembered, guard, tokenAge, missed>>
    PROVE  SessionInv'
  <1>0. SessionShape /\ IdleWindow \in Nat BY SessionsAssumption DEF SessionInv
  <1>1. SessionShape' BY <1>0 DEF SessionShape
  <1>2. unused'[s] = 0 /\ \A t \in SessionIds \ {s} : unused'[t] = unused[t] BY <1>0 DEF SessionShape
  <1>3. \A t \in SessionIds : session[t].left \in 0 .. IdleWindow BY <1>0 DEF SessionShape, SessionRow
  <1>4. \A t \in SessionIds : Extending(t)' <=> Extending(t) BY DEF Extending
  <1>5. ASSUME NEW t \in SessionIds PROVE InTime(t)'
    <2>1. CASE t = s
      <3>1. Fresh(s) BY DEF SessionInv
      <3> QED BY <1>0, <1>2, <1>3, <1>4, <2>1, <3>1 DEF InTime, Fresh
    <2>2. CASE t # s
      <3>1. InTime(t) BY DEF SessionInv
      <3> QED BY <1>2, <1>4, <2>2, <3>1 DEF InTime
    <2> QED BY <2>1, <2>2
  <1>6. ASSUME NEW c \in GuardCalls PROVE ReadInTime(c)'
    <2>1. ReadInTime(c) BY DEF SessionInv
    <2>2. guard[c].at = "extend" => guard[c].of \in SessionIds
      <3>1. guard[c] \in {IdleGuard} \cup Entry BY <1>0 DEF SessionShape
      <3> QED BY <3>1, GuardEntries DEF Entry
    <2> QED BY <1>2, <2>1, <2>2 DEF ReadInTime
  <1>7. \A q \in Processes : \A t \in remembered'[q] : Fresh(t)' BY <1>4 DEF SessionInv, Fresh, Extending
  <1> QED BY <1>1, <1>5, <1>6, <1>7 DEF SessionInv

\* A request moves, without extending the session before or after.
LEMMA SessionQuiet ==
    ASSUME SessionInv, NEW c \in GuardCalls, guard[c].at # "extend",
           NEW g \in {IdleGuard} \cup Entry, g.at # "extend",
           g.at = "admit" => g.left <= session[g.of].left,
           guard' = [guard EXCEPT ![c] = g], UNCHANGED <<session, remembered, unused, tokenAge, missed>>
    PROVE  SessionInv'
  <1>0. SessionShape BY DEF SessionInv
  <1>1. SessionShape' BY <1>0 DEF SessionShape
  <1>2. guard'[c] = g /\ \A d \in GuardCalls \ {c} : guard'[d] = guard[d] BY <1>0 DEF SessionShape
  <1>3. \A t : Extending(t)' <=> Extending(t) BY <1>2 DEF Extending
  <1>4. \A t \in SessionIds : InTime(t)' BY <1>3 DEF SessionInv, InTime
  <1>5. \A d \in GuardCalls : ReadInTime(d)' BY <1>2 DEF SessionInv, ReadInTime
  <1>6. \A q \in Processes : \A t \in remembered'[q] : Fresh(t)' BY <1>3 DEF SessionInv, Fresh
  <1> QED BY <1>1, <1>4, <1>5, <1>6 DEF SessionInv

LEMMA EnterStep ==
    ASSUME SessionInv, NEW c \in GuardCalls, NEW s \in SessionIds, NEW p \in Processes, EnterGuard(c, s, p)
    PROVE  SessionInv'
  <1>0. IdleWindow \in Nat BY SessionsAssumption
  <1>1. CASE s \in remembered[p] BY <1>1, RememberedStep DEF EnterGuard
  <1>2. CASE s \notin remembered[p]
    <2> DEFINE g == [at |-> "find", left |-> 0, of |-> s, by |-> p]
    <2>1. g \in Entry BY <1>0 DEF Entry
    <2>2. guard[c].at # "extend" BY DEF EnterGuard, InGuard
    <2>3. guard' = [guard EXCEPT ![c] = g] /\ UNCHANGED <<session, remembered, unused, tokenAge, missed>>
      BY <1>2 DEF EnterGuard
    <2>4. g \in {IdleGuard} \cup Entry /\ g.at = "find" BY <2>1
    <2> HIDE DEF g
    <2> QED BY <2>2, <2>3, <2>4, SessionQuiet
  <1> QED BY <1>1, <1>2

LEMMA FindStep ==
    ASSUME SessionInv, NEW c \in GuardCalls, FindSession(c)
    PROVE  SessionInv'
  <1>0. SessionShape BY DEF SessionInv
  <1>1. guard[c].at = "find" /\ UNCHANGED <<session, remembered, unused, tokenAge, missed>> BY DEF FindSession
  <1>2. guard[c] \in Entry
    <2>1. guard[c] \in {IdleGuard} \cup Entry BY <1>0 DEF SessionShape
    <2> QED BY <1>1, <2>1, GuardEntries
  <1>3. session[guard[c].of].left \in 0 .. IdleWindow BY <1>0, <1>2 DEF SessionShape, SessionRow, Entry
  <1>4. CASE Valid(session[guard[c].of])
    <2> DEFINE left == session[guard[c].of].left
               g == [guard[c] EXCEPT !.at = "admit", !.left = left]
    <2>1. guard' = [guard EXCEPT ![c] = g] BY <1>4 DEF FindSession
    <2>2. left \in 0 .. IdleWindow BY <1>3
    <2>3. g \in Entry /\ g.at = "admit" /\ g.left = left /\ g.of = guard[c].of
      <3> HIDE DEF left
      <3> QED BY <1>2, <2>2 DEF Entry
    <2>4. g.left <= session[g.of].left
      <3>1. left <= left BY <2>2
      <3> QED BY <2>3, <3>1
    <2> HIDE DEF g
    <2> QED BY <1>1, <2>1, <2>3, <2>4, SessionQuiet
  <1>5. CASE ~Valid(session[guard[c].of])
    <2>1. guard' = [guard EXCEPT ![c] = IdleGuard] BY <1>5 DEF FindSession
    <2> QED BY <1>1, <2>1, IdleIsNoEntry, SessionQuiet
  <1> QED BY <1>4, <1>5

\* A request that has read the row is let in; if the row is old, it will extend it.
LEMMA AdmitStep ==
    ASSUME SessionInv, NEW c \in GuardCalls, Admit(c)
    PROVE  SessionInv'
  <1>0. SessionShape /\ IdleWindow \in Nat BY SessionsAssumption DEF SessionInv
  <1>1. guard[c].at = "admit" /\ UNCHANGED <<session, tokenAge, missed>> BY DEF Admit
  <1>2. guard[c] \in Entry
    <2>1. guard[c] \in {IdleGuard} \cup Entry BY <1>0 DEF SessionShape
    <2> QED BY <1>1, <2>1, GuardEntries
  <1> DEFINE s == guard[c].of
             p == guard[c].by
  <1>3. s \in SessionIds /\ p \in Processes /\ guard[c].left \in 0 .. IdleWindow BY <1>2 DEF Entry
  <1>4. unused' = [unused EXCEPT ![s] = 0] /\ remembered' = [remembered EXCEPT ![p] = @ \cup {s}] BY DEF Admit
  <1>5. guard[c].left <= session[s].left BY <1>1 DEF SessionInv, ReadInTime
  <1>6. \A t \in SessionIds : session[t].left \in 0 .. IdleWindow /\ unused[t] \in 0 .. IdleWindow + 1
    BY <1>0 DEF SessionShape, SessionRow
  <1>7. PICK g \in {IdleGuard} \cup Entry :
          /\ guard' = [guard EXCEPT ![c] = g]
          /\ \/ g.at = "idle" /\ session[s].left >= IdleWindow - 1
             \/ g.at = "extend" /\ g.of = s
    <2>1. CASE guard[c].left < IdleWindow - 1
      <3> DEFINE e == [guard[c] EXCEPT !.at = "extend"]
      <3>1. guard' = [guard EXCEPT ![c] = e] BY <2>1 DEF Admit
      <3>2. e \in Entry /\ e.at = "extend" /\ e.of = s BY <1>2 DEF Entry
      <3> HIDE DEF e
      <3> QED BY <3>1, <3>2
    <2>2. CASE ~(guard[c].left < IdleWindow - 1)
      <3>1. guard' = [guard EXCEPT ![c] = IdleGuard] BY <2>2 DEF Admit
      <3>2. session[s].left >= IdleWindow - 1 BY <1>0, <1>3, <1>5, <1>6, <2>2
      <3> QED BY <3>1, <3>2, IdleIsNoEntry
    <2> QED BY <2>1, <2>2
  <1> HIDE DEF s, p
  <1>8. guard'[c] = g /\ \A d \in GuardCalls \ {c} : guard'[d] = guard[d] BY <1>0, <1>7 DEF SessionShape
  <1>9. unused'[s] = 0 /\ \A t \in SessionIds \ {s} : unused'[t] = unused[t] BY <1>0, <1>3, <1>4 DEF SessionShape
  <1>10. SessionShape' BY <1>0, <1>1, <1>3, <1>4, <1>7 DEF SessionShape
  <1>11. \A t : t # s => (Extending(t)' <=> Extending(t))
    <2>1. g.at = "idle" \/ (g.at = "extend" /\ g.of = s) BY <1>7
    <2> QED BY <1>1, <1>8, <2>1 DEF Extending
  <1>12. session[s].left >= IdleWindow - 1 \/ \E d \in GuardCalls : guard'[d].at = "extend" /\ guard'[d].of = s
    BY <1>7, <1>8
  <1>13. ASSUME NEW t \in SessionIds PROVE InTime(t)'
    <2>1. CASE t = s BY <1>0, <1>1, <1>3, <1>6, <1>9, <1>12, <2>1 DEF InTime, Extending
    <2>2. CASE t # s
      <3>1. InTime(t) BY DEF SessionInv
      <3> QED BY <1>1, <1>9, <1>11, <2>2, <3>1 DEF InTime
    <2> QED BY <2>1, <2>2
  <1>14. ASSUME NEW d \in GuardCalls PROVE ReadInTime(d)'
    <2>1. CASE d = c BY <1>7, <1>8, <1>9, <2>1 DEF ReadInTime
    <2>2. CASE d # c
      <3>1. ReadInTime(d) BY DEF SessionInv
      <3>2. guard[d].at = "extend" => guard[d].of \in SessionIds
        <4>1. guard[d] \in {IdleGuard} \cup Entry BY <1>0 DEF SessionShape
        <4> QED BY <4>1, GuardEntries DEF Entry
      <3> QED BY <1>1, <1>8, <1>9, <2>2, <3>1, <3>2 DEF ReadInTime
    <2> QED BY <2>1, <2>2
  <1>15. ASSUME NEW q \in Processes, NEW t \in remembered'[q] PROVE Fresh(t)'
    <2>1. CASE t = s BY <1>1, <1>12, <2>1 DEF Fresh, Extending
    <2>2. CASE t # s
      <3>1. t \in remembered[q] BY <1>0, <1>3, <1>4, <1>15, <2>2 DEF SessionShape
      <3>2. Fresh(t) BY <3>1 DEF SessionInv
      <3> QED BY <1>1, <1>11, <2>2, <3>2 DEF Fresh
    <2> QED BY <2>1, <2>2
  <1> QED BY <1>10, <1>13, <1>14, <1>15 DEF SessionInv

\* The row is extended, on a day on which the session was used; or the update failed.
LEMMA ExtendStep ==
    ASSUME SessionInv, NEW c \in GuardCalls, ExtendSession(c)
    PROVE  SessionInv'
  <1>0. SessionShape /\ IdleWindow \in Nat BY SessionsAssumption DEF SessionInv
  <1>1. guard[c].at = "extend" /\ UNCHANGED <<remembered, unused, tokenAge>> /\ guard' = [guard EXCEPT ![c] = IdleGuard]
    BY DEF ExtendSession
  <1>2. guard[c] \in Entry
    <2>1. guard[c] \in {IdleGuard} \cup Entry BY <1>0 DEF SessionShape
    <2> QED BY <1>1, <2>1, GuardEntries
  <1> DEFINE s == guard[c].of
  <1>3. s \in SessionIds /\ unused[s] = 0 BY <1>1, <1>2 DEF Entry, SessionInv, ReadInTime
  <1>4. \/ session' = [session EXCEPT ![s].left = IdleWindow] /\ missed' = missed \ {s}
        \/ missed' = missed \cup {s} /\ session' = session
    BY DEF ExtendSession
  <1> HIDE DEF s
  <1>5. guard'[c] = IdleGuard /\ \A d \in GuardCalls \ {c} : guard'[d] = guard[d] BY <1>0, <1>1 DEF SessionShape
  <1>6. \A t \in SessionIds : session[t] \in SessionRow BY <1>0 DEF SessionShape
  <1>7. session' \in [SessionIds -> SessionRow] BY <1>0, <1>4 DEF SessionShape, SessionRow
  <1>8. SessionShape' BY <1>0, <1>1, <1>3, <1>4, <1>7 DEF SessionShape
  <1>9. \A t : t # s => (Extending(t)' <=> Extending(t)) BY <1>5, IdleIsNoEntry DEF Extending, s
  <1>10. session'[s].left = IdleWindow \/ (session' = session /\ s \in missed')
    BY <1>0, <1>3, <1>4 DEF SessionShape, SessionRow
  <1>11. \A t \in SessionIds : /\ session'[t].is = session[t].is /\ session'[t].left >= session[t].left
                               /\ session[t].left \in 0 .. IdleWindow /\ session'[t].left \in 0 .. IdleWindow
    BY <1>0, <1>3, <1>4, <1>7 DEF SessionShape, SessionRow
  <1>12. \A t \in SessionIds \ {s} : session'[t] = session[t] /\ (t \in missed' <=> t \in missed)
    BY <1>0, <1>3, <1>4 DEF SessionShape
  <1>13. ASSUME NEW t \in SessionIds PROVE InTime(t)'
    <2>0. InTime(t) BY DEF SessionInv
    <2>1. CASE t = s BY <1>0, <1>1, <1>3, <1>10, <1>11, <2>0, <2>1 DEF InTime
    <2>2. CASE t # s BY <1>1, <1>9, <1>12, <2>0, <2>2 DEF InTime
    <2> QED BY <2>1, <2>2
  <1>14. ASSUME NEW d \in GuardCalls PROVE ReadInTime(d)'
    <2>1. CASE d = c BY <1>5, <2>1, IdleIsNoEntry DEF ReadInTime
    <2>2. CASE d # c
      <3>1. ReadInTime(d) /\ guard'[d] = guard[d] BY <1>5, <2>2 DEF SessionInv
      <3>2. guard[d] \in {IdleGuard} \cup Entry BY <1>0 DEF SessionShape
      <3>3. guard[d].at = "admit" => guard[d].of \in SessionIds /\ guard[d].left \in Int
        BY <3>2, GuardEntries DEF Entry
      <3> QED BY <1>0, <1>1, <1>11, <3>1, <3>3 DEF ReadInTime
    <2> QED BY <2>1, <2>2
  <1>15. ASSUME NEW q \in Processes, NEW t \in remembered'[q] PROVE Fresh(t)'
    <2>1. t \in SessionIds /\ t \in remembered[q] BY <1>0, <1>1, <1>15 DEF SessionShape
    <2>2. Fresh(t) BY <2>1 DEF SessionInv
    <2>3. CASE t = s BY <1>0, <1>10, <2>3 DEF Fresh
    <2>4. CASE t # s BY <1>9, <1>12, <2>1, <2>2, <2>4 DEF Fresh
    <2> QED BY <2>3, <2>4
  <1> QED BY <1>8, <1>13, <1>14, <1>15 DEF SessionInv

LEMMA ForgetStep ==
    ASSUME SessionInv, NEW p \in Processes, NEW s \in SessionIds, Forget(p, s)
    PROVE  SessionInv'
  <1>0. SessionShape BY DEF SessionInv
  <1>1. remembered' = [remembered EXCEPT ![p] = @ \ {s}] /\ UNCHANGED <<session, guard, unused, tokenAge, missed>> BY DEF Forget
  <1>2. \A q \in Processes : remembered'[q] \subseteq remembered[q] BY <1>0, <1>1 DEF SessionShape
  <1>3. SessionShape' BY <1>0, <1>1 DEF SessionShape
  <1>4. \A t \in SessionIds : InTime(t)' BY <1>1 DEF SessionInv, InTime, Extending
  <1>5. \A c \in GuardCalls : ReadInTime(c)' BY <1>1 DEF SessionInv, ReadInTime
  <1>6. \A q \in Processes : \A t \in remembered'[q] : Fresh(t)' BY <1>1, <1>2 DEF SessionInv, Fresh, Extending
  <1> QED BY <1>3, <1>4, <1>5, <1>6 DEF SessionInv

\* The extensions of the process are missed, and counted as missed.
LEMMA RestartStep ==
    ASSUME SessionInv, NEW p \in Processes, RestartProcess(p)
    PROVE  SessionInv'
  <1>0. SessionShape BY DEF SessionInv
  <1>1. UNCHANGED <<session, unused, tokenAge>> /\ remembered' = [remembered EXCEPT ![p] = {}] BY DEF RestartProcess
  <1>2. \A c \in GuardCalls : guard'[c] = IdleGuard \/ guard'[c] = guard[c] BY DEF RestartProcess
  <1>3. guard' \in [GuardCalls -> {IdleGuard} \cup Entry]
    <2>1. \A c \in GuardCalls : guard[c] \in {IdleGuard} \cup Entry BY <1>0 DEF SessionShape
    <2>2. guard' = [c \in GuardCalls |-> guard'[c]] BY DEF RestartProcess
    <2> QED BY <1>2, <2>1, <2>2
  <1>4. \A c \in GuardCalls : guard[c].at = "extend" => guard[c].of \in SessionIds
    <2>1. \A c \in GuardCalls : guard[c] \in {IdleGuard} \cup Entry BY <1>0 DEF SessionShape
    <2> QED BY <2>1, GuardEntries DEF Entry
  <1>5. missed \subseteq missed' /\ missed' \subseteq SessionIds BY <1>0, <1>4 DEF RestartProcess, SessionShape
  <1>6. \A t : Extending(t) => Extending(t)' \/ t \in missed'
    <2>1. ASSUME NEW t, Extending(t), t \notin missed' PROVE Extending(t)'
      <3>1. PICK c \in GuardCalls : guard[c].at = "extend" /\ guard[c].of = t BY <2>1 DEF Extending
      <3>2. guard[c].by # p BY <2>1, <3>1 DEF RestartProcess
      <3>3. guard'[c] = guard[c] BY <3>2 DEF RestartProcess
      <3> QED BY <3>1, <3>3 DEF Extending
    <2> QED BY <2>1
  <1>7. SessionShape' BY <1>0, <1>1, <1>3, <1>5 DEF SessionShape
  <1>8. \A t \in SessionIds : InTime(t)' BY <1>1, <1>5, <1>6 DEF SessionInv, InTime
  <1>9. \A c \in GuardCalls : ReadInTime(c)' BY <1>1, <1>2, IdleIsNoEntry DEF SessionInv, ReadInTime
  <1>10. ASSUME NEW q \in Processes, NEW t \in remembered'[q] PROVE Fresh(t)'
    <2>1. t \in remembered[q] BY <1>0, <1>1, <1>10 DEF SessionShape
    <2> QED BY <1>1, <1>5, <1>6, <2>1 DEF SessionInv, Fresh
  <1> QED BY <1>7, <1>8, <1>9, <1>10 DEF SessionInv

\* A day less, and a day more.
LEMMA DayStep ==
    ASSUME SessionInv, SessionDayPasses
    PROVE  SessionInv'
  <1>0. SessionShape /\ IdleWindow \in Nat BY SessionsAssumption DEF SessionInv
  <1>1. /\ \A c \in GuardCalls : guard[c].at = "idle"
        /\ \A p \in Processes : remembered[p] = {}
        /\ session' = [s \in SessionIds |-> [session[s] EXCEPT !.left = IF @ > 0 THEN @ - 1 ELSE 0]]
        /\ unused' = [s \in SessionIds |-> IF session[s].is = "none" \/ unused[s] > IdleWindow THEN unused[s]
                                           ELSE unused[s] + 1]
        /\ UNCHANGED <<remembered, guard, missed>>
    BY DEF SessionDayPasses, InGuard
  <1>2. \A s \in SessionIds : session[s] \in SessionRow /\ session[s].left \in 0 .. IdleWindow /\ unused[s] \in 0 .. IdleWindow + 1
    BY <1>0 DEF SessionShape, SessionRow
  <1>3. ASSUME NEW s \in SessionIds
        PROVE  /\ session'[s] \in SessionRow /\ session'[s].is = session[s].is
               /\ session'[s].left = IF session[s].left > 0 THEN session[s].left - 1 ELSE 0
    <2>1. session'[s] = [session[s] EXCEPT !.left = IF session[s].left > 0 THEN session[s].left - 1 ELSE 0] BY <1>1
    <2> DEFINE left == IF session[s].left > 0 THEN session[s].left - 1 ELSE 0
    <2>2. left \in 0 .. IdleWindow BY <1>0, <1>2
    <2>3. session'[s] = [session[s] EXCEPT !.left = left] BY <2>1
    <2> HIDE DEF left
    <2>4. session'[s] \in SessionRow /\ session'[s].is = session[s].is /\ session'[s].left = left
      BY <1>2, <2>2, <2>3 DEF SessionRow
    <2> QED BY <2>4 DEF left
  <1>4. session' \in [SessionIds -> SessionRow] BY <1>1, <1>3
  <1>5. unused' \in [SessionIds -> 0 .. IdleWindow + 1] BY <1>0, <1>1, <1>2
  <1>11. tokenAge' \in [SessionIds -> 0 .. TokenLife]
    <2>1. \A s \in SessionIds : tokenAge[s] \in 0 .. TokenLife BY <1>0 DEF SessionShape
    <2>2. tokenAge' = [s \in SessionIds |-> IF session[s].is = "none" \/ tokenAge[s] = TokenLife THEN tokenAge[s] ELSE tokenAge[s] + 1]
      BY DEF SessionDayPasses
    <2>3. TokenLife \in Nat BY SessionsAssumption
    <2> QED BY <2>1, <2>2, <2>3
  <1>6. SessionShape' BY <1>0, <1>1, <1>4, <1>5, <1>11 DEF SessionShape
  <1>7. \A t : Extending(t)' <=> Extending(t) BY <1>1 DEF Extending
  <1>8. ASSUME NEW s \in SessionIds PROVE InTime(s)'
    <2>1. InTime(s) BY DEF SessionInv
    <2>2. unused'[s] = IF session[s].is = "none" \/ unused[s] > IdleWindow THEN unused[s] ELSE unused[s] + 1 BY <1>1
    <2>3. session[s].left \in Int /\ unused[s] \in Int /\ session[s].left >= 0 BY <1>2
    <2> QED BY <1>0, <1>1, <1>3, <1>7, <2>1, <2>2, <2>3 DEF InTime
  <1>9. \A c \in GuardCalls : ReadInTime(c)' BY <1>1 DEF ReadInTime
  <1>10. \A p \in Processes : \A s \in remembered'[p] : Fresh(s)' BY <1>1
  <1> QED BY <1>6, <1>8, <1>9, <1>10 DEF SessionInv

----------------------------------------------------------------------------
(* The theorems *)

LEMMA SessionInvStep == SessionInv /\ [SessionsNext]_sessionVars => SessionInv'
  <1> SUFFICES ASSUME SessionInv, [SessionsNext]_sessionVars PROVE SessionInv' OBVIOUS
  <1>1. ASSUME NEW s \in SessionIds, OpenNewSession(s) \/ LogOut(s) \/ LoseSession(s) PROVE SessionInv'
    BY <1>1, OpenStep, SessionEndStep
  <1>2. ASSUME NEW c \in GuardCalls, NEW s \in SessionIds, NEW p \in Processes, EnterGuard(c, s, p) PROVE SessionInv'
    BY <1>2, EnterStep
  <1>3. ASSUME NEW c \in GuardCalls, GuardStep(c) PROVE SessionInv'
    BY <1>3, FindStep, AdmitStep, ExtendStep DEF GuardStep
  <1>4. ASSUME NEW p \in Processes, NEW s \in SessionIds, Forget(p, s) PROVE SessionInv'
    BY <1>4, ForgetStep
  <1>5. ASSUME NEW p \in Processes, RestartProcess(p) PROVE SessionInv' BY <1>5, RestartStep
  <1>6. CASE SessionDayPasses BY <1>6, DayStep
  <1>7. CASE UNCHANGED sessionVars
    BY <1>7 DEF sessionVars, SessionInv, SessionShape, InTime, ReadInTime, Fresh, Extending
  <1> QED BY <1>1, <1>2, <1>3, <1>4, <1>5, <1>6, <1>7 DEF SessionsNext

\* A process remembers only sessions whose row is at most a day behind, will be extended, or
\* missed an extension.
THEOREM SessionInvariant == SessionsSpec => []SessionInv
  <1> QED BY SessionInvInit, SessionInvStep, PTL DEF SessionsSpec

\* The row of a session lasts as long as the session is used and ends when it is not used for
\* the window, at most a day early, or earlier when an update of it failed: for every window, length
\* of the token, session, process and request (ensureSessionValid).
THEOREM InactivityEnds == SessionsSpec => []InactivityEndsSession
  <1>1. SessionInv => InactivityEndsSession
    <2> SUFFICES ASSUME SessionInv, NEW s \in SessionIds, session[s].is = "live", \A c \in GuardCalls : ~InGuard(c)
                 PROVE  /\ session[s].left > 0 => session[s].left + unused[s] <= IdleWindow
                        /\ s \notin missed => session[s].left + unused[s] >= IdleWindow - 1
      BY DEF InactivityEndsSession
    <2>1. ~Extending(s) BY DEF InGuard, Extending
    <2>2. InTime(s) BY DEF SessionInv
    <2> QED BY <2>1, <2>2 DEF InTime
  <1> QED BY <1>1, SessionInvariant, PTL

----------------------------------------------------------------------------
(* Rate limits.  The sliding key has a member for every request that passed *)
(* in the window and for every request still to remove its own.  What       *)
(* passed by the counter is what the running window let pass, within the    *)
(* count, and what is left of earlier windows, which is at least as old as  *)
(* the running one.  A request that Redis failed passes beside all this:    *)
(* the steps below are the module's, seen without such requests.            *)

Tallies == [Ages -> Nat]
CallCounted(all, failed) == [age \in Ages |-> all[age] - failed[age]]
CountedSlides == CallCounted(slides, slideErrors)
CountedPasses == CallCounted(passes, passErrors)

FailuresPass ==
    /\ {passes, slides, passErrors, slideErrors} \subseteq Tallies
    /\ \A age \in Ages : passErrors[age] <= passes[age] /\ slideErrors[age] <= slides[age]

PassesOnCount(count) == CountedPasses' = IF count <= Limit THEN OneMore(CountedPasses) ELSE CountedPasses
IncrementOnCount(c) ==
    /\ limitCall[c].at = "idle"
    /\ counter' = Incremented
    /\ \/ counter'.count = 1 /\ limitCall' = [limitCall EXCEPT ![c].at = "expire"] /\ UNCHANGED CountedPasses
       \/ counter'.count # 1 /\ PassesOnCount(counter'.count) /\ UNCHANGED limitCall
       \/ UNCHANGED <<CountedPasses, limitCall>>
    /\ UNCHANGED <<members, CountedSlides>>
SetExpiryOnCount(c) ==
    /\ limitCall[c].at = "expire"
    /\ counter' = [counter EXCEPT !.ttl = Span]
    /\ CountedPasses' \in {CountedPasses, OneMore(CountedPasses)}
    /\ LimitAnswer(c)
    /\ UNCHANGED <<members, CountedSlides>>
SlideOnCount(c) ==
    /\ limitCall[c].at = "idle"
    /\ members' = OneMore(members)
    /\ \/ limitCall' = [limitCall EXCEPT ![c] = [at |-> "undo", age |-> 0]] /\ UNCHANGED CountedSlides
       \/ Total(members') <= Limit /\ CountedSlides' = OneMore(CountedSlides) /\ UNCHANGED limitCall
       \/ UNCHANGED <<CountedSlides, limitCall>>
    /\ UNCHANGED <<counter, CountedPasses>>
UndoOnCount(c) ==
    /\ limitCall[c].at = "undo"
    /\ members' = Removed(c)
    /\ LimitAnswer(c)
    /\ UNCHANGED <<counter, CountedPasses, CountedSlides>>
EndsOnCount(c) == LimitAnswer(c) /\ UNCHANGED <<counter, members, CountedPasses, CountedSlides>>
TickOnCount ==
    /\ counter' = IF counter.ttl = 1 THEN [count |-> 0, ttl |-> 0]
                  ELSE [counter EXCEPT !.ttl = IF @ > 0 THEN @ - 1 ELSE 0]
    /\ members' = Older(members)
    /\ CountedPasses' = Older(CountedPasses)
    /\ CountedSlides' = Older(CountedSlides)
    /\ limitCall' = [c \in LimitCalls |-> IF limitCall[c].at # "undo" \/ limitCall[c].age = Span
                                          THEN limitCall[c] ELSE [limitCall[c] EXCEPT !.age = @ + 1]]

Undoing(age) == {c \in LimitCalls : limitCall[c].at = "undo" /\ limitCall[c].age = age}
Starting == \E c \in LimitCalls : limitCall[c].at = "expire"

LimitShape ==
    /\ counter \in [count : 0 .. Limit + 1, ttl : 0 .. Span]
    /\ members \in Tallies /\ CountedPasses \in Tallies /\ CountedSlides \in Tallies
    /\ limitCall \in [LimitCalls -> [at : {"idle", "expire", "undo"}, age : 0 .. Span]]

MembersCover ==
    /\ \A age \in Ages : CountedSlides[age] + Cardinality(Undoing(age)) <= members[age]
    /\ Total(CountedSlides) <= Limit

\* Only the request that made the count 1 sets the expiry.
OneStarts ==
    /\ \A c, d \in LimitCalls : limitCall[c].at = "expire" /\ limitCall[d].at = "expire" => c = d
    /\ Starting => counter.ttl = 0 /\ counter.count > 0
    /\ counter.ttl > 0 => counter.count > 0

Windows(running, earlier) ==
    /\ running \in Tallies /\ earlier \in Tallies
    /\ \A age \in Ages : CountedPasses[age] = running[age] + earlier[age]
    /\ Total(earlier) <= Limit
    /\ Total(running) <= counter.count /\ Total(running) <= Limit
    /\ Starting => Total(running) < counter.count /\ Total(running) < Limit
    /\ counter.ttl > 0 => \A age \in Ages : age < Span - counter.ttl => earlier[age] = 0

CountedInv ==
    /\ LimitShape
    /\ MembersCover
    /\ OneStarts
    /\ \E running, earlier \in Tallies : Windows(running, earlier)

----------------------------------------------------------------------------
LEMMA AgesFinite == IsFiniteSet(Ages) /\ 0 \in Ages /\ Ages \subseteq Int
<1>1. Span \in Int /\ Span > 0
    BY LimitsAssumption
<1>2. IsFiniteSet(0 .. Span - 1)
    BY <1>1, FS_Interval
<1> QED
    BY <1>1, <1>2 DEF Ages

LEMMA TotalIsNat == ASSUME NEW t \in Tallies PROVE Total(t) \in Nat
<1>1. \A a \in Ages : t[a] \in Int /\ t[a] >= 0
    BY DEF Tallies
<1>2. Total(t) \in Int
    BY <1>1, AgesFinite, SumIsInt, Zenon DEF Total
<1> DEFINE zero == [a \in Ages |-> 0]
<1>3. \A a \in Ages : zero[a] = 0 /\ zero[a] \in Int /\ t[a] \in Int /\ zero[a] <= t[a]
    BY <1>1
<1> HIDE DEF zero
<1>4. SumOver(zero, Ages) = 0
    BY <1>3, AgesFinite, SumOfZeros
<1>5. SumOver(zero, Ages) <= SumOver(t, Ages)
    BY <1>3, AgesFinite, SumAtMost
<1> QED
    BY <1>2, <1>4, <1>5 DEF Total

LEMMA TotalOfNobody == Nobody \in Tallies /\ Total(Nobody) = 0
<1>1. Nobody \in Tallies /\ \A a \in Ages : Nobody[a] = 0
    BY DEF Nobody, Tallies
<1> QED
    BY <1>1, AgesFinite, SumOfZeros DEF Total

LEMMA TotalAtMost ==
    ASSUME NEW t \in Tallies, NEW u \in Tallies, \A a \in Ages : t[a] <= u[a]
    PROVE  Total(t) <= Total(u)
<1>1. \A a \in Ages : t[a] \in Int /\ u[a] \in Int /\ t[a] <= u[a]
    BY DEF Tallies
<1> QED
    BY <1>1, AgesFinite, SumAtMost, Zenon DEF Total

LEMMA TotalOfOneMore ==
    ASSUME NEW t \in Tallies
    PROVE  /\ OneMore(t) \in Tallies
           /\ Total(OneMore(t)) = Total(t) + 1
<1> DEFINE u == OneMore(t)
<1>1. u \in Tallies /\ u[0] = t[0] + 1 /\ \A a \in Ages \ {0} : u[a] = t[a]
    BY AgesFinite DEF Tallies, OneMore
<1>2. \A a \in Ages : t[a] \in Int /\ u[a] \in Int
    BY <1>1 DEF Tallies
<1> HIDE DEF u
<1>3. Total(u) - Total(t) = u[0] - t[0]
    BY <1>1, <1>2, AgesFinite, SumChanges, Zenon DEF Total
<1>4. Total(u) \in Int /\ Total(t) \in Int /\ t[0] \in Int
    BY <1>1, <1>2, TotalIsNat, AgesFinite
<1>5. Total(u) = Total(t) + 1
    BY <1>1, <1>3, <1>4
<1> QED
    BY <1>1, <1>5 DEF u

LEMMA TotalOfBoth ==
    ASSUME NEW t \in Tallies, NEW u \in Tallies, NEW both \in Tallies,
           \A a \in Ages : both[a] = t[a] + u[a]
    PROVE  Total(both) = Total(t) + Total(u)
<1>1. \A a \in Ages : t[a] \in Int /\ u[a] \in Int /\ both[a] = t[a] + u[a]
    BY DEF Tallies
<1>2. IsFiniteSet(Ages)
    BY AgesFinite
<1>3. SumOver(both, Ages) = SumOver(t, Ages) + SumOver(u, Ages)
    BY <1>1, <1>2, SumPlus, SMTT(60)
<1> QED
    BY <1>3 DEF Total

LEMMA OlderAt ==
    ASSUME NEW t \in Tallies
    PROVE  /\ Older(t) \in Tallies /\ Older(t)[0] = 0
           /\ \A a \in Ages : a # 0 => a - 1 \in Ages /\ Older(t)[a] = t[a - 1]
<1>1. \A a \in Ages : a # 0 => a - 1 \in Ages
    BY LimitsAssumption DEF Ages
<1> QED
    BY <1>1, AgesFinite DEF Older, Tallies

LEMMA TotalOfOlder == ASSUME NEW t \in Tallies PROVE Total(Older(t)) <= Total(t)
<1> PICK m \in Nat : m = Span - 1
    BY LimitsAssumption
<1>1. Ages = 0 .. m
    BY DEF Ages
<1> DEFINE o == Older(t)
<1>2. /\ \A a \in 0 .. m : t[a] \in Nat
      /\ o[0] = 0 /\ \A a \in 1 .. m : o[a] = t[a - 1]
  <2>1. \A a \in 1 .. m : a \in Ages /\ a # 0
      BY <1>1
  <2> QED
      BY <1>1, <2>1, OlderAt DEF Tallies
<1> HIDE DEF o
<1>3. \A a \in 0 .. m : t[a] \in Int
    BY <1>2
<1>4. SumOver(o, 0 .. m) = SumOver(t, 0 .. (m - 1))
    BY <1>2, <1>3, SumOfShifted
<1>5. SumOver(t, 0 .. m) = t[m] + SumOver(t, 0 .. (m - 1))
    BY <1>3, SumToLast
<1>6. t[m] \in Nat /\ o \in Tallies
    BY <1>2, OlderAt DEF o
<1>7. SumOver(t, 0 .. m) \in Nat /\ SumOver(o, 0 .. m) \in Nat
    BY <1>1, <1>6, TotalIsNat DEF Total
<1> DEFINE all == SumOver(t, 0 .. m)
           aged == SumOver(o, 0 .. m)
<1>8. all = t[m] + aged /\ all \in Nat /\ aged \in Nat
    BY <1>4, <1>5, <1>7
<1> HIDE DEF all, aged
<1>9. aged <= all
    BY <1>6, <1>8
<1> QED
    BY <1>1, <1>9 DEF Total, o, all, aged

----------------------------------------------------------------------------
(* The sliding limit. *)

LEMMA UndoingFinite == ASSUME NEW a PROVE IsFiniteSet(Undoing(a)) /\ Cardinality(Undoing(a)) \in Nat
<1>1. Undoing(a) \subseteq LimitCalls
    BY DEF Undoing
<1> QED
    BY <1>1, LimitsAssumption, FS_Subset, FS_CardinalityType

LEMMA SlidesFewer ==
    ASSUME LimitShape, MembersCover PROVE Total(CountedSlides) <= Total(members)
<1> SUFFICES ASSUME NEW a \in Ages PROVE CountedSlides[a] <= members[a]
    BY TotalAtMost DEF LimitShape
<1> PICK k \in Nat : k = Cardinality(Undoing(a))
    BY UndoingFinite
<1>1. CountedSlides[a] + k <= members[a]
    BY DEF MembersCover
<1>2. CountedSlides[a] \in Nat /\ members[a] \in Nat
    BY DEF LimitShape, Tallies
<1> QED
    BY <1>1, <1>2

\* A call that is undoing nothing before and after leaves the sliding key alone.
LEMMA NothingUndone ==
    ASSUME LimitShape, MembersCover, UNCHANGED <<members, CountedSlides>>,
           NEW c \in LimitCalls, limitCall[c].at # "undo", limitCall'[c].at # "undo",
           \A d \in LimitCalls \ {c} : limitCall'[d] = limitCall[d]
    PROVE  MembersCover'
<1>1. \A a : Undoing(a)' = Undoing(a)
    BY DEF Undoing
<1> QED
    BY <1>1 DEF MembersCover, Total, Ages

LEMMA SlideCovers ==
    ASSUME LimitShape, MembersCover, NEW c \in LimitCalls, SlideOnCount(c)
    PROVE  MembersCover'
<1>1. /\ members \in Tallies /\ CountedSlides \in Tallies /\ members' = OneMore(members)
      /\ limitCall \in [LimitCalls -> [at : {"idle", "expire", "undo"}, age : 0 .. Span]]
    BY DEF LimitShape, SlideOnCount
<1>2. /\ members' \in Tallies /\ members'[0] = members[0] + 1
      /\ \A a \in Ages \ {0} : members'[a] = members[a]
    BY <1>1, AgesFinite DEF Tallies, OneMore
<1>3. CASE limitCall' = [limitCall EXCEPT ![c] = [at |-> "undo", age |-> 0]] /\ UNCHANGED CountedSlides
  <2>1. CountedSlides' = CountedSlides /\ limitCall' = [limitCall EXCEPT ![c] = [at |-> "undo", age |-> 0]]
      BY <1>3 DEF SlideOnCount
  <2>2. c \notin Undoing(0) /\ Undoing(0)' = Undoing(0) \cup {c}
      BY <1>1, <2>1 DEF Undoing, SlideOnCount
  <2>3. \A a \in Ages \ {0} : Undoing(a)' = Undoing(a)
      BY <1>1, <2>1 DEF Undoing, SlideOnCount
  <2>4. Cardinality(Undoing(0)') = Cardinality(Undoing(0)) + 1
      BY <2>2, UndoingFinite, FS_AddElement
  <2> SUFFICES ASSUME NEW a \in Ages PROVE CountedSlides[a] + Cardinality(Undoing(a)') <= members'[a]
      BY <2>1 DEF MembersCover, Total, Ages
  <2> PICK k \in Nat : k = Cardinality(Undoing(a))
      BY UndoingFinite
  <2>5. CountedSlides[a] + k <= members[a] /\ CountedSlides[a] \in Nat /\ members[a] \in Nat
      BY <1>1 DEF MembersCover, Tallies
  <2>6. CASE a = 0
      BY <1>2, <2>4, <2>5, <2>6
  <2>7. CASE a # 0
      BY <1>2, <2>3, <2>5, <2>7
  <2> QED
      BY <2>6, <2>7
<1>4. CASE Total(members') <= Limit /\ CountedSlides' = OneMore(CountedSlides) /\ UNCHANGED limitCall
  <2>1. CountedSlides' = OneMore(CountedSlides) /\ limitCall' = limitCall
      BY <1>4 DEF SlideOnCount
  <2>2. CountedSlides' \in Tallies /\ CountedSlides'[0] = CountedSlides[0] + 1 /\ \A a \in Ages \ {0} : CountedSlides'[a] = CountedSlides[a]
      BY <1>1, <2>1, AgesFinite DEF Tallies, OneMore
  <2>3. \A a \in Ages : CountedSlides'[a] + Cardinality(Undoing(a)) <= members'[a] /\ CountedSlides'[a] <= members'[a]
    <3> SUFFICES ASSUME NEW a \in Ages
                 PROVE  CountedSlides'[a] + Cardinality(Undoing(a)) <= members'[a] /\ CountedSlides'[a] <= members'[a]
        OBVIOUS
    <3> PICK k \in Nat : k = Cardinality(Undoing(a))
        BY UndoingFinite
    <3>1. CountedSlides[a] + k <= members[a] /\ CountedSlides[a] \in Nat /\ members[a] \in Nat
        BY <1>1 DEF MembersCover, Tallies
    <3>2. CASE a = 0
        BY <1>2, <2>2, <3>1, <3>2
    <3>3. CASE a # 0
        BY <1>2, <2>2, <3>1, <3>3
    <3> QED
        BY <3>2, <3>3
  <2>4. Total(CountedSlides') <= Total(members')
      BY <1>2, <2>2, <2>3, TotalAtMost
  <2>5. Total(CountedSlides') \in Nat /\ Total(members') \in Nat /\ Limit \in Nat
      BY <1>2, <2>2, TotalIsNat, LimitsAssumption
  <2>6. Total(CountedSlides') <= Limit
      BY <1>4, <2>4, <2>5
  <2> QED
      BY <2>1, <2>3, <2>6 DEF MembersCover, Undoing, Total, Ages
<1>5. CASE UNCHANGED <<CountedSlides, limitCall>>
  <2> SUFFICES ASSUME NEW a \in Ages PROVE CountedSlides[a] + Cardinality(Undoing(a)) <= members'[a]
      BY <1>5 DEF MembersCover, Undoing, Total, Ages
  <2> PICK k \in Nat : k = Cardinality(Undoing(a))
      BY UndoingFinite
  <2>1. CountedSlides[a] + k <= members[a] /\ CountedSlides[a] \in Nat /\ members[a] \in Nat
      BY <1>1 DEF MembersCover, Tallies
  <2>2. members'[a] >= members[a] /\ members'[a] \in Nat
    <3>1. CASE a = 0
        BY <1>2, <2>1, <3>1
    <3>2. CASE a # 0
        BY <1>2, <2>1, <3>2
    <3> QED
        BY <3>1, <3>2
  <2> QED
      BY <2>1, <2>2
<1> QED
    BY <1>3, <1>4, <1>5 DEF SlideOnCount

\* One request fewer is undoing.
LEMMA OneFewer ==
    ASSUME LimitShape, NEW c \in LimitCalls, limitCall[c].at = "undo", limitCall'[c].at # "undo",
           \A d \in LimitCalls \ {c} : limitCall'[d] = limitCall[d], NEW a
    PROVE  IF limitCall[c].age = a
           THEN Cardinality(Undoing(a)') = Cardinality(Undoing(a)) - 1 /\ Cardinality(Undoing(a)) > 0
           ELSE Undoing(a)' = Undoing(a)
<1>1. CASE limitCall[c].age = a
  <2>1. c \in Undoing(a) /\ Undoing(a)' = Undoing(a) \ {c}
      BY <1>1 DEF Undoing
  <2>2. Cardinality(Undoing(a)) # 0
      BY <2>1, UndoingFinite, FS_EmptySet
  <2>3. Cardinality(Undoing(a) \ {c}) = Cardinality(Undoing(a)) - 1
      BY <2>1, UndoingFinite, FS_RemoveElement
  <2>4. Cardinality(Undoing(a)) \in Nat
      BY UndoingFinite
  <2>5. Cardinality(Undoing(a)') = Cardinality(Undoing(a)) - 1
      BY <2>1, <2>3
  <2>6. Cardinality(Undoing(a)) > 0
      BY <2>2, <2>4
  <2> QED
      BY <1>1, <2>5, <2>6
<1>2. CASE limitCall[c].age # a
    BY <1>2 DEF Undoing
<1> QED
    BY <1>1, <1>2

LEMMA UndoCovers ==
    ASSUME LimitShape, MembersCover, NEW c \in LimitCalls, limitCall[c].at = "undo",
           LimitAnswer(c), CountedSlides' = CountedSlides,
           \/ members' = members
           \/ /\ limitCall[c].age # Span
              /\ members' = [members EXCEPT ![limitCall[c].age] = @ - 1]
    PROVE  MembersCover' /\ members' \in Tallies
<1>1. /\ members \in Tallies /\ CountedSlides \in Tallies /\ limitCall[c].age \in 0 .. Span
      /\ limitCall \in [LimitCalls -> [at : {"idle", "expire", "undo"}, age : 0 .. Span]]
    BY DEF LimitShape
<1>2. limitCall'[c].at # "undo" /\ \A d \in LimitCalls \ {c} : limitCall'[d] = limitCall[d]
    BY <1>1 DEF LimitAnswer, IdleLimit
<1>3. \A a \in Ages : /\ CountedSlides[a] + Cardinality(Undoing(a)') <= members'[a]
                      /\ members'[a] \in Nat
  <2> SUFFICES ASSUME NEW a \in Ages
               PROVE  CountedSlides[a] + Cardinality(Undoing(a)') <= members'[a] /\ members'[a] \in Nat
      OBVIOUS
  <2> PICK k \in Nat : k = Cardinality(Undoing(a))
      BY UndoingFinite
  <2>1. CountedSlides[a] + k <= members[a] /\ CountedSlides[a] \in Nat /\ members[a] \in Nat
      BY <1>1 DEF MembersCover, Tallies
  <2>2. CASE limitCall[c].age = a
    <3>1. Cardinality(Undoing(a)') = k - 1 /\ k > 0
        BY <1>2, <2>2, OneFewer
    <3>2. members'[a] = members[a] \/ members'[a] = members[a] - 1
        BY <1>1, <2>2 DEF Tallies
    <3> QED
        BY <2>1, <3>1, <3>2
  <2>3. CASE limitCall[c].age # a
    <3>1. Undoing(a)' = Undoing(a)
        BY <1>2, <2>3, OneFewer
    <3>2. members'[a] = members[a]
        BY <1>1, <2>3 DEF Tallies
    <3> QED
        BY <2>1, <3>1, <3>2
  <2> QED
      BY <2>2, <2>3
<1>4. members' \in Tallies
    BY <1>1, <1>3 DEF Tallies
<1> QED
    BY <1>3, <1>4 DEF MembersCover, Total, Ages

LEMMA TickCovers ==
    ASSUME LimitShape, MembersCover, TickOnCount PROVE MembersCover'
<1>1. /\ members \in Tallies /\ CountedSlides \in Tallies
      /\ members' = Older(members) /\ CountedSlides' = Older(CountedSlides)
      /\ limitCall \in [LimitCalls -> [at : {"idle", "expire", "undo"}, age : 0 .. Span]]
    BY DEF LimitShape, TickOnCount
<1>2. \A d \in LimitCalls :
          limitCall'[d] = IF limitCall[d].at # "undo" \/ limitCall[d].age = Span
                          THEN limitCall[d] ELSE [limitCall[d] EXCEPT !.age = @ + 1]
    BY DEF TickOnCount
<1>3. \A a \in Ages : a # 0 => a - 1 \in Ages /\ Undoing(a)' = Undoing(a - 1)
  <2> SUFFICES ASSUME NEW a \in Ages, a # 0
               PROVE  a - 1 \in Ages /\ Undoing(a)' = Undoing(a - 1)
      OBVIOUS
  <2>1. a - 1 \in Ages /\ a < Span /\ a \in Int /\ Span \in Int
      BY LimitsAssumption DEF Ages
  <2>2. ASSUME NEW d \in LimitCalls
        PROVE  limitCall'[d].at = "undo" /\ limitCall'[d].age = a
               <=> limitCall[d].at = "undo" /\ limitCall[d].age = a - 1
    <3>1. limitCall[d] \in [at : {"idle", "expire", "undo"}, age : 0 .. Span]
        BY <1>1
    <3>2. limitCall'[d].at = limitCall[d].at
        BY <1>2, <3>1
    <3>3. limitCall[d].at = "undo" =>
              limitCall'[d].age = IF limitCall[d].age = Span THEN Span ELSE limitCall[d].age + 1
        BY <1>2, <3>1
    <3>4. limitCall[d].age \in 0 .. Span
        BY <3>1
    <3> QED
        BY <2>1, <3>2, <3>3, <3>4
  <2> QED
      BY <2>1, <2>2 DEF Undoing
<1>4. Undoing(0)' = {}
  <2> SUFFICES ASSUME NEW d \in LimitCalls, d \in Undoing(0)' PROVE FALSE
      BY DEF Undoing
  <2>2. limitCall[d] \in [at : {"idle", "expire", "undo"}, age : 0 .. Span]
      BY <1>1
  <2>3. limitCall'[d].at = "undo" /\ limitCall'[d].age = 0
      BY DEF Undoing
  <2>4. CASE limitCall[d].at # "undo" \/ limitCall[d].age = Span
      BY <1>2, <2>3, <2>4, LimitsAssumption
  <2>5. CASE ~(limitCall[d].at # "undo" \/ limitCall[d].age = Span)
    <3>1. limitCall'[d].age = limitCall[d].age + 1
        BY <1>2, <2>2, <2>5
    <3>2. limitCall[d].age \in 0 .. Span
        BY <2>2
    <3> QED
        BY <2>3, <3>1, <3>2, LimitsAssumption
  <2> QED
      BY <2>4, <2>5
<1>5. \A a \in Ages : CountedSlides'[a] + Cardinality(Undoing(a)') <= members'[a]
  <2> SUFFICES ASSUME NEW a \in Ages PROVE CountedSlides'[a] + Cardinality(Undoing(a)') <= members'[a]
      OBVIOUS
  <2>1. CASE a = 0
    <3>1. CountedSlides'[0] = 0 /\ members'[0] = 0
        BY <1>1, OlderAt
    <3>2. Cardinality(Undoing(0)') = 0
        BY <1>4, FS_EmptySet
    <3> QED
        BY <2>1, <3>1, <3>2
  <2>2. CASE a # 0
    <3>1. a - 1 \in Ages /\ CountedSlides'[a] = CountedSlides[a - 1] /\ members'[a] = members[a - 1]
        BY <1>1, <2>2, OlderAt
    <3> QED
        BY <1>3, <2>2, <3>1 DEF MembersCover
  <2> QED
      BY <2>1, <2>2
<1>6. Total(CountedSlides') <= Limit
  <2>1. Total(CountedSlides') <= Total(CountedSlides) /\ Total(CountedSlides) <= Limit
      BY <1>1, TotalOfOlder DEF MembersCover
  <2>2. Total(CountedSlides') \in Nat /\ Total(CountedSlides) \in Nat /\ Limit \in Nat
      BY <1>1, OlderAt, TotalIsNat, LimitsAssumption
  <2> QED
      BY <2>1, <2>2
<1> QED
    BY <1>5, <1>6 DEF MembersCover, Total, Ages

----------------------------------------------------------------------------
(* The counter. *)

\* A step that leaves the counter and what passed alone, and starts no request.
LEMMA NothingCounted ==
    ASSUME CountedInv, UNCHANGED <<counter, CountedPasses>>, NEW c \in LimitCalls, limitCall'[c].at # "expire",
           \A d \in LimitCalls \ {c} : limitCall'[d] = limitCall[d]
    PROVE  OneStarts' /\ \E running, earlier \in Tallies' : Windows(running, earlier)'
<1>1. \A d \in LimitCalls : limitCall'[d].at = "expire" => limitCall[d].at = "expire"
    OBVIOUS
<1>2. Starting' => Starting
    BY <1>1 DEF Starting
<1>3. OneStarts'
    BY <1>1, <1>2 DEF CountedInv, OneStarts
<1> PICK running \in Tallies, earlier \in Tallies : Windows(running, earlier)
    BY DEF CountedInv
<1>4. Windows(running, earlier)'
    BY <1>2 DEF Windows, Tallies, Ages, Total
<1> QED
    BY <1>3, <1>4 DEF Tallies, Ages

\* One more request CountedPasses in the running window.
LEMMA OneMorePasses ==
    ASSUME LimitShape, NEW running \in Tallies, NEW earlier \in Tallies, Windows(running, earlier),
           CountedPasses' = OneMore(CountedPasses),
           Total(running) < counter'.count, Total(running) < Limit, counter'.count \in Nat,
           Starting' => Total(running) + 1 < counter'.count /\ Total(running) + 1 < Limit,
           counter'.ttl > 0 => \A age \in Ages : age < Span - counter'.ttl => earlier[age] = 0
    PROVE  \E r, e \in Tallies' : Windows(r, e)'
<1> DEFINE r == OneMore(running)
<1>1. r \in Tallies /\ Total(r) = Total(running) + 1
    BY TotalOfOneMore
<1>2. \A age \in Ages : CountedPasses'[age] = r[age] + earlier[age]
  <2> SUFFICES ASSUME NEW age \in Ages PROVE CountedPasses'[age] = r[age] + earlier[age]
      OBVIOUS
  <2>1. CountedPasses[age] = running[age] + earlier[age]
      BY DEF Windows
  <2>2. running[age] \in Nat /\ earlier[age] \in Nat
      BY DEF Tallies
  <2>3. running \in Tallies /\ CountedPasses \in Tallies
      BY DEF LimitShape
  <2>4. CASE age = 0
    <3>1. CountedPasses'[0] = CountedPasses[0] + 1 /\ r[0] = running[0] + 1
        BY <2>3, AgesFinite DEF Tallies, OneMore
    <3> QED
        BY <2>1, <2>2, <2>4, <3>1
  <2>5. CASE age # 0
    <3>1. CountedPasses'[age] = CountedPasses[age] /\ r[age] = running[age]
        BY <2>3, <2>5 DEF Tallies, OneMore
    <3> QED
        BY <2>1, <3>1
  <2> QED
      BY <2>4, <2>5
<1> HIDE DEF r
<1>3. Total(running) \in Nat /\ Limit \in Nat /\ Total(earlier) <= Limit
    BY TotalIsNat, LimitsAssumption DEF Windows
<1>4. Total(r) <= counter'.count /\ Total(r) <= Limit
    BY <1>1, <1>3
<1>5. Windows(r, earlier)'
    BY <1>1, <1>2, <1>3, <1>4 DEF Windows, Tallies, Ages, Total
<1> QED
    BY <1>1, <1>5 DEF Tallies, Ages

LEMMA IncrementCounts ==
    ASSUME CountedInv, NEW c \in LimitCalls, IncrementOnCount(c)
    PROVE  CountedInv'
<1>1. /\ limitCall \in [LimitCalls -> [at : {"idle", "expire", "undo"}, age : 0 .. Span]]
      /\ counter \in [count : 0 .. Limit + 1, ttl : 0 .. Span]
      /\ CountedPasses \in Tallies /\ members \in Tallies /\ CountedSlides \in Tallies /\ Limit \in Nat /\ Limit > 0
    BY LimitsAssumption DEF CountedInv, LimitShape
<1>2. /\ limitCall[c].at = "idle" /\ UNCHANGED <<members, CountedSlides>>
      /\ counter'.ttl = counter.ttl
      /\ counter'.count = IF counter.count > Limit THEN counter.count ELSE counter.count + 1
      /\ counter' \in [count : 0 .. Limit + 1, ttl : 0 .. Span]
  <2>1. /\ limitCall[c].at = "idle" /\ UNCHANGED <<members, CountedSlides>>
        /\ counter' = [counter EXCEPT !.count = IF @ > Limit THEN @ ELSE @ + 1]
      BY Zenon DEF IncrementOnCount, Incremented
  <2>2. counter.count \in 0 .. Limit + 1 /\ counter.ttl \in 0 .. Span
      BY <1>1
  <2>3. counter' = [counter EXCEPT !.count = IF counter.count > Limit THEN counter.count
                                             ELSE counter.count + 1]
      BY <2>1
  <2> QED
      BY <1>1, <2>1, <2>2, <2>3
<1> PICK running \in Tallies, earlier \in Tallies : Windows(running, earlier)
    BY DEF CountedInv
<1>3. Total(running) \in Nat /\ counter.count \in Nat /\ counter.ttl \in Nat
    BY <1>1, TotalIsNat
<1>4. CASE counter'.count = 1 /\ limitCall' = [limitCall EXCEPT ![c].at = "expire"] /\ UNCHANGED CountedPasses
  <2>1. limitCall' = [limitCall EXCEPT ![c].at = "expire"] /\ CountedPasses' = CountedPasses
      BY <1>4
  <2>2. counter.count = 0 /\ counter.ttl = 0
      BY <1>1, <1>2, <1>3, <1>4 DEF CountedInv, OneStarts
  <2>3. \A d \in LimitCalls : limitCall[d].at # "expire"
      BY <1>3, <2>2 DEF CountedInv, OneStarts, Starting
  <2>4. LimitShape'
      BY <1>1, <1>2, <2>1 DEF LimitShape, Tallies, Ages
  <2>5. limitCall'[c].at = "expire" /\ \A d \in LimitCalls \ {c} : limitCall'[d] = limitCall[d]
      BY <1>1, <2>1
  <2>6. MembersCover'
      BY <1>2, <2>5, NothingUndone DEF CountedInv
  <2>7. OneStarts'
      BY <1>2, <1>4, <2>2, <2>3, <2>5 DEF OneStarts
  <2>8. Total(running) = 0 /\ Total(earlier) <= Limit
      BY <1>3, <2>2 DEF Windows
  <2>9. Windows(running, earlier)'
      BY <1>1, <1>2, <1>4, <2>1, <2>2, <2>8 DEF Windows, Tallies, Ages, Total
  <2> QED
      BY <2>4, <2>6, <2>7, <2>9 DEF CountedInv, Tallies, Ages
<1>5. CASE \/ counter'.count # 1 /\ PassesOnCount(counter'.count) /\ UNCHANGED limitCall
           \/ UNCHANGED <<CountedPasses, limitCall>>
  <2>1. limitCall' = limitCall
      BY <1>5
  <2>2. \A a : Undoing(a)' = Undoing(a)
      BY <2>1 DEF Undoing
  <2>3. MembersCover'
      BY <1>2, <2>2 DEF CountedInv, MembersCover, Total, Ages
  <2>4. Starting' <=> Starting
      BY <2>1 DEF Starting
  <2>5. counter'.count > 0 /\ counter'.count >= counter.count /\ counter'.count \in Nat
      BY <1>1, <1>2, <1>3
  <2>6. OneStarts'
      BY <1>2, <1>3, <2>1, <2>4, <2>5 DEF CountedInv, OneStarts
  <2>7. CountedPasses' \in Tallies
      BY <1>1, <1>5, TotalOfOneMore DEF PassesOnCount
  <2>8. LimitShape'
      BY <1>1, <1>2, <2>1, <2>7 DEF LimitShape, Tallies, Ages
  <2>9. \E r, e \in Tallies' : Windows(r, e)'
    <3>1. CASE counter'.count > Limit \/ UNCHANGED CountedPasses
      <4>1. CountedPasses' = CountedPasses
          BY <1>1, <1>2, <1>5, <3>1 DEF PassesOnCount
      <4>2. counter'.count \in Nat
          BY <1>2
      <4>3. Windows(running, earlier)'
          BY <1>2, <1>3, <2>4, <2>5, <4>1, <4>2 DEF Windows, Tallies, Ages, Total
      <4> QED
          BY <4>3 DEF Tallies, Ages
    <3>2. CASE ~(counter'.count > Limit \/ UNCHANGED CountedPasses)
      <4>1. CountedPasses' = OneMore(CountedPasses)
          BY <1>1, <1>2, <1>5, <3>2 DEF PassesOnCount
      <4>2. counter'.count = counter.count + 1 /\ counter.count < Limit
          BY <1>1, <1>2, <1>3, <3>2
      <4>3. Total(running) <= counter.count /\ (Starting => Total(running) < counter.count)
          BY DEF Windows
      <4>4. /\ Total(running) < counter'.count /\ Total(running) < Limit /\ counter'.count \in Nat
            /\ Starting' => Total(running) + 1 < counter'.count /\ Total(running) + 1 < Limit
          BY <1>1, <1>3, <2>4, <4>2, <4>3
      <4>5. counter'.ttl > 0 => \A age \in Ages : age < Span - counter'.ttl => earlier[age] = 0
          BY <1>2 DEF Windows
      <4> QED
          BY <4>1, <4>4, <4>5, OneMorePasses DEF CountedInv
    <3> QED
        BY <3>1, <3>2
  <2> QED
      BY <2>3, <2>6, <2>8, <2>9 DEF CountedInv
<1> QED
    BY <1>4, <1>5 DEF IncrementOnCount

LEMMA SetExpiryCounts ==
    ASSUME CountedInv, NEW c \in LimitCalls, SetExpiryOnCount(c)
    PROVE  CountedInv'
<1>1. /\ limitCall \in [LimitCalls -> [at : {"idle", "expire", "undo"}, age : 0 .. Span]]
      /\ counter \in [count : 0 .. Limit + 1, ttl : 0 .. Span]
      /\ CountedPasses \in Tallies /\ members \in Tallies /\ CountedSlides \in Tallies
      /\ Limit \in Nat /\ Limit > 0 /\ Span \in Nat
    BY LimitsAssumption DEF CountedInv, LimitShape
<1>2. /\ limitCall[c].at = "expire" /\ UNCHANGED <<members, CountedSlides>>
      /\ counter' = [counter EXCEPT !.ttl = Span]
      /\ CountedPasses' \in {CountedPasses, OneMore(CountedPasses)}
      /\ limitCall' = [limitCall EXCEPT ![c] = IdleLimit]
    BY <1>1 DEF SetExpiryOnCount, LimitAnswer
<1>3. /\ counter'.ttl = Span /\ counter'.count = counter.count
      /\ counter' \in [count : 0 .. Limit + 1, ttl : 0 .. Span]
    BY <1>1, <1>2
<1>4. /\ limitCall'[c] = IdleLimit /\ limitCall'[c].at = "idle"
      /\ \A d \in LimitCalls \ {c} : limitCall'[d] = limitCall[d]
    BY <1>1, <1>2 DEF IdleLimit
<1> PICK running \in Tallies, earlier \in Tallies : Windows(running, earlier)
    BY DEF CountedInv
<1>5. Total(running) < counter.count /\ Total(running) < Limit /\ counter.count > 0
    BY <1>2 DEF CountedInv, Windows, OneStarts, Starting
<1>6. \A d \in LimitCalls : limitCall'[d].at # "expire"
    BY <1>2, <1>4 DEF CountedInv, OneStarts
<1>7. CountedPasses' \in Tallies
    BY <1>1, <1>2, TotalOfOneMore
<1>8. limitCall' \in [LimitCalls -> [at : {"idle", "expire", "undo"}, age : 0 .. Span]]
    BY <1>1, <1>2 DEF IdleLimit
<1>9. LimitShape'
    BY <1>1, <1>2, <1>3, <1>7, <1>8 DEF LimitShape, Tallies, Ages
<1>10. MembersCover'
    BY <1>2, <1>4, NothingUndone DEF CountedInv
<1>11. OneStarts'
    BY <1>3, <1>5, <1>6 DEF OneStarts, Starting
<1>12. \A age \in Ages : ~(age < Span - counter'.ttl)
    BY <1>1, <1>3 DEF Ages
<1>13. \E r, e \in Tallies' : Windows(r, e)'
  <2>1. CASE CountedPasses' = CountedPasses
    <3>1. counter'.count = counter.count /\ ~Starting'
        BY <1>3, <1>6 DEF Starting
    <3>2. Windows(running, earlier)'
        BY <1>12, <2>1, <3>1 DEF Windows, Tallies, Ages, Total
    <3> QED
        BY <3>2 DEF Tallies, Ages
  <2>2. CASE CountedPasses' = OneMore(CountedPasses)
      BY <1>1, <1>3, <1>5, <1>6, <1>12, <2>2, OneMorePasses DEF CountedInv, Starting
  <2> QED
      BY <1>2, <2>1, <2>2
<1> QED
    BY <1>9, <1>10, <1>11, <1>13 DEF CountedInv

LEMMA LimitCallEndsKeeps ==
    ASSUME CountedInv, NEW c \in LimitCalls, EndsOnCount(c)
    PROVE  CountedInv'
<1>1. /\ limitCall \in [LimitCalls -> [at : {"idle", "expire", "undo"}, age : 0 .. Span]]
      /\ UNCHANGED <<counter, members, CountedPasses, CountedSlides>>
      /\ limitCall' = [limitCall EXCEPT ![c] = IdleLimit]
    BY DEF CountedInv, LimitShape, EndsOnCount, LimitAnswer
<1>2. LimitAnswer(c) /\ members' = members /\ CountedSlides' = CountedSlides /\ UNCHANGED <<members, CountedSlides>>
      /\ UNCHANGED <<counter, CountedPasses>> /\ LimitShape /\ MembersCover
    BY DEF EndsOnCount, CountedInv
<1>3. /\ limitCall'[c].at # "undo" /\ limitCall'[c].at # "expire"
      /\ \A d \in LimitCalls \ {c} : limitCall'[d] = limitCall[d]
      /\ limitCall' \in [LimitCalls -> [at : {"idle", "expire", "undo"}, age : 0 .. Span]]
    BY <1>1, LimitsAssumption DEF IdleLimit
<1>4. LimitShape'
    BY <1>1, <1>3 DEF CountedInv, LimitShape, Tallies, Ages
<1>5. OneStarts' /\ \E running, earlier \in Tallies' : Windows(running, earlier)'
    BY <1>2, <1>3, NothingCounted, Zenon
<1>6. MembersCover'
  <2>1. CASE limitCall[c].at = "undo"
      BY <1>2, <2>1, UndoCovers
  <2>2. CASE limitCall[c].at # "undo"
      BY <1>2, <1>3, <2>2, NothingUndone
  <2> QED
      BY <2>1, <2>2
<1> QED
    BY <1>4, <1>5, <1>6 DEF CountedInv

LEMMA UndoKeeps ==
    ASSUME CountedInv, NEW c \in LimitCalls, UndoOnCount(c)
    PROVE  CountedInv'
<1>1. /\ limitCall \in [LimitCalls -> [at : {"idle", "expire", "undo"}, age : 0 .. Span]]
      /\ UNCHANGED <<counter, CountedPasses, CountedSlides>> /\ limitCall[c].at = "undo" /\ LimitAnswer(c)
      /\ limitCall' = [limitCall EXCEPT ![c] = IdleLimit]
      /\ \/ members' = members
         \/ /\ limitCall[c].age # Span
            /\ members' = [members EXCEPT ![limitCall[c].age] = @ - 1]
    BY DEF CountedInv, LimitShape, UndoOnCount, LimitAnswer, Removed
<1>2. /\ limitCall'[c].at = "idle" /\ \A d \in LimitCalls \ {c} : limitCall'[d] = limitCall[d]
      /\ limitCall' \in [LimitCalls -> [at : {"idle", "expire", "undo"}, age : 0 .. Span]]
    BY <1>1, LimitsAssumption DEF IdleLimit
<1>3. MembersCover' /\ members' \in Tallies
    BY <1>1, UndoCovers DEF CountedInv
<1>4. LimitShape'
    BY <1>1, <1>2, <1>3 DEF CountedInv, LimitShape, Tallies, Ages
<1>5. OneStarts' /\ \E running, earlier \in Tallies' : Windows(running, earlier)'
    BY <1>1, <1>2, NothingCounted
<1> QED
    BY <1>3, <1>4, <1>5 DEF CountedInv

LEMMA SlideKeeps ==
    ASSUME CountedInv, NEW c \in LimitCalls, SlideOnCount(c)
    PROVE  CountedInv'
<1>1. /\ limitCall \in [LimitCalls -> [at : {"idle", "expire", "undo"}, age : 0 .. Span]]
      /\ members \in Tallies /\ CountedSlides \in Tallies
    BY DEF CountedInv, LimitShape
<1>2. /\ UNCHANGED <<counter, CountedPasses>>
      /\ members' = OneMore(members)
      /\ limitCall' = limitCall \/ limitCall' = [limitCall EXCEPT ![c] = [at |-> "undo", age |-> 0]]
      /\ CountedSlides' = CountedSlides \/ CountedSlides' = OneMore(CountedSlides)
      /\ limitCall[c].at = "idle"
    BY DEF SlideOnCount
<1>3. members' \in Tallies /\ CountedSlides' \in Tallies
    BY <1>1, <1>2, TotalOfOneMore
<1>4. /\ limitCall'[c].at # "expire" /\ \A d \in LimitCalls \ {c} : limitCall'[d] = limitCall[d]
      /\ limitCall' \in [LimitCalls -> [at : {"idle", "expire", "undo"}, age : 0 .. Span]]
    BY <1>1, <1>2, LimitsAssumption
<1>5. LimitShape'
    BY <1>2, <1>3, <1>4 DEF CountedInv, LimitShape, Tallies, Ages
<1>6. MembersCover'
    BY SlideCovers DEF CountedInv
<1>7. OneStarts' /\ \E running, earlier \in Tallies' : Windows(running, earlier)'
    BY <1>2, <1>4, NothingCounted
<1> QED
    BY <1>5, <1>6, <1>7 DEF CountedInv

LEMMA TickKeeps ==
    ASSUME CountedInv, TickOnCount
    PROVE  CountedInv'
<1>1. /\ limitCall \in [LimitCalls -> [at : {"idle", "expire", "undo"}, age : 0 .. Span]]
      /\ counter \in [count : 0 .. Limit + 1, ttl : 0 .. Span]
      /\ members \in Tallies /\ CountedSlides \in Tallies /\ CountedPasses \in Tallies
      /\ Limit \in Nat /\ Span \in Nat /\ Span > 0
    BY LimitsAssumption DEF CountedInv, LimitShape
<1>2. /\ members' = Older(members) /\ CountedSlides' = Older(CountedSlides) /\ CountedPasses' = Older(CountedPasses)
      /\ members' \in Tallies /\ CountedSlides' \in Tallies /\ CountedPasses' \in Tallies
    BY <1>1, OlderAt DEF TickOnCount
<1>3. \A d \in LimitCalls : /\ limitCall'[d] \in [at : {"idle", "expire", "undo"}, age : 0 .. Span]
                            /\ limitCall'[d].at = limitCall[d].at
  <2> SUFFICES ASSUME NEW d \in LimitCalls
               PROVE  /\ limitCall'[d] \in [at : {"idle", "expire", "undo"}, age : 0 .. Span]
                      /\ limitCall'[d].at = limitCall[d].at
      OBVIOUS
  <2>1. limitCall'[d] = IF limitCall[d].at # "undo" \/ limitCall[d].age = Span
                        THEN limitCall[d] ELSE [limitCall[d] EXCEPT !.age = @ + 1]
      BY DEF TickOnCount
  <2>2. limitCall[d] \in [at : {"idle", "expire", "undo"}, age : 0 .. Span]
      BY <1>1
  <2> QED
      BY <1>1, <2>1, <2>2
<1>4. limitCall' \in [LimitCalls -> [at : {"idle", "expire", "undo"}, age : 0 .. Span]]
  <2>1. \E F : limitCall' = [d \in LimitCalls |-> F[d]]
    <3>1. limitCall' = [d \in LimitCalls |-> limitCall'[d]]
        BY Zenon DEF TickOnCount
    <3> QED
        BY <3>1
  <2> QED
      BY <1>3, <2>1
<1>5. Starting' <=> Starting
    BY <1>3 DEF Starting
<1>6. /\ counter.ttl = 1 => counter'.count = 0 /\ counter'.ttl = 0
      /\ counter.ttl # 1 => /\ counter'.count = counter.count
                            /\ counter'.ttl = IF counter.ttl > 0 THEN counter.ttl - 1 ELSE 0
      /\ counter' \in [count : 0 .. Limit + 1, ttl : 0 .. Span]
  <2>1. counter.ttl \in 0 .. Span /\ counter.count \in 0 .. Limit + 1
      BY <1>1
  <2>2. counter' = IF counter.ttl = 1 THEN [count |-> 0, ttl |-> 0]
                   ELSE [counter EXCEPT !.ttl = IF counter.ttl > 0 THEN counter.ttl - 1 ELSE 0]
      BY DEF TickOnCount
  <2> QED
      BY <1>1, <2>1, <2>2
<1>7. LimitShape'
    BY <1>2, <1>4, <1>6 DEF LimitShape, Tallies, Ages
<1>8. MembersCover'
    BY TickCovers DEF CountedInv
<1>9. counter.ttl \in Nat /\ counter.count \in Nat
    BY <1>1
<1>10. OneStarts'
    BY <1>3, <1>5, <1>6, <1>9 DEF CountedInv, OneStarts
<1>11. \E r, e \in Tallies' : Windows(r, e)'
  <2> PICK running \in Tallies, earlier \in Tallies : Windows(running, earlier)
      BY DEF CountedInv
  <2> DEFINE r == Older(running)
             e == Older(earlier)
  <2>1. /\ r \in Tallies /\ e \in Tallies /\ r[0] = 0 /\ e[0] = 0
        /\ \A a \in Ages : a # 0 => /\ a - 1 \in Ages /\ r[a] = running[a - 1] /\ e[a] = earlier[a - 1]
                                    /\ CountedPasses'[a] = CountedPasses[a - 1]
        /\ CountedPasses'[0] = 0
      BY <1>1, <1>2, OlderAt
  <2>2. /\ Total(r) <= Total(running) /\ Total(e) <= Total(earlier)
        /\ Total(r) \in Nat /\ Total(running) \in Nat /\ Total(e) \in Nat /\ Total(earlier) \in Nat
      BY <2>1, TotalOfOlder, TotalIsNat
  <2> HIDE DEF r, e
  <2>3. \A a \in Ages : CountedPasses'[a] = r[a] + e[a]
    <3> SUFFICES ASSUME NEW a \in Ages PROVE CountedPasses'[a] = r[a] + e[a]
        OBVIOUS
    <3>1. CASE a = 0
        BY <2>1, <3>1
    <3>2. CASE a # 0
        BY <2>1, <3>2 DEF Windows
    <3> QED
        BY <3>1, <3>2
  <2>4. CASE counter.ttl = 1
    <3>1. ~Starting'
        BY <1>5, <2>4 DEF CountedInv, OneStarts
    <3>2. \A a \in Ages : e[a] = 0
      <4> SUFFICES ASSUME NEW a \in Ages, a # 0 PROVE e[a] = 0
          BY <2>1
      <4>1. a - 1 \in Ages /\ a - 1 < Span - 1
          BY <1>1, <2>1 DEF Ages
      <4>2. earlier[a - 1] = 0
          BY <2>4, <4>1 DEF Windows
      <4> QED
          BY <2>1, <4>2
    <3>3. \A a \in Ages : CountedPasses'[a] = Nobody[a] + r[a]
      <4>1. \A a \in Ages : r[a] \in Nat
          BY <2>1 DEF Tallies
      <4> QED
          BY <2>3, <3>2, <4>1 DEF Nobody
    <3>4. Total(r) <= Limit
        BY <1>1, <2>2 DEF Windows
    <3>5. counter'.count = 0 /\ counter'.ttl = 0
        BY <1>6, <2>4
    <3>6. Windows(Nobody, r)'
      <4>1. /\ (Nobody \in Tallies)' /\ (r \in Tallies)' /\ Total(Nobody)' = 0 /\ Total(r)' = Total(r)
            /\ Nobody' = Nobody
          BY <2>1, TotalOfNobody DEF Tallies, Ages, Total, Nobody
      <4>2. \A a \in Ages' : CountedPasses'[a] = Nobody'[a] + r'[a]
          BY <3>3, <4>1 DEF Ages, r
      <4> QED
          BY <1>1, <3>1, <3>4, <3>5, <4>1, <4>2 DEF Windows
    <3> QED
        BY <2>1, <3>6, TotalOfNobody DEF Tallies, Ages
  <2>5. CASE counter.ttl # 1
    <3>1. /\ counter'.count = counter.count
          /\ counter'.ttl = IF counter.ttl > 0 THEN counter.ttl - 1 ELSE 0
        BY <1>6, <2>5
    <3>2. ASSUME counter'.ttl > 0, NEW a \in Ages, a < Span - counter'.ttl
          PROVE  e[a] = 0
      <4>1. CASE a = 0
          BY <2>1, <4>1
      <4>2. CASE a # 0
        <5>1. counter.ttl > 0 /\ counter'.ttl = counter.ttl - 1
            BY <1>9, <3>1, <3>2
        <5>2. a - 1 \in Ages /\ a - 1 < Span - counter.ttl
            BY <1>1, <1>9, <2>1, <3>2, <4>2, <5>1 DEF Ages
        <5>3. earlier[a - 1] = 0
            BY <5>1, <5>2 DEF Windows
        <5> QED
            BY <2>1, <4>2, <5>3
      <4> QED
          BY <4>1, <4>2
    <3>3. /\ Total(e) <= Limit /\ Total(r) <= counter'.count /\ Total(r) <= Limit
          /\ Starting' => Total(r) < counter'.count /\ Total(r) < Limit
        BY <1>1, <1>5, <1>9, <2>2, <3>1 DEF Windows
    <3>4. Windows(r, e)'
        BY <2>1, <2>3, <3>2, <3>3 DEF Windows, Tallies, Ages, Total
    <3> QED
        BY <2>1, <3>4 DEF Tallies, Ages
  <2> QED
      BY <2>4, <2>5
<1> QED
    BY <1>7, <1>8, <1>10, <1>11 DEF CountedInv

----------------------------------------------------------------------------
\* Nothing that is counted changes.
LEMMA NoCountKeeps ==
    ASSUME CountedInv, UNCHANGED <<counter, members, limitCall, CountedPasses, CountedSlides>>
    PROVE  CountedInv'
<1>1. counter' = counter /\ members' = members /\ limitCall' = limitCall
      /\ CountedPasses' = CountedPasses /\ CountedSlides' = CountedSlides
    OBVIOUS
<1>2. LimitShape' /\ OneStarts' /\ (Starting' <=> Starting)
    BY <1>1 DEF CountedInv, LimitShape, OneStarts, Starting, Tallies, Ages
<1>3. MembersCover'
    BY <1>1 DEF CountedInv, MembersCover, Undoing, Total, Ages
<1> PICK running \in Tallies, earlier \in Tallies : Windows(running, earlier)
    BY DEF CountedInv
<1>4. Windows(running, earlier)'
    BY <1>1, <1>2 DEF Windows, Tallies, Ages, Total
<1> QED
    BY <1>2, <1>3, <1>4 DEF CountedInv, Tallies, Ages

----------------------------------------------------------------------------
(* The module's steps, seen without the requests that Redis failed. *)

LimitInv == FailuresPass /\ CountedInv

LEMMA CountedAt ==
    ASSUME NEW t \in Tallies, NEW u \in Tallies, \A a \in Ages : u[a] <= t[a]
    PROVE  CallCounted(t, u) \in Tallies /\ \A a \in Ages : CallCounted(t, u)[a] = t[a] - u[a]
<1> SUFFICES ASSUME NEW a \in Ages PROVE t[a] - u[a] \in Nat
    BY DEF CallCounted, Tallies
<1>1. t[a] \in Nat /\ u[a] \in Nat /\ u[a] <= t[a]
    BY DEF Tallies
<1> QED
    BY <1>1

LEMMA OneMoreAt ==
    ASSUME NEW t \in Tallies
    PROVE  OneMore(t) \in Tallies /\ \A a \in Ages : OneMore(t)[a] = IF a = 0 THEN t[0] + 1 ELSE t[a]
BY AgesFinite DEF OneMore, Tallies

LEMMA SameTally ==
    ASSUME NEW t \in Tallies, NEW u \in Tallies, \A a \in Ages : t[a] = u[a] PROVE t = u
BY DEF Tallies

LEMMA CountedOneMore ==
    ASSUME NEW t \in Tallies, NEW u \in Tallies, \A a \in Ages : u[a] <= t[a]
    PROVE  /\ CallCounted(OneMore(t), u) = OneMore(CallCounted(t, u)) /\ \A a \in Ages : u[a] <= OneMore(t)[a]
           /\ CallCounted(OneMore(t), OneMore(u)) = CallCounted(t, u)
           /\ \A a \in Ages : OneMore(u)[a] <= OneMore(t)[a]
<1>1. \A a \in Ages : t[a] \in Nat /\ u[a] \in Nat
    BY DEF Tallies
<1>2. \A a \in Ages : u[a] <= OneMore(t)[a] /\ OneMore(u)[a] <= OneMore(t)[a]
    BY <1>1, OneMoreAt
<1>3. \A a \in Ages : CallCounted(OneMore(t), OneMore(u))[a] = CallCounted(t, u)[a]
    BY <1>1, OneMoreAt DEF CallCounted
<1>4. \A a \in Ages : CallCounted(OneMore(t), u)[a] = OneMore(CallCounted(t, u))[a]
  <2> SUFFICES ASSUME NEW a \in Ages PROVE CallCounted(OneMore(t), u)[a] = OneMore(CallCounted(t, u))[a]
      OBVIOUS
  <2>1. OneMore(CallCounted(t, u))[a] = IF a = 0 THEN CallCounted(t, u)[0] + 1 ELSE CallCounted(t, u)[a]
      BY CountedAt, OneMoreAt
  <2>2. CallCounted(OneMore(t), u)[a] = OneMore(t)[a] - u[a] /\ CallCounted(t, u)[a] = t[a] - u[a]
      BY DEF CallCounted
  <2> QED
      BY <1>1, <2>1, <2>2, OneMoreAt
<1>5. /\ CallCounted(OneMore(t), OneMore(u)) \in Tallies /\ CallCounted(t, u) \in Tallies
      /\ CallCounted(OneMore(t), u) \in Tallies /\ OneMore(CallCounted(t, u)) \in Tallies
    BY <1>2, CountedAt, OneMoreAt
<1> QED
    BY <1>2, <1>3, <1>4, <1>5, SameTally

LEMMA CountedOlder ==
    ASSUME NEW t \in Tallies, NEW u \in Tallies, \A a \in Ages : u[a] <= t[a]
    PROVE  /\ CallCounted(Older(t), Older(u)) = Older(CallCounted(t, u))
           /\ \A a \in Ages : Older(u)[a] <= Older(t)[a]
<1>1. CallCounted(t, u) \in Tallies
    BY CountedAt
<1>2. \A a \in Ages : /\ Older(u)[a] <= Older(t)[a]
                      /\ CallCounted(Older(t), Older(u))[a] = Older(CallCounted(t, u))[a]
  <2> SUFFICES ASSUME NEW a \in Ages
               PROVE  /\ Older(u)[a] <= Older(t)[a]
                      /\ Older(t)[a] - Older(u)[a] = Older(CallCounted(t, u))[a]
      BY DEF CallCounted
  <2>1. CASE a = 0
      BY <1>1, <2>1, OlderAt
  <2>2. CASE a # 0
      BY <1>1, <2>2, OlderAt, CountedAt
  <2> QED
      BY <2>1, <2>2
<1>3. CallCounted(Older(t), Older(u)) \in Tallies /\ Older(CallCounted(t, u)) \in Tallies
    BY <1>1, <1>2, OlderAt, CountedAt
<1> QED
    BY <1>2, <1>3, SameTally

LEMMA FailuresFacts ==
    ASSUME FailuresPass
    PROVE  /\ passes \in Tallies /\ passErrors \in Tallies /\ \A a \in Ages : passErrors[a] <= passes[a]
           /\ slides \in Tallies /\ slideErrors \in Tallies /\ \A a \in Ages : slideErrors[a] <= slides[a]
BY DEF FailuresPass

\* One more passes on its count, or because Redis failed, or nobody: the tallies stay in step.
LEMMA PassesInStep ==
    ASSUME FailuresPass,
           \/ passes' = passes /\ passErrors' = passErrors
           \/ passes' = OneMore(passes) /\ passErrors' = passErrors
           \/ passes' = OneMore(passes) /\ passErrors' = OneMore(passErrors),
           \/ slides' = slides /\ slideErrors' = slideErrors
           \/ slides' = OneMore(slides) /\ slideErrors' = slideErrors
           \/ slides' = OneMore(slides) /\ slideErrors' = OneMore(slideErrors)
    PROVE  /\ FailuresPass'
           /\ passes' = passes /\ passErrors' = passErrors => CountedPasses' = CountedPasses
           /\ slides' = slides /\ slideErrors' = slideErrors => CountedSlides' = CountedSlides
           /\ passes' = OneMore(passes) /\ passErrors' = passErrors => CountedPasses' = OneMore(CountedPasses)
           /\ slides' = OneMore(slides) /\ slideErrors' = slideErrors => CountedSlides' = OneMore(CountedSlides)
           /\ passes' = OneMore(passes) /\ passErrors' = OneMore(passErrors) => CountedPasses' = CountedPasses
           /\ slides' = OneMore(slides) /\ slideErrors' = OneMore(slideErrors) => CountedSlides' = CountedSlides
<1>1. Ages' = Ages /\ Tallies' = Tallies
    BY DEF Ages, Tallies
<1>2. CountedPasses' = CallCounted(passes', passErrors') /\ CountedSlides' = CallCounted(slides', slideErrors')
    BY <1>1 DEF CountedPasses, CountedSlides, CallCounted
<1>3. /\ passes' \in Tallies /\ passErrors' \in Tallies /\ \A a \in Ages : passErrors'[a] <= passes'[a]
      /\ slides' \in Tallies /\ slideErrors' \in Tallies /\ \A a \in Ages : slideErrors'[a] <= slides'[a]
    BY FailuresFacts, OneMoreAt, CountedOneMore
<1>4. FailuresPass'
    BY <1>1, <1>3 DEF FailuresPass
<1> QED
    BY <1>2, <1>4, FailuresFacts, CountedOneMore DEF CountedPasses, CountedSlides

LEMMA LimitStart == LimitsInit => LimitInv
<1> SUFFICES ASSUME LimitsInit PROVE LimitInv
    BY Zenon
<1>1. /\ counter = [count |-> 0, ttl |-> 0] /\ members = Nobody
      /\ passes = Nobody /\ slides = Nobody /\ passErrors = Nobody /\ slideErrors = Nobody
      /\ limitCall = [c \in LimitCalls |-> IdleLimit] /\ Limit \in Nat /\ Span \in Nat
    BY LimitsAssumption, Zenon DEF LimitsInit
<1>2. \A c \in LimitCalls : limitCall[c].at = "idle"
    BY <1>1 DEF IdleLimit
<1>3. FailuresPass
  <2>1. \A a \in Ages : Nobody[a] <= Nobody[a]
      BY DEF Nobody
  <2> QED
      BY <1>1, <2>1, TotalOfNobody DEF FailuresPass
<1>4. CountedPasses = Nobody /\ CountedSlides = Nobody
    BY <1>1 DEF CountedPasses, CountedSlides, CallCounted, Nobody
<1>5. LimitShape
    BY <1>1, <1>4, TotalOfNobody DEF LimitShape, IdleLimit
<1>6. \A a \in Ages : Undoing(a) = {} /\ Cardinality(Undoing(a)) = 0
    BY <1>2, FS_EmptySet DEF Undoing
<1>7. MembersCover
    BY <1>1, <1>4, <1>6, TotalOfNobody DEF MembersCover, Nobody
<1>8. OneStarts
    BY <1>1, <1>2 DEF OneStarts, Starting
<1>9. Windows(Nobody, Nobody)
    BY <1>1, <1>2, <1>4, TotalOfNobody DEF Windows, Starting, Nobody
<1> QED
    BY <1>3, <1>5, <1>7, <1>8, <1>9, TotalOfNobody DEF LimitInv, CountedInv

LEMMA LimitStep == LimitInv /\ [LimitsNext]_limitVars => LimitInv'
<1> SUFFICES ASSUME LimitInv, [LimitsNext]_limitVars PROVE LimitInv'
    OBVIOUS
<1>1. FailuresPass /\ CountedInv
    BY DEF LimitInv
<1>2. ASSUME NEW c \in LimitCalls, Increment(c) PROVE LimitInv'
  <2>1. /\ counter' = Incremented /\ UNCHANGED <<members, slides, passErrors, slideErrors>>
        /\ limitCall[c].at = "idle"
        /\ \/ counter'.count = 1 /\ limitCall' = [limitCall EXCEPT ![c].at = "expire"] /\ UNCHANGED passes
           \/ counter'.count # 1 /\ Passes(counter'.count) /\ UNCHANGED limitCall
      BY <1>2, Zenon DEF Increment
  <2>2. passes' = passes \/ passes' = OneMore(passes)
      BY <2>1 DEF Passes
  <2>3. FailuresPass' /\ CountedSlides' = CountedSlides
      BY <1>1, <2>1, <2>2, PassesInStep
  <2>4. Passes(counter'.count) => PassesOnCount(counter'.count)
      BY <1>1, <2>1, <2>2, PassesInStep DEF Passes, PassesOnCount
  <2>5. UNCHANGED passes => UNCHANGED CountedPasses
      BY <2>1 DEF CountedPasses, CallCounted, Ages
  <2>6. IncrementOnCount(c)
      BY <2>1, <2>3, <2>4, <2>5 DEF IncrementOnCount
  <2> QED
      BY <1>1, <2>3, <2>6, IncrementCounts DEF LimitInv
<1>3. ASSUME NEW c \in LimitCalls, SetExpiry(c) PROVE LimitInv'
  <2>1. passes' = OneMore(passes) /\ UNCHANGED <<members, slides, passErrors, slideErrors>>
      BY <1>3, LimitsAssumption DEF SetExpiry, Passes
  <2>2. FailuresPass' /\ CountedSlides' = CountedSlides /\ CountedPasses' = OneMore(CountedPasses)
      BY <1>1, <2>1, PassesInStep
  <2>3. SetExpiryOnCount(c)
      BY <1>3, <2>1, <2>2 DEF SetExpiry, SetExpiryOnCount
  <2> QED
      BY <1>1, <2>2, <2>3, SetExpiryCounts DEF LimitInv
<1>4. ASSUME NEW c \in LimitCalls, CounterFails(c) PROVE LimitInv'
  <2>1. /\ passes' = OneMore(passes) /\ passErrors' = OneMore(passErrors)
        /\ UNCHANGED <<members, slides, slideErrors>>
      BY <1>4 DEF CounterFails
  <2>2. FailuresPass' /\ CountedSlides' = CountedSlides /\ CountedPasses' = CountedPasses
      BY <1>1, <2>1, PassesInStep
  <2>3. \/ UNCHANGED <<counter, limitCall>>
        \/ limitCall[c].at = "idle" /\ counter' = Incremented /\ UNCHANGED limitCall
        \/ UNCHANGED counter /\ LimitAnswer(c)
        \/ /\ limitCall[c].at = "expire" /\ counter' = [counter EXCEPT !.ttl = Span]
           /\ LimitAnswer(c)
      BY <1>4 DEF CounterFails
  <2>4. CASE UNCHANGED <<counter, limitCall>>
      BY <1>1, <2>1, <2>2, <2>4, NoCountKeeps DEF LimitInv
  <2>5. CASE limitCall[c].at = "idle" /\ counter' = Incremented /\ UNCHANGED limitCall
    <3>1. IncrementOnCount(c)
        BY <2>1, <2>2, <2>5 DEF IncrementOnCount
    <3> QED
        BY <1>1, <2>2, <3>1, IncrementCounts DEF LimitInv
  <2>6. CASE UNCHANGED counter /\ LimitAnswer(c)
    <3>1. EndsOnCount(c)
        BY <2>1, <2>2, <2>6 DEF EndsOnCount
    <3> QED
        BY <1>1, <2>2, <3>1, LimitCallEndsKeeps DEF LimitInv
  <2>7. CASE /\ limitCall[c].at = "expire" /\ counter' = [counter EXCEPT !.ttl = Span]
             /\ LimitAnswer(c)
    <3>1. SetExpiryOnCount(c)
        BY <2>1, <2>2, <2>7 DEF SetExpiryOnCount
    <3> QED
        BY <1>1, <2>2, <3>1, SetExpiryCounts DEF LimitInv
  <2> QED
      BY <2>3, <2>4, <2>5, <2>6, <2>7
<1>5. ASSUME NEW c \in LimitCalls, Slide(c) PROVE LimitInv'
  <2>1. /\ limitCall[c].at = "idle" /\ members' = OneMore(members)
        /\ UNCHANGED <<counter, passes, passErrors, slideErrors>>
        /\ \/ /\ limitCall' = [limitCall EXCEPT ![c] = [at |-> "undo", age |-> 0]]
              /\ UNCHANGED slides
           \/ ~(Total(members') > Limit) /\ slides' = OneMore(slides) /\ UNCHANGED limitCall
      BY <1>5, Zenon DEF Slide
  <2>2. slides' = slides \/ slides' = OneMore(slides)
      BY <2>1
  <2>3. FailuresPass' /\ CountedPasses' = CountedPasses
      BY <1>1, <2>1, <2>2, PassesInStep
  <2>4. /\ slides' = slides => CountedSlides' = CountedSlides
        /\ slides' = OneMore(slides) => CountedSlides' = OneMore(CountedSlides)
      BY <1>1, <2>1, <2>2, PassesInStep
  <2>5. Total(members') \in Nat /\ Limit \in Nat
      BY <1>1, <2>1, TotalIsNat, OneMoreAt, LimitsAssumption DEF CountedInv, LimitShape
  <2>6. SlideOnCount(c)
      BY <2>1, <2>3, <2>4, <2>5 DEF SlideOnCount
  <2> QED
      BY <1>1, <2>3, <2>6, SlideKeeps DEF LimitInv
<1>6. ASSUME NEW c \in LimitCalls, UndoSlide(c) PROVE LimitInv'
  <2>1. FailuresPass' /\ CountedPasses' = CountedPasses /\ CountedSlides' = CountedSlides
      BY <1>1, <1>6, PassesInStep DEF UndoSlide
  <2>2. UndoOnCount(c)
      BY <1>6, <2>1 DEF UndoSlide, UndoOnCount
  <2> QED
      BY <1>1, <2>1, <2>2, UndoKeeps DEF LimitInv
<1>7. ASSUME NEW c \in LimitCalls, SlideFails(c) PROVE LimitInv'
  <2>1. /\ slides' = OneMore(slides) /\ slideErrors' = OneMore(slideErrors)
        /\ UNCHANGED <<counter, passes, passErrors>>
      BY <1>7 DEF SlideFails
  <2>2. FailuresPass' /\ CountedSlides' = CountedSlides /\ CountedPasses' = CountedPasses
      BY <1>1, <2>1, PassesInStep
  <2>3. \/ UNCHANGED <<members, limitCall>>
        \/ limitCall[c].at = "idle" /\ members' = OneMore(members) /\ UNCHANGED limitCall
        \/ UNCHANGED members /\ LimitAnswer(c)
        \/ limitCall[c].at = "undo" /\ members' = Removed(c) /\ LimitAnswer(c)
      BY <1>7 DEF SlideFails
  <2>4. CASE UNCHANGED <<members, limitCall>>
      BY <1>1, <2>1, <2>2, <2>4, NoCountKeeps DEF LimitInv
  <2>5. CASE limitCall[c].at = "idle" /\ members' = OneMore(members) /\ UNCHANGED limitCall
    <3>1. SlideOnCount(c)
        BY <2>1, <2>2, <2>5 DEF SlideOnCount
    <3> QED
        BY <1>1, <2>2, <3>1, SlideKeeps DEF LimitInv
  <2>6. CASE UNCHANGED members /\ LimitAnswer(c)
    <3>1. EndsOnCount(c)
        BY <2>1, <2>2, <2>6 DEF EndsOnCount
    <3> QED
        BY <1>1, <2>2, <3>1, LimitCallEndsKeeps DEF LimitInv
  <2>7. CASE limitCall[c].at = "undo" /\ members' = Removed(c) /\ LimitAnswer(c)
    <3>1. UndoOnCount(c)
        BY <2>1, <2>2, <2>7 DEF UndoOnCount
    <3> QED
        BY <1>1, <2>2, <3>1, UndoKeeps DEF LimitInv
  <2> QED
      BY <2>3, <2>4, <2>5, <2>6, <2>7
<1>8. ASSUME NEW c \in LimitCalls, LimitCallEnds(c) PROVE LimitInv'
  <2>1. FailuresPass' /\ CountedPasses' = CountedPasses /\ CountedSlides' = CountedSlides
      BY <1>1, <1>8, PassesInStep DEF LimitCallEnds
  <2>2. EndsOnCount(c)
      BY <1>8, <2>1 DEF LimitCallEnds, EndsOnCount
  <2> QED
      BY <1>1, <2>1, <2>2, LimitCallEndsKeeps DEF LimitInv
<1>9. CASE Tick
  <2>1. /\ passes' = Older(passes) /\ slides' = Older(slides)
        /\ passErrors' = Older(passErrors) /\ slideErrors' = Older(slideErrors)
      BY <1>9 DEF Tick
  <2>2. Ages' = Ages /\ Tallies' = Tallies
      BY DEF Ages, Tallies
  <2>3. CountedPasses' = Older(CountedPasses) /\ CountedSlides' = Older(CountedSlides)
    <3>1. CountedPasses' = CallCounted(passes', passErrors') /\ CountedSlides' = CallCounted(slides', slideErrors')
        BY <2>2 DEF CountedPasses, CountedSlides, CallCounted
    <3> QED
        BY <1>1, <2>1, <3>1, FailuresFacts, CountedOlder DEF CountedPasses, CountedSlides
  <2>4. FailuresPass'
    <3>1. /\ passes' \in Tallies /\ passErrors' \in Tallies /\ \A a \in Ages : passErrors'[a] <= passes'[a]
          /\ slides' \in Tallies /\ slideErrors' \in Tallies /\ \A a \in Ages : slideErrors'[a] <= slides'[a]
        BY <1>1, <2>1, FailuresFacts, CountedOlder, OlderAt
    <3> QED
        BY <2>2, <3>1 DEF FailuresPass
  <2>5. TickOnCount
      BY <1>9, <2>3 DEF Tick, TickOnCount
  <2> QED
      BY <1>1, <2>4, <2>5, TickKeeps DEF LimitInv
<1>10. CASE UNCHANGED limitVars
  <2>1. /\ UNCHANGED <<counter, members, limitCall>> /\ passes' = passes /\ slides' = slides
        /\ passErrors' = passErrors /\ slideErrors' = slideErrors
      BY <1>10 DEF limitVars
  <2>2. FailuresPass' /\ CountedPasses' = CountedPasses /\ CountedSlides' = CountedSlides
      BY <1>1, <2>1, PassesInStep
  <2> QED
      BY <1>1, <2>1, <2>2, NoCountKeeps DEF LimitInv
<1> QED
    BY <1>2, <1>3, <1>4, <1>5, <1>6, <1>7, <1>8, <1>9, <1>10 DEF LimitsNext

\* The counter, the sliding key and the requests fit together.
THEOREM LimitInvariant == LimitsSpec => []LimitInv
BY LimitStart, LimitStep, PTL DEF LimitsSpec

\* At any moment what passed in the last window is within the limit under the sliding limit,
\* and within twice the limit under the counter (checkSlidingWindowLimit and
\* RateLimiterService.check), with one more for each request that Redis failed: for every
\* limit, window and number of requests served at a time, with requests that die between two
\* commands.
THEOREM LimitIsKept == LimitsSpec => []LimitHolds
<1>1. LimitInv => LimitHolds
  <2> SUFFICES ASSUME LimitInv
               PROVE  /\ Total(slides) <= Limit + Total(slideErrors)
                      /\ Total(passes) <= 2 * Limit + Total(passErrors)
      BY DEF LimitHolds
  <2>1. FailuresPass /\ CountedInv
      BY DEF LimitInv
  <2> PICK running \in Tallies, earlier \in Tallies : Windows(running, earlier)
      BY <2>1 DEF CountedInv
  <2>2. CountedPasses \in Tallies /\ CountedSlides \in Tallies
      BY <2>1 DEF CountedInv, LimitShape
  <2>3. Total(CountedPasses) = Total(running) + Total(earlier)
      BY <2>2, TotalOfBoth DEF Windows
  <2>4. /\ Total(passes) = Total(CountedPasses) + Total(passErrors)
        /\ Total(slides) = Total(CountedSlides) + Total(slideErrors)
    <3>1. \A a \in Ages : /\ passes[a] = CountedPasses[a] + passErrors[a]
                          /\ slides[a] = CountedSlides[a] + slideErrors[a]
      <4> SUFFICES ASSUME NEW a \in Ages
                   PROVE  /\ passes[a] = CountedPasses[a] + passErrors[a]
                          /\ slides[a] = CountedSlides[a] + slideErrors[a]
          OBVIOUS
      <4>1. /\ CountedPasses[a] = passes[a] - passErrors[a]
            /\ CountedSlides[a] = slides[a] - slideErrors[a]
          BY DEF CountedPasses, CountedSlides, CallCounted
      <4>2. /\ passes[a] \in Nat /\ passErrors[a] \in Nat
            /\ slides[a] \in Nat /\ slideErrors[a] \in Nat
          BY <2>1, FailuresFacts DEF Tallies
      <4> QED
          BY <4>1, <4>2
    <3>2. passes \in Tallies /\ passErrors \in Tallies /\ slides \in Tallies /\ slideErrors \in Tallies
        BY <2>1, FailuresFacts
    <3> QED
        BY <2>2, <3>1, <3>2, TotalOfBoth
  <2>5. /\ Total(running) \in Nat /\ Total(earlier) \in Nat /\ Limit \in Nat
        /\ Total(CountedSlides) \in Nat /\ Total(slideErrors) \in Nat /\ Total(passErrors) \in Nat
        /\ Total(running) <= Limit /\ Total(earlier) <= Limit /\ Total(CountedSlides) <= Limit
      BY <2>1, <2>2, TotalIsNat, FailuresFacts, LimitsAssumption DEF Windows, CountedInv, MembersCover
  <2> QED
      BY <2>3, <2>4, <2>5
<1> QED
    BY <1>1, LimitInvariant, PTL

----------------------------------------------------------------------------
(* CachedViews.  A copy that a reader holds and that will not be stored late *)
(* is as fresh as a view is promised to be: that is what makes FreshViews    *)
(* inductive.                                                                *)

Keys == Views \cup {"turfs:all"}
Filled == {k \in [at : {"none", "read", "store"}, copy : Copies \cup {Absent}] :
              k.at = "store" => k.copy \in Copies}

ViewsShape ==
    /\ turfRow \in [status : RowStatuses, deleted : BOOLEAN, version : 0 .. MaxVersion]
    /\ profileRow \in 0 .. MaxVersion
    /\ view \in [Views -> Copies \cup {Absent}]
    /\ filling \in [Servers -> [Views -> Filled]]
    /\ watched \in SUBSET Views
    /\ writing \in [Writers -> Seq(Keys)]
    /\ \A w \in Writers : Len(writing[w]) <= 3

\* What a view that is not late says of its row.
Shows(v, copy) ==
    /\ copy.version = VersionFor(v)
    /\ v \in TurfViews /\ copy.listed => turfRow.status = "ACTIVE"

FreshFills ==
    \A p \in Servers, v \in Views :
        filling[p][v].at = "store" /\ ~filling[p][v].copy.late => Shows(v, filling[p][v].copy)

FreshCopies ==
    \A v \in Views : v \in DeletedViews /\ view[v] # Absent /\ ~view[v].late /\ ~ToDelete(v)
                     => Shows(v, view[v])

\* CreateTurf does not delete the turf's page: there is none.
NoPage ==
    turfRow.status = "NONE" =>
        view["turf"] = Absent /\ \A p \in Servers : filling[p]["turf"].at # "store"

FreshInv == ViewsShape /\ FreshFills /\ FreshCopies
ViewsInv == FreshInv /\ NoPage

----------------------------------------------------------------------------
LEMMA OvertakenCopy ==
    ASSUME NEW copy \in Copies \cup {Absent}
    PROVE  /\ Overtaken(copy) \in Copies \cup {Absent}
           /\ copy \in Copies => Overtaken(copy) \in Copies /\ Overtaken(copy).late
           /\ copy = Absent => Overtaken(copy) = Absent
BY ViewsAssumption DEF Overtaken, Copies

LEMMA FilledFields ==
    ASSUME ViewsShape, NEW p \in Servers, NEW v \in Views
    PROVE  /\ filling[p][v] \in Filled /\ filling[p][v].at \in {"none", "read", "store"}
           /\ filling[p][v].copy \in Copies \cup {Absent}
           /\ filling[p][v].at = "store" => filling[p][v].copy \in Copies
BY DEF ViewsShape, Filled

LEMMA NewCopies ==
    ASSUME ViewsShape, NEW v \in Views
    PROVE  /\ NoFill \in Filled /\ NoFill.at = "none"
           /\ VersionFor(v) \in 0 .. MaxVersion /\ Listed(turfRow) \in BOOLEAN
           /\ [version |-> VersionFor(v), listed |-> Listed(turfRow), late |-> FALSE] \in Copies
BY DEF ViewsShape, NoFill, Filled, VersionFor, Listed, Copies

\* A reader's step: what it holds for one view is replaced.
LEMMA FillStep ==
    ASSUME FreshInv, NEW p \in Servers, NEW v \in Views, NEW k \in Filled,
           filling' = [filling EXCEPT ![p][v] = k],
           k.at = "store" /\ ~k.copy.late => Shows(v, k.copy),
           UNCHANGED <<turfRow, profileRow>>
    PROVE  filling' \in [Servers -> [Views -> Filled]] /\ FreshFills'
<1>1. filling \in [Servers -> [Views -> Filled]]
    BY DEF FreshInv, ViewsShape
<1>2. filling' \in [Servers -> [Views -> Filled]]
    BY <1>1
<1>3. \A q \in Servers, u \in Views :
         filling'[q][u] = IF q = p /\ u = v THEN k ELSE filling[q][u]
    BY <1>1
<1>4. ASSUME NEW q \in Servers, NEW u \in Views, NEW copy, copy = filling'[q][u].copy,
             filling'[q][u].at = "store", ~copy.late
      PROVE  Shows(u, copy)'
    <2>1. Shows(u, copy)
        BY <1>3, <1>4 DEF FreshInv, FreshFills
    <2> QED BY <2>1 DEF Shows, VersionFor
<1> QED BY <1>2, <1>4 DEF FreshFills

LEMMA MissStep ==
    ASSUME FreshInv, NEW p \in Servers, NEW v \in Views, MissView(p, v) PROVE FreshInv'
<1> DEFINE k == [filling[p][v] EXCEPT !.at = "read"]
<1>1. k \in Filled /\ k.at = "read"
    BY FilledFields DEF FreshInv, Filled
<1>2. filling' = [filling EXCEPT ![p][v] = k] /\ UNCHANGED <<turfRow, profileRow, view, writing, watched>>
    BY DEF MissView
<1> HIDE DEF k
<1>3. filling' \in [Servers -> [Views -> Filled]] /\ FreshFills'
    BY <1>1, <1>2, FillStep
<1> QED BY <1>2, <1>3 DEF FreshInv, ViewsShape, FreshCopies, ToDelete, Shows, VersionFor

LEMMA ViewReadStep ==
    ASSUME FreshInv, NEW p \in Servers, NEW v \in Views, ReadView(p, v) PROVE FreshInv'
<1> DEFINE copy == [version |-> VersionFor(v), listed |-> Listed(turfRow), late |-> FALSE]
           k == [at |-> "store", copy |-> copy]
<1>1. copy \in Copies
    BY NewCopies DEF FreshInv
<1>2. k \in Filled /\ Shows(v, k.copy)
    BY <1>1 DEF Filled, Shows, Listed
<1>3. filling' = [filling EXCEPT ![p][v] = k] /\ UNCHANGED <<turfRow, profileRow, view, writing, watched>>
    BY DEF ReadView
<1> HIDE DEF k
<1>4. filling' \in [Servers -> [Views -> Filled]] /\ FreshFills'
    BY <1>2, <1>3, FillStep
<1> QED BY <1>3, <1>4 DEF FreshInv, ViewsShape, FreshCopies, ToDelete, Shows, VersionFor

LEMMA FailStep ==
    ASSUME FreshInv, NEW p \in Servers, NEW v \in Views, FillFails(p, v) PROVE FreshInv'
<1>1. NoFill \in Filled /\ NoFill.at = "none"
    BY NewCopies DEF FreshInv
<1>2. filling' = [filling EXCEPT ![p][v] = NoFill] /\ UNCHANGED <<turfRow, profileRow, view, writing, watched>>
    BY DEF FillFails
<1>3. filling' \in [Servers -> [Views -> Filled]] /\ FreshFills'
    BY <1>1, <1>2, FillStep
<1> QED BY <1>2, <1>3 DEF FreshInv, ViewsShape, FreshCopies, ToDelete, Shows, VersionFor

LEMMA StoreStep ==
    ASSUME FreshInv, NEW p \in Servers, NEW v \in Views, StoreView(p, v) PROVE FreshInv'
<1> DEFINE copy == filling[p][v].copy
<1>1. copy \in Copies /\ (~copy.late => Shows(v, copy))
    BY FilledFields DEF FreshInv, FreshFills, StoreView
<1>2. NoFill \in Filled /\ NoFill.at = "none"
    BY NewCopies DEF FreshInv
<1>3. /\ filling' = [filling EXCEPT ![p][v] = NoFill] /\ view' = [view EXCEPT ![v] = copy]
      /\ UNCHANGED <<turfRow, profileRow, writing, watched>>
    BY DEF StoreView
<1> HIDE DEF copy
<1>4. filling' \in [Servers -> [Views -> Filled]] /\ FreshFills'
    BY <1>2, <1>3, FillStep
<1>5. view' \in [Views -> Copies \cup {Absent}] /\ \A u \in Views : view'[u] = IF u = v THEN copy ELSE view[u]
    BY <1>1, <1>3 DEF FreshInv, ViewsShape
<1>6. FreshCopies'
    BY <1>1, <1>3, <1>5 DEF FreshInv, FreshCopies, ToDelete, Shows, VersionFor
<1> QED BY <1>3, <1>4, <1>5, <1>6 DEF FreshInv, ViewsShape

LEMMA DropStep ==
    ASSUME FreshInv, NEW v \in Views, DropView(v) PROVE FreshInv'
<1>1. /\ view' \in [Views -> Copies \cup {Absent}]
      /\ \A u \in Views : view'[u] = IF u = v THEN Absent ELSE view[u]
    BY DEF FreshInv, ViewsShape, DropView
<1>2. FreshCopies'
    BY <1>1 DEF FreshInv, FreshCopies, ToDelete, Shows, VersionFor, DropView
<1> QED BY <1>1, <1>2 DEF FreshInv, ViewsShape, FreshFills, Shows, VersionFor, DropView

----------------------------------------------------------------------------
\* A writer's change makes what was read of the row late.  Every view that shows it is one the
\* writer is going to delete, or not there, or the writer deletes none.
LEMMA WroteStep ==
    ASSUME FreshInv, NEW w \in Writers, NEW views \in SUBSET Views, NEW keys \in Seq(Keys), Len(keys) <= 3,
           Wrote(w, views, keys), watched' = watched,
           \/ Unannounced(views)
           \/ /\ view' = view
              /\ \A v \in views : v \in DeletedViews => view[v] = Absent \/ \E i \in DOMAIN keys : keys[i] = v,
           turfRow' \in [status : RowStatuses, deleted : BOOLEAN, version : 0 .. MaxVersion],
           profileRow' \in 0 .. MaxVersion,
           \A copy : \A v \in Views \ views : Shows(v, copy) => Shows(v, copy)'
    PROVE  FreshInv'
<1>1. /\ view \in [Views -> Copies \cup {Absent}] /\ filling \in [Servers -> [Views -> Filled]]
      /\ writing \in [Writers -> Seq(Keys)] /\ writing[w] = <<>>
    BY DEF FreshInv, ViewsShape, Wrote
<1>2. writing' = [writing EXCEPT ![w] = keys]
    BY DEF Wrote
<1>3. \A q \in Servers, u \in Views :
         filling'[q][u] = IF u \in views THEN [filling[q][u] EXCEPT !.copy = Overtaken(@)] ELSE filling[q][u]
    BY DEF Wrote
<1>4. \/ view' = view
      \/ view' = [v \in Views |-> IF v \in views THEN Overtaken(view[v]) ELSE view[v]]
    BY Zenon DEF Unannounced
<1>5. /\ view' \in [Views -> Copies \cup {Absent}]
      /\ \A u \in Views : view'[u] = view[u] \/ (u \in views /\ view'[u] = Overtaken(view[u]))
  <2>1. CASE view' = view
      BY <1>1, <2>1
  <2>2. CASE view' = [v \in Views |-> IF v \in views THEN Overtaken(view[v]) ELSE view[v]]
      BY <1>1, <2>2, OvertakenCopy
  <2> QED BY <1>4, <2>1, <2>2
<1>6. ASSUME NEW q \in Servers, NEW u \in Views
      PROVE  /\ filling'[q][u] \in Filled
             /\ u \in views /\ filling'[q][u].at = "store" => filling'[q][u].copy.late
    <2>1. CASE u \notin views
        <3>1. filling'[q][u] = filling[q][u]
            BY <1>3, <2>1
        <3> QED BY <1>1, <2>1, <3>1
    <2>2. CASE u \in views
        <3> DEFINE copy == filling[q][u].copy
        <3>1. /\ filling[q][u] \in Filled /\ copy \in Copies \cup {Absent}
              /\ filling[q][u].at = "store" => copy \in Copies
            BY FilledFields DEF FreshInv
        <3>2. /\ Overtaken(copy) \in Copies \cup {Absent}
              /\ copy \in Copies => Overtaken(copy) \in Copies /\ Overtaken(copy).late
            BY <3>1, OvertakenCopy
        <3>3. filling'[q][u] = [filling[q][u] EXCEPT !.copy = Overtaken(copy)]
            BY <1>3, <2>2
        <3> QED BY <3>1, <3>2, <3>3 DEF Filled
    <2> QED BY <2>1, <2>2
<1>7. filling' \in [Servers -> [Views -> Filled]]
    BY <1>6 DEF Wrote
<1>8. FreshFills'
    <2> SUFFICES ASSUME NEW q \in Servers, NEW u \in Views, NEW copy, copy = filling'[q][u].copy,
                        filling'[q][u].at = "store", ~copy.late
                 PROVE  Shows(u, copy)'
        BY DEF FreshFills
    <2>1. u \notin views /\ filling'[q][u] = filling[q][u]
        BY <1>3, <1>6
    <2> QED BY <2>1 DEF FreshInv, FreshFills
<1>9. FreshCopies'
    <2> SUFFICES ASSUME NEW u \in Views, u \in DeletedViews, NEW copy, copy = view'[u],
                        copy # Absent, ~copy.late, ~ToDelete(u)'
                 PROVE  Shows(u, copy)'
        BY DEF FreshCopies, DeletedViews
    <2>1. ~ToDelete(u)
        BY <1>1, <1>2 DEF ToDelete
    <2>2. copy = view[u]
        BY <1>1, <1>5, OvertakenCopy
    <2>3. CASE u \notin views
        BY <2>1, <2>2, <2>3 DEF FreshInv, FreshCopies
    <2>4. CASE u \in views
        <3>1. ~Unannounced(views)
            <4> SUFFICES ASSUME Unannounced(views) PROVE FALSE
                OBVIOUS
            <4>1. view'[u] = Overtaken(view[u])
                BY <2>4, Zenon DEF Unannounced
            <4> QED BY <1>1, <2>2, <4>1, OvertakenCopy
        <3>2. PICK i \in DOMAIN keys : keys[i] = u
            BY <2>2, <2>4, <3>1
        <3>3. i \in 1 .. 3 /\ i \in DOMAIN writing'[w] /\ writing'[w][i] = u
            BY <1>1, <1>2, <3>2
        <3> QED BY <3>3 DEF ToDelete
    <2> QED BY <2>3, <2>4
<1>10. writing' \in [Writers -> Seq(Keys)] /\ \A x \in Writers : Len(writing'[x]) <= 3
    BY <1>1, <1>2 DEF FreshInv, ViewsShape
<1> QED BY <1>5, <1>7, <1>8, <1>9, <1>10 DEF FreshInv, ViewsShape

KeyLists == {TurfKeys, Tail(TurfKeys), ProfileKeys, <<>>}

LEMMA KeysOfWriters ==
    /\ TurfKeys \in Seq(Keys) /\ Len(TurfKeys) = 3
    /\ Tail(TurfKeys) \in Seq(Keys) /\ Len(Tail(TurfKeys)) = 2
    /\ ProfileKeys \in Seq(Keys) /\ Len(ProfileKeys) = 2
    /\ <<>> \in Seq(Keys) /\ Len(<<>>) = 0
<1>1. TurfKeys \in Seq(Keys) /\ Len(TurfKeys) = 3
    BY DEF TurfKeys, Keys, Views, TurfViews
<1>2. Tail(TurfKeys) \in Seq(Keys) /\ Len(Tail(TurfKeys)) = 2
    BY <1>1, HeadTailProperties
<1> QED BY <1>1, <1>2 DEF ProfileKeys, Keys, Views, ProfileViews

LEMMA KeyList ==
    ASSUME NEW keys \in KeyLists
    PROVE  keys \in Seq(Keys) /\ Len(keys) <= 3
<1>1. CASE keys = TurfKeys
    BY <1>1, KeysOfWriters
<1>2. CASE keys = Tail(TurfKeys)
    BY <1>2, KeysOfWriters
<1>3. CASE keys = ProfileKeys
    BY <1>3, KeysOfWriters
<1>4. CASE keys = <<>>
    BY <1>4, KeysOfWriters
<1> QED BY <1>1, <1>2, <1>3, <1>4 DEF KeyLists

\* What a turf's and a profile's writers delete covers the views of the row.
LEMMA KeysCover ==
    /\ \A v \in TurfViews : v \in DeletedViews => \E i \in DOMAIN TurfKeys : TurfKeys[i] = v
    /\ \A v \in TurfViews : v \in DeletedViews =>
          v = "turf" \/ \E i \in DOMAIN Tail(TurfKeys) : Tail(TurfKeys)[i] = v
    /\ \A v \in ProfileViews : \E i \in DOMAIN ProfileKeys : ProfileKeys[i] = v
<1>1. 1 \in DOMAIN TurfKeys /\ 3 \in DOMAIN TurfKeys /\ TurfKeys[1] = "turf" /\ TurfKeys[3] = "home:activeTurfs"
    BY DEF TurfKeys
<1>2. /\ TurfKeys \in Seq(Keys) /\ TurfKeys # <<>>
      /\ Len(Tail(TurfKeys)) = 2 /\ Tail(TurfKeys) \in Seq(Keys)
    BY KeysOfWriters
<1>3. 2 \in DOMAIN Tail(TurfKeys) /\ Tail(TurfKeys)[2] = "home:activeTurfs"
    BY <1>1, <1>2, HeadTailProperties
<1>4. 1 \in DOMAIN ProfileKeys /\ 2 \in DOMAIN ProfileKeys
      /\ ProfileKeys[1] = "profile" /\ ProfileKeys[2] = "auth:getMe"
    BY DEF ProfileKeys
<1> QED BY <1>1, <1>3, <1>4 DEF TurfViews, ProfileViews, DeletedViews

LEMMA TurfStep ==
    ASSUME FreshInv, NEW w \in Writers, NEW status \in RowStatuses, NEW deleted \in BOOLEAN,
           NEW keys \in KeyLists, WroteTurf(w, status, deleted, keys),
           \/ keys = <<>> /\ Unannounced(TurfViews)
           \/ keys = TurfKeys /\ UNCHANGED view
           \/ keys = Tail(TurfKeys) /\ view["turf"] = Absent /\ UNCHANGED view
    PROVE  FreshInv'
<1>1. /\ turfRow' = [status |-> status, deleted |-> deleted, version |-> turfRow.version + 1]
      /\ turfRow.version < MaxVersion /\ Wrote(w, TurfViews, keys)
      /\ profileRow' = profileRow /\ watched' = watched
    BY DEF WroteTurf
<1>2. turfRow' \in [status : RowStatuses, deleted : BOOLEAN, version : 0 .. MaxVersion]
    BY <1>1, ViewsAssumption DEF FreshInv, ViewsShape
<1>3. profileRow' \in 0 .. MaxVersion
    BY <1>1 DEF FreshInv, ViewsShape
<1>4. \A copy : \A v \in Views \ TurfViews : Shows(v, copy) => Shows(v, copy)'
    BY <1>1 DEF Shows, VersionFor
<1>5. TurfViews \in SUBSET Views
    BY DEF Views
<1>6. keys \in Seq(Keys) /\ Len(keys) <= 3
    BY KeyList
<1>7. \/ Unannounced(TurfViews)
      \/ /\ view' = view
         /\ \A v \in TurfViews : v \in DeletedViews => view[v] = Absent \/ \E i \in DOMAIN keys : keys[i] = v
    BY KeysCover
<1> QED BY <1>1, <1>2, <1>3, <1>4, <1>5, <1>6, <1>7, WroteStep

LEMMA ProfileStep ==
    ASSUME FreshInv, NEW w \in Writers, NEW keys \in KeyLists, WroteProfile(w, keys),
           \/ keys = <<>> /\ Unannounced(ProfileViews)
           \/ keys = ProfileKeys /\ UNCHANGED view
    PROVE  FreshInv'
<1>1. /\ profileRow' = profileRow + 1 /\ profileRow < MaxVersion
      /\ Wrote(w, ProfileViews, keys) /\ turfRow' = turfRow /\ watched' = watched
    BY DEF WroteProfile
<1>2. profileRow' \in 0 .. MaxVersion
    BY <1>1, ViewsAssumption DEF FreshInv, ViewsShape
<1>3. turfRow' \in [status : RowStatuses, deleted : BOOLEAN, version : 0 .. MaxVersion]
    BY <1>1 DEF FreshInv, ViewsShape
<1>4. \A copy : \A v \in Views \ ProfileViews : Shows(v, copy) => Shows(v, copy)'
    BY <1>1 DEF Shows, VersionFor, Views
<1>5. ProfileViews \in SUBSET Views
    BY DEF Views
<1>6. keys \in Seq(Keys) /\ Len(keys) <= 3
    BY KeyList
<1>7. \/ Unannounced(ProfileViews)
      \/ /\ view' = view
         /\ \A v \in ProfileViews : v \in DeletedViews => view[v] = Absent \/ \E i \in DOMAIN keys : keys[i] = v
    BY KeysCover
<1> QED BY <1>1, <1>2, <1>3, <1>4, <1>5, <1>6, <1>7, WroteStep

LEMMA ChangeStep ==
    ASSUME FreshInv, NEW w \in Writers, NEW status \in RowStatuses,
           ChangeTurf(w, status) \/ ChangeTurfUnannounced(w, status)
    PROVE  FreshInv'
<1>1. turfRow.deleted \in BOOLEAN
    BY DEF FreshInv, ViewsShape
<1>2. TurfKeys \in KeyLists /\ <<>> \in KeyLists
    BY DEF KeyLists
<1>3. CASE ChangeTurf(w, status)
    BY <1>1, <1>2, <1>3, TurfStep DEF ChangeTurf
<1>4. CASE ChangeTurfUnannounced(w, status)
    BY <1>1, <1>2, <1>4, TurfStep DEF ChangeTurfUnannounced
<1> QED BY <1>3, <1>4

LEMMA SameStep ==
    ASSUME FreshInv, NEW w \in Writers, SameTurf(w) \/ SameTurfUnannounced(w)
    PROVE  FreshInv'
<1>1. turfRow.status \in RowStatuses
    BY DEF FreshInv, ViewsShape
<1> QED BY <1>1, ChangeStep DEF SameTurf, SameTurfUnannounced

LEMMA SameProfileStep ==
    ASSUME FreshInv, NEW w \in Writers, SameProfile(w) \/ SameProfileUnannounced(w)
    PROVE  FreshInv'
<1>1. ProfileKeys \in KeyLists /\ <<>> \in KeyLists
    BY DEF KeyLists
<1> QED BY <1>1, ProfileStep DEF SameProfile, SameProfileUnannounced

LEMMA WriteStep ==
    ASSUME FreshInv, NoPage, NEW w \in Writers, Write(w) PROVE FreshInv'
<1>0. "ACTIVE" \in RowStatuses /\ "INACTIVE" \in RowStatuses /\ "MAINTENANCE" \in RowStatuses
      /\ TurfStatuses \subseteq RowStatuses /\ FALSE \in BOOLEAN /\ TRUE \in BOOLEAN
      /\ TurfKeys \in KeyLists /\ Tail(TurfKeys) \in KeyLists
    BY DEF RowStatuses, TurfStatuses, KeyLists
<1>1. CASE CreateTurf(w)
    BY <1>0, <1>1, TurfStep DEF CreateTurf, NoPage
<1>2. CASE RemoveTurf(w)
    BY <1>0, <1>2, TurfStep DEF RemoveTurf
<1>3. CASE \E s \in TurfStatuses : ChangeTurf(w, s) \/ ChangeTurfUnannounced(w, s)
    BY <1>0, <1>3, ChangeStep
<1>4. CASE ChangeTurfUnannounced(w, "INACTIVE") \/ ChangeTurfUnannounced(w, "MAINTENANCE")
    BY <1>0, <1>4, ChangeStep
<1>5. CASE SameTurf(w) \/ SameTurfUnannounced(w)
    BY <1>5, SameStep
<1>6. CASE SameProfile(w) \/ SameProfileUnannounced(w)
    BY <1>6, SameProfileStep
<1> QED BY <1>1, <1>2, <1>3, <1>4, <1>5, <1>6
     DEF Write, UpdateTurf, UpdateTurfStatus, UploadTurfImage, DeleteTurfImage, UploadTurfVideo,
         UpdateTurfSettings, UpdateCancellationPolicy, AdminUpdateTurfStatus, FeatureTurf,
         UnfeatureTurf, SetTurfMaintenance, NormalizeOwnerTurfStatuses, CreateProfile,
         UpdateHomeAddress, UpdateProfile, UploadUserProfileImage, DeleteUserProfileImage,
         UpdateAvatar, SavePaymentDetails, ChangeAccount

LEMMA DeleteKeyStep ==
    ASSUME FreshInv, NEW w \in Writers, DeleteKey(w) \/ DeleteFails(w) PROVE FreshInv'
<1>1. /\ writing \in [Writers -> Seq(Keys)] /\ writing[w] # <<>> /\ writing[w] \in Seq(Keys)
      /\ \A x \in Writers : Len(writing[x]) <= 3
    BY DEF FreshInv, ViewsShape, DeleteKey, DeleteFails
<1>2. /\ Tail(writing[w]) \in Seq(Keys) /\ Len(Tail(writing[w])) = Len(writing[w]) - 1
      /\ \A i \in 1 .. Len(Tail(writing[w])) : Tail(writing[w])[i] = writing[w][i + 1]
      /\ Head(writing[w]) = writing[w][1]
    BY <1>1, HeadTailProperties
<1> DEFINE rest == Tail(writing[w])
           head == Head(writing[w])
<1>3. /\ writing' = [writing EXCEPT ![w] = rest]
      /\ UNCHANGED <<turfRow, profileRow, filling, watched>>
      /\ view' \in {[v \in Views |-> IF v = head THEN Absent ELSE view[v]],
                    [v \in Views |-> IF v = head THEN Overtaken(view[v]) ELSE view[v]]}
    BY DEF DeleteKey, DeleteFails
<1>4. writing' \in [Writers -> Seq(Keys)] /\ \A x \in Writers : Len(writing'[x]) <= 3
    BY <1>1, <1>2, <1>3
<1>5. view' \in [Views -> Copies \cup {Absent}]
    BY <1>3, OvertakenCopy DEF FreshInv, ViewsShape
<1>6. FreshFills'
    BY <1>3 DEF FreshInv, FreshFills, Shows, VersionFor
<1>7. FreshCopies'
    <2> SUFFICES ASSUME NEW u \in Views, u \in DeletedViews, NEW copy, copy = view'[u],
                        copy # Absent, ~copy.late, ~ToDelete(u)'
                 PROVE  Shows(u, copy)'
        BY DEF FreshCopies, DeletedViews
    <2>1. u # head /\ copy = view[u]
        BY <1>3, OvertakenCopy DEF FreshInv, ViewsShape
    <2>2. ASSUME NEW x \in Writers, NEW i \in 1 .. 3, i \in DOMAIN writing[x], writing[x][i] = u
          PROVE  FALSE
        <3>1. CASE x # w
            BY <1>1, <1>3, <2>2, <3>1 DEF ToDelete
        <3>2. CASE x = w
            <4>1. i \in 1 .. Len(writing[w]) /\ i # 1
                BY <1>1, <1>2, <2>1, <2>2, <3>2
            <4>2. i - 1 \in 1 .. Len(rest) /\ rest[i - 1] = u
                BY <1>1, <1>2, <2>2, <3>2, <4>1
            <4>3. writing'[w] = rest /\ i - 1 \in DOMAIN rest /\ i - 1 \in 1 .. 3
                BY <1>1, <1>2, <1>3, <4>1, <4>2
            <4> QED BY <4>2, <4>3 DEF ToDelete
        <3> QED BY <3>1, <3>2
    <2>3. Shows(u, copy)
        BY <2>1, <2>2 DEF FreshInv, FreshCopies, ToDelete
    <2> QED BY <1>3, <2>3 DEF Shows, VersionFor
<1> QED BY <1>3, <1>4, <1>5, <1>6, <1>7 DEF FreshInv, ViewsShape

LEMMA DiesStep ==
    ASSUME FreshInv, NEW w \in Writers, WriterDies(w) PROVE FreshInv'
<1>1. /\ writing \in [Writers -> Seq(Keys)] /\ view \in [Views -> Copies \cup {Absent}]
      /\ \A x \in Writers : Len(writing[x]) <= 3
    BY DEF FreshInv, ViewsShape
<1>2. writing' = [writing EXCEPT ![w] = <<>>] /\ UNCHANGED <<turfRow, profileRow, filling, watched>>
    BY DEF WriterDies
<1>3. \A u \in Views : view'[u] = IF \E i \in DOMAIN writing[w] : writing[w][i] = u
                                  THEN Overtaken(view[u]) ELSE view[u]
    BY DEF WriterDies
<1>4. view' \in [Views -> Copies \cup {Absent}]
    BY <1>1, OvertakenCopy DEF WriterDies
<1>5. writing' \in [Writers -> Seq(Keys)] /\ \A x \in Writers : Len(writing'[x]) <= 3
    BY <1>1, <1>2
<1>6. FreshFills'
    BY <1>2 DEF FreshInv, FreshFills, Shows, VersionFor
<1>7. FreshCopies'
    <2> SUFFICES ASSUME NEW u \in Views, u \in DeletedViews, NEW copy, copy = view'[u],
                        copy # Absent, ~copy.late, ~ToDelete(u)'
                 PROVE  Shows(u, copy)'
        BY DEF FreshCopies, DeletedViews
    <2>1. /\ \A i \in DOMAIN writing[w] : writing[w][i] # u
          /\ copy = view[u]
        BY <1>1, <1>3, OvertakenCopy
    <2>2. ~ToDelete(u)
        BY <1>1, <1>2, <2>1 DEF ToDelete
    <2>3. Shows(u, copy)
        BY <2>1, <2>2 DEF FreshInv, FreshCopies
    <2> QED BY <1>2, <2>3 DEF Shows, VersionFor
<1> QED BY <1>2, <1>4, <1>5, <1>6, <1>7 DEF FreshInv, ViewsShape

LEMMA NoPageStep ==
    ASSUME ViewsInv, ViewsNext PROVE NoPage'
<1> SUFFICES ASSUME turfRow'.status = "NONE"
             PROVE  view'["turf"] = Absent /\ \A p \in Servers : filling'[p]["turf"].at # "store"
    BY DEF NoPage
<1>0. /\ "turf" \in Views /\ "turf" \in TurfViews /\ "turf" \notin ProfileViews
      /\ view \in [Views -> Copies \cup {Absent}] /\ filling \in [Servers -> [Views -> Filled]]
    BY DEF Views, TurfViews, ProfileViews, ViewsInv, FreshInv, ViewsShape
<1>1. ASSUME NEW q \in Servers, NEW v \in Views,
             MissView(q, v) \/ ReadView(q, v) \/ StoreView(q, v) \/ FillFails(q, v)
      PROVE  view'["turf"] = Absent /\ \A p \in Servers : filling'[p]["turf"].at # "store"
  <2>1. view["turf"] = Absent /\ \A p \in Servers : filling[p]["turf"].at # "store"
      BY <1>1 DEF ViewsInv, NoPage, MissView, ReadView, StoreView, FillFails
  <2>2. turfRow.status = "NONE"
      BY <1>1 DEF MissView, ReadView, StoreView, FillFails
  <2>3. CASE v # "turf"
    <3>1. view'["turf"] = view["turf"]
        BY <1>0, <1>1, <2>3 DEF MissView, ReadView, StoreView, FillFails
    <3>2. \A p \in Servers : filling'[p]["turf"] = filling[p]["turf"]
        BY <1>0, <1>1, <2>3 DEF MissView, ReadView, StoreView, FillFails
    <3> QED BY <2>1, <3>1, <3>2
  <2>4. CASE v = "turf"
    <3>1. UNCHANGED view /\ (MissView(q, v) \/ FillFails(q, v))
        BY <1>1, <2>1, <2>2, <2>4 DEF MissView, ReadView, StoreView, FillFails
    <3>2. \A p \in Servers : filling'[p]["turf"].at # "store"
      <4> SUFFICES ASSUME NEW p \in Servers PROVE filling'[p]["turf"].at # "store"
          OBVIOUS
      <4>1. filling[p]["turf"] \in Filled
          BY <1>0
      <4>2. \/ filling' = [filling EXCEPT ![q]["turf"].at = "read"]
            \/ filling' = [filling EXCEPT ![q]["turf"] = NoFill]
          BY <2>4, <3>1 DEF MissView, FillFails
      <4>3. NoFill.at # "store"
          BY DEF NoFill
      <4>4. filling[p]["turf"].at # "store"
          BY <2>1
      <4>5. CASE filling' = [filling EXCEPT ![q]["turf"].at = "read"]
          BY <1>0, <4>1, <4>4, <4>5 DEF Filled
      <4>6. CASE filling' = [filling EXCEPT ![q]["turf"] = NoFill]
          BY <1>0, <4>3, <4>4, <4>6
      <4> QED BY <4>2, <4>5, <4>6
    <3> QED BY <2>1, <3>1, <3>2
  <2> QED BY <2>3, <2>4
<1>2. ASSUME NEW v \in Views, DropView(v)
      PROVE  view'["turf"] = Absent /\ \A p \in Servers : filling'[p]["turf"].at # "store"
    BY <1>0, <1>2 DEF DropView, ViewsInv, NoPage
<1>3. ASSUME NEW w \in Writers, DeleteKey(w) \/ DeleteFails(w) \/ WriterDies(w)
      PROVE  view'["turf"] = Absent /\ \A p \in Servers : filling'[p]["turf"].at # "store"
  <2>1. UNCHANGED <<turfRow, filling>> /\ view'["turf"] \in {Absent, view["turf"], Overtaken(view["turf"])}
      BY <1>0, <1>3 DEF DeleteKey, DeleteFails, WriterDies
  <2> QED BY <2>1 DEF ViewsInv, NoPage, Overtaken
<1>4. ASSUME NEW w \in Writers, Write(w)
      PROVE  view'["turf"] = Absent /\ \A p \in Servers : filling'[p]["turf"].at # "store"
  <2>1. ASSUME NEW keys, NEW status, NEW deleted, WroteTurf(w, status, deleted, keys) PROVE status = "NONE"
      BY <2>1 DEF WroteTurf
  <2>2. /\ "ACTIVE" # "NONE" /\ "INACTIVE" # "NONE" /\ "MAINTENANCE" # "NONE" /\ "NONE" \notin TurfStatuses
      BY DEF TurfStatuses
  <2>3. ~CreateTurf(w) /\ ~RemoveTurf(w)
      BY <2>1, <2>2 DEF CreateTurf, RemoveTurf
  <2>4. ASSUME NEW s, ChangeTurf(w, s) \/ ChangeTurfUnannounced(w, s) PROVE s = "NONE" /\ turfRow.status # "NONE"
      BY <2>1, <2>4 DEF ChangeTurf, ChangeTurfUnannounced
  <2>5. ~SameTurf(w) /\ ~SameTurfUnannounced(w)
      BY <2>4 DEF SameTurf, SameTurfUnannounced
  <2>6. /\ \A s \in TurfStatuses : ~ChangeTurf(w, s) /\ ~ChangeTurfUnannounced(w, s)
        /\ ~ChangeTurfUnannounced(w, "INACTIVE") /\ ~ChangeTurfUnannounced(w, "MAINTENANCE")
      BY <2>2, <2>4
  <2>7. SameProfile(w) \/ SameProfileUnannounced(w)
      BY <1>4, <2>3, <2>5, <2>6
      DEF Write, UpdateTurf, UpdateTurfStatus, UploadTurfImage, DeleteTurfImage, UploadTurfVideo,
          UpdateTurfSettings, UpdateCancellationPolicy, AdminUpdateTurfStatus, FeatureTurf,
          UnfeatureTurf, SetTurfMaintenance, NormalizeOwnerTurfStatuses, CreateProfile,
          UpdateHomeAddress, UpdateProfile, UploadUserProfileImage, DeleteUserProfileImage,
          UpdateAvatar, SavePaymentDetails, ChangeAccount
  <2>8. /\ UNCHANGED turfRow
        /\ view' = view \/ Unannounced(ProfileViews)
        /\ filling' = [p \in Servers |-> [v \in Views |->
                         IF v \in ProfileViews THEN [filling[p][v] EXCEPT !.copy = Overtaken(@)]
                         ELSE filling[p][v]]]
      BY <2>7 DEF SameProfile, SameProfileUnannounced, WroteProfile, Wrote
  <2>9. view'["turf"] = view["turf"] /\ \A p \in Servers : filling'[p]["turf"] = filling[p]["turf"]
      BY <1>0, <2>8 DEF Unannounced
  <2> QED BY <2>8, <2>9 DEF ViewsInv, NoPage
<1> QED BY <1>1, <1>2, <1>3, <1>4 DEF ViewsInv, ViewsNext

LEMMA ViewsStart ==
    ASSUME ViewsInit PROVE ViewsInv
<1>1. NoFill \in Filled /\ NoFill.at = "none"
    BY DEF NoFill, Filled
<1>2. ViewsShape
    <2>1. filling \in [Servers -> [Views -> Filled]]
        BY <1>1 DEF ViewsInit
    <2>2. writing \in [Writers -> Seq(Keys)] /\ \A w \in Writers : Len(writing[w]) <= 3
        BY DEF ViewsInit
    <2>3. turfRow \in [status : RowStatuses, deleted : BOOLEAN, version : 0 .. MaxVersion]
          /\ profileRow \in 0 .. MaxVersion
        <3>1. 0 \in 0 .. MaxVersion
            BY ViewsAssumption
        <3>2. "NONE" \in RowStatuses /\ "ACTIVE" \in RowStatuses
            BY DEF RowStatuses, TurfStatuses
        <3> QED BY <3>1, <3>2 DEF ViewsInit
    <2> QED BY <2>1, <2>2, <2>3, ViewsAssumption DEF ViewsInit, ViewsShape
<1>3. NoPage
    BY <1>1 DEF ViewsInit, NoPage, Views, TurfViews
<1> QED BY <1>1, <1>2, <1>3 DEF ViewsInit, ViewsInv, FreshInv, FreshFills, FreshCopies

\* The views' shape, and the freshness of what is stored and of what is about to be.
THEOREM ViewsInvariant == ViewsSpec => []ViewsInv
<1>1. ViewsInit => ViewsInv
    BY ViewsStart
<1>2. ViewsInv /\ [ViewsNext]_viewVars => ViewsInv'
    <2>1. ASSUME ViewsInv, ViewsNext PROVE ViewsInv'
        <3>0. FreshInv /\ NoPage /\ NoPage'
            BY <2>1, NoPageStep DEF ViewsInv
        <3>1. CASE \E q \in Servers, v \in Views :
                      MissView(q, v) \/ ReadView(q, v) \/ StoreView(q, v) \/ FillFails(q, v)
            BY <3>0, <3>1, MissStep, ViewReadStep, StoreStep, FailStep DEF ViewsInv
        <3>2. CASE \E v \in Views : DropView(v)
            BY <3>0, <3>2, DropStep DEF ViewsInv
        <3>3. CASE \E w \in Writers : Write(w) \/ DeleteKey(w) \/ DeleteFails(w) \/ WriterDies(w)
            BY <3>0, <3>3, WriteStep, DeleteKeyStep, DiesStep DEF ViewsInv
        <3> QED BY <2>1, <3>1, <3>2, <3>3 DEF ViewsNext
    <2>2. ASSUME ViewsInv, UNCHANGED viewVars PROVE ViewsInv'
        BY <2>2 DEF viewVars, ViewsInv, FreshInv, NoPage, ViewsShape, FreshFills, FreshCopies, ToDelete, Shows,
                    VersionFor
    <2> QED BY <2>1, <2>2
<1> QED BY <1>1, <1>2, PTL DEF ViewsSpec

\* Whatever readers, writers and failures interleave, in any number of processes, a stored view
\* that no writer is still to delete says what its row says (getOrSet and the writers'
\* invalidate calls), unless it is late: read before a write and stored after it, or left by a
\* writer that deletes nothing or failed.  The list of all turfs, whose key nobody deletes, is
\* not among these views.
THEOREM ViewsAreFresh == ViewsSpec => []FreshViews
<1>1. ViewsInv => FreshViews
    BY DEF ViewsInv, FreshInv, FreshCopies, FreshViews, Shows, DeletedViews
<1> QED BY <1>1, ViewsInvariant, PTL

----------------------------------------------------------------------------
(* PushDevices.  A registration that runs alone has switched off the        *)
(* device's other tokens by the time it writes its own row.                 *)

PushEntry == [at : {"idle", "replace", "upsert", "legacy"}, account : Accounts \cup {NoDevice},
              token : Tokens \cup {NoToken}, device : Devices \cup {NoDevice}, alone : BOOLEAN]
DeviceRow == [active : BOOLEAN, device : Devices \cup {NoDevice}]

Placed(k) ==
    /\ k.at # "idle" => k.account \in Accounts /\ k.token \in Tokens
    /\ k.at = "legacy" => k.token \in ExpoTokens

PushShape ==
    /\ device \in [Accounts -> [Tokens -> DeviceRow]]
    /\ legacy \in [Accounts -> ExpoTokens \cup {NoToken}]
    /\ pushCall \in [PushCalls -> PushEntry]
    /\ \A c \in PushCalls : Placed(pushCall[c])
    /\ push \in [Sends -> [at : {"idle", "asked"}, tokens : SUBSET Tokens]]
    /\ dead \subseteq Tokens
    /\ raced \subseteq Accounts \X Devices

\* A registration that is alone is the only one of its device.
AloneIsAlone ==
    \A c, e \in PushCalls, a \in Accounts, d \in Devices :
        SameDevice(c, a, d) /\ SameDevice(e, a, d) /\ pushCall[c].alone => c = e

\* When it comes to its row the device has no other token.
OthersReplaced ==
    \A c \in PushCalls, a \in Accounts, d \in Devices :
        pushCall[c].at = "upsert" /\ SameDevice(c, a, d) /\ pushCall[c].alone
            => OnDevice(a, d) \subseteq {pushCall[c].token}

OneUnlessRaced ==
    \A a \in Accounts, d \in Devices :
        <<a, d>> \notin raced => \A t, u \in OnDevice(a, d) : t = u

PushInv == PushShape /\ AloneIsAlone /\ OthersReplaced /\ OneUnlessRaced

----------------------------------------------------------------------------
LEMMA CallFields ==
    ASSUME PushShape, NEW c \in PushCalls
    PROVE  /\ pushCall[c] \in PushEntry /\ Placed(pushCall[c])
           /\ IdlePush \in PushEntry /\ IdlePush.at = "idle" /\ Placed(IdlePush)
BY DEF PushShape, PushEntry, IdlePush, Placed

\* A registration goes on or ends: its entry is replaced.
Steps(c, k) ==
    /\ pushCall' = [pushCall EXCEPT ![c] = k]
    /\ k \in PushEntry /\ Placed(k)
    /\ pushCall[c].at # "idle"
    /\ k.at # "idle" => /\ k.account = pushCall[c].account /\ k.device = pushCall[c].device
                        /\ k.token = pushCall[c].token /\ k.alone = pushCall[c].alone

LEMMA StepsShape ==
    ASSUME PushInv, NEW c \in PushCalls, NEW k, Steps(c, k)
    PROVE  /\ pushCall' \in [PushCalls -> PushEntry]
           /\ \A e \in PushCalls : Placed(pushCall[e])'
           /\ \A e \in PushCalls : pushCall'[e] = IF e = c THEN k ELSE pushCall[e]
           /\ AloneIsAlone'
           /\ \A e \in PushCalls : \A a, d : SameDevice(e, a, d)' => SameDevice(e, a, d)
<1>1. pushCall \in [PushCalls -> PushEntry] /\ \A e \in PushCalls : Placed(pushCall[e])
    BY DEF PushInv, PushShape
<1>2. /\ pushCall' \in [PushCalls -> PushEntry]
      /\ \A e \in PushCalls : pushCall'[e] = IF e = c THEN k ELSE pushCall[e]
    BY <1>1 DEF Steps
<1>3. \A e \in PushCalls : Placed(pushCall[e])'
    BY <1>1, <1>2 DEF Steps, Placed
<1>4. \A e \in PushCalls : \A a, d : SameDevice(e, a, d)' => SameDevice(e, a, d)
    BY <1>2 DEF Steps, SameDevice
<1>5. AloneIsAlone'
    BY <1>2, <1>4 DEF Steps, SameDevice, AloneIsAlone, PushInv
<1> QED BY <1>2, <1>3, <1>4, <1>5

\* Nothing is switched on.
LEMMA SwitchedOff ==
    ASSUME PushInv, NEW a \in Accounts, NEW d \in Devices,
           \A t \in Tokens : device'[a][t] = device[a][t] \/ device'[a][t].active = FALSE
                             \/ device'[a][t].device = NoDevice
    PROVE  OnDevice(a, d)' \subseteq OnDevice(a, d)
BY PushAssumption DEF OnDevice

\* A step after which no device has a token it did not have.
LEMMA PushQuiet ==
    ASSUME PushInv, PushShape', AloneIsAlone', raced' = raced,
           \A a \in Accounts, d \in Devices : OnDevice(a, d)' \subseteq OnDevice(a, d),
           \A c \in PushCalls, a \in Accounts, d \in Devices :
               (pushCall[c].at = "upsert" /\ SameDevice(c, a, d) /\ pushCall[c].alone)'
                  => /\ SameDevice(c, a, d) /\ pushCall[c].at = "upsert" /\ pushCall[c].alone
                     /\ pushCall'[c].token = pushCall[c].token
    PROVE  PushInv'
<1>1. ASSUME NEW c \in PushCalls, NEW a \in Accounts, NEW d \in Devices,
             (pushCall[c].at = "upsert" /\ SameDevice(c, a, d) /\ pushCall[c].alone)'
      PROVE  OnDevice(a, d)' \subseteq {pushCall'[c].token}
    <2>1. OnDevice(a, d) \subseteq {pushCall[c].token} /\ pushCall'[c].token = pushCall[c].token
        BY <1>1 DEF PushInv, OthersReplaced
    <2> QED BY <2>1
<1>2. OthersReplaced'
    BY <1>1 DEF OthersReplaced
<1>3. OneUnlessRaced'
    BY DEF PushInv, OneUnlessRaced
<1> QED BY <1>2, <1>3 DEF PushInv

LEMMA RegisterStep ==
    ASSUME PushInv, NEW c \in PushCalls, Registers(c) PROVE PushInv'
<1>1. PICK a0 \in Accounts, t0 \in Tokens \ dead, d0 \in Devices \cup {NoDevice} :
         LET others == {e \in PushCalls : SameDevice(e, a0, d0)}
         IN  pushCall' = [e \in PushCalls |->
                IF e = c THEN [at |-> IF d0 = NoDevice THEN "upsert" ELSE "replace",
                               account |-> a0, token |-> t0, device |-> d0, alone |-> others = {}]
                ELSE IF e \in others THEN [pushCall[e] EXCEPT !.alone = FALSE] ELSE pushCall[e]]
    BY DEF Registers
<1> DEFINE others == {e \in PushCalls : SameDevice(e, a0, d0)}
           k == [at |-> IF d0 = NoDevice THEN "upsert" ELSE "replace",
                 account |-> a0, token |-> t0, device |-> d0, alone |-> others = {}]
<1>2. UNCHANGED <<device, legacy, push, dead, raced>> /\ pushCall[c].at = "idle"
    BY DEF Registers
<1>3. k \in PushEntry /\ k.at # "idle" /\ k.at # "legacy" /\ (k.at = "upsert" => d0 = NoDevice)
      /\ k.account = a0 /\ k.token = t0 /\ k.device = d0 /\ (k.alone <=> others = {})
    BY DEF PushEntry
<1>4. \A e \in PushCalls :
         pushCall'[e] = IF e = c THEN k
                        ELSE IF e \in others THEN [pushCall[e] EXCEPT !.alone = FALSE] ELSE pushCall[e]
    BY <1>1
<1> HIDE DEF k
<1>5. ASSUME NEW e \in PushCalls, e # c
      PROVE  /\ pushCall'[e] \in PushEntry
             /\ pushCall'[e].at = pushCall[e].at /\ pushCall'[e].account = pushCall[e].account
             /\ pushCall'[e].token = pushCall[e].token /\ pushCall'[e].device = pushCall[e].device
             /\ pushCall'[e].alone => pushCall[e].alone /\ e \notin others
    <2>1. pushCall[e] \in PushEntry
        BY CallFields DEF PushInv
    <2>2. CASE e \in others
        <3>1. pushCall'[e] = [pushCall[e] EXCEPT !.alone = FALSE]
            BY <1>4, <1>5, <2>2
        <3> QED BY <2>1, <3>1 DEF PushEntry
    <2>3. CASE e \notin others
        <3>1. pushCall'[e] = pushCall[e]
            BY <1>4, <1>5, <2>3
        <3> QED BY <2>1, <2>3, <3>1
    <2> QED BY <2>2, <2>3
<1>6. pushCall'[c] = k
    BY <1>4
<1>7. pushCall' \in [PushCalls -> PushEntry]
    <2>1. DOMAIN pushCall' = PushCalls /\ pushCall' = [e \in PushCalls |-> pushCall'[e]]
        BY <1>1
    <2>2. \A e \in PushCalls : pushCall'[e] \in PushEntry
        BY <1>3, <1>5, <1>6
    <2> QED BY <2>1, <2>2
<1>8. \A e \in PushCalls : Placed(pushCall[e])'
    <2> SUFFICES ASSUME NEW e \in PushCalls PROVE Placed(pushCall[e])'
        OBVIOUS
    <2>1. CASE e = c
        BY <1>3, <1>6, <2>1 DEF Placed
    <2>2. CASE e # c
        BY <1>5, <2>2 DEF Placed, PushInv, PushShape
    <2> QED BY <2>1, <2>2
<1>9. PushShape'
    BY <1>2, <1>7, <1>8 DEF PushInv, PushShape
<1>10. AloneIsAlone'
    <2> SUFFICES ASSUME NEW x \in PushCalls, NEW e \in PushCalls, NEW a \in Accounts, NEW d \in Devices,
                        SameDevice(x, a, d)', SameDevice(e, a, d)', pushCall'[x].alone
                 PROVE  x = e
        BY DEF AloneIsAlone
    <2>1. CASE x = c /\ e # c
        BY <1>3, <1>5, <1>6, <2>1 DEF SameDevice
    <2>2. CASE x # c /\ e = c
        BY <1>3, <1>5, <1>6, <2>2 DEF SameDevice
    <2>3. CASE x # c /\ e # c
        BY <1>5, <2>3 DEF SameDevice, PushInv, AloneIsAlone
    <2> QED BY <2>1, <2>2, <2>3
<1>11. \A a \in Accounts, d \in Devices : OnDevice(a, d)' \subseteq OnDevice(a, d)
    BY <1>2 DEF OnDevice
<1>12. ASSUME NEW e \in PushCalls, NEW a \in Accounts, NEW d \in Devices,
              (pushCall[e].at = "upsert" /\ SameDevice(e, a, d) /\ pushCall[e].alone)'
       PROVE  /\ SameDevice(e, a, d) /\ pushCall[e].at = "upsert" /\ pushCall[e].alone
              /\ pushCall'[e].token = pushCall[e].token
    <2>1. e # c
        BY <1>3, <1>6, <1>12, PushAssumption DEF SameDevice
    <2> QED BY <1>5, <1>12, <2>1 DEF SameDevice
<1> QED BY <1>2, <1>9, <1>10, <1>11, <1>12, PushQuiet

LEMMA ReplaceStep ==
    ASSUME PushInv, NEW c \in PushCalls, ReplaceTokens(c) PROVE PushInv'
<1> DEFINE k == pushCall[c]
           going == [pushCall[c] EXCEPT !.at = "upsert"]
<1>1. /\ k.at = "replace" /\ k \in PushEntry /\ k.account \in Accounts /\ k.token \in Tokens
      /\ UNCHANGED <<legacy, push, dead, raced>>
      /\ pushCall' = [pushCall EXCEPT ![c] = going]
    BY CallFields DEF ReplaceTokens, PushInv, Placed
<1>2. /\ going \in PushEntry /\ going.at = "upsert" /\ going.account = k.account
      /\ going.device = k.device /\ going.token = k.token /\ going.alone = k.alone
    BY <1>1 DEF PushEntry
<1> HIDE DEF going
<1>3. Steps(c, going)
    BY <1>1, <1>2 DEF Steps, Placed
<1>4. /\ device \in [Accounts -> [Tokens -> DeviceRow]]
      /\ device' = [device EXCEPT ![k.account] = [t \in Tokens |->
                       IF device[k.account][t].device = k.device /\ t # k.token
                       THEN [device[k.account][t] EXCEPT !.active = FALSE] ELSE device[k.account][t]]]
    BY <1>1 DEF PushInv, PushShape, ReplaceTokens
<1>5. \A a \in Accounts, t \in Tokens :
         device'[a][t] = IF a = k.account /\ device[a][t].device = k.device /\ t # k.token
                         THEN [device[a][t] EXCEPT !.active = FALSE] ELSE device[a][t]
    BY <1>1, <1>4
<1>6. \A a \in Accounts, t \in Tokens :
         /\ device[a][t] \in DeviceRow
         /\ [device[a][t] EXCEPT !.active = FALSE] \in DeviceRow
         /\ [device[a][t] EXCEPT !.active = FALSE].active = FALSE
    <2>1. \A a \in Accounts, t \in Tokens : device[a][t] \in DeviceRow
        BY <1>4
    <2>2. \A r \in DeviceRow : [r EXCEPT !.active = FALSE] \in DeviceRow /\ [r EXCEPT !.active = FALSE].active = FALSE
        BY DEF DeviceRow
    <2> QED BY <2>1, <2>2
<1>7. device' \in [Accounts -> [Tokens -> DeviceRow]]
    <2> DEFINE rows == [t \in Tokens |-> IF device[k.account][t].device = k.device /\ t # k.token
                                         THEN [device[k.account][t] EXCEPT !.active = FALSE]
                                         ELSE device[k.account][t]]
    <2>1. rows \in [Tokens -> DeviceRow]
        BY <1>1, <1>6
    <2>2. device' = [device EXCEPT ![k.account] = rows]
        BY <1>4
    <2> HIDE DEF rows
    <2> QED BY <1>4, <2>1, <2>2
<1>8. PushShape' /\ AloneIsAlone'
    BY <1>1, <1>3, <1>7, StepsShape DEF PushInv, PushShape
<1>9. \A a \in Accounts, d \in Devices : OnDevice(a, d)' \subseteq OnDevice(a, d)
    <2>1. \A a \in Accounts, t \in Tokens :
             device'[a][t] = device[a][t] \/ device'[a][t].active = FALSE
        BY <1>5, <1>6 DEF DeviceRow
    <2> QED BY <2>1 DEF OnDevice
<1>10. OneUnlessRaced'
    BY <1>1, <1>9 DEF PushInv, OneUnlessRaced
<1>11. OthersReplaced'
    <2> SUFFICES ASSUME NEW e \in PushCalls, NEW a \in Accounts, NEW d \in Devices,
                        (pushCall[e].at = "upsert" /\ SameDevice(e, a, d) /\ pushCall[e].alone)'
                 PROVE  OnDevice(a, d)' \subseteq {pushCall'[e].token}
        BY DEF OthersReplaced
    <2>1. CASE e = c
        <3>1. a = k.account /\ d = k.device /\ pushCall'[e].token = k.token
            BY <1>2, <1>3, <2>1, StepsShape DEF SameDevice
        <3>2. ASSUME NEW t \in Tokens \ {k.token}, device[a][t].device = d PROVE device'[a][t].active = FALSE
            <4>1. device'[a][t] = [device[a][t] EXCEPT !.active = FALSE]
                BY <1>5, <3>1, <3>2
            <4> QED BY <1>6, <4>1
        <3>3. \A t \in Tokens \ {k.token} : device[a][t].device # d => device'[a][t].device # d
            BY <1>5, <1>6, <3>1
        <3> QED BY <3>1, <3>2, <3>3 DEF OnDevice
    <2>2. CASE e # c
        <3>1. pushCall'[e] = pushCall[e]
            BY <1>3, <2>2, StepsShape
        <3>2. OnDevice(a, d) \subseteq {pushCall[e].token}
            BY <3>1 DEF SameDevice, PushInv, OthersReplaced
        <3> QED BY <1>9, <3>1, <3>2
    <2> QED BY <2>1, <2>2
<1> QED BY <1>8, <1>10, <1>11 DEF PushInv

LEMMA UpsertStep ==
    ASSUME PushInv, NEW c \in PushCalls, UpsertToken(c) PROVE PushInv'
<1> DEFINE k == pushCall[c]
           pair == <<k.account, k.device>>
           going == IF k.token \in ExpoTokens THEN [k EXCEPT !.at = "legacy"] ELSE IdlePush
<1>1. /\ k.at = "upsert" /\ k \in PushEntry /\ k.account \in Accounts /\ k.token \in Tokens
      /\ UNCHANGED <<legacy, push, dead>>
      /\ pushCall' = [pushCall EXCEPT ![c] = going]
      /\ raced' = IF k.device = NoDevice THEN raced ELSE IF k.alone THEN raced \ {pair} ELSE raced \cup {pair}
      /\ device' = [device EXCEPT ![k.account][k.token] = Row(TRUE, k.device)]
    BY CallFields DEF UpsertToken, PushInv, Placed, PushShape
<1>2. /\ going \in PushEntry /\ going.at \in {"idle", "legacy"} /\ Placed(going)
      /\ going.at # "idle" => /\ going.account = k.account /\ going.device = k.device
                              /\ going.token = k.token /\ going.alone = k.alone
    <2>1. CASE k.token \in ExpoTokens
        BY <1>1, <2>1 DEF PushEntry, Placed
    <2>2. CASE k.token \notin ExpoTokens
        BY <1>1, <2>2, CallFields DEF PushInv
    <2> QED BY <2>1, <2>2
<1> HIDE DEF going
<1>3. Steps(c, going)
    BY <1>1, <1>2 DEF Steps
<1>4. /\ k.device \in Devices \cup {NoDevice} /\ Row(TRUE, k.device) \in DeviceRow
      /\ device \in [Accounts -> [Tokens -> DeviceRow]]
    BY <1>1 DEF PushEntry, Row, DeviceRow, PushInv, PushShape
<1>5. /\ device' \in [Accounts -> [Tokens -> DeviceRow]]
      /\ \A a \in Accounts, t \in Tokens :
            device'[a][t] = IF a = k.account /\ t = k.token THEN Row(TRUE, k.device) ELSE device[a][t]
    BY <1>1, <1>4
<1>6. raced' \subseteq Accounts \X Devices
    <2>1. raced \subseteq Accounts \X Devices
        BY DEF PushInv, PushShape
    <2>2. k.device # NoDevice => pair \in Accounts \X Devices
        BY <1>1, <1>4
    <2> QED BY <1>1, <2>1, <2>2
<1>7. PushShape' /\ AloneIsAlone'
    BY <1>1, <1>3, <1>5, <1>6, StepsShape DEF PushInv, PushShape
<1>8. ASSUME NEW a \in Accounts, NEW d \in Devices
      PROVE  /\ OnDevice(a, d)' \subseteq OnDevice(a, d) \cup {k.token}
             /\ a # k.account \/ d # k.device => OnDevice(a, d)' \subseteq OnDevice(a, d)
    BY <1>5 DEF OnDevice, Row
<1>9. OneUnlessRaced'
    <2> SUFFICES ASSUME NEW a \in Accounts, NEW d \in Devices, <<a, d>> \notin raced'
                 PROVE  \A t, u \in OnDevice(a, d)' : t = u
        BY DEF OneUnlessRaced
    <2>1. CASE a = k.account /\ d = k.device
        <3>1. k.alone /\ SameDevice(c, a, d)
            BY <1>1, <2>1, PushAssumption DEF SameDevice
        <3>2. OnDevice(a, d) \subseteq {k.token}
            BY <1>1, <3>1 DEF PushInv, OthersReplaced
        <3> QED BY <1>8, <3>2
    <2>2. CASE ~(a = k.account /\ d = k.device)
        <3>1. <<a, d>> \notin raced
            BY <1>1, <2>2
        <3> QED BY <1>8, <2>2, <3>1 DEF PushInv, OneUnlessRaced
    <2> QED BY <2>1, <2>2
<1>10. OthersReplaced'
    <2> SUFFICES ASSUME NEW e \in PushCalls, NEW a \in Accounts, NEW d \in Devices,
                        (pushCall[e].at = "upsert" /\ SameDevice(e, a, d) /\ pushCall[e].alone)'
                 PROVE  OnDevice(a, d)' \subseteq {pushCall'[e].token}
        BY DEF OthersReplaced
    <2>1. e # c /\ pushCall'[e] = pushCall[e]
        BY <1>2, <1>3, StepsShape
    <2>2. SameDevice(e, a, d) /\ pushCall[e].at = "upsert" /\ pushCall[e].alone
        BY <2>1 DEF SameDevice
    <2>3. a # k.account \/ d # k.device
        <3> SUFFICES ASSUME a = k.account, d = k.device PROVE FALSE
            OBVIOUS
        <3>1. SameDevice(c, a, d)
            BY <1>1 DEF SameDevice
        <3> QED BY <2>1, <2>2, <3>1 DEF PushInv, AloneIsAlone
    <2>4. OnDevice(a, d) \subseteq {pushCall[e].token}
        BY <2>2 DEF PushInv, OthersReplaced
    <2> QED BY <1>8, <2>1, <2>3, <2>4
<1> QED BY <1>7, <1>9, <1>10 DEF PushInv

\* The registration ends; no device's token is switched on.
LEMMA LeaveStep ==
    ASSUME PushInv, NEW c \in PushCalls, pushCall[c].at # "idle",
           pushCall' = [pushCall EXCEPT ![c] = IdlePush],
           legacy' \in [Accounts -> ExpoTokens \cup {NoToken}], UNCHANGED <<device, push, dead, raced>>
    PROVE  PushInv'
<1>1. Steps(c, IdlePush) /\ IdlePush.at = "idle"
    BY CallFields DEF Steps, PushInv
<1>2. PushShape' /\ AloneIsAlone'
    BY <1>1, StepsShape DEF PushInv, PushShape
<1>3. \A a \in Accounts, d \in Devices : OnDevice(a, d)' \subseteq OnDevice(a, d)
    BY DEF OnDevice
<1>4. ASSUME NEW e \in PushCalls, NEW a \in Accounts, NEW d \in Devices,
             (pushCall[e].at = "upsert" /\ SameDevice(e, a, d) /\ pushCall[e].alone)'
      PROVE  /\ SameDevice(e, a, d) /\ pushCall[e].at = "upsert" /\ pushCall[e].alone
             /\ pushCall'[e].token = pushCall[e].token
    <2>1. pushCall'[e] = pushCall[e]
        BY <1>1, <1>4, StepsShape
    <2> QED BY <1>4, <2>1 DEF SameDevice
<1> QED BY <1>2, <1>3, <1>4, PushQuiet

LEMMA LegacyStep ==
    ASSUME PushInv, NEW c \in PushCalls, WriteLegacy(c) PROVE PushInv'
<1>1. pushCall[c].account \in Accounts /\ pushCall[c].token \in ExpoTokens
    BY CallFields DEF PushInv, Placed, WriteLegacy
<1>2. legacy' \in [Accounts -> ExpoTokens \cup {NoToken}]
    BY <1>1 DEF PushInv, PushShape, WriteLegacy
<1> QED BY <1>2, LeaveStep DEF WriteLegacy

LEMMA FailsStep ==
    ASSUME PushInv, NEW c \in PushCalls, RegistrationFails(c) PROVE PushInv'
<1>1. legacy' \in [Accounts -> ExpoTokens \cup {NoToken}]
    BY DEF PushInv, PushShape, RegistrationFails
<1> QED BY <1>1, LeaveStep DEF RegistrationFails

\* Nothing but messages, dead tokens, and rows that are switched off.
LEMMA MessageStep ==
    ASSUME PushInv, UNCHANGED <<legacy, pushCall, raced>>, dead' \subseteq Tokens,
           push' \in [Sends -> [at : {"idle", "asked"}, tokens : SUBSET Tokens]],
           device' \in [Accounts -> [Tokens -> DeviceRow]],
           \A a \in Accounts, t \in Tokens : device'[a][t] = device[a][t] \/ device'[a][t].active = FALSE
    PROVE  PushInv'
<1>1. PushShape'
    BY DEF PushInv, PushShape, Placed
<1>2. AloneIsAlone'
    BY DEF PushInv, AloneIsAlone, SameDevice
<1>3. \A a \in Accounts, d \in Devices : OnDevice(a, d)' \subseteq OnDevice(a, d)
    BY DEF OnDevice
<1> QED BY <1>1, <1>2, <1>3, PushQuiet DEF SameDevice

LEMMA AskStep ==
    ASSUME PushInv, NEW s \in Sends, NEW tokens \in SUBSET Tokens,
           push' = [push EXCEPT ![s] = [at |-> "asked", tokens |-> tokens]],
           UNCHANGED <<device, legacy, pushCall, dead, raced>>
    PROVE  PushInv'
<1>1. push' \in [Sends -> [at : {"idle", "asked"}, tokens : SUBSET Tokens]]
    BY DEF PushInv, PushShape
<1> QED BY <1>1, MessageStep DEF PushInv, PushShape

LEMMA AskOneStep ==
    ASSUME PushInv, NEW s \in Sends, AskDevices(s) PROVE PushInv'
<1>1. PICK a \in Accounts :
         push' = [push EXCEPT ![s] = [at |-> "asked", tokens |-> Active(a) \cup ({legacy[a]} \ {NoToken})]]
    BY DEF AskDevices
<1>2. Active(a) \cup ({legacy[a]} \ {NoToken}) \in SUBSET Tokens
    BY PushAssumption DEF PushInv, PushShape, Active
<1> QED BY <1>1, <1>2, AskStep DEF AskDevices

LEMMA AskManyStep ==
    ASSUME PushInv, NEW s \in Sends, AskManyDevices(s) PROVE PushInv'
<1>1. PICK many \in SUBSET Accounts :
         push' = [push EXCEPT ![s] = [at |-> "asked", tokens |-> UNION {Active(a) : a \in many}]]
    BY DEF AskManyDevices
<1>2. UNION {Active(a) : a \in many} \in SUBSET Tokens
    BY DEF Active
<1> QED BY <1>1, <1>2, AskStep DEF AskManyDevices

LEMMA AnsweredStep ==
    ASSUME PushInv, NEW s \in Sends, Answered(s) PROVE PushInv'
<1>1. PICK bad \in Reported(push[s].tokens) : device' = Switched(bad)
    BY DEF Answered
<1>2. /\ push' = [push EXCEPT ![s] = IdleSend] /\ UNCHANGED <<legacy, pushCall, dead, raced>>
    BY DEF Answered
<1>3. push' \in [Sends -> [at : {"idle", "asked"}, tokens : SUBSET Tokens]]
    BY <1>2 DEF IdleSend, PushInv, PushShape
<1>4. \A a \in Accounts, t \in Tokens : device[a][t] \in DeviceRow
    BY DEF PushInv, PushShape
<1>5. \A a \in Accounts, t \in Tokens :
         device'[a][t] = IF t \in bad THEN [device[a][t] EXCEPT !.active = FALSE] ELSE device[a][t]
    BY <1>1 DEF Switched
<1>6. \A a \in Accounts, t \in Tokens :
         /\ [device[a][t] EXCEPT !.active = FALSE] \in DeviceRow
         /\ [device[a][t] EXCEPT !.active = FALSE].active = FALSE
    BY <1>4 DEF DeviceRow
<1>7. device' \in [Accounts -> [Tokens -> DeviceRow]]
    BY <1>1, <1>4, <1>6 DEF Switched
<1>8. \A a \in Accounts, t \in Tokens : device'[a][t] = device[a][t] \/ device'[a][t].active = FALSE
    BY <1>5, <1>6
<1> QED BY <1>2, <1>3, <1>7, <1>8, MessageStep DEF PushInv, PushShape

LEMMA DeathStep ==
    ASSUME PushInv, NEW t \in Tokens, TokenDies(t) PROVE PushInv'
BY MessageStep DEF TokenDies, PushInv, PushShape

LEMMA PushStart == ASSUME PushInit PROVE PushInv
<1>1. /\ NoDeviceRow \in DeviceRow /\ NoDeviceRow.active = FALSE
      /\ IdlePush \in PushEntry /\ IdlePush.at = "idle" /\ Placed(IdlePush)
      /\ IdleSend \in [at : {"idle", "asked"}, tokens : SUBSET Tokens]
    BY DEF NoDeviceRow, DeviceRow, IdlePush, PushEntry, Placed, IdleSend
<1>2. PushShape
    BY <1>1 DEF PushInit, PushShape
<1> QED BY <1>1, <1>2 DEF PushInit, PushInv, AloneIsAlone, OthersReplaced, OneUnlessRaced, SameDevice, OnDevice

\* What holds of registrations and rows.
THEOREM PushInvariant == PushSpec => []PushInv
<1>1. PushInit => PushInv
    BY PushStart
<1>2. PushInv /\ [PushNext]_pushVars => PushInv'
    <2>1. ASSUME PushInv, PushNext PROVE PushInv'
        <3>1. CASE \E c \in PushCalls : Registers(c) \/ ReplaceTokens(c) \/ UpsertToken(c)
                                        \/ WriteLegacy(c) \/ RegistrationFails(c)
            BY <2>1, <3>1, RegisterStep, ReplaceStep, UpsertStep, LegacyStep, FailsStep
        <3>2. CASE \E s \in Sends : AskDevices(s) \/ AskManyDevices(s) \/ Answered(s)
            BY <2>1, <3>2, AskOneStep, AskManyStep, AnsweredStep
        <3>3. CASE \E t \in Tokens : TokenDies(t)
            BY <2>1, <3>3, DeathStep
        <3> QED BY <2>1, <3>1, <3>2, <3>3 DEF PushNext
    <2>2. ASSUME PushInv, UNCHANGED pushVars PROVE PushInv'
        BY <2>2, MessageStep DEF pushVars, PushInv, PushShape
    <2> QED BY <2>1, <2>2
<1> QED BY <1>1, <1>2, PTL DEF PushSpec

\* "Deactivate any previous tokens for the same physical device": a device of an account has at
\* most one active token, but for a device two of whose registrations overlapped and that has
\* not been registered alone since.
THEOREM OneToken == PushSpec => []OneTokenPerDevice
<1>1. ASSUME PushInv PROVE OneTokenPerDevice
    <2> SUFFICES ASSUME NEW a \in Accounts, NEW d \in Devices, <<a, d>> \notin raced
                 PROVE  Cardinality(OnDevice(a, d)) <= 1
        BY DEF OneTokenPerDevice
    <2>1. \A t, u \in OnDevice(a, d) : t = u
        BY <1>1 DEF PushInv, OneUnlessRaced
    <2>2. CASE OnDevice(a, d) = {}
        BY <2>2, FS_EmptySet
    <2>3. ASSUME NEW t \in OnDevice(a, d) PROVE Cardinality(OnDevice(a, d)) <= 1
        <3>1. OnDevice(a, d) = {t}
            BY <2>1, <2>3
        <3>2. Cardinality({t}) = 1
            BY FS_Singleton
        <3> QED BY <3>1, <3>2
    <2> QED BY <2>2, <2>3
<1> QED BY <1>1, PushInvariant, PTL

----------------------------------------------------------------------------
(* The six together.  A behaviour of the small instances' specification is  *)
(* one of every component: its steps are steps of one, and leave the others *)
(* alone.                                                                   *)

LEMMA EachBegins ==
    Init => /\ OtpInit /\ MpinInit /\ SessionsInit
            /\ LimitsInit /\ ViewsInit /\ PushInit
BY Zenon DEF Init

LEMMA EachSteps ==
    [Next]_vars => /\ [OtpNext]_otpVars /\ [MpinNext]_mpinVars /\ [SessionsNext]_sessionVars
                   /\ [LimitsNext]_limitVars /\ [ViewsNext]_viewVars /\ [PushNext]_pushVars
<1>1. CASE OtpNext /\ UNCHANGED <<part, mpinVars, sessionVars, limitVars, viewVars, pushVars>>
    BY <1>1
<1>2. CASE MpinNext /\ UNCHANGED <<part, otpVars, sessionVars, limitVars, viewVars, pushVars>>
    BY <1>2
<1>3. CASE SessionsNext /\ UNCHANGED <<part, otpVars, mpinVars, limitVars, viewVars, pushVars>>
    BY <1>3
<1>4. CASE LimitsNext /\ UNCHANGED <<part, otpVars, mpinVars, sessionVars, viewVars, pushVars>>
    BY <1>4
<1>5. CASE ViewsNext /\ UNCHANGED <<part, otpVars, mpinVars, sessionVars, limitVars, pushVars>>
    BY <1>5
<1>6. CASE PushNext /\ UNCHANGED <<part, otpVars, mpinVars, sessionVars, limitVars, viewVars>>
    BY <1>6
<1>7. CASE UNCHANGED vars
    BY <1>7 DEF vars
<1> QED BY <1>1, <1>2, <1>3, <1>4, <1>5, <1>6, <1>7, Zenon DEF Next

LEMMA EachPart ==
    Spec => /\ OtpSpec /\ MpinSpec /\ SessionsSpec /\ LimitsSpec /\ ViewsSpec /\ PushSpec
BY EachBegins, EachSteps, PTL
   DEF Spec, OtpSpec, MpinSpec, SessionsSpec, LimitsSpec, ViewsSpec, PushSpec

LEMMA MpinTyped == MpinInv => MpinTypeOK
BY DEF MpinInv, MpinShape, MpinRow, MpinSteps, MpinTypeOK

LEMMA SessionsTyped == SessionInv => SessionsTypeOK
<1> SUFFICES ASSUME SessionShape PROVE SessionsTypeOK
    BY DEF SessionInv
<1>1. ASSUME NEW c \in GuardCalls
      PROVE  /\ guard[c].at \in {"idle", "find", "admit", "extend"}
             /\ InGuard(c) => guard[c].of \in SessionIds /\ guard[c].by \in Processes
  <2>1. guard[c] = IdleGuard \/ guard[c] \in Entry
      BY DEF SessionShape
  <2> QED BY <2>1, IdleIsNoEntry DEF Entry, InGuard
<1> QED BY <1>1 DEF SessionShape, SessionRow, SessionsTypeOK

LEMMA LimitsTyped == LimitInv => LimitsTypeOK
BY DEF LimitInv, CountedInv, FailuresPass, LimitShape, Tallies, LimitsTypeOK

LEMMA ViewsTyped == ViewsInv => ViewsTypeOK
<1> SUFFICES ASSUME ViewsShape PROVE ViewsTypeOK
    BY DEF ViewsInv, FreshInv
<1>1. Filled \subseteq [at : {"none", "read", "store"}, copy : Copies \cup {Absent}]
    BY DEF Filled
<1>2. filling \in [Servers -> [Views -> [at : {"none", "read", "store"}, copy : Copies \cup {Absent}]]]
    BY <1>1 DEF ViewsShape
<1>3. \A w \in Writers : writing[w] \in Seq(Views \cup {"turfs:all"})
    BY DEF ViewsShape, Keys
<1> QED BY <1>2, <1>3, Zenon DEF ViewsShape, ViewsTypeOK

LEMMA PushTyped == PushInv => PushTypeOK
<1> SUFFICES ASSUME PushShape PROVE PushTypeOK
    BY DEF PushInv
<1>1. ASSUME NEW a \in Accounts, NEW t \in Tokens
      PROVE  device[a][t].active \in BOOLEAN /\ device[a][t].device \in Devices \cup {NoDevice}
    BY DEF PushShape, DeviceRow
<1>2. \A a \in Accounts : legacy[a] \in ExpoTokens \cup {NoToken}
    BY DEF PushShape
<1>3. ASSUME NEW c \in PushCalls PROVE pushCall[c].at \in {"idle", "replace", "upsert", "legacy"}
    BY DEF PushShape, PushEntry
<1>4. ASSUME NEW s \in Sends PROVE push[s].at \in {"idle", "asked"} /\ push[s].tokens \subseteq Tokens
    BY DEF PushShape
<1> QED BY <1>1, <1>2, <1>3, <1>4, Zenon DEF PushShape, PushTypeOK

\* The variables of all six have their types, whichever of them runs: among others no count of
\* wrong codes, of wrong MPINs or of requests passes its limit, and a session is never extended
\* beyond its window.
THEOREM TypesHold == Spec => []TypeOK
<1>1. OtpTypeOK /\ MpinInv /\ SessionInv /\ LimitInv /\ ViewsInv /\ PushInv => TypeOK
    BY MpinTyped, SessionsTyped, LimitsTyped, ViewsTyped, PushTyped, Zenon DEF TypeOK
<1> QED BY <1>1, EachPart, OtpTypes, MpinInvariant, SessionInvariant,
           LimitInvariant, ViewsInvariant, PushInvariant, PTL
=============================================================================

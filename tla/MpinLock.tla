------------------------------ MODULE MpinLock ------------------------------
(****************************************************************************)
(* The customer's MPIN: creating it, entering it, changing it, and setting  *)
(* it anew after a one-time code.  Every handler reads the account's row,   *)
(* compares, and writes later from what it read.  What the MPIN is plays no *)
(* part; whether there is one, and how often it was entered wrong, does.    *)
(****************************************************************************)
EXTENDS Integers

CONSTANTS MpinCalls,   \* the requests served at a time
          MpinLimit,   \* wrong MPINs that lock it: 5
          MaxGuesses   \* bound: wrong MPINs since the last one that was right

ASSUME MpinAssumption == MpinLimit \in Nat \ {0} /\ MaxGuesses \in Nat

VARIABLES
    mpin,        \* the row: has it an mpinHash, failedMpinAttempts, mpinLockedUntil
    resetOk,     \* mpin_reset_authorized:{authId}
    mpinCall,    \* the requests: the step they are at, the row they read
    guesses,     \* wrong MPINs since the last success
    mpinMixed    \* did requests overlap

mpinVars == <<mpin, resetOk, mpinCall, guesses, mpinMixed>>

LockStates == {"none", "locked", "over"}
NoMpin == [set |-> FALSE, failed |-> 0, lock |-> "none"]
NewMpin == [NoMpin EXCEPT !.set = TRUE]
IdleMpin == [at |-> "idle", row |-> NoMpin]

MpinTypeOK ==
    /\ mpin \in [set : BOOLEAN, failed : 0 .. MpinLimit, lock : LockStates]
    /\ resetOk \in BOOLEAN /\ mpinMixed \in BOOLEAN
    /\ guesses \in 0 .. MaxGuesses
    /\ \A c \in MpinCalls : mpinCall[c].at \in {"idle", "right", "wrong", "create", "change", "reset", "spend"}

MpinInit ==
    /\ mpin = NoMpin
    /\ resetOk = FALSE
    /\ mpinCall = [c \in MpinCalls |-> IdleMpin]
    /\ guesses = 0
    /\ mpinMixed = FALSE

----------------------------------------------------------------------------
StartMpin(c, step) ==
    /\ mpinCall[c].at = "idle"
    /\ mpinCall' = [mpinCall EXCEPT ![c] = [at |-> step, row |-> mpin]]
    /\ mpinMixed' = (mpinMixed \/ \E d \in MpinCalls : mpinCall[d].at # "idle")
    /\ UNCHANGED <<mpin, resetOk>>

MpinAnswer(c) ==
    /\ mpinCall' = [mpinCall EXCEPT ![c] = IdleMpin]
    /\ UNCHANGED mpinMixed

CreateMpin(c) ==
    /\ ~mpin.set
    /\ StartMpin(c, "create")
    /\ UNCHANGED guesses

\* verifyMpin and changeMpin: refused while mpinLockedUntil is ahead; then the MPIN entered
\* is right or wrong.
EnterMpin(c) ==
    /\ mpin.set /\ mpin.lock # "locked"
    /\ \/ \E step \in {"right", "change"} : StartMpin(c, step) /\ UNCHANGED guesses
       \/ StartMpin(c, "wrong") /\ guesses < MaxGuesses /\ guesses' = guesses + 1

\* resetMpin: with the authorisation a verified one-time code leaves for fifteen minutes.
ResetMpin(c) ==
    /\ resetOk
    /\ StartMpin(c, "reset")
    /\ UNCHANGED guesses

\* Mutants: one wrong MPIN too many; and a count that goes on beyond the limit.
AfterFailureLate(c) ==
    LET attempts == mpinCall[c].row.failed + 1
    IN  IF attempts > MpinLimit THEN [mpin EXCEPT !.failed = MpinLimit, !.lock = "locked"]
        ELSE [mpin EXCEPT !.failed = attempts, !.lock = "none"]
AfterFailureUncapped(c) ==
    LET attempts == mpinCall[c].row.failed + 1
    IN  [mpin EXCEPT !.failed = attempts, !.lock = IF attempts >= MpinLimit THEN "locked" ELSE "none"]

\* The count after a lock stays at the limit: the next wrong MPIN locks again.
AfterFailure(c) ==
    LET attempts == mpinCall[c].row.failed + 1
    IN  IF attempts >= MpinLimit THEN [mpin EXCEPT !.failed = MpinLimit, !.lock = "locked"]
        ELSE [mpin EXCEPT !.failed = attempts, !.lock = "none"]

WriteFailure(c) ==
    /\ mpinCall[c].at = "wrong"
    /\ mpin' = AfterFailure(c)
    /\ MpinAnswer(c)
    /\ UNCHANGED <<resetOk, guesses>>

\* A right MPIN clears the count, if the row that was read had one.
WriteSuccess(c) ==
    /\ mpinCall[c].at = "right"
    /\ mpin' = IF mpinCall[c].row.failed > 0 \/ mpinCall[c].row.lock # "none"
               THEN [mpin EXCEPT !.failed = 0, !.lock = "none"] ELSE mpin
    /\ guesses' = 0
    /\ MpinAnswer(c)
    /\ UNCHANGED resetOk

\* createMpin leaves the count alone.
WriteCreated(c) ==
    /\ mpinCall[c].at = "create"
    /\ mpin' = [mpin EXCEPT !.set = TRUE]
    /\ MpinAnswer(c)
    /\ UNCHANGED <<resetOk, guesses>>

\* changeMpin and resetMpin clear it, and a lock with it.
WriteChanged(c) ==
    /\ mpinCall[c].at \in {"change", "reset"}
    /\ mpin' = NewMpin
    /\ guesses' = 0
    /\ IF mpinCall[c].at = "reset"
       THEN mpinCall' = [mpinCall EXCEPT ![c].at = "spend"] /\ UNCHANGED mpinMixed
       ELSE MpinAnswer(c)
    /\ UNCHANGED resetOk

\* resetMpin deletes the authorisation at the end.
SpendReset(c) ==
    /\ mpinCall[c].at = "spend"
    /\ resetOk' = FALSE
    /\ MpinAnswer(c)
    /\ UNCHANGED <<mpin, guesses>>

\* verifyOtp authorises a reset; fifteen minutes end the authorisation, and a lock.
AuthorizeReset ==
    /\ ~resetOk /\ resetOk' = TRUE
    /\ UNCHANGED <<mpin, mpinCall, guesses, mpinMixed>>

MpinTimePasses ==
    /\ \/ resetOk /\ resetOk' = FALSE /\ UNCHANGED mpin
       \/ mpin.lock = "locked" /\ mpin' = [mpin EXCEPT !.lock = "over"] /\ UNCHANGED resetOk
    /\ UNCHANGED <<mpinCall, guesses, mpinMixed>>

MpinNext ==
    \/ \E c \in MpinCalls :
          \/ CreateMpin(c) \/ EnterMpin(c) \/ ResetMpin(c)
          \/ WriteFailure(c) \/ WriteSuccess(c) \/ WriteCreated(c) \/ WriteChanged(c)
          \/ SpendReset(c)
    \/ AuthorizeReset
    \/ MpinTimePasses

MpinSpec == MpinInit /\ [][MpinNext]_mpinVars

----------------------------------------------------------------------------
(* Properties *)

\* Five wrong MPINs in a row lock it, through changes and verifications alike, and every
\* wrong one after the lock is over locks it again; while requests come one at a time, none
\* of them is forgotten.
FiveWrongMpinsLock ==
    ~mpinMixed /\ (\A c \in MpinCalls : mpinCall[c].at = "idle") /\ mpin.lock = "none"
    => guesses < MpinLimit /\ mpin.failed = guesses
=============================================================================

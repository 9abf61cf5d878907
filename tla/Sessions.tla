------------------------------ MODULE Sessions ------------------------------
(****************************************************************************)
(* The sessions a token names, and the guard every request passes.  Each    *)
(* server process remembers for five minutes that a session was valid and   *)
(* does not look again; a session not used for thirty days ends, and using  *)
(* it moves that end.  The token has an end of its own, which nothing moves. *)
(*                                                                          *)
(* Time is in days; within a day five minutes pass whenever they may.       *)
(****************************************************************************)
EXTENDS Integers, FiniteSets

CONSTANTS SessionIds,     \* sessions
          Processes,      \* server processes, each with its sessionCache
          GuardCalls,     \* the requests at the guard at a time
          IdleWindow,     \* days a session lasts unused: 30
          TokenLife       \* days a token is valid after it was signed: JWT_EXPIRES_IN, or 90

ASSUME SessionsAssumption == IdleWindow \in Nat \ {0, 1} /\ TokenLife \in Nat \ {0}

VARIABLES
    session,    \* the rows: status, days left to expiresAt
    remembered, \* the sessions each process has in its cache
    guard,      \* the requests: step, session, process, days left that were read
    unused,     \* days since the session was last let in
    tokenAge,   \* days since its token was signed
    missed      \* did an extension fail since the session was last extended

sessionVars == <<session, remembered, guard, unused, tokenAge, missed>>

IdleGuard == [at |-> "idle", left |-> 0]
InGuard(c) == guard[c].at # "idle"

SessionsTypeOK ==
    /\ session \in [SessionIds -> [is : {"none", "live", "revoked", "deleted"}, left : 0 .. IdleWindow]]
    /\ remembered \in [Processes -> SUBSET SessionIds]
    /\ \A c \in GuardCalls :
          /\ guard[c].at \in {"idle", "find", "admit", "extend"}
          /\ InGuard(c) => guard[c].of \in SessionIds /\ guard[c].by \in Processes
    /\ unused \in [SessionIds -> 0 .. IdleWindow + 1]
    /\ tokenAge \in [SessionIds -> 0 .. TokenLife]
    /\ missed \subseteq SessionIds

SessionsInit ==
    /\ session = [s \in SessionIds |-> [is |-> "none", left |-> 0]]
    /\ remembered = [p \in Processes |-> {}]
    /\ guard = [c \in GuardCalls |-> IdleGuard]
    /\ unused = [s \in SessionIds |-> 0]
    /\ tokenAge = [s \in SessionIds |-> 0]
    /\ missed = {}

----------------------------------------------------------------------------
\* verifyOtp creates a session and signs its token.
OpenNewSession(s) ==
    /\ session[s].is = "none"
    /\ session' = [session EXCEPT ![s] = [is |-> "live", left |-> IdleWindow]]
    /\ UNCHANGED <<remembered, guard, unused, tokenAge, missed>>

\* verifyToken, which knows no session; what it passes.
TokenValid(s) == session[s].is # "none" /\ tokenAge[s] < TokenLife

\* An expired token is refused.  A session in the cache is let in; nothing else happens.
EnterGuard(c, s, p) ==
    /\ ~InGuard(c) /\ TokenValid(s)
    /\ IF s \in remembered[p]
       THEN unused' = [unused EXCEPT ![s] = 0] /\ UNCHANGED guard
       ELSE /\ guard' = [guard EXCEPT ![c] = [at |-> "find", left |-> 0, of |-> s, by |-> p]]
            /\ UNCHANGED unused
    /\ UNCHANGED <<session, remembered, tokenAge, missed>>

\* Mutant: a revoked session is let in until it expires.
ValidIfNotExpired(row) == row.is # "deleted" /\ row.left > 0

Valid(row) == row.is = "live" /\ row.left > 0

\* ensureSessionValid: missing, revoked and expired are refused.
FindSession(c) ==
    /\ guard[c].at = "find"
    /\ LET row == session[guard[c].of]
       IN  guard' = [guard EXCEPT ![c] = IF Valid(row) THEN [@ EXCEPT !.at = "admit", !.left = row.left]
                                         ELSE IdleGuard]
    /\ UNCHANGED <<session, remembered, unused, tokenAge, missed>>

\* Mutant: the session is extended after two days' use, not one.
AdmitExtendingLate(c) ==
    /\ guard[c].at = "admit"
    /\ remembered' = [remembered EXCEPT ![guard[c].by] = @ \cup {guard[c].of}]
    /\ unused' = [unused EXCEPT ![guard[c].of] = 0]
    /\ guard' = [guard EXCEPT ![c] = IF guard[c].left < IdleWindow - 2 THEN [@ EXCEPT !.at = "extend"]
                                     ELSE IdleGuard]
    /\ UNCHANGED <<session, tokenAge, missed>>

\* Remembered and let in.  With less than a day used up there is nothing to extend.
Admit(c) ==
    /\ guard[c].at = "admit"
    /\ remembered' = [remembered EXCEPT ![guard[c].by] = @ \cup {guard[c].of}]
    /\ unused' = [unused EXCEPT ![guard[c].of] = 0]
    /\ guard' = [guard EXCEPT ![c] = IF guard[c].left < IdleWindow - 1 THEN [@ EXCEPT !.at = "extend"]
                                     ELSE IdleGuard]
    /\ UNCHANGED <<session, tokenAge, missed>>

\* The update nobody waits for; it may fail, and the row may be gone.
ExtendSession(c) ==
    /\ guard[c].at = "extend"
    /\ LET s == guard[c].of
       IN  \/ /\ session[s].is # "deleted"
              /\ session' = [session EXCEPT ![s].left = IdleWindow]
              /\ missed' = missed \ {s}
           \/ missed' = missed \cup {s} /\ UNCHANGED session
    /\ guard' = [guard EXCEPT ![c] = IdleGuard]
    /\ UNCHANGED <<remembered, unused, tokenAge>>

\* logout, let in by some process.  Nothing is forgotten there.
LogOut(s) ==
    /\ session[s].is = "live" /\ TokenValid(s)
    /\ session[s].left > 0 \/ \E p \in Processes : s \in remembered[p]
    /\ session' = [session EXCEPT ![s].is = "revoked"]
    /\ UNCHANGED <<remembered, guard, unused, tokenAge, missed>>

\* deleteAccount: the rows go with the account.
LoseSession(s) ==
    /\ session[s].is \in {"live", "revoked"}
    /\ session' = [session EXCEPT ![s].is = "deleted"]
    /\ UNCHANGED <<remembered, guard, unused, tokenAge, missed>>

\* The entry's five minutes are over, counted from when it was set; or it is the least
\* recently used of five thousand.
Forget(p, s) ==
    /\ s \in remembered[p]
    /\ remembered' = [remembered EXCEPT ![p] = @ \ {s}]
    /\ UNCHANGED <<session, guard, unused, tokenAge, missed>>

RestartProcess(p) ==
    /\ remembered' = [remembered EXCEPT ![p] = {}]
    /\ guard' = [c \in GuardCalls |-> IF InGuard(c) THEN IF guard[c].by = p THEN IdleGuard ELSE guard[c]
                                      ELSE guard[c]]
    /\ missed' = missed \cup {guard[c].of : c \in {d \in GuardCalls : guard[d].at = "extend" /\ guard[d].by = p}}
    /\ UNCHANGED <<session, unused, tokenAge>>

\* A day is longer than any request and than five minutes.
SessionDayPasses ==
    /\ \A c \in GuardCalls : ~InGuard(c)
    /\ \A p \in Processes : remembered[p] = {}
    /\ session' = [s \in SessionIds |->
                     [session[s] EXCEPT !.left = IF @ > 0 THEN @ - 1 ELSE 0]]
    /\ unused' = [s \in SessionIds |-> IF session[s].is = "none" \/ unused[s] > IdleWindow THEN unused[s]
                                       ELSE unused[s] + 1]
    /\ tokenAge' = [s \in SessionIds |-> IF session[s].is = "none" \/ tokenAge[s] = TokenLife THEN tokenAge[s] ELSE tokenAge[s] + 1]
    /\ UNCHANGED <<remembered, guard, missed>>

GuardStep(c) == FindSession(c) \/ Admit(c) \/ ExtendSession(c)

SessionsNext ==
    \/ \E s \in SessionIds : OpenNewSession(s) \/ LogOut(s) \/ LoseSession(s)
    \/ \E c \in GuardCalls, s \in SessionIds, p \in Processes : EnterGuard(c, s, p)
    \/ \E c \in GuardCalls : GuardStep(c)
    \/ \E p \in Processes, s \in SessionIds : Forget(p, s)
    \/ \E p \in Processes : RestartProcess(p)
    \/ SessionDayPasses

\* The database answers, and five minutes end.
SessionsFairness ==
    /\ \A c \in GuardCalls : WF_sessionVars(GuardStep(c))
    /\ \A p \in Processes, s \in SessionIds : WF_sessionVars(Forget(p, s))

SessionsSpec == SessionsInit /\ [][SessionsNext]_sessionVars /\ SessionsFairness

----------------------------------------------------------------------------
(* Properties *)

Serves(s) ==
    \/ \E p \in Processes : s \in remembered[p]
    \/ \E c \in GuardCalls : guard[c].at \in {"admit", "extend"} /\ guard[c].of = s

\* "30 days inactivity = logout", of the session's row: a session that is used does not end
\* there, though most of its requests never reach the row, and one that is not used for thirty
\* days ends; it may end a day short of them, or when an extension failed.  Its token may end
\* before: UsedSessionLasts.
InactivityEndsSession ==
    \A s \in SessionIds : session[s].is = "live" /\ (\A c \in GuardCalls : ~InGuard(c)) =>
       /\ session[s].left > 0 => session[s].left + unused[s] <= IdleWindow
       /\ s \notin missed => session[s].left + unused[s] >= IdleWindow - 1

\* A session that is used is logged out by inactivity alone: it does not hold.  The guard looks at
\* the token first, and nothing signs another for a session that goes on.
UsedSessionLasts ==
    \A s \in SessionIds : session[s].is = "live" /\ session[s].left > 0 => tokenAge[s] < TokenLife

\* A session that was logged out, or deleted with its account, is let in for a while by the
\* processes that remember it, and then never again.
LogoutIsFinal ==
    \A s \in SessionIds : session[s].is \in {"revoked", "deleted"} ~> [](~Serves(s))
=============================================================================

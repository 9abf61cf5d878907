----------------------------- MODULE PushDevices -----------------------------
(****************************************************************************)
(* notifications.service: the push tokens of an account's devices, and the  *)
(* messages sent to them.  A registration switches off the device's other   *)
(* tokens, writes the token's row, and writes the account's legacy field.   *)
(* A message reads the tokens, asks the push service, and switches off what *)
(* the service reports as unregistered, for whatever account holds it.      *)
(*                                                                          *)
(* Message delivery itself (Expo, Firebase) is not in the repository: the   *)
(* answer is any set of bad tokens the calls here can get.                  *)
(****************************************************************************)
EXTENDS Naturals, FiniteSets

CONSTANTS Accounts, Tokens, Devices,
          ExpoTokens,   \* the tokens in Expo's format
          PushCalls,    \* registrations that overlap
          Sends,        \* messages under way
          NoDevice, NoToken

ASSUME PushAssumption == ExpoTokens \subseteq Tokens /\ NoDevice \notin Devices /\ NoToken \notin Tokens

VARIABLES
    device,     \* fcm_devices: the row of each account and token
    legacy,     \* auth.expoPushToken of each account
    pushCall,   \* the registrations
    push,       \* the messages: account, tokens asked for
    dead,       \* the tokens whose application was removed
    raced       \* account and device pairs whose registrations overlapped since one ran alone

pushVars == <<device, legacy, pushCall, push, dead, raced>>

Row(active, d) == [active |-> active, device |-> d]
NoDeviceRow == [active |-> FALSE, device |-> NoDevice]
IdlePush == [at |-> "idle", account |-> NoDevice, token |-> NoToken, device |-> NoDevice, alone |-> TRUE]
IdleSend == [at |-> "idle", tokens |-> {}]

PushTypeOK ==
    /\ \A a \in Accounts, t \in Tokens :
          device[a][t].active \in BOOLEAN /\ device[a][t].device \in Devices \cup {NoDevice}
    /\ \A a \in Accounts : legacy[a] \in ExpoTokens \cup {NoToken}
    /\ \A c \in PushCalls : pushCall[c].at \in {"idle", "replace", "upsert", "legacy"}
    /\ \A s \in Sends : push[s].at \in {"idle", "asked"} /\ push[s].tokens \subseteq Tokens
    /\ dead \subseteq Tokens
    /\ raced \subseteq Accounts \X Devices

PushInit ==
    /\ device = [a \in Accounts |-> [t \in Tokens |-> NoDeviceRow]]
    /\ legacy = [a \in Accounts |-> NoToken]
    /\ pushCall = [c \in PushCalls |-> IdlePush]
    /\ push = [s \in Sends |-> IdleSend]
    /\ dead = {}
    /\ raced = {}

----------------------------------------------------------------------------
(* registerDevice *)

SameDevice(c, a, d) == pushCall[c].at # "idle" /\ pushCall[c].account = a /\ pushCall[c].device = d

\* Mutant: a token the device had before is only switched on again.
RegistersKnown(c) ==
    /\ pushCall[c].at = "idle"
    /\ \E a \in Accounts, t \in Tokens \ dead, d \in Devices \cup {NoDevice} :
          LET others == {e \in PushCalls : SameDevice(e, a, d)}
          IN  pushCall' = [e \in PushCalls |->
                 IF e = c THEN [at |-> IF d \in {NoDevice, device[a][t].device} THEN "upsert" ELSE "replace",
                                account |-> a, token |-> t, device |-> d, alone |-> others = {}]
                 ELSE IF e \in others THEN [pushCall[e] EXCEPT !.alone = FALSE] ELSE pushCall[e]]
    /\ UNCHANGED <<device, legacy, push, dead, raced>>

Registers(c) ==
    /\ pushCall[c].at = "idle"
    /\ \E a \in Accounts, t \in Tokens \ dead, d \in Devices \cup {NoDevice} :
          LET others == {e \in PushCalls : SameDevice(e, a, d)}
          IN  pushCall' = [e \in PushCalls |->
                 IF e = c THEN [at |-> IF d = NoDevice THEN "upsert" ELSE "replace",
                                account |-> a, token |-> t, device |-> d, alone |-> others = {}]
                 ELSE IF e \in others THEN [pushCall[e] EXCEPT !.alone = FALSE] ELSE pushCall[e]]
    /\ UNCHANGED <<device, legacy, push, dead, raced>>

\* The device's other tokens, of this account alone.
ReplaceTokens(c) ==
    LET k == pushCall[c] IN
    /\ k.at = "replace"
    /\ device' = [device EXCEPT ![k.account] = [t \in Tokens |->
                     IF @[t].device = k.device /\ t # k.token THEN [@[t] EXCEPT !.active = FALSE] ELSE @[t]]]
    /\ pushCall' = [pushCall EXCEPT ![c].at = "upsert"]
    /\ UNCHANGED <<legacy, push, dead, raced>>

UpsertToken(c) ==
    LET k == pushCall[c]
        pair == <<k.account, k.device>>
    IN
    /\ k.at = "upsert"
    /\ device' = [device EXCEPT ![k.account][k.token] = Row(TRUE, k.device)]
    /\ raced' = IF k.device = NoDevice THEN raced ELSE IF k.alone THEN raced \ {pair} ELSE raced \cup {pair}
    /\ pushCall' = [pushCall EXCEPT ![c] = IF k.token \in ExpoTokens THEN [@ EXCEPT !.at = "legacy"] ELSE IdlePush]
    /\ UNCHANGED <<legacy, push, dead>>

WriteLegacy(c) ==
    /\ pushCall[c].at = "legacy"
    /\ legacy' = [legacy EXCEPT ![pushCall[c].account] = pushCall[c].token]
    /\ pushCall' = [pushCall EXCEPT ![c] = IdlePush]
    /\ UNCHANGED <<device, push, dead, raced>>

RegistrationFails(c) ==
    /\ pushCall[c].at # "idle"
    /\ pushCall' = [pushCall EXCEPT ![c] = IdlePush]
    /\ UNCHANGED <<device, legacy, push, dead, raced>>

----------------------------------------------------------------------------
(* Messages *)

Active(a) == {t \in Tokens : device[a][t].active}

\* dispatchPushToUser: the active devices, and the legacy field besides.
AskDevices(s) ==
    /\ push[s].at = "idle"
    /\ \E a \in Accounts :
          LET tokens == Active(a) \cup ({legacy[a]} \ {NoToken})
          IN  tokens # {} /\ push' = [push EXCEPT ![s] = [at |-> "asked", tokens |-> tokens]]
    /\ UNCHANGED <<device, legacy, pushCall, dead, raced>>

\* sendMulticastNotification: the active devices only.
AskManyDevices(s) ==
    /\ push[s].at = "idle"
    /\ \E many \in SUBSET Accounts :
          LET tokens == UNION {Active(a) : a \in many}
          IN  tokens # {} /\ push' = [push EXCEPT ![s] = [at |-> "asked", tokens |-> tokens]]
    /\ UNCHANGED <<device, legacy, pushCall, dead, raced>>

\* What the service calls unregistered: dead tokens; and, of Firebase's, the whole message
\* when it is malformed ("invalid-argument").
Reported(tokens) == {bad \in SUBSET tokens : bad \subseteq dead \/ bad = tokens \ ExpoTokens}

\* handleInvalidTokens: the rows of every account.  The legacy field stays.
Switched(bad) == [a \in Accounts |-> [t \in Tokens |->
                     IF t \in bad THEN [device[a][t] EXCEPT !.active = FALSE] ELSE device[a][t]]]

Answered(s) ==
    /\ push[s].at = "asked"
    /\ \E bad \in Reported(push[s].tokens) : device' = Switched(bad)
    /\ push' = [push EXCEPT ![s] = IdleSend]
    /\ UNCHANGED <<legacy, pushCall, dead, raced>>

\* The application is removed from the device; its token is never given out again.
TokenDies(t) ==
    /\ t \notin dead
    /\ dead' = dead \cup {t}
    /\ UNCHANGED <<device, legacy, pushCall, push, raced>>

PushNext ==
    \/ \E c \in PushCalls :
          \/ Registers(c) \/ ReplaceTokens(c) \/ UpsertToken(c)
          \/ WriteLegacy(c) \/ RegistrationFails(c)
    \/ \E s \in Sends : AskDevices(s) \/ AskManyDevices(s) \/ Answered(s)
    \/ \E t \in Tokens : TokenDies(t)

PushSpec == PushInit /\ [][PushNext]_pushVars

----------------------------------------------------------------------------
(* Properties *)

OnDevice(a, d) == {t \in Tokens : device[a][t].active /\ device[a][t].device = d}

\* "Deactivate any previous tokens for the same physical device": of the rows that an account
\* has for one device at most one is switched on, so that sendMulticastNotification asks for one
\* push, whatever tokens the device had, died, failed to register or were registered again,
\* unless two registrations of the device overlapped; and the next one that runs alone puts
\* that right.  dispatchPushToUser asks for one more: OnePushPerDevice.
OneTokenPerDevice ==
    \A a \in Accounts, d \in Devices :
        (<<a, d>> \notin raced /\ \A c \in PushCalls : SameDevice(c, a, d) => pushCall[c].alone)
            => Cardinality(OnDevice(a, d)) <= 1

\* The same of dispatchPushToUser, which adds the legacy field: it does not hold.  A native token
\* that replaces an Expo token switches the row off and leaves it in the legacy field.
OnePushPerDevice ==
    \A a \in Accounts, d \in Devices :
        LET last == {t \in Tokens : t = legacy[a] /\ device[a][t].device = d}
        IN  (<<a, d>> \notin raced /\ \A c \in PushCalls : ~SameDevice(c, a, d))
                => Cardinality(OnDevice(a, d) \cup last) <= 1

\* A device rings for one account, the last that signed in on it: neither a registration nor
\* logout keeps this.
OneAccountPerToken ==
    \A t \in Tokens : Cardinality({a \in Accounts : device[a][t].active}) <= 1
=============================================================================

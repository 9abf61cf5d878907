---------------------------- MODULE BookingSplit ----------------------------
(****************************************************************************)
(* The split of one booking's amount among its players (Splitwise).  Every  *)
(* call is made by the customer who booked, reads the split, and writes it  *)
(* with no transaction around the two; calls overlap, each read and each    *)
(* write is a step.                                                         *)
(*                                                                          *)
(* An amount is in whole rupees.  The booking's may have paise besides; the *)
(* players' shares are integers.                                            *)
(****************************************************************************)
EXTENDS Integers, FiniteSets, FiniteSetsExt, Sums

CONSTANTS SplitCalls,   \* the requests served at a time
          Lead,         \* the customer's user name
          Friends,      \* the other user names
          Fees,         \* the amounts a booking may have
          MaxRows,      \* bound: player rows ever created
          Gone          \* no row

ASSUME SplitAssumption ==
    /\ Lead \notin Friends /\ IsFiniteSet(Friends)
    /\ Fees \subseteq Nat
    /\ MaxRows \in Nat \ {0}
    /\ Gone \notin [name : Friends \cup {Lead}, amount : Int, status : {"PENDING", "PAID"}]

VARIABLES
    fee,       \* booking.amount, its whole rupees
    paise,     \* has it paise
    split,     \* the booking's split: NONE, OPEN, or DONE with isSplitDone
    player,    \* its player rows; a row's number is its place in the order of createdAt
    born,      \* player rows ever created
    call,      \* the requests
    mixed      \* did calls overlap since a call that shares the amount ran alone

splitVars == <<fee, paise, split, player, born, call, mixed>>

Rows == 1 .. MaxRows
Usernames == Friends \cup {Lead}
Existing(table) == {i \in Rows : table[i] # Gone}
Pending(table) == {i \in Existing(table) : table[i].status = "PENDING"}
Paid(table) == Existing(table) \ Pending(table)
SumOf(table, rows) == SumOver([i \in rows |-> table[i].amount], rows)

NewRow(name) == [name |-> name, amount |-> 0, status |-> "PENDING"]
NoShares == [i \in {} |-> 0]
NoCall == [op |-> "none", at |-> "idle", ret |-> "idle", row |-> 0, names |-> {}, want |-> "PAID",
           shares |-> NoShares, go |-> TRUE, alone |-> TRUE]

Ops == {"none", "add", "remove", "trigger", "custom", "status", "get"}
Steps == {"idle", "split", "create", "lead", "refresh", "body", "recalc", "write", "finish"}

SplitTypeOK ==
    /\ fee \in Nat /\ paise \in BOOLEAN
    /\ split \in {"NONE", "OPEN", "DONE"}
    /\ born \in 0 .. MaxRows
    /\ \A i \in Rows : player[i] # Gone =>
          /\ player[i].name \in Usernames /\ player[i].amount \in Int
          /\ player[i].status \in {"PENDING", "PAID"} /\ i <= born
    /\ \A c \in SplitCalls : call[c].op \in Ops /\ call[c].at \in Steps
    /\ split = "NONE" => Existing(player) = {}
    /\ mixed \in BOOLEAN

SplitInit ==
    /\ fee \in Fees /\ paise \in BOOLEAN
    /\ split = "NONE"
    /\ player = [i \in Rows |-> Gone]
    /\ born = 0
    /\ call = [c \in SplitCalls |-> NoCall]
    /\ mixed = FALSE

----------------------------------------------------------------------------
Running == {c \in SplitCalls : call[c].at # "idle"}

\* The request is answered; it has shared the amount out, or only come and gone.
Answer(c, shared) ==
    /\ call' = [call EXCEPT ![c] = NoCall]
    /\ mixed' = IF ~call[c].alone THEN TRUE ELSE IF shared THEN FALSE ELSE mixed

Throw(c) == Answer(c, FALSE)
Become(c, request) == call' = [call EXCEPT ![c] = request] /\ UNCHANGED mixed

\* The handler calls recalculatePendingPlayers and goes on at ret; "idle" means that it
\* then answers.
Sharing(request, ret) ==
    [NoCall EXCEPT !.op = request.op, !.at = "recalc", !.ret = ret, !.alone = request.alone]
Recalculate(c) == Become(c, Sharing(call[c], "idle"))
Return(c) == IF call[c].ret = "idle" THEN Answer(c, TRUE)
             ELSE Become(c, [call[c] EXCEPT !.at = call[c].ret, !.shares = NoShares])

AddRows(names) ==
    /\ born + Cardinality(names) <= MaxRows
    /\ \E order \in [names -> born + 1 .. born + Cardinality(names)] :
          /\ \A m, n \in names : m # n => order[m] # order[n]
          /\ player' = [i \in Rows |-> IF \E n \in names : order[n] = i
                                       THEN NewRow(CHOOSE n \in names : order[n] = i)
                                       ELSE player[i]]
    /\ born' = born + Cardinality(names)

----------------------------------------------------------------------------
(* getOrCreateSplit, and the beginning of a request: what arrives is noticed only      *)
(* with the first read.                                                                *)

\* The handler is given the split as it was read, and decides on it: the new user names,
\* whether it goes on, where it goes on.
Given(request, table, done) ==
    LET names == {table[i].name : i \in Existing(table)}
        adds == SumOf(table, Existing(table)) = fee /\ ~paise
    IN  CASE request.op = "trigger" ->
               [request EXCEPT !.at = "body", !.go = ~adds]
          [] request.op = "add" ->
               [request EXCEPT !.at = "body", !.names = IF done THEN {} ELSE @ \ names]
          [] request.op = "custom" ->
               [request EXCEPT !.at = "body",
                               !.go = ~done /\ ~paise /\ DOMAIN request.shares \subseteq Existing(table)]
          [] request.op = "status" -> [request EXCEPT !.at = "body", !.go = done]
          [] OTHER -> [request EXCEPT !.at = "body"]

FoundSplit(request) ==
    IF split = "NONE" THEN [request EXCEPT !.at = "create"]
    ELSE IF \A i \in Existing(player) : player[i].name # Lead THEN [request EXCEPT !.at = "lead"]
    ELSE Given(request, player, split = "DONE")

\* Bound: after an overlap the next calls come one at a time, until the amount is shared
\* out again.
StartCall(c, request) ==
    /\ call[c].at = "idle"
    /\ Running # {} => ~mixed /\ \A d \in Running : call[d].alone
    /\ call' = [d \in SplitCalls |->
                  IF d = c THEN [request EXCEPT !.alone = Running = {}]
                  ELSE [call[d] EXCEPT !.alone = call[d].at = "idle"]]
    /\ UNCHANGED <<fee, paise, split, player, born, mixed>>

Request(op) == [NoCall EXCEPT !.op = op]

\* Some players of the split, at least one rupee each, together the booking's amount.
CustomShares ==
    {f \in UNION {[rows -> 1 .. fee] : rows \in SUBSET Existing(player) \ {{}}} :
        SumOver(f, DOMAIN f) = fee}

SplitRequest(c) ==
    \/ \E names \in SUBSET Friends \ {{}} :
          StartCall(c, FoundSplit([Request("add") EXCEPT !.names = names]))
    \/ \E f \in CustomShares : StartCall(c, FoundSplit([Request("custom") EXCEPT !.shares = f]))
    \/ \E op \in {"trigger", "get"} : StartCall(c, FoundSplit(Request(op)))

\* removePlayer and updatePlayerStatus look the player up first; the status read then
\* decides whether it may be removed.
PlayerRequest(c) ==
    \E i \in Existing(player) :
       \/ StartCall(c, [Request("remove") EXCEPT !.at = "split", !.row = i,
                                                 !.go = player[i].status # "PAID"])
       \/ \E s \in {"PENDING", "PAID"} :
             StartCall(c, [Request("status") EXCEPT !.at = "split", !.row = i, !.want = s])

FindSplit(c) ==
    /\ call[c].at = "split"
    /\ Become(c, FoundSplit(call[c]))
    /\ UNCHANGED <<fee, paise, split, player, born>>

\* booking_id is unique: the second of two creations throws.  The handler goes on with
\* the row as it was created, before its amount is calculated.
CreateSplit(c) ==
    /\ call[c].at = "create"
    /\ IF split # "NONE"
       THEN Throw(c) /\ UNCHANGED <<split, player, born>>
       ELSE /\ split' = "OPEN"
            /\ AddRows({Lead})
            /\ Become(c, [Given(call[c], player', FALSE) EXCEPT !.at = "recalc", !.ret = "body"])
    /\ UNCHANGED <<fee, paise>>

\* ensureLeadPlayer: the customer was removed and comes back.
AddLead(c) ==
    /\ call[c].at = "lead"
    /\ IF split = "NONE" THEN Throw(c) /\ UNCHANGED <<player, born>>
       ELSE AddRows({Lead}) /\ Become(c, [call[c] EXCEPT !.at = "recalc", !.ret = "refresh"])
    /\ UNCHANGED <<fee, paise, split>>

RefreshSplit(c) ==
    /\ call[c].at = "refresh"
    /\ IF split = "NONE" THEN Throw(c)
       ELSE Become(c, Given(call[c], player, split = "DONE"))
    /\ UNCHANGED <<fee, paise, split, player, born>>

----------------------------------------------------------------------------
(* recalculatePendingPlayers *)

\* JavaScript's remainder has the sign of the dividend; Math.floor rounds it down.
\* r is the rupees that remain, the paise come on top.
Remainder(r, n) ==
    IF r >= 0 THEN r % n
    ELSE IF paise THEN -(((-r - 1) % n) + 1)
    ELSE -((-r) % n)

\* Mutant: the remainder is nobody's.
EqualSharesNoRemainder(table) ==
    [i \in Pending(table) |->
       (fee - SumOf(table, Paid(table))) \div Cardinality(Pending(table))]

\* What the players who have not paid owe: equal shares of what remains, the last one
\* takes the remainder.
EqualShares(table) ==
    LET pending == Pending(table)
        n == Cardinality(pending)
        remaining == fee - SumOf(table, Paid(table))
    IN  [i \in pending |-> remaining \div n
                           + IF i = Max(pending) THEN Remainder(remaining, n) ELSE 0]

\* Reads the players; the rows whose share differs are to be written.
RecalcRead(c) ==
    /\ call[c].at = "recalc"
    /\ LET shares == EqualShares(player)
           changed == {i \in DOMAIN shares : shares[i] # player[i].amount}
       IN  IF changed = {} THEN Return(c)
           ELSE Become(c, [call[c] EXCEPT !.at = "write", !.shares = [i \in changed |-> shares[i]]])
    /\ UNCHANGED <<fee, paise, split, player, born>>

WriteShares(shares) ==
    player' = [i \in Rows |-> IF i \in DOMAIN shares THEN [player[i] EXCEPT !.amount = shares[i]]
                              ELSE player[i]]

\* One transaction: it throws when one of the rows is gone.
RecalcWrite(c) ==
    /\ call[c].at = "write"
    /\ IF DOMAIN call[c].shares \subseteq Existing(player)
       THEN WriteShares(call[c].shares) /\ Return(c)
       ELSE Throw(c) /\ UNCHANGED player
    /\ UNCHANGED <<fee, paise, split, born>>

----------------------------------------------------------------------------
(* The handlers, once they hold the split. *)

At(c, op) == call[c].at = "body" /\ call[c].op = op

AddPlayers(c) ==
    /\ At(c, "add")
    /\ IF call[c].names = {} \/ split = "NONE"
       THEN Throw(c) /\ UNCHANGED <<player, born>>
       ELSE AddRows(call[c].names) /\ Recalculate(c)
    /\ UNCHANGED <<fee, paise, split>>

\* Mutant: a player who has paid is removed as well.
RemoveAnyPlayer(c) ==
    /\ At(c, "remove")
    /\ IF player[call[c].row] = Gone
       THEN Throw(c) /\ UNCHANGED player
       ELSE player' = [player EXCEPT ![call[c].row] = Gone] /\ Recalculate(c)
    /\ UNCHANGED <<fee, paise, split, born>>

\* Only the status read at first is asked for, not isSplitDone.
RemovePlayer(c) ==
    /\ At(c, "remove")
    /\ IF ~call[c].go \/ player[call[c].row] = Gone
       THEN Throw(c) /\ UNCHANGED player
       ELSE player' = [player EXCEPT ![call[c].row] = Gone] /\ Recalculate(c)
    /\ UNCHANGED <<fee, paise, split, born>>

FinishSplit(c) ==
    IF split = "NONE" THEN Throw(c) /\ UNCHANGED split
    ELSE split' = "DONE" /\ Answer(c, TRUE)

\* Amounts that do not add up are shared out again before isSplitDone is set.
TriggerSplit(c) ==
    /\ \/ At(c, "trigger") /\ call[c].go /\ UNCHANGED split
          /\ Become(c, Sharing(call[c], "finish"))
       \/ At(c, "trigger") /\ ~call[c].go /\ FinishSplit(c)
       \/ call[c].at = "finish" /\ FinishSplit(c)
    /\ UNCHANGED <<fee, paise, player, born>>

SetCustomAmounts(c) ==
    /\ At(c, "custom")
    /\ IF call[c].go /\ DOMAIN call[c].shares \subseteq Existing(player)
       THEN WriteShares(call[c].shares)
       ELSE UNCHANGED player
    /\ Answer(c, FALSE)
    /\ UNCHANGED <<fee, paise, split, born>>

UpdatePlayerStatus(c) ==
    /\ At(c, "status")
    /\ IF player[call[c].row] = Gone THEN Throw(c) /\ UNCHANGED player
       ELSE /\ player' = [player EXCEPT ![call[c].row].status = call[c].want]
            /\ IF call[c].go THEN Recalculate(c) ELSE Answer(c, FALSE)
    /\ UNCHANGED <<fee, paise, split, born>>

GetSplitDetails(c) ==
    /\ At(c, "get")
    /\ Answer(c, FALSE)
    /\ UNCHANGED <<fee, paise, split, player, born>>

\* cancelBooking and rejectBooking delete the split, its players with it.
EndSplit ==
    /\ split # "NONE"
    /\ split' = "NONE"
    /\ player' = [i \in Rows |-> Gone]
    /\ mixed' = (Running # {})
    /\ call' = [c \in SplitCalls |-> [call[c] EXCEPT !.alone = call[c].at = "idle"]]
    /\ UNCHANGED <<fee, paise, born>>

SplitNext ==
    \/ \E c \in SplitCalls :
          \/ SplitRequest(c) \/ PlayerRequest(c) \/ FindSplit(c)
          \/ CreateSplit(c) \/ AddLead(c) \/ RefreshSplit(c)
          \/ RecalcRead(c) \/ RecalcWrite(c)
          \/ AddPlayers(c) \/ RemovePlayer(c) \/ TriggerSplit(c)
          \/ SetCustomAmounts(c) \/ UpdatePlayerStatus(c) \/ GetSplitDetails(c)
    \/ EndSplit

SplitSpec == SplitInit /\ [][SplitNext]_splitVars

----------------------------------------------------------------------------
(* Properties *)

\* "Sum of individual splits must equal the total booking fee" (turfsy_prd.md): once the
\* split is final, whatever was added, removed, set by hand, marked and unmarked before,
\* the shares add up to the amount while somebody still owes, unless more was paid than
\* the amount.  Calls that overlap may break it, and the next call that shares the
\* amount out restores it.
SharesAddUp ==
    split = "DONE" /\ Running = {} /\ ~mixed /\ Pending(player) # {}
       /\ SumOf(player, Paid(player)) <= fee
    => SumOf(player, Existing(player)) = fee

\* Once the split is final, a player who has paid stays and the share paid stays what it
\* was, as long as calls do not overlap.
PaidShareStands ==
    [][split = "DONE" /\ (\A c \in Running : call[c].alone) /\ split' # "NONE"
       => \A i \in Paid(player) : player'[i] # Gone /\ player'[i].amount = player[i].amount]_splitVars

\* "Once a split is finalized, no new players can be added or removed" (turfsy_prd.md).
\* The code lets a player be removed, and the customer be added again.
FinalSplitKeepsItsPlayers ==
    [][split = "DONE" /\ split' = "DONE" => Existing(player') = Existing(player)]_splitVars
=============================================================================

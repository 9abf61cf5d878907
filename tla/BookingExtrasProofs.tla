-------------------------- MODULE BookingExtrasProofs --------------------------
(****************************************************************************)
(* What is proved of what surrounds a booking - the split among its         *)
(* players, maintenance blocks, prices, ratings, points, offers and the     *)
(* pages that show it - for any number of bookings, players, customers,     *)
(* turfs, requests and days.                                                *)
(****************************************************************************)
EXTENDS MCBookingExtras, SumFacts, SequenceTheorems

(* BookingSplit.  A request that runs alone knows what it read: what it is   *)
(* going to write are the shares of the players as they are, what it decided *)
(* still holds, and when it answers the shares add up, unless the split is   *)
(* not final or they did not when it came.                                   *)

PlayerRow == [name : Usernames, amount : Int, status : {"PENDING", "PAID"}]
Tables == [Rows -> PlayerRow \cup {Gone}]
SomeShares == UNION {[rows -> Int] : rows \in SUBSET Rows}
SplitEntry ==
    [op : Ops, at : Steps, ret : {"idle", "body", "refresh", "finish"}, row : Rows \cup {0},
     names : SUBSET Friends, want : {"PENDING", "PAID"},
     shares : SomeShares, go : BOOLEAN, alone : BOOLEAN]

TableShape ==
    /\ fee \in Nat /\ paise \in BOOLEAN
    /\ split \in {"NONE", "OPEN", "DONE"}
    /\ born \in 0 .. MaxRows
    /\ player \in Tables
    /\ \A i \in Existing(player) : i <= born
    /\ split = "NONE" => Existing(player) = {}
SplitShape ==
    /\ TableShape
    /\ mixed \in BOOLEAN
    /\ call \in [SplitCalls -> SplitEntry]

AloneRuns == \A c \in SplitCalls : call[c].at # "idle" /\ call[c].alone => Running = {c}

\* The shares add up to the amount, when they can.
Even(table) ==
    Pending(table) # {} /\ SumOf(table, Paid(table)) <= fee => SumOf(table, Existing(table)) = fee
Kept == split = "DONE" /\ ~mixed => Even(player)

Changed(table) == {i \in Pending(table) : EqualShares(table)[i] # table[i].amount}

\* What the handler decided when it was given the split.
Decided(k) ==
    /\ k.op = "custom" /\ k.go => split # "DONE"
    /\ k.op = "status" /\ ~k.go => split # "DONE"

Knows(k) ==
    /\ k.at \in {"split", "create", "lead", "body"} => Kept
    /\ k.at \in {"refresh", "finish"} => Even(player)
    /\ k.at = "body" /\ k.op = "trigger" /\ ~k.go => Even(player)
    /\ k.at = "body" => Decided(k)
    /\ k.at \in {"recalc", "write"} /\ k.ret = "body" => Decided(k)
    /\ k.at = "write" => k.shares = [i \in Changed(player) |-> EqualShares(player)[i]]
    /\ k.op = "remove" /\ k.go /\ k.row \in Existing(player) => player[k.row].status # "PAID"

SplitInv ==
    /\ SplitShape
    /\ AloneRuns
    /\ Running = {} => Kept
    /\ \A c \in SplitCalls : call[c].at # "idle" /\ call[c].alone => Knows(call[c])

----------------------------------------------------------------------------
LEMMA RowsOf ==
    ASSUME NEW t \in Tables
    PROVE  /\ Existing(t) \subseteq Rows /\ Existing(t) = Pending(t) \cup Paid(t)
           /\ Pending(t) \cap Paid(t) = {}
           /\ IsFiniteSet(Existing(t)) /\ IsFiniteSet(Pending(t)) /\ IsFiniteSet(Paid(t))
           /\ \A i \in Existing(t) : t[i] \in PlayerRow /\ t[i].amount \in Int
<1>1. IsFiniteSet(Rows)
    BY SplitAssumption, FS_Interval DEF Rows
<1>2. Existing(t) \subseteq Rows /\ Pending(t) \subseteq Rows /\ Paid(t) \subseteq Rows
    BY DEF Existing, Pending, Paid
<1>3. \A i \in Existing(t) : t[i] \in PlayerRow /\ t[i].amount \in Int
    BY DEF Existing, Tables, PlayerRow
<1>4. Existing(t) = Pending(t) \cup Paid(t) /\ Pending(t) \cap Paid(t) = {}
    BY DEF Pending, Paid
<1>5. IsFiniteSet(Existing(t)) /\ IsFiniteSet(Pending(t)) /\ IsFiniteSet(Paid(t))
    BY <1>1, <1>2, FS_Subset
<1> QED
    BY <1>2, <1>3, <1>4, <1>5

LEMMA SumOfParts ==
    ASSUME NEW t \in Tables
    PROVE  /\ SumOf(t, Paid(t)) \in Int /\ SumOf(t, Pending(t)) \in Int
           /\ SumOf(t, Existing(t)) = SumOf(t, Pending(t)) + SumOf(t, Paid(t))
<1> DEFINE F == [i \in Existing(t) |-> t[i].amount]
           P == [i \in Pending(t) |-> t[i].amount]
           D == [i \in Paid(t) |-> t[i].amount]
<1>1. /\ \A i \in Existing(t) : F[i] \in Int
      /\ \A i \in Pending(t) : P[i] = F[i] /\ P[i] \in Int
      /\ \A i \in Paid(t) : D[i] = F[i] /\ D[i] \in Int
    BY RowsOf
<1>2. /\ SumOf(t, Existing(t)) = SumOver(F, Existing(t)) /\ SumOf(t, Pending(t)) = SumOver(P, Pending(t))
      /\ SumOf(t, Paid(t)) = SumOver(D, Paid(t))
    BY DEF SumOf
<1> HIDE DEF F, P, D
<1>3. SumOver(P, Pending(t)) = SumOver(F, Pending(t)) /\ SumOver(D, Paid(t)) = SumOver(F, Paid(t))
    BY <1>1, RowsOf, SameSum
<1>4. SumOver(P, Pending(t)) \in Int /\ SumOver(D, Paid(t)) \in Int
    BY <1>1, RowsOf, SumIsInt
<1>5. \A i \in Pending(t) \cup Paid(t) : F[i] \in Int
    BY <1>1, RowsOf
<1>6. SumOver(F, Pending(t) \cup Paid(t)) = SumOver(F, Pending(t)) + SumOver(F, Paid(t))
    BY <1>5, RowsOf, SumOfBoth
<1> QED
    BY <1>2, <1>3, <1>4, <1>6, RowsOf

LEMMA RemainderIsInt ==
    ASSUME NEW r \in Int, NEW n \in Nat \ {0} PROVE Remainder(r, n) \in Int
BY DEF Remainder

LEMMA LastPending ==
    ASSUME NEW t \in Tables, Pending(t) # {} PROVE Max(Pending(t)) \in Pending(t)
<1>1. Pending(t) \subseteq Int
    BY RowsOf DEF Rows
<1>2. \E m \in Pending(t) : \A y \in Pending(t) : m >= y
    BY <1>1, RowsOf, HasGreatest
<1> QED
    BY <1>2 DEF Max

LEMMA EachShare ==
    ASSUME NEW t \in Tables, fee \in Nat, NEW n, NEW r, n = Cardinality(Pending(t)),
           r = fee - SumOf(t, Paid(t))
    PROVE  /\ DOMAIN EqualShares(t) = Pending(t)
           /\ EqualShares(t) = [i \in Pending(t) |-> EqualShares(t)[i]]
           /\ \A i \in Pending(t) :
                 /\ EqualShares(t)[i] = r \div n + IF i = Max(Pending(t)) THEN Remainder(r, n) ELSE 0
                 /\ EqualShares(t)[i] \in Int
                 /\ n \in Nat \ {0} /\ r \in Int
<1>1. EqualShares(t) = [i \in Pending(t) |-> r \div n + IF i = Max(Pending(t)) THEN Remainder(r, n) ELSE 0]
    BY Zenon DEF EqualShares
<1>2. r \in Int
    BY SumOfParts
<1>3. ASSUME NEW i \in Pending(t) PROVE n \in Nat \ {0}
    BY <1>3, RowsOf, FS_CardinalityType, FS_EmptySet
<1>4. ASSUME NEW i \in Pending(t)
      PROVE  r \div n + (IF i = Max(Pending(t)) THEN Remainder(r, n) ELSE 0) \in Int
  <2>1. n \in Nat \ {0}
      BY <1>3
  <2>2. Remainder(r, n) \in Int /\ r \div n \in Int
      BY <1>2, <2>1, RemainderIsInt
  <2> QED
      BY <2>2
<1> QED
    BY <1>1, <1>2, <1>3, <1>4

LEMMA DividedUp ==
    ASSUME NEW r \in Nat, NEW n \in Nat \ {0}
    PROVE  \E k \in Int, rest \in Int : k = r \div n /\ rest = r % n /\ k * n + rest = r
OBVIOUS

\* The shares make up what has not been paid.
LEMMA SharesMakeUp ==
    ASSUME NEW t \in Tables, fee \in Nat, Pending(t) # {}, SumOf(t, Paid(t)) <= fee
    PROVE  SumOver(EqualShares(t), Pending(t)) = fee - SumOf(t, Paid(t))
<1> PICK n, r, last : n = Cardinality(Pending(t)) /\ r = fee - SumOf(t, Paid(t)) /\ last = Max(Pending(t))
    OBVIOUS
<1>1. r \in Nat /\ n \in Nat \ {0}
  <2>1. r \in Nat
      BY SumOfParts
  <2>2. n \in Nat \ {0}
      BY RowsOf, FS_CardinalityType, FS_EmptySet
  <2> QED
      BY <2>1, <2>2
<1>2. Remainder(r, n) = r % n
    BY <1>1 DEF Remainder
<1>3. PICK k \in Int, rest \in Int : k = r \div n /\ rest = r % n /\ k * n + rest = r
    BY <1>1, DividedUp
<1> DEFINE F == EqualShares(t)
           C == [i \in Pending(t) |-> k]
<1>4. last \in Pending(t) /\ IsFiniteSet(Pending(t))
    BY LastPending, RowsOf
<1>5. \A i \in Pending(t) : F[i] = k + (IF i = last THEN rest ELSE 0) /\ F[i] \in Int
    BY <1>2, <1>3, EachShare
<1>6. \A i \in Pending(t) : C[i] = k
    OBVIOUS
<1> HIDE DEF F, C
<1>7. SumOver(C, Pending(t)) = k * n
    BY <1>3, <1>4, <1>6, SumOfSame
<1>8. /\ \A i \in Pending(t) : C[i] \in Int /\ F[i] \in Int
      /\ \A i \in Pending(t) \ {last} : F[i] = C[i]
    BY <1>3, <1>5, <1>6
<1>9. SumOver(F, Pending(t)) - SumOver(C, Pending(t)) = F[last] - C[last]
    BY <1>4, <1>8, SumChanges
<1>10. F[last] - C[last] = rest
    BY <1>3, <1>4, <1>5, <1>6
<1>11. SumOver(F, Pending(t)) \in Int /\ SumOver(C, Pending(t)) \in Int
    BY <1>4, <1>8, SumIsInt
<1>12. SumOver(F, Pending(t)) = r
    BY <1>3, <1>7, <1>9, <1>10, <1>11
<1> QED
    BY <1>12 DEF F

\* A table with the shares written is even.
LEMMA MakesEven ==
    ASSUME NEW t \in Tables, NEW u \in Tables, fee \in Nat, Pending(u) = Pending(t), Paid(u) = Paid(t),
           \A i \in Paid(t) : u[i].amount = t[i].amount,
           \A i \in Pending(t) : u[i].amount = EqualShares(t)[i]
    PROVE  Even(u)
<1>1. SumOf(u, Paid(u)) = SumOf(t, Paid(t))
  <2> DEFINE D == [i \in Paid(t) |-> t[i].amount]
             E == [i \in Paid(t) |-> u[i].amount]
  <2>1. \A i \in Paid(t) : D[i] = E[i]
      OBVIOUS
  <2>2. D = E
      BY <2>1
  <2> QED
      BY <2>2 DEF SumOf
<1> SUFFICES ASSUME Pending(t) # {}, SumOf(t, Paid(t)) <= fee
             PROVE  SumOf(u, Existing(u)) = fee
    BY <1>1 DEF Even
<1>2. SumOf(u, Pending(u)) = SumOver(EqualShares(t), Pending(t))
  <2> DEFINE F == [i \in Pending(t) |-> u[i].amount]
             G == EqualShares(t)
  <2>1. \A i \in Pending(t) : F[i] = G[i]
      OBVIOUS
  <2> HIDE DEF F, G
  <2>2. SumOver(F, Pending(t)) = SumOver(G, Pending(t))
      BY <2>1, RowsOf, SameSum
  <2> QED
      BY <2>2 DEF SumOf, F, G
<1>3. SumOver(EqualShares(t), Pending(t)) = fee - SumOf(t, Paid(t))
    BY SharesMakeUp
<1>4. SumOf(u, Existing(u)) = SumOf(u, Pending(u)) + SumOf(u, Paid(u)) /\ SumOf(u, Paid(u)) \in Int
    BY SumOfParts
<1> QED
    BY <1>1, <1>2, <1>3, <1>4

----------------------------------------------------------------------------
(* The requests. *)

\* What a step does to the shares that were paid.
PaidStay ==
    split = "DONE" /\ (\A c \in Running : call[c].alone) /\ split' # "NONE"
    => \A i \in Paid(player) : player'[i] # Gone /\ player'[i].amount = player[i].amount

LEMMA NoCallIsEntry == NoCall \in SplitEntry
<1> DEFINE rows == {}
<1>1. NoShares \in [rows -> Int] /\ rows \in SUBSET Rows
    BY DEF NoShares
<1>2. NoShares \in UNION {[r -> Int] : r \in SUBSET Rows}
    BY <1>1
<1> QED
    BY <1>2 DEF NoCall, SplitEntry, SomeShares, Ops, Steps

\* What the handler goes on with, given a split.
GivenAs(g, k, t, done) ==
    /\ g \in SplitEntry /\ g.at = "body" /\ g.op = k.op /\ g.alone = k.alone
    /\ g.row = k.row /\ g.ret = k.ret
    /\ k.op = "remove" => (g.go <=> k.go)
    /\ k.op = "custom" /\ g.go => ~done
    /\ k.op = "status" /\ ~g.go => ~done
    /\ k.op = "trigger" /\ ~g.go => SumOf(t, Existing(t)) = fee

LEMMA GivenFacts ==
    ASSUME NEW k \in SplitEntry, NEW t, NEW done, done \in BOOLEAN
    PROVE  GivenAs(Given(k, t, done), k, t, done)
<1>0. PICK g : g = Given(k, t, done)
    OBVIOUS
<1> SUFFICES GivenAs(g, k, t, done)
    BY <1>0
<1>1. CASE k.op = "trigger"
  <2>1. PICK v : v = ~(SumOf(t, Existing(t)) = fee /\ ~paise)
      OBVIOUS
  <2>2. v \in BOOLEAN /\ (~v => SumOf(t, Existing(t)) = fee)
      BY <2>1 DEF SplitEntry
  <2>3. g = [k EXCEPT !.at = "body", !.go = v]
      BY <1>0, <1>1, <2>1, Zenon DEF Given
  <2>4. /\ g \in SplitEntry /\ g.at = "body" /\ g.op = k.op /\ g.alone = k.alone
        /\ g.row = k.row /\ g.ret = k.ret /\ g.go = v
      BY <2>2, <2>3 DEF SplitEntry, Steps
  <2> QED
      BY <1>1, <2>2, <2>4 DEF GivenAs
<1>2. CASE k.op = "add"
  <2>1. PICK v : v = IF done THEN {} ELSE k.names \ {t[i].name : i \in Existing(t)}
      OBVIOUS
  <2>2. v \in SUBSET Friends
      BY <2>1 DEF SplitEntry
  <2>3. g = [k EXCEPT !.at = "body", !.names = v]
      BY <1>0, <1>2, <2>1, Zenon DEF Given
  <2>4. /\ g \in SplitEntry /\ g.at = "body" /\ g.op = k.op /\ g.alone = k.alone
        /\ g.row = k.row /\ g.ret = k.ret /\ g.go = k.go
      BY <2>2, <2>3 DEF SplitEntry, Steps
  <2> QED
      BY <1>2, <2>2, <2>4 DEF GivenAs
<1>3. CASE k.op = "custom"
  <2>1. PICK v : v = (~done /\ ~paise /\ DOMAIN k.shares \subseteq Existing(t))
      OBVIOUS
  <2>2. v \in BOOLEAN /\ (v => ~done)
      BY <2>1 DEF SplitEntry
  <2>3. g = [k EXCEPT !.at = "body", !.go = v]
      BY <1>0, <1>3, <2>1, Zenon DEF Given
  <2>4. /\ g \in SplitEntry /\ g.at = "body" /\ g.op = k.op /\ g.alone = k.alone
        /\ g.row = k.row /\ g.ret = k.ret /\ g.go = v
      BY <2>2, <2>3 DEF SplitEntry, Steps
  <2> QED
      BY <1>3, <2>2, <2>4 DEF GivenAs
<1>4. CASE k.op = "status"
  <2>1. PICK v : v = done
      OBVIOUS
  <2>2. v \in BOOLEAN /\ (~v => ~done)
      BY <2>1 DEF SplitEntry
  <2>3. g = [k EXCEPT !.at = "body", !.go = v]
      BY <1>0, <1>4, <2>1, Zenon DEF Given
  <2>4. /\ g \in SplitEntry /\ g.at = "body" /\ g.op = k.op /\ g.alone = k.alone
        /\ g.row = k.row /\ g.ret = k.ret /\ g.go = v
      BY <2>2, <2>3 DEF SplitEntry, Steps
  <2> QED
      BY <1>4, <2>2, <2>4 DEF GivenAs
<1>5. CASE k.op \notin {"trigger", "add", "custom", "status"}
  <2>1. PICK v : v = k
      OBVIOUS
  <2>2. k.go \in BOOLEAN
      BY <2>1 DEF SplitEntry
  <2>3. g = [k EXCEPT !.at = "body"]
      BY <1>0, <1>5, <2>1, Zenon DEF Given
  <2>4. /\ g \in SplitEntry /\ g.at = "body" /\ g.op = k.op /\ g.alone = k.alone
        /\ g.row = k.row /\ g.ret = k.ret /\ g.go = k.go
      BY <2>2, <2>3 DEF SplitEntry, Steps
  <2> QED
      BY <1>5, <2>2, <2>4 DEF GivenAs
<1> QED
    BY <1>1, <1>2, <1>3, <1>4, <1>5

\* A player about to be removed has not paid.
MayGo(k) == k.op = "remove" /\ k.go /\ k.row \in Existing(player) => player[k.row].status # "PAID"

LEMMA GivenKnows ==
    ASSUME NEW k \in SplitEntry, NEW g, g = Given(k, player, split = "DONE")
    PROVE  /\ g \in SplitEntry /\ g.at = "body" /\ g.alone = k.alone
           /\ Kept /\ MayGo(k) => Knows(g)
<1>1. PICK done : done = (split = "DONE")
    OBVIOUS
<1>2. GivenAs(g, k, player, done)
    BY <1>1, GivenFacts
<1>3. k.op = "trigger" /\ ~g.go => Even(player)
    BY <1>2 DEF Even, GivenAs
<1>4. Decided(g)
    BY <1>1, <1>2 DEF Decided, GivenAs
<1> QED
    BY <1>2, <1>3, <1>4 DEF Knows, GivenAs, MayGo

\* The request as the read of the split leaves it.
LEMMA FoundFacts ==
    ASSUME NEW k \in SplitEntry, NEW g, g = FoundSplit(k)
    PROVE  /\ g \in SplitEntry /\ g.at \in {"create", "lead", "body"} /\ g.alone = k.alone
           /\ Kept /\ MayGo(k) => Knows(g)
<1>1. CASE g = [k EXCEPT !.at = "create"] \/ g = [k EXCEPT !.at = "lead"]
    BY <1>1 DEF SplitEntry, Steps, Knows, MayGo
<1>2. CASE g = Given(k, player, split = "DONE")
    BY <1>2, GivenKnows
<1> QED
    BY <1>1, <1>2 DEF FoundSplit

LEMMA AddRowsFacts ==
    ASSUME TableShape, NEW names \in SUBSET Usernames, AddRows(names)
    PROVE  /\ player' \in Tables /\ born' \in 0 .. MaxRows
           /\ \A i \in Existing(player') : i <= born'
           /\ \A i \in Existing(player) : i \in Existing(player') /\ player'[i] = player[i]
           /\ \A i \in Existing(player') \ Existing(player) : player'[i].status = "PENDING"
<1>1. IsFiniteSet(names) /\ Cardinality(names) \in Nat
  <2>1. IsFiniteSet(Usernames)
      BY SplitAssumption, FS_AddElement DEF Usernames
  <2> QED
      BY <2>1, FS_Subset, FS_CardinalityType
<1> PICK n \in Nat : n = Cardinality(names)
    BY <1>1
<1>2. PICK order \in [names -> born + 1 .. born + n] :
          player' = [i \in Rows |-> IF \E m \in names : order[m] = i
                                    THEN NewRow(CHOOSE m \in names : order[m] = i)
                                    ELSE player[i]]
    BY Zenon DEF AddRows
<1>3. born \in Nat /\ born' = born + n /\ born + n <= MaxRows /\ MaxRows \in Nat
    BY SplitAssumption DEF AddRows, TableShape
<1>4. \A m \in Usernames : NewRow(m) \in PlayerRow /\ NewRow(m).status = "PENDING"
    BY DEF NewRow, PlayerRow
<1>5. \A i \in Rows : (\E m \in names : order[m] = i)
         => \E m \in Usernames : player'[i] = NewRow(m) /\ i > born /\ i <= born + n
  <2> SUFFICES ASSUME NEW i \in Rows, \E m \in names : order[m] = i
               PROVE  \E m \in Usernames : player'[i] = NewRow(m) /\ i > born /\ i <= born + n
      OBVIOUS
  <2>1. PICK m \in names : m = CHOOSE x \in names : order[x] = i
      OBVIOUS
  <2>2. player'[i] = NewRow(m)
      BY <1>2, <2>1
  <2>3. i > born /\ i <= born + n
      BY <1>3
  <2> QED
      BY <2>2, <2>3
<1>6. \A i \in Rows : ~(\E m \in names : order[m] = i) => player'[i] = player[i]
    BY <1>2
<1>7. player \in Tables /\ \A i \in Existing(player) : i <= born /\ i \in Rows /\ player[i] # Gone
    BY DEF TableShape, Existing
<1>8. player' \in Tables
  <2>1. \A i \in Rows : player'[i] \in PlayerRow \cup {Gone}
      BY <1>4, <1>5, <1>6, <1>7 DEF Tables
  <2>2. player' = [i \in Rows |-> player'[i]]
      BY <1>2
  <2> QED
      BY <2>1, <2>2 DEF Tables
<1>9. Gone \notin PlayerRow
    BY SplitAssumption DEF PlayerRow, Usernames
<1>10. \A i \in Existing(player) : player'[i] = player[i]
    BY <1>3, <1>5, <1>6, <1>7, SMTT(30) DEF Rows
<1>11. \A i \in Existing(player') : i \in Rows /\ player'[i] # Gone
    BY DEF Existing
<1>12. \A i \in Existing(player) : i \in Existing(player')
    BY <1>7, <1>10 DEF Existing
<1>13. \A i \in Existing(player') : i <= born' /\ (i \notin Existing(player) => player'[i].status = "PENDING")
  <2> SUFFICES ASSUME NEW i \in Existing(player')
               PROVE  i <= born' /\ (i \notin Existing(player) => player'[i].status = "PENDING")
      OBVIOUS
  <2>1. CASE \E m \in names : order[m] = i
      BY <1>3, <1>4, <1>5, <1>11, <2>1
  <2>2. CASE ~ \E m \in names : order[m] = i
    <3>1. i \in Existing(player)
        BY <1>6, <1>11, <2>2 DEF Existing
    <3> QED
        BY <1>3, <1>7, <3>1 DEF Rows
  <2> QED
      BY <2>1, <2>2
<1> QED
    BY <1>3, <1>8, <1>10, <1>12, <1>13

----------------------------------------------------------------------------
(* The steps. *)

LEMMA Standing ==
    ASSUME UNCHANGED <<fee, paise, split, player, mixed>>
    PROVE  /\ Kept' = Kept /\ Even(player)' = Even(player)
           /\ \A k \in SplitEntry : Knows(k)' = Knows(k)
<1>1. Existing(player)' = Existing(player) /\ Pending(player)' = Pending(player) /\ Paid(player)' = Paid(player)
    BY DEF Existing, Pending, Paid
<1>2. Even(player)' = Even(player)
    BY <1>1 DEF Even, SumOf
<1>3. EqualShares(player)' = EqualShares(player)
    BY Zenon DEF EqualShares, SumOf, Remainder, Paid, Pending, Existing
<1>4. Changed(player)' = Changed(player)
    BY <1>1, <1>3 DEF Changed
<1>5. Kept' = Kept
    BY <1>2 DEF Kept
<1> QED
    BY <1>1, <1>2, <1>3, <1>4, <1>5, Zenon DEF Knows, Decided

\* A step of one request that runs.
LEMMA OneStep ==
    ASSUME SplitInv, NEW c \in SplitCalls, call[c].at # "idle", NEW k \in SplitEntry,
           call' = [call EXCEPT ![c] = k], SplitShape',
           k.at # "idle" => k.alone = call[c].alone /\ (k.alone => Knows(k)'),
           k.at = "idle" => (call[c].alone => Kept') /\ (~call[c].alone => mixed')
    PROVE  SplitInv'
<1>1. call \in [SplitCalls -> SplitEntry]
    BY DEF SplitInv, SplitShape
<1>2. call'[c] = k /\ \A d \in SplitCalls : d # c => call'[d] = call[d]
    BY <1>1
<1>3. c \in Running /\ c \in SplitCalls
    BY DEF Running
<1>4. \A d \in SplitCalls : d # c => ~(call[d].at # "idle" /\ call[d].alone)
    BY <1>3 DEF SplitInv, AloneRuns
<1>5. AloneRuns'
  <2> SUFFICES ASSUME NEW d \in SplitCalls, call'[d].at # "idle", call'[d].alone
               PROVE  Running' = {d}
      BY DEF AloneRuns
  <2>1. d = c /\ k.at # "idle" /\ call[c].alone
      BY <1>2, <1>4
  <2>2. Running = {c}
      BY <2>1 DEF SplitInv, AloneRuns
  <2> QED
      BY <1>2, <2>1, <2>2 DEF Running
<1>6. Running' = {} => Kept'
  <2> SUFFICES ASSUME Running' = {} PROVE Kept'
      OBVIOUS
  <2>1. k.at = "idle"
      BY <1>2 DEF Running
  <2> QED
      BY <2>1 DEF Kept
<1>7. \A d \in SplitCalls : (call[d].at # "idle" /\ call[d].alone => Knows(call[d]))'
  <2> SUFFICES ASSUME NEW d \in SplitCalls, call'[d].at # "idle", call'[d].alone
               PROVE  Knows(call[d])'
      OBVIOUS
  <2>1. d = c
      BY <1>2, <1>4
  <2> QED
      BY <1>2, <2>1
<1> QED
    BY <1>5, <1>6, <1>7 DEF SplitInv

\* It is answered.
LEMMA AnswerStep ==
    ASSUME SplitInv, NEW c \in SplitCalls, call[c].at # "idle", NEW shared \in BOOLEAN,
           Answer(c, shared), TableShape', call[c].alone => Kept'
    PROVE  SplitInv'
<1>1. call \in [SplitCalls -> SplitEntry] /\ mixed \in BOOLEAN
    BY DEF SplitInv, SplitShape
<1>2. call' = [call EXCEPT ![c] = NoCall] /\ (~call[c].alone => mixed') /\ mixed' \in BOOLEAN
    BY <1>1 DEF Answer
<1>3. call' \in [SplitCalls -> SplitEntry]
    BY <1>1, <1>2, NoCallIsEntry
<1>4. SplitShape'
    BY <1>2, <1>3 DEF SplitShape
<1>5. NoCall.at = "idle"
    BY DEF NoCall
<1> QED
    BY <1>2, <1>4, <1>5, NoCallIsEntry, OneStep

\* It goes on.
LEMMA BecomeStep ==
    ASSUME SplitInv, NEW c \in SplitCalls, call[c].at # "idle", NEW k \in SplitEntry,
           Become(c, k), k.at # "idle", k.alone = call[c].alone, TableShape', k.alone => Knows(k)'
    PROVE  SplitInv'
<1>1. call' = [call EXCEPT ![c] = k] /\ mixed' = mixed
    BY DEF Become
<1>2. SplitShape'
    BY <1>1 DEF SplitShape, SplitInv
<1> QED
    BY <1>1, <1>2, OneStep

\* It begins to share the amount out.
LEMMA ShareStep ==
    ASSUME SplitInv, NEW c \in SplitCalls, call[c].at # "idle", NEW ret \in {"idle", "finish"},
           Become(c, Sharing(call[c], ret)), TableShape'
    PROVE  SplitInv'
<1>1. call[c] \in SplitEntry
    BY DEF SplitInv, SplitShape
<1>2. PICK k : k = Sharing(call[c], ret)
    OBVIOUS
<1>3. /\ k \in SplitEntry /\ k.at = "recalc" /\ k.alone = call[c].alone
      /\ k.row = 0 /\ k.ret = ret
    BY <1>1, <1>2, NoCallIsEntry DEF Sharing, SplitEntry, Steps, NoCall
<1>4. 0 \notin Existing(player)'
    BY DEF Existing, Rows
<1>5. Knows(k)'
    BY <1>3, <1>4 DEF Knows
<1> QED
    BY <1>2, <1>3, <1>5, BecomeStep

\* The amount has been shared out.
LEMMA ReturnStep ==
    ASSUME SplitInv, NEW c \in SplitCalls, call[c].at \in {"recalc", "write"}, Return(c), TableShape',
           call[c].alone => Even(player)', split' = split,
           \A i \in Existing(player)' : i \in Existing(player) /\ player'[i].status = player[i].status
    PROVE  SplitInv'
<1>1. call[c] \in SplitEntry /\ call[c].at # "idle"
    BY DEF SplitInv, SplitShape
<1>2. call[c].alone => Kept'
    BY DEF Kept
<1>3. CASE call[c].ret = "idle"
  <2>1. Answer(c, TRUE)
      BY <1>3 DEF Return
  <2> QED
      BY <1>1, <1>2, <2>1, AnswerStep
<1>4. CASE call[c].ret # "idle"
  <2>1. PICK k : k = [call[c] EXCEPT !.at = call[c].ret, !.shares = NoShares]
      OBVIOUS
  <2>2. Become(c, k)
      BY <1>4, <2>1 DEF Return
  <2>3. NoShares \in SomeShares
      BY NoCallIsEntry DEF NoCall, SplitEntry
  <2>4. /\ k \in SplitEntry /\ k.at = call[c].ret /\ k.alone = call[c].alone /\ k.op = call[c].op
        /\ k.row = call[c].row /\ k.go = call[c].go /\ k.ret = call[c].ret
      BY <1>1, <2>1, <2>3 DEF SplitEntry, Steps
  <2>5. k.at \in {"body", "refresh", "finish"}
      BY <1>1, <1>4, <2>4 DEF SplitEntry
  <2>6. ASSUME k.alone PROVE Knows(k)'
    <3>1. Knows(call[c]) /\ Kept' /\ Even(player)'
        BY <1>1, <1>2, <2>4, <2>6 DEF SplitInv
    <3>2. k.at = "body" => Decided(k)'
        BY <2>4, <3>1 DEF Knows, Decided
    <3>3. (MayGo(k))'
        BY <2>4, <3>1 DEF Knows, MayGo
    <3> QED
        BY <2>5, <3>1, <3>2, <3>3 DEF Knows, MayGo
  <2> QED
      BY <1>1, <2>2, <2>4, <2>5, <2>6, BecomeStep
<1> QED
    BY <1>3, <1>4

\* A request comes.
LEMMA StartStep ==
    ASSUME SplitInv, NEW c \in SplitCalls, NEW q \in SplitEntry, q.at # "idle",
           Kept => Knows(q), StartCall(c, q)
    PROVE  SplitInv' /\ PaidStay
<1>1. PICK none \in BOOLEAN : none = (Running = {})
    OBVIOUS
<1>2. PICK e : e = [q EXCEPT !.alone = none]
    OBVIOUS
<1>3. /\ e \in SplitEntry /\ e.at = q.at /\ e.alone = none /\ e.op = q.op /\ e.go = q.go /\ e.row = q.row
      /\ e.ret = q.ret /\ e.shares = q.shares
    BY <1>1, <1>2 DEF SplitEntry
<1>4. /\ call' = [d \in SplitCalls |-> IF d = c THEN e ELSE [call[d] EXCEPT !.alone = call[d].at = "idle"]]
      /\ UNCHANGED <<fee, paise, split, player, born, mixed>>
    BY <1>1, <1>2 DEF StartCall
<1>5. \A d \in SplitCalls : d # c =>
         call[d] \in SplitEntry /\ call'[d] \in SplitEntry /\ call'[d].at = call[d].at
         /\ (call'[d].alone <=> call[d].at = "idle")
    BY <1>4 DEF SplitInv, SplitShape, SplitEntry
<1>6. call'[c] = e /\ c \in Running'
    BY <1>3, <1>4 DEF Running
<1>7. SplitShape'
  <2>1. call' \in [SplitCalls -> SplitEntry]
      BY <1>3, <1>4, <1>5
  <2>2. TableShape'
      BY <1>4 DEF SplitInv, SplitShape, TableShape, Existing
  <2> QED
      BY <1>4, <2>1, <2>2 DEF SplitInv, SplitShape
<1>8. \A d \in SplitCalls : call'[d].at # "idle" /\ call'[d].alone => d = c /\ none
    BY <1>3, <1>5, <1>6
<1>9. AloneRuns'
  <2> SUFFICES ASSUME NEW d \in SplitCalls, call'[d].at # "idle", call'[d].alone PROVE Running' = {d}
      BY DEF AloneRuns
  <2>1. d = c /\ Running = {}
      BY <1>1, <1>8
  <2> QED
      BY <1>5, <1>6, <2>1 DEF Running
<1>10. ASSUME none PROVE Knows(e)'
  <2>1. Kept
      BY <1>1, <1>10 DEF SplitInv
  <2>2. Knows(e)
      BY <1>3, <2>1, Zenon DEF Knows, Decided
  <2> QED
      BY <1>3, <1>4, <2>2, Standing
<1>11. \A d \in SplitCalls : (call[d].at # "idle" /\ call[d].alone => Knows(call[d]))'
  <2> SUFFICES ASSUME NEW d \in SplitCalls, call'[d].at # "idle", call'[d].alone PROVE Knows(call[d])'
      OBVIOUS
  <2> QED
      BY <1>6, <1>8, <1>10
<1>12. PaidStay
    BY <1>4, RowsOf DEF PaidStay, SplitInv, SplitShape, TableShape, Existing, Paid
<1> QED
    BY <1>6, <1>7, <1>9, <1>11, <1>12 DEF SplitInv

LEMMA SplitRequestStep ==
    ASSUME SplitInv, NEW c \in SplitCalls, SplitRequest(c)
    PROVE  SplitInv' /\ PaidStay
<1>1. \A op \in Ops : Request(op) \in SplitEntry /\ Request(op).op = op /\ Request(op).row = 0
    BY NoCallIsEntry DEF Request, SplitEntry, NoCall
<1>2. ASSUME NEW r \in SplitEntry, r.op # "remove", StartCall(c, FoundSplit(r))
      PROVE  SplitInv' /\ PaidStay
  <2>1. PICK q : q = FoundSplit(r)
      OBVIOUS
  <2>2. MayGo(r)
      BY <1>2 DEF MayGo
  <2>3. q \in SplitEntry /\ q.at # "idle" /\ (Kept => Knows(q))
      BY <2>1, <2>2, FoundFacts
  <2> QED
      BY <1>2, <2>1, <2>3, StartStep
<1>3. CASE \E names \in SUBSET Friends \ {{}} :
              StartCall(c, FoundSplit([Request("add") EXCEPT !.names = names]))
  <2>1. PICK names \in SUBSET Friends :
            StartCall(c, FoundSplit([Request("add") EXCEPT !.names = names]))
      BY <1>3
  <2>2. PICK r : r = [Request("add") EXCEPT !.names = names]
      OBVIOUS
  <2>3. r \in SplitEntry /\ r.op # "remove"
      BY <1>1, <2>2 DEF SplitEntry, Ops
  <2> QED
      BY <1>2, <2>1, <2>2, <2>3
<1>4. CASE \E f \in CustomShares : StartCall(c, FoundSplit([Request("custom") EXCEPT !.shares = f]))
  <2>1. PICK f \in CustomShares : StartCall(c, FoundSplit([Request("custom") EXCEPT !.shares = f]))
      BY <1>4
  <2>2. f \in SomeShares
    <3>1. PICK rows \in SUBSET Existing(player) : f \in [rows -> 1 .. fee]
        BY DEF CustomShares
    <3>2. rows \in SUBSET Rows /\ f \in [rows -> Int]
        BY <3>1 DEF Existing
    <3> QED
        BY <3>2 DEF SomeShares
  <2>3. PICK r : r = [Request("custom") EXCEPT !.shares = f]
      OBVIOUS
  <2>4. r \in SplitEntry /\ r.op # "remove"
      BY <1>1, <2>2, <2>3 DEF SplitEntry, Ops
  <2> QED
      BY <1>2, <2>1, <2>3, <2>4
<1>5. CASE \E op \in {"trigger", "get"} : StartCall(c, FoundSplit(Request(op)))
  <2>1. PICK op \in {"trigger", "get"} : StartCall(c, FoundSplit(Request(op)))
      BY <1>5
  <2>2. op \in Ops
      BY DEF Ops
  <2> QED
      BY <1>1, <1>2, <2>1, <2>2
<1> QED
    BY <1>3, <1>4, <1>5 DEF SplitRequest

LEMMA PlayerRequestStep ==
    ASSUME SplitInv, NEW c \in SplitCalls, PlayerRequest(c)
    PROVE  SplitInv' /\ PaidStay
<1>1. PICK i \in Existing(player) :
        \/ StartCall(c, [Request("remove") EXCEPT !.at = "split", !.row = i, !.go = player[i].status # "PAID"])
        \/ \E s \in {"PENDING", "PAID"} :
              StartCall(c, [Request("status") EXCEPT !.at = "split", !.row = i, !.want = s])
    BY Zenon DEF PlayerRequest
<1>2. i \in Rows
    BY DEF Existing
<1>3. \A op \in Ops : Request(op) \in SplitEntry /\ Request(op).op = op
    BY NoCallIsEntry DEF Request, SplitEntry, NoCall
<1>4. CASE StartCall(c, [Request("remove") EXCEPT !.at = "split", !.row = i, !.go = player[i].status # "PAID"])
  <2>1. PICK go \in BOOLEAN : go = (player[i].status # "PAID")
      OBVIOUS
  <2>2. PICK q : q = [Request("remove") EXCEPT !.at = "split", !.row = i, !.go = go]
      OBVIOUS
  <2>3. StartCall(c, q)
      BY <1>4, <2>1, <2>2
  <2>4. q \in SplitEntry /\ q.at = "split" /\ q.op = "remove" /\ q.row = i /\ q.go = go
      BY <1>2, <1>3, <2>2 DEF SplitEntry, Ops, Steps
  <2>5. Kept => Knows(q)
      BY <2>1, <2>4 DEF Knows
  <2> QED
      BY <2>3, <2>4, <2>5, StartStep
<1>5. CASE \E s \in {"PENDING", "PAID"} :
              StartCall(c, [Request("status") EXCEPT !.at = "split", !.row = i, !.want = s])
  <2>1. PICK s \in {"PENDING", "PAID"} :
            StartCall(c, [Request("status") EXCEPT !.at = "split", !.row = i, !.want = s])
      BY <1>5
  <2>2. PICK q : q = [Request("status") EXCEPT !.at = "split", !.row = i, !.want = s]
      OBVIOUS
  <2>3. q \in SplitEntry /\ q.at = "split" /\ q.op = "status"
      BY <1>2, <1>3, <2>2 DEF SplitEntry, Ops, Steps
  <2>4. Kept => Knows(q)
      BY <2>3 DEF Knows
  <2> QED
      BY <2>1, <2>2, <2>3, <2>4, StartStep
<1> QED
    BY <1>1, <1>4, <1>5

\* What is known of a request that runs.
LEMMA Entry ==
    ASSUME SplitInv, NEW c \in SplitCalls
    PROVE  /\ call[c] \in SplitEntry /\ TableShape
           /\ call[c].at # "idle" /\ call[c].alone => Knows(call[c])
BY DEF SplitInv, SplitShape

\* A step that leaves the table alone.
LEMMA TableStands ==
    ASSUME SplitInv, UNCHANGED <<fee, paise, player, born>>, split' \in {"NONE", "OPEN", "DONE"},
           split' = "NONE" => split = "NONE"
    PROVE  TableShape' /\ PaidStay
<1>1. TableShape' 
    BY DEF SplitInv, SplitShape, TableShape, Existing
<1>2. PaidStay
    BY DEF PaidStay, Paid, Existing
<1> QED
    BY <1>1, <1>2

LEMMA FindSplitStep ==
    ASSUME SplitInv, NEW c \in SplitCalls, FindSplit(c)
    PROVE  SplitInv' /\ PaidStay
<1>1. PICK k : k = FoundSplit(call[c])
    OBVIOUS
<1>2. call[c].at = "split" /\ Become(c, k) /\ UNCHANGED <<fee, paise, split, player, born>>
    BY <1>1 DEF FindSplit
<1>3. k \in SplitEntry /\ k.at # "idle" /\ k.alone = call[c].alone /\ (Kept /\ MayGo(call[c]) => Knows(k))
    BY <1>1, Entry, FoundFacts
<1>4. ASSUME k.alone PROVE Knows(k)'
  <2>1. Knows(call[c])
      BY <1>2, <1>3, <1>4, Entry
  <2>2. Knows(k)
      BY <1>2, <1>3, <2>1 DEF Knows, MayGo
  <2> QED
      BY <1>2, <1>3, <2>2, Standing DEF Become
<1>5. TableShape' /\ PaidStay
    BY <1>2, TableStands DEF SplitInv, SplitShape, TableShape
<1> QED
    BY <1>2, <1>3, <1>4, <1>5, BecomeStep

\* It throws where it knows that the shares stand.
LEMMA ThrowStep ==
    ASSUME SplitInv, NEW c \in SplitCalls, call[c].at # "idle", Answer(c, FALSE),
           UNCHANGED <<fee, paise, split, player, born>>, call[c].alone => Kept
    PROVE  SplitInv' /\ PaidStay
<1>1. TableShape' /\ PaidStay
    BY TableStands DEF SplitInv, SplitShape, TableShape
<1>2. call[c].alone => mixed' = mixed
    BY DEF Answer
<1>3. call[c].alone => Kept'
    BY <1>2, Standing
<1> QED
    BY <1>1, <1>3, AnswerStep

LEMMA RefreshSplitStep ==
    ASSUME SplitInv, NEW c \in SplitCalls, RefreshSplit(c)
    PROVE  SplitInv' /\ PaidStay
<1>1. call[c].at = "refresh" /\ UNCHANGED <<fee, paise, split, player, born>>
    BY DEF RefreshSplit
<1>2. call[c].alone => Kept /\ MayGo(call[c])
  <2>1. call[c].alone => Knows(call[c])
      BY <1>1, Entry
  <2> QED
      BY <1>1, <2>1 DEF Knows, MayGo, Kept
<1>3. CASE split = "NONE"
  <2>1. Answer(c, FALSE)
      BY <1>3 DEF RefreshSplit, Throw
  <2> QED
      BY <1>1, <1>2, <2>1, ThrowStep
<1>4. CASE split # "NONE"
  <2>1. PICK k : k = Given(call[c], player, split = "DONE")
      OBVIOUS
  <2>2. Become(c, k)
      BY <1>4, <2>1 DEF RefreshSplit
  <2>3. k \in SplitEntry /\ k.at = "body" /\ k.alone = call[c].alone /\ (Kept /\ MayGo(call[c]) => Knows(k))
      BY <2>1, Entry, GivenKnows
  <2>4. k.alone => Knows(k)'
      BY <1>1, <1>2, <2>2, <2>3, Standing DEF Become
  <2>5. TableShape' /\ PaidStay
      BY <1>1, TableStands DEF SplitInv, SplitShape, TableShape
  <2> QED
      BY <1>1, <2>2, <2>3, <2>4, <2>5, BecomeStep
<1> QED
    BY <1>3, <1>4

LEMMA GetSplitDetailsStep ==
    ASSUME SplitInv, NEW c \in SplitCalls, GetSplitDetails(c)
    PROVE  SplitInv' /\ PaidStay
<1>1. /\ call[c].at = "body" /\ UNCHANGED <<fee, paise, split, player, born>> /\ Answer(c, FALSE)
    BY DEF GetSplitDetails, At
<1>2. call[c].alone => Kept
    BY <1>1, Entry DEF Knows
<1> QED
    BY <1>1, <1>2, ThrowStep

\* Rows are added.
LEMMA TableGrows ==
    ASSUME TableShape, NEW names \in SUBSET Usernames, AddRows(names), split' \in {"OPEN", "DONE"},
           UNCHANGED <<fee, paise>>
    PROVE  TableShape' /\ PaidStay
<1>1. /\ player' \in Tables /\ born' \in 0 .. MaxRows
      /\ \A i \in Existing(player') : i <= born'
      /\ \A i \in Existing(player) : i \in Existing(player') /\ player'[i] = player[i]
    BY AddRowsFacts
<1>2. TableShape'
    BY <1>1 DEF TableShape, Existing
<1>3. PaidStay
    BY <1>1 DEF PaidStay, Existing, Paid
<1> QED
    BY <1>2, <1>3

LEMMA CreateSplitStep ==
    ASSUME SplitInv, NEW c \in SplitCalls, CreateSplit(c)
    PROVE  SplitInv' /\ PaidStay
<1>1. call[c].at = "create" /\ UNCHANGED <<fee, paise>>
    BY DEF CreateSplit
<1>2. CASE split # "NONE"
  <2>1. Answer(c, FALSE) /\ UNCHANGED <<split, player, born>>
      BY <1>2 DEF CreateSplit, Throw
  <2>2. call[c].alone => Kept
      BY <1>1, Entry DEF Knows
  <2> QED
      BY <1>1, <2>1, <2>2, ThrowStep
<1>3. CASE split = "NONE"
  <2>1. PICK g : g = Given(call[c], player', FALSE)
      OBVIOUS
  <2>2. PICK k : k = [g EXCEPT !.at = "recalc", !.ret = "body"]
      OBVIOUS
  <2>3. split' = "OPEN" /\ AddRows({Lead}) /\ Become(c, k)
      BY <1>3, <2>1, <2>2, Zenon DEF CreateSplit
  <2>4. g \in SplitEntry /\ g.alone = call[c].alone
      BY <2>1, Entry, GivenFacts DEF GivenAs
  <2>5. k \in SplitEntry /\ k.at = "recalc" /\ k.ret = "body" /\ k.alone = call[c].alone
      BY <2>2, <2>4 DEF SplitEntry, Steps
  <2>6. {Lead} \in SUBSET Usernames
      BY DEF Usernames
  <2>7. TableShape' /\ PaidStay
      BY <1>1, <2>3, <2>6, Entry, TableGrows
  <2>8. \A i \in Existing(player)' : player'[i].status = "PENDING"
    <3>1. Existing(player) = {}
        BY <1>3, Entry DEF TableShape
    <3>2. \A i \in Existing(player') \ Existing(player) : player'[i].status = "PENDING"
        BY <2>3, <2>6, Entry, AddRowsFacts
    <3> QED
        BY <3>1, <3>2 DEF Existing
  <2>9. Knows(k)'
      BY <2>3, <2>5, <2>8 DEF Knows, Decided
  <2> QED
      BY <1>1, <2>3, <2>5, <2>7, <2>9, BecomeStep
<1> QED
    BY <1>2, <1>3

LEMMA AddLeadStep ==
    ASSUME SplitInv, NEW c \in SplitCalls, AddLead(c)
    PROVE  SplitInv' /\ PaidStay
<1>1. call[c].at = "lead" /\ UNCHANGED <<fee, paise, split>>
    BY DEF AddLead
<1>2. CASE split = "NONE"
  <2>1. Answer(c, FALSE) /\ UNCHANGED <<player, born>>
      BY <1>2 DEF AddLead, Throw
  <2>2. Kept
      BY <1>2 DEF Kept
  <2> QED
      BY <1>1, <2>1, <2>2, ThrowStep
<1>3. CASE split # "NONE"
  <2>1. PICK k : k = [call[c] EXCEPT !.at = "recalc", !.ret = "refresh"]
      OBVIOUS
  <2>2. AddRows({Lead}) /\ Become(c, k)
      BY <1>3, <2>1 DEF AddLead
  <2>3. /\ k \in SplitEntry /\ k.at = "recalc" /\ k.ret = "refresh" /\ k.alone = call[c].alone
        /\ k.op = call[c].op /\ k.go = call[c].go /\ k.row = call[c].row
      BY <2>1, Entry DEF SplitEntry, Steps
  <2>4. {Lead} \in SUBSET Usernames
      BY DEF Usernames
  <2>5. split \in {"OPEN", "DONE"}
      BY <1>3, Entry DEF TableShape
  <2>6. TableShape' /\ PaidStay
      BY <1>1, <2>2, <2>4, <2>5, Entry, TableGrows
  <2>7. ASSUME k.alone PROVE Knows(k)'
    <3>1. MayGo(call[c])
        BY <1>1, <2>3, <2>7, Entry DEF Knows, MayGo
    <3>2. /\ \A i \in Existing(player) : player'[i] = player[i]
          /\ \A i \in Existing(player') \ Existing(player) : player'[i].status = "PENDING"
        BY <2>2, <2>4, Entry, AddRowsFacts
    <3>3. MayGo(k)'
        BY <2>3, <3>1, <3>2 DEF MayGo, Existing
    <3> QED
        BY <2>3, <3>3 DEF Knows, MayGo
  <2> QED
      BY <1>1, <2>2, <2>3, <2>6, <2>7, BecomeStep
<1> QED
    BY <1>2, <1>3

LEMMA AddPlayersStep ==
    ASSUME SplitInv, NEW c \in SplitCalls, AddPlayers(c)
    PROVE  SplitInv' /\ PaidStay
<1>1. call[c].at = "body" /\ UNCHANGED <<fee, paise, split>>
    BY DEF AddPlayers, At
<1>2. CASE call[c].names = {} \/ split = "NONE"
  <2>1. Answer(c, FALSE) /\ UNCHANGED <<player, born>>
      BY <1>2 DEF AddPlayers, Throw
  <2>2. call[c].alone => Kept
      BY <1>1, Entry DEF Knows
  <2> QED
      BY <1>1, <2>1, <2>2, ThrowStep
<1>3. CASE ~(call[c].names = {} \/ split = "NONE")
  <2>1. PICK names : names = call[c].names
      OBVIOUS
  <2>2. AddRows(names) /\ Become(c, Sharing(call[c], "idle"))
      BY <1>3, <2>1 DEF AddPlayers, Recalculate
  <2>3. names \in SUBSET Usernames
      BY <2>1, Entry DEF SplitEntry, Usernames
  <2>4. split \in {"OPEN", "DONE"}
      BY <1>3, Entry DEF TableShape
  <2>5. TableShape' /\ PaidStay
      BY <1>1, <2>2, <2>3, <2>4, Entry, TableGrows
  <2> QED
      BY <1>1, <2>2, <2>5, ShareStep
<1> QED
    BY <1>2, <1>3

\* One row is removed, or gets another status.
LEMMA RowsOfNext ==
    ASSUME TableShape, UNCHANGED <<fee, paise, split, born>>, player' \in Tables,
           \A i \in Existing(player') : i \in Existing(player)
    PROVE  TableShape'
BY DEF TableShape, Existing

LEMMA RemovePlayerStep ==
    ASSUME SplitInv, NEW c \in SplitCalls, RemovePlayer(c)
    PROVE  SplitInv' /\ PaidStay
<1>1. call[c].at = "body" /\ call[c].op = "remove" /\ UNCHANGED <<fee, paise, split, born>>
    BY DEF RemovePlayer, At
<1>2. CASE ~call[c].go \/ player[call[c].row] = Gone
  <2>1. Answer(c, FALSE) /\ UNCHANGED player
      BY <1>2 DEF RemovePlayer, Throw
  <2>2. call[c].alone => Kept
      BY <1>1, Entry DEF Knows
  <2> QED
      BY <1>1, <2>1, <2>2, ThrowStep
<1>3. CASE ~(~call[c].go \/ player[call[c].row] = Gone)
  <2>1. PICK r : r = call[c].row
      OBVIOUS
  <2>2. player' = [player EXCEPT ![r] = Gone] /\ Become(c, Sharing(call[c], "idle"))
      BY <1>3, <2>1 DEF RemovePlayer, Recalculate
  <2>3. player \in Tables
      BY Entry DEF TableShape
  <2>4. player' \in Tables /\ \A i \in Existing(player') : i \in Existing(player)
      BY <2>2, <2>3 DEF Tables, Existing
  <2>5. TableShape'
      BY <1>1, <2>4, Entry, RowsOfNext
  <2>6. PaidStay
    <3> SUFFICES ASSUME \A d \in Running : call[d].alone, NEW i \in Paid(player)
                 PROVE  player'[i] # Gone /\ player'[i].amount = player[i].amount
        BY DEF PaidStay
    <3>1. c \in Running
        BY <1>1 DEF Running
    <3>2. MayGo(call[c])
        BY <1>1, <3>1, Entry DEF Knows, MayGo
    <3>3. i \in Existing(player) /\ player[i].status # "PENDING" /\ player[i] \in PlayerRow
        BY <2>3, RowsOf DEF Paid, Pending
    <3>4. player[i].status = "PAID"
        BY <3>3 DEF PlayerRow
    <3>5. i # r
        BY <1>1, <1>3, <2>1, <3>2, <3>3, <3>4 DEF MayGo
    <3> QED
        BY <2>2, <2>3, <3>3, <3>5 DEF Tables, Existing
  <2> QED
      BY <1>1, <2>2, <2>5, <2>6, ShareStep
<1> QED
    BY <1>2, <1>3

LEMMA UpdatePlayerStatusStep ==
    ASSUME SplitInv, NEW c \in SplitCalls, UpdatePlayerStatus(c)
    PROVE  SplitInv' /\ PaidStay
<1>1. call[c].at = "body" /\ call[c].op = "status" /\ UNCHANGED <<fee, paise, split, born>>
    BY DEF UpdatePlayerStatus, At
<1>2. CASE player[call[c].row] = Gone
  <2>1. Answer(c, FALSE) /\ UNCHANGED player
      BY <1>2 DEF UpdatePlayerStatus, Throw
  <2>2. call[c].alone => Kept
      BY <1>1, Entry DEF Knows
  <2> QED
      BY <1>1, <2>1, <2>2, ThrowStep
<1>3. CASE player[call[c].row] # Gone
  <2>1. PICK r, s : r = call[c].row /\ s = call[c].want
      OBVIOUS
  <2>2. player' = [player EXCEPT ![r].status = s]
      BY <1>3, <2>1 DEF UpdatePlayerStatus
  <2>3. player \in Tables /\ s \in {"PENDING", "PAID"} /\ Gone \notin PlayerRow
      BY <2>1, Entry, SplitAssumption DEF TableShape, SplitEntry, PlayerRow, Usernames
  <2>4. \A i \in Rows : i # r => player'[i] = player[i]
      BY <2>2, <2>3 DEF Tables
  <2>5. r \in Rows => /\ player'[r] \in PlayerRow /\ player'[r].amount = player[r].amount
    <3> SUFFICES ASSUME r \in Rows
                 PROVE  player'[r] \in PlayerRow /\ player'[r].amount = player[r].amount
        OBVIOUS
    <3>1. player[r] \in PlayerRow
        BY <1>3, <2>1, <2>3 DEF Tables
    <3>2. player'[r] = [player[r] EXCEPT !.status = s]
        BY <2>2, <2>3 DEF Tables
    <3> QED
        BY <2>3, <3>1, <3>2 DEF PlayerRow
  <2>6. player' \in Tables
    <3>1. \A i \in Rows : player'[i] \in PlayerRow \cup {Gone}
        BY <2>3, <2>4, <2>5 DEF Tables
    <3>2. player' = [i \in Rows |-> player'[i]]
        BY <2>2, <2>3 DEF Tables
    <3> QED
        BY <3>1, <3>2 DEF Tables
  <2>7. \A i \in Existing(player') : i \in Existing(player)
      BY <1>3, <2>1, <2>4 DEF Existing
  <2>8. TableShape'
      BY <1>1, <2>6, <2>7, Entry, RowsOfNext
  <2>9. PaidStay
      BY <2>3, <2>4, <2>5, Zenon DEF PaidStay, Paid, Existing
  <2>10. CASE call[c].go
    <3>1. Become(c, Sharing(call[c], "idle"))
        BY <1>3, <2>10 DEF UpdatePlayerStatus, Recalculate
    <3> QED
        BY <1>1, <2>8, <2>9, <3>1, ShareStep
  <2>11. CASE ~call[c].go
    <3>1. Answer(c, FALSE)
        BY <1>3, <2>11 DEF UpdatePlayerStatus
    <3>2. call[c].alone => split # "DONE"
        BY <1>1, <2>11, Entry DEF Knows, Decided
    <3>3. call[c].alone => Kept'
        BY <1>1, <3>2 DEF Kept
    <3> QED
        BY <1>1, <2>8, <2>9, <3>1, <3>3, AnswerStep
  <2> QED
      BY <2>10, <2>11
<1> QED
    BY <1>2, <1>3

LEMMA FinishSplitStep ==
    ASSUME SplitInv, NEW c \in SplitCalls, call[c].at # "idle", FinishSplit(c),
           UNCHANGED <<fee, paise, player, born>>, call[c].alone => Even(player)
    PROVE  SplitInv' /\ PaidStay
<1>1. CASE split = "NONE"
  <2>1. Answer(c, FALSE) /\ UNCHANGED split
      BY <1>1 DEF FinishSplit, Throw
  <2>2. Kept
      BY <1>1 DEF Kept
  <2> QED
      BY <2>1, <2>2, ThrowStep
<1>2. CASE split # "NONE"
  <2>1. split' = "DONE" /\ Answer(c, TRUE)
      BY <1>2 DEF FinishSplit
  <2>2. TableShape' /\ PaidStay
      BY <2>1, TableStands
  <2>3. Even(player)' = Even(player)
      BY DEF Even, SumOf, Existing, Pending, Paid
  <2>4. call[c].alone => Kept'
      BY <2>3 DEF Kept
  <2> QED
      BY <2>1, <2>2, <2>4, AnswerStep
<1> QED
    BY <1>1, <1>2

LEMMA TriggerSplitStep ==
    ASSUME SplitInv, NEW c \in SplitCalls, TriggerSplit(c)
    PROVE  SplitInv' /\ PaidStay
<1>1. UNCHANGED <<fee, paise, player, born>>
    BY DEF TriggerSplit
<1>2. CASE At(c, "trigger") /\ call[c].go /\ UNCHANGED split /\ Become(c, Sharing(call[c], "finish"))
  <2>1. TableShape' /\ PaidStay
      BY <1>1, <1>2, TableStands DEF SplitInv, SplitShape, TableShape
  <2> QED
      BY <1>2, <2>1, ShareStep DEF At
<1>3. CASE At(c, "trigger") /\ ~call[c].go /\ FinishSplit(c)
  <2>1. call[c].at # "idle" /\ (call[c].alone => Even(player))
      BY <1>3, Entry DEF At, Knows
  <2> QED
      BY <1>1, <1>3, <2>1, FinishSplitStep
<1>4. CASE call[c].at = "finish" /\ FinishSplit(c)
  <2>1. call[c].at # "idle" /\ (call[c].alone => Even(player))
      BY <1>4, Entry DEF Knows
  <2> QED
      BY <1>1, <1>4, <2>1, FinishSplitStep
<1> QED
    BY <1>2, <1>3, <1>4 DEF TriggerSplit

\* Amounts are written into rows that exist.
LEMMA SharesWritten ==
    ASSUME TableShape, NEW f \in SomeShares, DOMAIN f \subseteq Existing(player), WriteShares(f)
    PROVE  /\ player' \in Tables /\ Existing(player') = Existing(player)
           /\ Pending(player') = Pending(player) /\ Paid(player') = Paid(player)
           /\ \A i \in Existing(player) :
                 /\ player'[i] # Gone /\ player'[i].status = player[i].status
                 /\ player'[i].amount = IF i \in DOMAIN f THEN f[i] ELSE player[i].amount
<1>1. player \in Tables /\ Gone \notin PlayerRow
    BY SplitAssumption DEF TableShape, PlayerRow, Usernames
<1>2. \A i \in DOMAIN f : f[i] \in Int
    BY DEF SomeShares
<1>3. \A i \in Rows : i \notin Existing(player) => player'[i] = Gone
    BY DEF WriteShares, Existing
<1>4. ASSUME NEW i \in Existing(player)
      PROVE  /\ player'[i] \in PlayerRow /\ player'[i].status = player[i].status
             /\ player'[i].amount = IF i \in DOMAIN f THEN f[i] ELSE player[i].amount
  <2>1. i \in Rows /\ player[i] \in PlayerRow
      BY <1>1, RowsOf DEF Existing
  <2>2. CASE i \in DOMAIN f
    <3>1. player'[i] = [player[i] EXCEPT !.amount = f[i]]
        BY <2>1, <2>2 DEF WriteShares
    <3> QED
        BY <1>2, <2>1, <2>2, <3>1 DEF PlayerRow
  <2>3. CASE i \notin DOMAIN f
    <3>1. player'[i] = player[i]
        BY <2>1, <2>3 DEF WriteShares
    <3> QED
        BY <2>1, <2>3, <3>1
  <2> QED
      BY <2>2, <2>3
<1>5. player' \in Tables
  <2>1. \A i \in Rows : player'[i] \in PlayerRow \cup {Gone}
      BY <1>3, <1>4
  <2>2. player' = [i \in Rows |-> player'[i]]
      BY DEF WriteShares
  <2> QED
      BY <2>1, <2>2 DEF Tables
<1>6. Existing(player') = Existing(player)
  <2>1. \A i \in Rows : player'[i] = Gone <=> player[i] = Gone
      BY <1>1, <1>3, <1>4 DEF Existing
  <2> QED
      BY <2>1 DEF Existing
<1>7. Pending(player') = Pending(player)
    BY <1>4, <1>6 DEF Pending
<1>8. Paid(player') = Paid(player)
    BY <1>6, <1>7 DEF Paid
<1> QED
    BY <1>1, <1>4, <1>5, <1>6, <1>7, <1>8

LEMMA SetCustomAmountsStep ==
    ASSUME SplitInv, NEW c \in SplitCalls, SetCustomAmounts(c)
    PROVE  SplitInv' /\ PaidStay
<1>1. /\ call[c].at = "body" /\ call[c].op = "custom" /\ UNCHANGED <<fee, paise, split, born>>
      /\ Answer(c, FALSE) /\ c \in Running
    BY DEF SetCustomAmounts, At, Running
<1>2. CASE call[c].go /\ DOMAIN call[c].shares \subseteq Existing(player)
  <2>1. call[c].alone => split # "DONE"
      BY <1>1, <1>2, Entry DEF Knows, Decided
  <2>2. PICK f \in SomeShares : f = call[c].shares
      BY Entry DEF SplitEntry
  <2>3. WriteShares(f) /\ DOMAIN f \subseteq Existing(player)
      BY <1>2, <2>2 DEF SetCustomAmounts
  <2>4. player' \in Tables /\ Existing(player') = Existing(player)
      BY <2>3, Entry, SharesWritten
  <2>5. TableShape'
      BY <1>1, <2>4, Entry, RowsOfNext
  <2>6. call[c].alone => Kept'
      BY <1>1, <2>1 DEF Kept
  <2>7. PaidStay
      BY <1>1, <2>1 DEF PaidStay
  <2> QED
      BY <1>1, <2>5, <2>6, <2>7, AnswerStep
<1>3. CASE ~(call[c].go /\ DOMAIN call[c].shares \subseteq Existing(player))
  <2>1. UNCHANGED player
      BY <1>3 DEF SetCustomAmounts
  <2>2. call[c].alone => Kept
      BY <1>1, Entry DEF Knows
  <2> QED
      BY <1>1, <2>1, <2>2, ThrowStep
<1> QED
    BY <1>2, <1>3

LEMMA RecalcReadStep ==
    ASSUME SplitInv, NEW c \in SplitCalls, RecalcRead(c)
    PROVE  SplitInv' /\ PaidStay
<1>1. call[c].at = "recalc" /\ UNCHANGED <<fee, paise, split, player, born>>
    BY DEF RecalcRead
<1>2. player \in Tables /\ fee \in Nat
    BY Entry DEF TableShape
<1>3. /\ DOMAIN EqualShares(player) = Pending(player)
      /\ \A i \in Pending(player) : EqualShares(player)[i] \in Int
    BY <1>2, EachShare
<1>4. {i \in DOMAIN EqualShares(player) : EqualShares(player)[i] # player[i].amount} = Changed(player)
    BY <1>3 DEF Changed
<1>5. TableShape' /\ PaidStay
    BY <1>1, TableStands DEF SplitInv, SplitShape, TableShape
<1>6. CASE Changed(player) = {}
  <2>1. Return(c)
      BY <1>4, <1>6 DEF RecalcRead
  <2>2. \A i \in Pending(player) : player[i].amount = EqualShares(player)[i]
      BY <1>6 DEF Changed
  <2>3. Even(player)
      BY <1>2, <2>2, MakesEven
  <2>4. Even(player)'
      BY <1>1, <2>3 DEF Even, SumOf, Existing, Pending, Paid
  <2>5. \A i \in Existing(player)' : i \in Existing(player) /\ player'[i].status = player[i].status
      BY <1>1 DEF Existing
  <2> QED
      BY <1>1, <1>5, <2>1, <2>4, <2>5, ReturnStep
<1>7. CASE Changed(player) # {}
  <2>1. PICK f : f = [i \in Changed(player) |-> EqualShares(player)[i]]
      OBVIOUS
  <2>2. PICK k : k = [call[c] EXCEPT !.at = "write", !.shares = f]
      OBVIOUS
  <2>3. Become(c, k)
      BY <1>4, <1>7, <2>1, <2>2 DEF RecalcRead
  <2>4. f \in SomeShares
    <3>1. Changed(player) \in SUBSET Rows
        BY DEF Changed, Pending, Existing
    <3>2. f \in [Changed(player) -> Int]
        BY <1>3, <2>1 DEF Changed
    <3> QED
        BY <3>1, <3>2 DEF SomeShares
  <2>5. /\ k \in SplitEntry /\ k.at = "write" /\ k.shares = f /\ k.alone = call[c].alone
        /\ k.ret = call[c].ret /\ k.op = call[c].op /\ k.go = call[c].go /\ k.row = call[c].row
      BY <2>2, <2>4, Entry DEF SplitEntry, Steps
  <2>6. ASSUME k.alone PROVE Knows(k)
    <3>1. Knows(call[c])
        BY <1>1, <2>5, <2>6, Entry
    <3>2. k.ret = "body" => Decided(k)
        BY <1>1, <2>5, <3>1 DEF Knows, Decided
    <3>3. MayGo(k)
        BY <2>5, <3>1 DEF Knows, MayGo
    <3> QED
        BY <2>1, <2>5, <3>2, <3>3 DEF Knows, MayGo
  <2>7. k.alone => Knows(k)'
      BY <1>1, <2>3, <2>5, <2>6, Standing DEF Become
  <2> QED
      BY <1>1, <1>5, <2>3, <2>5, <2>7, BecomeStep
<1> QED
    BY <1>6, <1>7

LEMMA RecalcWriteStep ==
    ASSUME SplitInv, NEW c \in SplitCalls, RecalcWrite(c)
    PROVE  SplitInv' /\ PaidStay
<1>1. call[c].at = "write" /\ UNCHANGED <<fee, paise, split, born>> /\ c \in Running
    BY DEF RecalcWrite, Running
<1>2. player \in Tables /\ fee \in Nat
    BY Entry DEF TableShape
<1>3. PICK f \in SomeShares : f = call[c].shares
    BY Entry DEF SplitEntry
<1>4. call[c].alone => f = [i \in Changed(player) |-> EqualShares(player)[i]]
    BY <1>1, <1>3, Entry DEF Knows
<1>5. Changed(player) \subseteq Pending(player) /\ Pending(player) \subseteq Existing(player)
    BY DEF Changed, Pending
<1>6. CASE DOMAIN f \subseteq Existing(player)
  <2>1. WriteShares(f) /\ Return(c)
      BY <1>3, <1>6 DEF RecalcWrite
  <2>2. /\ player' \in Tables /\ Existing(player') = Existing(player)
        /\ Pending(player') = Pending(player) /\ Paid(player') = Paid(player)
        /\ \A i \in Existing(player) :
              /\ player'[i] # Gone /\ player'[i].status = player[i].status
              /\ player'[i].amount = IF i \in DOMAIN f THEN f[i] ELSE player[i].amount
      BY <1>6, <2>1, Entry, SharesWritten
  <2>3. TableShape'
      BY <1>1, <2>2, Entry, RowsOfNext
  <2>4. \A i \in Paid(player) : i \in Existing(player) /\ i \notin Pending(player)
      BY DEF Paid
  <2>5. PaidStay
      BY <1>1, <1>4, <1>5, <2>2, <2>4 DEF PaidStay
  <2>6. ASSUME call[c].alone PROVE Even(player)'
    <3>1. \A i \in Paid(player) : player'[i].amount = player[i].amount
        BY <1>4, <1>5, <2>2, <2>4, <2>6
    <3>2. \A i \in Pending(player) : player'[i].amount = EqualShares(player)[i]
        BY <1>4, <1>5, <2>2, <2>6 DEF Changed
    <3>3. PICK u \in Tables : u = player'
        BY <2>2
    <3>4. Even(u)
        BY <1>2, <2>2, <3>1, <3>2, <3>3, MakesEven
    <3> QED
        BY <1>1, <3>3, <3>4 DEF Even, SumOf, Existing, Pending, Paid
  <2> QED
      BY <1>1, <2>1, <2>2, <2>3, <2>5, <2>6, ReturnStep DEF Existing
<1>7. CASE ~(DOMAIN f \subseteq Existing(player))
  <2>1. Answer(c, FALSE) /\ UNCHANGED player
      BY <1>3, <1>7 DEF RecalcWrite, Throw
  <2>2. ~call[c].alone
      BY <1>4, <1>5, <1>7
  <2> QED
      BY <1>1, <2>1, <2>2, ThrowStep
<1> QED
    BY <1>6, <1>7

LEMMA EndSplitStep ==
    ASSUME SplitInv, EndSplit
    PROVE  SplitInv' /\ PaidStay
<1>1. /\ split' = "NONE" /\ player' = [i \in Rows |-> Gone] /\ mixed' = (Running # {})
      /\ call' = [c \in SplitCalls |-> [call[c] EXCEPT !.alone = call[c].at = "idle"]]
      /\ UNCHANGED <<fee, paise, born>>
    BY DEF EndSplit
<1>2. \A c \in SplitCalls : /\ call'[c] \in SplitEntry /\ call'[c].at = call[c].at
                            /\ (call'[c].alone <=> call[c].at = "idle")
    BY <1>1, Entry DEF SplitEntry
<1>3. Existing(player)' = {}
    BY <1>1 DEF Existing
<1>4. TableShape'
  <2>1. player' \in Tables
      BY <1>1 DEF Tables
  <2> QED
      BY <1>1, <1>3, <2>1 DEF SplitInv, SplitShape, TableShape
<1>5. call' \in [SplitCalls -> SplitEntry]
    BY <1>1, <1>2
<1>6. SplitShape'
    BY <1>1, <1>4, <1>5 DEF SplitShape
<1>7. \A c \in SplitCalls : ~(call'[c].at # "idle" /\ call'[c].alone)
    BY <1>2
<1>8. Kept' /\ PaidStay
    BY <1>1 DEF Kept, PaidStay
<1> QED
    BY <1>6, <1>7, <1>8 DEF SplitInv, AloneRuns

LEMMA SplitInitially == ASSUME SplitInit PROVE SplitInv
<1>1. /\ fee \in Fees /\ paise \in BOOLEAN /\ split = "NONE" /\ player = [i \in Rows |-> Gone]
      /\ born = 0 /\ call = [c \in SplitCalls |-> NoCall] /\ mixed = FALSE
    BY Zenon DEF SplitInit
<1>2. Existing(player) = {}
    BY <1>1 DEF Existing
<1>3. SplitShape
  <2>1. player \in Tables
      BY <1>1 DEF Tables
  <2>2. fee \in Nat /\ born \in 0 .. MaxRows
      BY <1>1, SplitAssumption
  <2> QED
      BY <1>1, <1>2, <2>1, <2>2, NoCallIsEntry DEF SplitShape, TableShape
<1>4. \A c \in SplitCalls : call[c].at = "idle"
    BY <1>1 DEF NoCall
<1>5. Kept
    BY <1>1 DEF Kept
<1> QED
    BY <1>3, <1>4, <1>5 DEF SplitInv, AloneRuns

LEMMA SplitSteps ==
    ASSUME SplitInv, [SplitNext]_splitVars
    PROVE  SplitInv' /\ PaidStay
<1>1. ASSUME NEW c \in SplitCalls,
             \/ SplitRequest(c) \/ PlayerRequest(c) \/ FindSplit(c)
             \/ CreateSplit(c) \/ AddLead(c) \/ RefreshSplit(c)
             \/ RecalcRead(c) \/ RecalcWrite(c)
             \/ AddPlayers(c) \/ RemovePlayer(c) \/ TriggerSplit(c)
             \/ SetCustomAmounts(c) \/ UpdatePlayerStatus(c) \/ GetSplitDetails(c)
      PROVE  SplitInv' /\ PaidStay
    BY <1>1, SplitRequestStep, PlayerRequestStep, FindSplitStep, CreateSplitStep, AddLeadStep,
       RefreshSplitStep, RecalcReadStep, RecalcWriteStep, AddPlayersStep, RemovePlayerStep,
       TriggerSplitStep, SetCustomAmountsStep, UpdatePlayerStatusStep, GetSplitDetailsStep
<1>2. CASE EndSplit
    BY <1>2, EndSplitStep
<1>3. CASE UNCHANGED splitVars
  <2>1. UNCHANGED <<fee, paise, split, player, born, call, mixed>>
      BY <1>3 DEF splitVars
  <2>2. TableShape' /\ PaidStay
      BY <2>1, TableStands, Entry DEF SplitInv, SplitShape, TableShape
  <2>3. SplitShape' /\ AloneRuns' /\ Running' = Running
      BY <2>1, <2>2 DEF SplitInv, SplitShape, AloneRuns, Running
  <2>4. \A c \in SplitCalls : (call[c].at # "idle" /\ call[c].alone => Knows(call[c]))'
    <3> SUFFICES ASSUME NEW c \in SplitCalls, call'[c].at # "idle", call'[c].alone PROVE Knows(call[c])'
        OBVIOUS
    <3>1. PICK k : k = call[c]
        OBVIOUS
    <3>2. Knows(k)
        BY <2>1, <3>1, Entry
    <3>3. Knows(k)'
        BY <2>1, <3>1, <3>2, Entry, Standing
    <3> QED
        BY <2>1, <3>1, <3>3
  <2> QED
      BY <2>1, <2>2, <2>3, <2>4, Standing DEF SplitInv
<1> QED
    BY <1>1, <1>2, <1>3 DEF SplitNext

\* The reachable states of the split: a request that runs alone still knows what it read,
\* and the shares add up whenever no request runs and the last to share them ran alone
\* (recalculatePendingPlayers).
THEOREM SplitInvariant == SplitSpec => []SplitInv
<1>1. SplitInit => SplitInv
    BY SplitInitially
<1>2. SplitInv /\ [SplitNext]_splitVars => SplitInv'
    BY SplitSteps
<1> QED
    BY <1>1, <1>2, PTL DEF SplitSpec

\* Once the split is final and no request runs, the shares add up to the booking's
\* amount, for any number of players, requests at a time and amounts.
THEOREM FinalSharesAddUp == SplitSpec => []SharesAddUp
<1>1. SplitInv => SharesAddUp
    BY DEF SplitInv, Kept, Even, SharesAddUp
<1> QED
    BY <1>1, SplitInvariant, PTL

\* A player who has paid stays, with the share that was paid, as long as the requests
\* that change a final split come one at a time.
THEOREM PaidStands == SplitSpec => PaidShareStands
<1>1. SplitInv /\ [SplitNext]_splitVars =>
         [split = "DONE" /\ (\A c \in Running : call[c].alone) /\ split' # "NONE"
          => \A i \in Paid(player) : player'[i] # Gone /\ player'[i].amount = player[i].amount]_splitVars
    BY SplitSteps DEF PaidStay
<1> QED
    BY <1>1, SplitInvariant, PTL DEF SplitSpec, PaidShareStands

\* The rows are those created so far, and a booking that was never split has none.
THEOREM SplitTypes == SplitSpec => []SplitTypeOK
<1>1. SplitInv => SplitTypeOK
  <2> SUFFICES ASSUME SplitShape PROVE SplitTypeOK
      BY DEF SplitInv
  <2>1. \A i \in Rows : player[i] # Gone =>
          /\ player[i].name \in Usernames /\ player[i].amount \in Int
          /\ player[i].status \in {"PENDING", "PAID"} /\ i <= born
      BY DEF SplitShape, TableShape, Tables, PlayerRow, Existing
  <2>2. \A c \in SplitCalls : call[c].op \in Ops /\ call[c].at \in Steps
      BY DEF SplitShape, SplitEntry
  <2> QED BY <2>1, <2>2, Zenon DEF SplitTypeOK, SplitShape, TableShape
<1> QED BY <1>1, SplitInvariant, PTL

----------------------------------------------------------------------------
(* MaintenanceBlocks.  A booking is held on a closed day only when it was on *)
(* its way while the owner's request looked for bookings.  The property says *)
(* this of HELD bookings and of records that are written; it is not          *)
(* inductive.  The invariant says it of every booking that may still become  *)
(* HELD, and of the records that a request has checked and not written yet.  *)

Plan == [days : Ranges, late : SUBSET DayBookings]

OwnerCall == [at : {"idle", "check", "write"}, id : BlockIds \cup {0}, todo : SUBSET Ranges, seen : SUBSET Plan]

MaintShape ==
    /\ used \subseteq BlockIds
    /\ DOMAIN block \subseteq used
    /\ block \in [DOMAIN block -> Plan]
    /\ visit \in [DayBookings -> [day : TurfDays \cup {0}, is : VisitStates, paying : BOOLEAN]]
    /\ owner \in [OwnerCalls -> OwnerCall]

\* A booking that is held, or may still be.
OnItsWay(b) == visit[b].is \in {"validated", "PENDING", "HELD"} \/ visit[b].paying

Covers(plan) == \A b \in DayBookings : OnItsWay(b) /\ visit[b].day \in plan.days => b \in plan.late

RecordsCover == \A m \in DOMAIN block : Covers(block[m])
ChecksCover == \A r \in OwnerCalls : \A plan \in owner[r].seen : Covers(plan)

MaintInv == MaintShape /\ RecordsCover /\ ChecksCover

----------------------------------------------------------------------------
(* Types *)

\* A single day is a range.
LEMMA DayIsARange ==
    ASSUME NEW d \in TurfDays
    PROVE  {d} \in Ranges
  <1>1. d \in Nat BY MaintenanceAssumption
  <1>2. TurfDays \cap (d .. d) = {d} BY <1>1
  <1>3. \E i \in TurfDays, j \in TurfDays : {d} = TurfDays \cap (i .. j) BY <1>2
  <1> QED BY <1>3 DEF Ranges

LEMMA IdleIsACall == IdleOwner \in OwnerCall
  BY DEF IdleOwner, OwnerCall

LEMMA SeenCall ==
    ASSUME NEW entry \in OwnerCall, NEW seen \in SUBSET Plan
    PROVE  [entry EXCEPT !.seen = seen] \in OwnerCall /\ [entry EXCEPT !.seen = seen].seen = seen
  BY DEF OwnerCall

\* What is left of a request is a request.
LEMMA AfterIsACall ==
    ASSUME NEW entry \in OwnerCall, NEW s
    PROVE  After(entry, s) \in OwnerCall /\ After(entry, s).seen \subseteq entry.seen
  <1>1. CASE entry.seen = {s}
    <2>1. After(entry, s) = IdleOwner BY <1>1 DEF After
    <2>2. IdleOwner.seen = {} BY DEF IdleOwner
    <2> QED BY <2>1, <2>2, IdleIsACall
  <1>2. CASE entry.seen # {s}
    <2>1. entry.seen \ {s} \in SUBSET Plan BY DEF OwnerCall
    <2>2. After(entry, s) = [entry EXCEPT !.seen = entry.seen \ {s}] BY <1>2 DEF After
    <2> QED BY <2>1, <2>2, SeenCall
  <1> QED BY <1>1, <1>2

\* MaintInit gives every variable its type.
LEMMA ShapeInit == MaintInit => MaintShape
  <1> SUFFICES ASSUME MaintInit PROVE MaintShape OBVIOUS
  <1>1. owner \in [OwnerCalls -> OwnerCall] BY IdleIsACall DEF MaintInit
  <1>2. visit \in [DayBookings -> [day : TurfDays \cup {0}, is : VisitStates, paying : BOOLEAN]]
    BY DEF MaintInit, VisitStates
  <1>3. used \subseteq BlockIds /\ DOMAIN block \subseteq used /\ block \in [DOMAIN block -> Plan] BY DEF MaintInit
  <1> QED BY <1>1, <1>2, <1>3 DEF MaintShape

\* A step of a booking keeps the types.
LEMMA ShapeVisit ==
    ASSUME MaintShape, NEW b \in DayBookings,
           InsertVisit(b) \/ ReadPending(b) \/ ConfirmVisit(b) \/ EndVisit(b)
    PROVE  MaintShape'
  <1>1. CASE InsertVisit(b) BY <1>1 DEF InsertVisit, MaintShape, VisitStates
  <1>2. CASE ReadPending(b) BY <1>2 DEF ReadPending, MaintShape, VisitStates
  <1>3. CASE ConfirmVisit(b) BY <1>3 DEF ConfirmVisit, MaintShape, VisitStates
  <1>4. CASE EndVisit(b) BY <1>4 DEF EndVisit, MaintShape, VisitStates
  <1> QED BY <1>1, <1>2, <1>3, <1>4

\* A plan that is told of one more booking is a plan.
LEMMA ToldPlan ==
    ASSUME NEW plan \in Plan, NEW b \in DayBookings
    PROVE  [plan EXCEPT !.late = @ \cup {b}] \in Plan
  BY DEF Plan

LEMMA ShapeValidate ==
    ASSUME MaintShape, NEW b \in DayBookings, ValidateVisit(b)
    PROVE  MaintShape'
  <1>1. PICK day \in TurfDays :
          /\ visit' = [visit EXCEPT ![b].is = "validated", ![b].day = day]
          /\ owner' = [r \in OwnerCalls |-> [owner[r] EXCEPT !.seen =
                         {IF day \in s.days THEN [s EXCEPT !.late = @ \cup {b}] ELSE s : s \in @}]]
    BY DEF ValidateVisit
  <1>2. visit' \in [DayBookings -> [day : TurfDays \cup {0}, is : VisitStates, paying : BOOLEAN]]
    BY <1>1 DEF MaintShape, VisitStates
  <1>3. ASSUME NEW r \in OwnerCalls
        PROVE  {IF day \in s.days THEN [s EXCEPT !.late = @ \cup {b}] ELSE s : s \in owner[r].seen} \in SUBSET Plan
    <2>1. owner[r].seen \subseteq Plan BY DEF MaintShape, OwnerCall
    <2> QED BY <2>1, ToldPlan
  <1>4. owner' \in [OwnerCalls -> OwnerCall]
    <2>1. ASSUME NEW r \in OwnerCalls PROVE owner[r] \in OwnerCall BY DEF MaintShape
    <2> QED BY <1>1, <1>3, <2>1, SeenCall
  <1>5. UNCHANGED <<block, used>> BY DEF ValidateVisit
  <1> QED BY <1>2, <1>4, <1>5 DEF MaintShape

\* A new entry of owner with the types of its fields keeps the types.
LEMMA ShapeOwner ==
    ASSUME MaintShape, NEW r \in OwnerCalls, UNCHANGED <<block, used, visit>>,
           NEW entry \in OwnerCall, owner' = [owner EXCEPT ![r] = entry]
    PROVE  MaintShape'
  BY DEF MaintShape

LEMMA ShapeRequestBlocks ==
    ASSUME MaintShape, NEW r \in OwnerCalls, RequestBlocks(r)
    PROVE  MaintShape'
  <1>1. PICK todo : /\ todo \in SUBSET Ranges
                    /\ owner' = [owner EXCEPT ![r] = [IdleOwner EXCEPT !.at = "check", !.todo = todo]]
    <2>1. CASE \E range \in Ranges : owner' = [owner EXCEPT ![r] = [IdleOwner EXCEPT !.at = "check", !.todo = {range}]]
      BY <2>1, Zenon
    <2>2. CASE \E dates \in SUBSET TurfDays \ {{}} :
                 owner' = [owner EXCEPT ![r] = [IdleOwner EXCEPT !.at = "check", !.todo = {{d} : d \in dates}]]
      <3>1. \A dates \in SUBSET TurfDays : {{d} : d \in dates} \in SUBSET Ranges BY DayIsARange
      <3> QED BY <2>2, <3>1, Zenon
    <2> QED BY <2>1, <2>2, Zenon DEF RequestBlocks
  <1>2. IdleOwner \in OwnerCall BY DEF IdleOwner, OwnerCall
  <1>3. [IdleOwner EXCEPT !.at = "check", !.todo = todo] \in OwnerCall BY <1>1, <1>2 DEF OwnerCall
  <1>4. UNCHANGED <<block, used, visit>> BY Zenon DEF RequestBlocks
  <1> QED BY <1>1, <1>3, <1>4, ShapeOwner

LEMMA ShapeRequestUpdate ==
    ASSUME MaintShape, NEW r \in OwnerCalls, RequestUpdate(r)
    PROVE  MaintShape'
  <1>1. PICK m \in DOMAIN block, range \in Ranges :
          owner' = [owner EXCEPT ![r] = [IdleOwner EXCEPT !.at = "check", !.id = m, !.todo = {range}]]
    BY Zenon DEF RequestUpdate
  <1>2. m \in BlockIds BY DEF MaintShape
  <1>3. IdleOwner \in OwnerCall BY DEF IdleOwner, OwnerCall
  <1>4. [IdleOwner EXCEPT !.at = "check", !.id = m, !.todo = {range}] \in OwnerCall BY <1>2, <1>3 DEF OwnerCall
  <1>5. UNCHANGED <<block, used, visit>> BY DEF RequestUpdate
  <1> QED BY <1>1, <1>4, <1>5, ShapeOwner

LEMMA ShapeIdle ==
    ASSUME MaintShape, NEW r \in OwnerCalls, UNCHANGED <<block, used, visit>>,
           owner' = [owner EXCEPT ![r] = IdleOwner]
    PROVE  MaintShape'
  <1>1. IdleOwner \in OwnerCall BY DEF IdleOwner, OwnerCall
  <1> QED BY <1>1, ShapeOwner

\* What a check found is a plan.
LEMMA FoundPlan ==
    ASSUME NEW days \in Ranges
    PROVE  [days |-> days, late |-> Unseen(days)] \in Plan
  BY DEF Plan, Unseen

LEMMA ShapeCheckBlock ==
    ASSUME MaintShape, NEW r \in OwnerCalls, CheckBlock(r)
    PROVE  MaintShape'
  <1>0. UNCHANGED <<block, used, visit>> BY DEF CheckBlock
  <1>1. PICK days \in owner[r].todo :
          IF Conflicts(days) # {} THEN owner' = [owner EXCEPT ![r] = IdleOwner]
          ELSE LET rest == owner[r].todo \ {days}
                   seen == owner[r].seen \cup {[days |-> days, late |-> Unseen(days)]}
               IN  owner' = [owner EXCEPT ![r] = [@ EXCEPT !.todo = rest, !.seen = seen,
                                                  !.at = IF rest = {} THEN "write" ELSE "check"]]
    BY Zenon DEF CheckBlock
  <1>2. CASE Conflicts(days) # {} BY <1>0, <1>1, <1>2, ShapeIdle
  <1>3. CASE Conflicts(days) = {}
    <2> DEFINE rest == owner[r].todo \ {days}
               seen == owner[r].seen \cup {[days |-> days, late |-> Unseen(days)]}
               at == IF rest = {} THEN "write" ELSE "check"
    <2>1. owner[r] \in OwnerCall BY DEF MaintShape
    <2>2. owner' = [owner EXCEPT ![r] = [owner[r] EXCEPT !.todo = rest, !.seen = seen, !.at = at]]
      BY <1>1, <1>3 DEF MaintShape
    <2>3. days \in Ranges BY <2>1 DEF OwnerCall
    <2>4. rest \in SUBSET Ranges /\ seen \in SUBSET Plan /\ at \in {"idle", "check", "write"}
      BY <2>1, <2>3, FoundPlan DEF OwnerCall
    <2> HIDE DEF rest, seen, at
    <2>5. [owner[r] EXCEPT !.todo = rest, !.seen = seen, !.at = at] \in OwnerCall BY <2>1, <2>4 DEF OwnerCall
    <2> QED BY <1>0, <2>2, <2>5, ShapeOwner
  <1> QED BY <1>2, <1>3

\* Either the request is over, or it is about one record less.
LEMMA ShapeWriteBlock ==
    ASSUME MaintShape, NEW r \in OwnerCalls, WriteBlock(r)
    PROVE  MaintShape'
  <1>1. PICK s \in owner[r].seen, m \in BlockIds \ used :
          /\ block' = [n \in DOMAIN block \cup {m} |-> IF n = m THEN s ELSE block[n]]
          /\ used' = used \cup {m}
          /\ owner' = [owner EXCEPT ![r] = After(@, s)]
    BY DEF WriteBlock
  <1>2. owner[r] \in OwnerCall
    BY DEF MaintShape
  <1>3. s \in Plan BY <1>2 DEF OwnerCall
  <1>4. block' \in [DOMAIN block' -> Plan] BY <1>1, <1>3 DEF MaintShape
  <1>5. used' \subseteq BlockIds /\ DOMAIN block' \subseteq used' BY <1>1 DEF MaintShape
  <1>6. owner' \in [OwnerCalls -> OwnerCall]
    <2>1. owner' = [owner EXCEPT ![r] = After(owner[r], s)] BY <1>1
    <2>2. After(owner[r], s) \in OwnerCall BY <1>2, AfterIsACall
    <2> QED BY <2>1, <2>2 DEF MaintShape
  <1>7. UNCHANGED visit BY DEF WriteBlock
  <1> QED BY <1>4, <1>5, <1>6, <1>7 DEF MaintShape

LEMMA ShapeUpdateBlock ==
    ASSUME MaintShape, NEW r \in OwnerCalls, UpdateBlock(r)
    PROVE  MaintShape'
  <1>1. PICK s \in owner[r].seen : block' = [m \in DOMAIN block |-> IF m = owner[r].id THEN s ELSE block[m]]
    BY DEF UpdateBlock
  <1>2. s \in Plan BY DEF MaintShape, OwnerCall
  <1>3. DOMAIN block' = DOMAIN block /\ block' \in [DOMAIN block' -> Plan] BY <1>1, <1>2 DEF MaintShape
  <1>4. owner' = [owner EXCEPT ![r] = IdleOwner] /\ UNCHANGED <<used, visit>> BY DEF UpdateBlock
  <1>5. owner' \in [OwnerCalls -> OwnerCall]
    BY <1>4 DEF MaintShape, IdleOwner, OwnerCall
  <1> QED BY <1>3, <1>4, <1>5 DEF MaintShape

LEMMA ShapeDelete ==
    ASSUME MaintShape, DeleteBlock
    PROVE  MaintShape'
  <1>1. PICK m \in DOMAIN block : block' = [n \in DOMAIN block \ {m} |-> block[n]] BY DEF DeleteBlock
  <1>2. block' \in [DOMAIN block' -> Plan] /\ DOMAIN block' \subseteq used BY <1>1 DEF MaintShape
  <1>3. UNCHANGED <<used, visit, owner>> BY DEF DeleteBlock
  <1> QED BY <1>2, <1>3 DEF MaintShape

----------------------------------------------------------------------------
(* Who is on the way is known *)

\* A step after which no more bookings are on their way, on the same days, keeps what covers.
LEMMA StillCovers ==
    ASSUME NEW plan, Covers(plan),
           \A b \in DayBookings : OnItsWay(b)' => OnItsWay(b) /\ visit'[b].day = visit[b].day
    PROVE  Covers(plan)'
  BY DEF Covers, OnItsWay

LEMMA CoverVisit ==
    ASSUME MaintInv, NEW b \in DayBookings,
           InsertVisit(b) \/ ReadPending(b) \/ ConfirmVisit(b) \/ EndVisit(b)
    PROVE  (RecordsCover /\ ChecksCover)'
  <1>0. visit \in [DayBookings -> [day : TurfDays \cup {0}, is : VisitStates, paying : BOOLEAN]]
    BY DEF MaintInv, MaintShape
  <1>1. \A c \in DayBookings : OnItsWay(c)' => OnItsWay(c) /\ visit'[c].day = visit[c].day
    <2>1. CASE InsertVisit(b) BY <1>0, <2>1 DEF InsertVisit, OnItsWay
    <2>2. CASE ReadPending(b) BY <1>0, <2>2 DEF ReadPending, OnItsWay
    <2>3. CASE ConfirmVisit(b) BY <1>0, <2>3 DEF ConfirmVisit, OnItsWay
    <2>4. CASE EndVisit(b) BY <1>0, <2>4 DEF EndVisit, OnItsWay
    <2> QED BY <2>1, <2>2, <2>3, <2>4
  <1>2. UNCHANGED <<block, owner>> BY DEF InsertVisit, ReadPending, ConfirmVisit, EndVisit
  <1>3. \A plan : Covers(plan) => Covers(plan)' BY <1>1, StillCovers
  <1>4. RecordsCover'
    <2>1. ASSUME NEW m \in DOMAIN block' PROVE Covers(block[m])'
      BY <1>2, <1>3, <2>1 DEF MaintInv, RecordsCover, Covers, OnItsWay
    <2> QED BY <1>2, <2>1 DEF RecordsCover, Covers, OnItsWay
  <1>5. ChecksCover' BY <1>2, <1>3 DEF MaintInv, ChecksCover
  <1> QED BY <1>4, <1>5

\* The booking is on its way from now on; what was checked is told of it, what was written
\* it has seen.
LEMMA CoverValidate ==
    ASSUME MaintInv, NEW b \in DayBookings, ValidateVisit(b)
    PROVE  (RecordsCover /\ ChecksCover)'
  <1>1. PICK day \in TurfDays :
          /\ ~Blocked(day)
          /\ visit' = [visit EXCEPT ![b].is = "validated", ![b].day = day]
          /\ owner' = [r \in OwnerCalls |-> [owner[r] EXCEPT !.seen =
                         {IF day \in s.days THEN [s EXCEPT !.late = @ \cup {b}] ELSE s : s \in @}]]
    BY DEF ValidateVisit
  <1>2. visit \in [DayBookings -> [day : TurfDays \cup {0}, is : VisitStates, paying : BOOLEAN]]
    BY DEF MaintInv, MaintShape
  <1>3. visit'[b].day = day /\ \A c \in DayBookings \ {b} : visit'[c] = visit[c] BY <1>1, <1>2
  <1>4. RecordsCover'
    <2>1. UNCHANGED block BY DEF ValidateVisit
    <2>2. \A m \in DOMAIN block : day \notin block[m].days BY <1>1 DEF Blocked
    <2>3. ASSUME NEW m \in DOMAIN block, NEW c \in DayBookings, OnItsWay(c)', visit'[c].day \in block[m].days
          PROVE  c \in block[m].late
      <3>1. c # b BY <1>3, <2>2, <2>3
      <3>2. OnItsWay(c) /\ visit[c].day \in block[m].days BY <1>3, <2>3, <3>1 DEF OnItsWay
      <3> QED BY <3>2 DEF MaintInv, RecordsCover, Covers
    <2> QED BY <2>1, <2>3 DEF RecordsCover, Covers
  <1>5. ChecksCover'
    <2> SUFFICES ASSUME NEW r \in OwnerCalls, NEW plan \in owner'[r].seen, NEW c \in DayBookings,
                        OnItsWay(c)', visit'[c].day \in plan.days
                 PROVE  c \in plan.late
      BY DEF ChecksCover, Covers
    <2>0. owner[r] \in OwnerCall
      BY DEF MaintInv, MaintShape
    <2>1. PICK s \in owner[r].seen : plan = IF day \in s.days THEN [s EXCEPT !.late = @ \cup {b}] ELSE s
      BY <1>1, <2>0 DEF OwnerCall
    <2>2. s \in Plan BY <2>0 DEF OwnerCall
    <2>3. plan.days = s.days /\ s.late \subseteq plan.late /\ (day \in s.days => b \in plan.late)
      BY <2>1, <2>2 DEF Plan
    <2>4. CASE c = b BY <1>3, <2>3, <2>4
    <2>5. CASE c # b
      <3>1. OnItsWay(c) /\ visit[c].day \in s.days BY <1>3, <2>3, <2>5 DEF OnItsWay
      <3>2. Covers(s) BY DEF MaintInv, ChecksCover
      <3> QED BY <2>3, <3>1, <3>2 DEF Covers
    <2> QED BY <2>4, <2>5
  <1> QED BY <1>4, <1>5

\* Nothing changes for the bookings: what covers goes on covering.
LEMMA SameVisits ==
    ASSUME UNCHANGED visit, NEW plan, Covers(plan)
    PROVE  Covers(plan)'
  BY DEF Covers, OnItsWay

\* No step of an owner's request adds a plan that does not cover; records are as before.
LEMMA CoverOwner ==
    ASSUME MaintInv, UNCHANGED <<block, visit>>, NEW r \in OwnerCalls,
           \A q \in OwnerCalls \ {r} : owner'[q] = owner[q],
           \A plan \in owner'[r].seen : Covers(plan)
    PROVE  (RecordsCover /\ ChecksCover)'
  <1>1. \A plan : Covers(plan) => Covers(plan)' BY SameVisits
  <1>2. RecordsCover' BY DEF MaintInv, RecordsCover, Covers, OnItsWay
  <1>3. ChecksCover'
    <2>1. ASSUME NEW q \in OwnerCalls, NEW plan \in owner'[q].seen PROVE Covers(plan)
      <3>1. CASE q = r BY <3>1
      <3>2. CASE q # r BY <3>2 DEF MaintInv, ChecksCover
      <3> QED BY <3>1, <3>2
    <2> QED BY <1>1, <2>1 DEF ChecksCover
  <1> QED BY <1>2, <1>3

\* The request ends, or begins: it has found nothing.
LEMMA CoverEmpty ==
    ASSUME MaintInv, NEW r \in OwnerCalls,
           RequestBlocks(r) \/ RequestUpdate(r) \/ OwnerCallFails(r)
    PROVE  (RecordsCover /\ ChecksCover)'
  <1>0. owner \in [OwnerCalls -> OwnerCall]
    BY DEF MaintInv, MaintShape
  <1>1. owner'[r].seen = {} /\ \A q \in OwnerCalls \ {r} : owner'[q] = owner[q]
    <2>1. CASE RequestBlocks(r)
      <3>1. PICK todo : owner' = [owner EXCEPT ![r] = [IdleOwner EXCEPT !.at = "check", !.todo = todo]]
        <4>1. CASE \E range \in Ranges : owner' = [owner EXCEPT ![r] = [IdleOwner EXCEPT !.at = "check", !.todo = {range}]]
          BY <4>1, Zenon
        <4>2. CASE \E dates \in SUBSET TurfDays \ {{}} :
                     owner' = [owner EXCEPT ![r] = [IdleOwner EXCEPT !.at = "check", !.todo = {{d} : d \in dates}]]
          BY <4>2, Zenon
        <4> QED BY <2>1, <4>1, <4>2, Zenon DEF RequestBlocks
      <3>2. [IdleOwner EXCEPT !.at = "check", !.todo = todo].seen = {} BY DEF IdleOwner
      <3> QED BY <1>0, <3>1, <3>2
    <2>2. CASE RequestUpdate(r)
      <3>1. PICK m, todo : owner' = [owner EXCEPT ![r] = [IdleOwner EXCEPT !.at = "check", !.id = m, !.todo = todo]]
        BY <2>2, Zenon DEF RequestUpdate
      <3>2. [IdleOwner EXCEPT !.at = "check", !.id = m, !.todo = todo].seen = {} BY DEF IdleOwner
      <3> QED BY <1>0, <3>1, <3>2
    <2>3. CASE OwnerCallFails(r) BY <1>0, <2>3 DEF OwnerCallFails, IdleOwner
    <2> QED BY <2>1, <2>2, <2>3
  <1>2. UNCHANGED <<block, visit>> BY Zenon DEF RequestBlocks, RequestUpdate, OwnerCallFails
  <1> QED BY <1>1, <1>2, CoverOwner

\* No booking of the days is held: who is on the way to them is UNPAID, and noted.
LEMMA FoundCovers ==
    ASSUME NEW days, Conflicts(days) = {}
    PROVE  Covers([days |-> days, late |-> Unseen(days)])
  BY DEF Covers, OnItsWay, Conflicts, Unseen

LEMMA CoverCheckBlock ==
    ASSUME MaintInv, NEW r \in OwnerCalls, CheckBlock(r)
    PROVE  (RecordsCover /\ ChecksCover)'
  <1>0. owner \in [OwnerCalls -> OwnerCall]
    BY DEF MaintInv, MaintShape
  <1>1. PICK days \in owner[r].todo :
          IF Conflicts(days) # {} THEN owner' = [owner EXCEPT ![r] = IdleOwner]
          ELSE LET rest == owner[r].todo \ {days}
                   seen == owner[r].seen \cup {[days |-> days, late |-> Unseen(days)]}
               IN  owner' = [owner EXCEPT ![r] = [@ EXCEPT !.todo = rest, !.seen = seen,
                                                  !.at = IF rest = {} THEN "write" ELSE "check"]]
    BY Zenon DEF CheckBlock
  <1>2. UNCHANGED <<block, visit>> BY DEF CheckBlock
  <1>3. \A q \in OwnerCalls \ {r} : owner'[q] = owner[q] BY <1>0, <1>1
  <1>4. \A plan \in owner'[r].seen : Covers(plan)
    <2>1. CASE Conflicts(days) # {}
      <3>1. owner'[r].seen = {} BY <1>0, <1>1, <2>1 DEF IdleOwner
      <3> QED BY <3>1
    <2>2. CASE Conflicts(days) = {}
      <3>1. owner'[r].seen = owner[r].seen \cup {[days |-> days, late |-> Unseen(days)]}
        <4> DEFINE seen == owner[r].seen \cup {[days |-> days, late |-> Unseen(days)]}
        <4>1. \E todo, at : owner' = [owner EXCEPT ![r] = [@ EXCEPT !.todo = todo, !.seen = seen, !.at = at]]
          BY <1>1, <2>2, Zenon
        <4> HIDE DEF seen
        <4>2. \E todo, at : owner'[r] = [owner[r] EXCEPT !.todo = todo, !.seen = seen, !.at = at]
          BY <1>0, <4>1, Zenon
        <4>3. owner[r] \in OwnerCall BY <1>0
        <4>4. owner'[r].seen = seen BY <4>2, <4>3 DEF OwnerCall
        <4> QED BY <4>4 DEF seen
      <3>2. Covers([days |-> days, late |-> Unseen(days)]) BY <2>2, FoundCovers
      <3>3. \A plan \in owner[r].seen : Covers(plan) BY DEF MaintInv, ChecksCover
      <3> QED BY <3>1, <3>2, <3>3
    <2> QED BY <2>1, <2>2
  <1> QED BY <1>2, <1>3, <1>4, CoverOwner

\* A record is written as it was checked.
LEMMA CoverWrite ==
    ASSUME MaintInv, NEW r \in OwnerCalls, WriteBlock(r) \/ UpdateBlock(r)
    PROVE  (RecordsCover /\ ChecksCover)'
  <1>0. owner \in [OwnerCalls -> OwnerCall]
    BY DEF MaintInv, MaintShape
  <1>1. PICK s \in owner[r].seen :
          /\ \A n \in DOMAIN block' : block'[n] = s \/ (n \in DOMAIN block /\ block'[n] = block[n])
          /\ owner'[r].seen \subseteq owner[r].seen
          /\ \A q \in OwnerCalls \ {r} : owner'[q] = owner[q]
    <2>1. CASE WriteBlock(r)
      <3>1. PICK s \in owner[r].seen, m \in BlockIds \ used :
              /\ block' = [n \in DOMAIN block \cup {m} |-> IF n = m THEN s ELSE block[n]]
              /\ owner' = [owner EXCEPT ![r] = After(@, s)]
        BY <2>1 DEF WriteBlock
      <3>2. owner'[r].seen \subseteq owner[r].seen
        <4>1. owner' = [owner EXCEPT ![r] = After(owner[r], s)] BY <3>1
        <4>2. owner[r] \in OwnerCall BY <1>0
        <4>3. owner'[r] = After(owner[r], s) BY <1>0, <4>1
        <4> QED BY <4>2, <4>3, AfterIsACall
      <3>3. \A q \in OwnerCalls \ {r} : owner'[q] = owner[q] BY <1>0, <3>1
      <3>4. \A n \in DOMAIN block' : block'[n] = s \/ (n \in DOMAIN block /\ block'[n] = block[n]) BY <3>1
      <3> QED BY <3>2, <3>3, <3>4
    <2>2. CASE UpdateBlock(r)
      <3>1. PICK s \in owner[r].seen : block' = [m \in DOMAIN block |-> IF m = owner[r].id THEN s ELSE block[m]]
        BY <2>2 DEF UpdateBlock
      <3>2. owner' = [owner EXCEPT ![r] = IdleOwner] BY <2>2 DEF UpdateBlock
      <3>3. owner'[r].seen = {} /\ \A q \in OwnerCalls \ {r} : owner'[q] = owner[q]
        BY <1>0, <3>2 DEF IdleOwner
      <3>4. \A n \in DOMAIN block' : block'[n] = s \/ (n \in DOMAIN block /\ block'[n] = block[n]) BY <3>1
      <3> QED BY <3>3, <3>4
    <2> QED BY <2>1, <2>2
  <1>2. UNCHANGED visit BY DEF WriteBlock, UpdateBlock
  <1>3. \A plan : Covers(plan) => Covers(plan)' BY <1>2, SameVisits
  <1>4. \A plan \in owner[r].seen : Covers(plan) BY DEF MaintInv, ChecksCover
  <1>5. RecordsCover'
    <2>1. ASSUME NEW n \in DOMAIN block' PROVE Covers(block'[n])
      <3>1. CASE block'[n] = s BY <1>4, <3>1
      <3>2. CASE n \in DOMAIN block /\ block'[n] = block[n] BY <3>2 DEF MaintInv, RecordsCover
      <3> QED BY <1>1, <2>1, <3>1, <3>2
    <2>2. \A n \in DOMAIN block', b \in DayBookings : OnItsWay(b) /\ visit[b].day \in block'[n].days => b \in block'[n].late
      BY <2>1 DEF Covers
    <2> QED BY <1>2, <2>2 DEF RecordsCover, Covers, OnItsWay
  <1>6. ChecksCover'
    <2>1. ASSUME NEW q \in OwnerCalls, NEW plan \in owner'[q].seen PROVE Covers(plan)
      <3>1. CASE q = r BY <1>1, <1>4, <3>1
      <3>2. CASE q # r BY <1>1, <3>2 DEF MaintInv, ChecksCover
      <3> QED BY <3>1, <3>2
    <2> QED BY <1>3, <2>1 DEF ChecksCover
  <1> QED BY <1>5, <1>6

LEMMA CoverDelete ==
    ASSUME MaintInv, DeleteBlock
    PROVE  (RecordsCover /\ ChecksCover)'
  <1>1. PICK m \in DOMAIN block : block' = [n \in DOMAIN block \ {m} |-> block[n]] BY DEF DeleteBlock
  <1>2. UNCHANGED <<visit, owner>> BY DEF DeleteBlock
  <1>3. \A n \in DOMAIN block' : n \in DOMAIN block /\ block'[n] = block[n] BY <1>1
  <1>4. RecordsCover' BY <1>2, <1>3 DEF MaintInv, RecordsCover, Covers, OnItsWay
  <1>5. ChecksCover' BY <1>2 DEF MaintInv, ChecksCover, Covers, OnItsWay
  <1> QED BY <1>4, <1>5

----------------------------------------------------------------------------
(* The theorems *)

LEMMA MaintInvInit == MaintInit => MaintInv
  <1> SUFFICES ASSUME MaintInit PROVE MaintInv OBVIOUS
  <1>1. MaintShape BY ShapeInit
  <1>2. RecordsCover /\ ChecksCover BY DEF MaintInit, RecordsCover, ChecksCover, IdleOwner
  <1> QED BY <1>1, <1>2 DEF MaintInv

LEMMA MaintInvStep == MaintInv /\ [MaintNext]_maintVars => MaintInv'
  <1> SUFFICES ASSUME MaintInv, [MaintNext]_maintVars PROVE MaintInv' OBVIOUS
  <1>0. MaintShape BY DEF MaintInv
  <1>1. ASSUME NEW b \in DayBookings, ValidateVisit(b) PROVE MaintInv'
    BY <1>0, <1>1, ShapeValidate, CoverValidate DEF MaintInv
  <1>2. ASSUME NEW b \in DayBookings, InsertVisit(b) \/ ReadPending(b) \/ ConfirmVisit(b) \/ EndVisit(b)
        PROVE  MaintInv'
    BY <1>0, <1>2, ShapeVisit, CoverVisit DEF MaintInv
  <1>3. ASSUME NEW r \in OwnerCalls, RequestBlocks(r) PROVE MaintInv'
    BY <1>0, <1>3, ShapeRequestBlocks, CoverEmpty DEF MaintInv
  <1>4. ASSUME NEW r \in OwnerCalls, RequestUpdate(r) PROVE MaintInv'
    BY <1>0, <1>4, ShapeRequestUpdate, CoverEmpty DEF MaintInv
  <1>5. ASSUME NEW r \in OwnerCalls, CheckBlock(r) PROVE MaintInv'
    BY <1>0, <1>5, ShapeCheckBlock, CoverCheckBlock DEF MaintInv
  <1>6. ASSUME NEW r \in OwnerCalls, WriteBlock(r) PROVE MaintInv'
    BY <1>0, <1>6, ShapeWriteBlock, CoverWrite DEF MaintInv
  <1>7. ASSUME NEW r \in OwnerCalls, UpdateBlock(r) PROVE MaintInv'
    BY <1>0, <1>7, ShapeUpdateBlock, CoverWrite DEF MaintInv
  <1>8. ASSUME NEW r \in OwnerCalls, OwnerCallFails(r) PROVE MaintInv'
    <2>1. MaintShape' BY <1>0, <1>8, ShapeIdle DEF OwnerCallFails
    <2> QED BY <1>8, <2>1, CoverEmpty DEF MaintInv
  <1>9. ASSUME DeleteBlock PROVE MaintInv'
    BY <1>0, <1>9, ShapeDelete, CoverDelete DEF MaintInv
  <1>10. CASE UNCHANGED maintVars
    BY <1>10 DEF maintVars, MaintInv, MaintShape, RecordsCover, ChecksCover, Covers, OnItsWay
  <1> QED BY <1>1, <1>2, <1>3, <1>4, <1>5, <1>6, <1>7, <1>8, <1>9, <1>10 DEF MaintNext

\* In every reachable state every booking that may be held on a day is noted in every record
\* that closes the day, and in every record about to be written.
THEOREM MaintInvariant == MaintSpec => []MaintInv
  <1> QED BY MaintInvInit, MaintInvStep, PTL DEF MaintSpec

\* The variables have their types.
THEOREM MaintTypes == MaintSpec => []MaintTypeOK
  <1>1. MaintInv => MaintTypeOK
    <2> SUFFICES ASSUME MaintInv PROVE MaintTypeOK OBVIOUS
    <2>1. MaintShape BY DEF MaintInv
    <2>2. \A m \in DOMAIN block : block[m].days \in Ranges /\ block[m].late \subseteq DayBookings
      <3>1. \A m \in DOMAIN block : block[m] \in Plan BY <2>1 DEF MaintShape
      <3> QED BY <3>1 DEF Plan
    <2>3. \A b \in DayBookings : visit[b].day \in TurfDays \cup {0} /\ visit[b].is \in VisitStates
      BY <2>1 DEF MaintShape
    <2>4. \A r \in OwnerCalls : owner[r].at \in {"idle", "check", "write"} BY <2>1 DEF MaintShape, OwnerCall
    <2> QED BY <2>1, <2>2, <2>3, <2>4 DEF MaintShape, MaintTypeOK
  <1> QED BY <1>1, MaintInvariant, PTL

\* No booking is held on a closed day but those that were on their way when the owner's
\* request looked for bookings: for every calendar, any number of bookings, of owner's
\* requests and of records.
THEOREM MaintenanceIsKept == MaintSpec => []MaintenanceKeepsTurfFree
  <1>1. MaintInv => MaintenanceKeepsTurfFree
    BY DEF MaintInv, RecordsCover, Covers, OnItsWay, MaintenanceKeepsTurfFree, HeldOnBlockedDay
  <1> QED BY <1>1, MaintInvariant, PTL

----------------------------------------------------------------------------
(* SlotPrices *)

LEMMA RoundedHundredths ==
    ASSUME NEW amount \in Nat
    PROVE  /\ Rounded(amount, 100) \in Nat
           /\ 200 * Rounded(amount, 100) <= 2 * amount + 100
           /\ 2 * amount - 100 < 200 * Rounded(amount, 100)
BY DEF Rounded

LEMMA RoundedHalfHours ==
    ASSUME NEW amount \in Nat
    PROVE  /\ Rounded(amount, 200) \in Nat
           /\ 400 * Rounded(amount, 200) <= 2 * amount + 200
           /\ 2 * amount - 200 < 400 * Rounded(amount, 200)
BY DEF Rounded

LEMMA RoundedPaise ==
    ASSUME NEW amount \in Nat
    PROVE  /\ Rounded(amount, 10000) \in Nat
           /\ 20000 * Rounded(amount, 10000) <= 2 * amount + 10000
           /\ 2 * amount - 10000 < 20000 * Rounded(amount, 10000)
BY DEF Rounded

\* The two copies of the rates are one function of the day and the hour.
LEMMA OneRate ==
    ASSUME PricesTypeOK, NEW hour \in Hour
    PROVE  /\ ListRate(hour) = CalendarRate(hour) /\ CalendarRate(hour) \in Nat
           /\ market.event = 0 => CalendarRate(hour) \in {10, 12, 13, 14, 15}
<1>1. market.weekday \in 0 .. 6 /\ market.event \in Nat /\ hour \in Int
    <2>1. market.weekday \in Weekdays /\ market.event \in EventRates
        BY DEF PricesTypeOK
    <2>2. Weekdays \subseteq 0 .. 6 /\ EventRates \subseteq Nat
        BY PricesAssumption
    <2>3. hour \in Int
        BY DEF Hour
    <2> QED BY <2>1, <2>2, <2>3
<1>2. CASE market.event # 0
    BY <1>1, <1>2 DEF ListRate, CalendarRate
<1>3. CASE market.event = 0 /\ market.weekday \in {0, 6}
    BY <1>1, <1>3 DEF ListRate, CalendarRate
<1>4. CASE market.event = 0 /\ market.weekday = 5
    BY <1>1, <1>4 DEF ListRate, CalendarRate
<1>5. CASE market.event = 0 /\ market.weekday \in 1 .. 4
    BY <1>1, <1>5 DEF ListRate, CalendarRate
<1> QED BY <1>1, <1>2, <1>3, <1>4, <1>5

LEMMA OneOccupancy == OccupancyRate \in {10, 12, 13}
BY DEF OccupancyRate

\* What the list and the booking multiply the base price with.
RateOf(slot) == IF queue[slot.start] = "EXPIRED" THEN 120 ELSE CalendarRate(slot.start) * OccupancyRate
Rates == {100, 120, 130, 140, 144, 150, 156, 168, 169, 180, 182, 195}

LEMMA RatesOfTheDay ==
    ASSUME PricesTypeOK, NEW slot, slot.start \in Hour
    PROVE  RateOf(slot) \in Nat /\ (market.event = 0 => RateOf(slot) \in Rates)
<1>1. CalendarRate(slot.start) \in Nat /\ OccupancyRate \in {10, 12, 13}
    BY OneRate, OneOccupancy
<1>2. market.event = 0 => CalendarRate(slot.start) \in {10, 12, 13, 14, 15}
    BY OneRate
<1> DEFINE c == CalendarRate(slot.start)
           o == OccupancyRate
<1>3. c * o \in Nat /\ (market.event = 0 => c * o \in Rates)
    <2> HIDE DEF c, o
    <2>1. c \in Nat /\ o \in {10, 12, 13} /\ (market.event = 0 => c \in {10, 12, 13, 14, 15})
        BY <1>1, <1>2 DEF c, o
    <2> QED BY <2>1 DEF Rates
<1> QED BY <1>3 DEF RateOf, Rates

LEMMA ListedIsShown ==
    ASSUME PricesTypeOK, NEW slot, slot.start \in Hour, Free(slot)
    PROVE  ListedPrice(slot) = Shown(RateOf(slot))
BY OneRate DEF ListedPrice, RateOf, Free

\* Two ways to round the price of a released slot: at 3 rupees and more 20 % are a rupee.
LEMMA ReleasedIsRaised ==
    ASSUME NEW rupees \in Nat, rupees >= 3
    PROVE  Raised(rupees, 120) = Rounded(rupees * 120, 100)
<1>1. Rounded(rupees * 120, 100) \in Int /\ Rounded(rupees * 120, 100) > rupees
    BY DEF Rounded
<1> QED BY <1>1 DEF Raised

LEMMA ChargedIsRaised ==
    ASSUME NEW slot, NEW half, BaseRupees(half) \in Nat, BaseRupees(half) >= 3 \/ queue[slot.start] # "EXPIRED"
    PROVE  PublicCharge(slot, half) = 100 * Raised(BaseRupees(half), RateOf(slot))
<1>1. CASE queue[slot.start] = "EXPIRED"
    BY <1>1, ReleasedIsRaised DEF PublicCharge, ChargedPrice, RateOf
<1>2. CASE queue[slot.start] # "EXPIRED"
    BY <1>2 DEF PublicCharge, ChargedPrice, RateOf
<1> QED BY <1>1, <1>2

\* Whole rupees: both round once, and the same number.
LEMMA WholeStands ==
    ASSUME PricesTypeOK, NEW slot, slot.start \in Hour, Free(slot), market.base >= 300
    PROVE  WholePriceStands(slot)
<1> SUFFICES ASSUME market.base % 100 = 0 PROVE PublicCharge(slot, OneHour) = ListedPrice(slot)
    BY DEF WholePriceStands
<1>0. market.base \in Nat
    BY PricesAssumption DEF PricesTypeOK
<1> DEFINE k == market.base \div 100
           rate == RateOf(slot)
<1>1. k \in Nat /\ k >= 3 /\ market.base = 100 * k
    BY <1>0
<1>2. rate \in Nat
    BY RatesOfTheDay
<1>3. BaseRupees(OneHour) = k
    <2> HIDE DEF k
    <2> QED BY <1>1 DEF BaseRupees, OneHour, Rounded
<1>4. PublicCharge(slot, OneHour) = 100 * Raised(k, rate)
    BY <1>1, <1>3, ChargedIsRaised
<1>5. ListedPrice(slot) = Shown(rate)
    BY ListedIsShown
<1> HIDE DEF k, rate
<1>6. PICK n \in Nat : n = k * rate
    BY <1>1, <1>2
<1>7. market.base * rate = 100 * n
    BY <1>1, <1>2, <1>6
<1>8. Rounded(market.base * rate, 10000) = Rounded(n, 100) /\ Rounded(n, 100) \in Nat
    BY <1>6, <1>7 DEF Rounded
<1>9. Shown(rate) = 100 * Raised(k, rate)
    BY <1>1, <1>2, <1>6, <1>8 DEF Shown, Raised
<1> QED BY <1>4, <1>5, <1>9

LEMMA MultipliedBound ==
    ASSUME NEW x \in Int, NEW bound \in Int, x <= bound, NEW half \in Nat
    PROVE  x * half <= bound * half
OBVIOUS

\* Fifty paise for the list's rounding.
LEMMA ShownNear ==
    ASSUME market.base \in Nat, market.base >= 300, NEW rate \in Rates
    PROVE  /\ Shown(rate) = 100 * Rounded(market.base * rate, 10000)
           /\ Rounded(market.base * rate, 10000) \in Nat
           /\ 100 * Shown(rate) - market.base * rate <= 5000
           /\ market.base * rate - 100 * Shown(rate) <= 5000
<1> DEFINE n == market.base * rate
           r == Rounded(n, 10000)
<1>1. rate \in Nat /\ n \in Nat /\ (rate = 100 \/ (rate > 100 /\ 5 * n >= 600 * market.base))
    BY DEF Rates
<1>2. r \in Nat /\ 20000 * r <= 2 * n + 10000 /\ 2 * n - 10000 < 20000 * r
    <2>1. n \in Nat /\ r = Rounded(n, 10000)
        BY <1>1
    <2> HIDE DEF n, r
    <2> QED BY <2>1, RoundedPaise
<1>3. Shown(rate) = IF rate > 100 /\ 100 * r <= market.base /\ market.base > 0
                    THEN market.base + 100 ELSE 100 * r
    BY DEF Shown
<1> HIDE DEF n, r
<1>4. rate > 100 => 100 * r > market.base
    BY <1>1, <1>2
<1>5. Shown(rate) = 100 * r
    BY <1>1, <1>2, <1>3, <1>4
<1> QED BY <1>1, <1>2, <1>5 DEF n, r

\* Fifty paise for the rounding of the charge, and what fifty paise of the base price become.
LEMMA RaisedNear ==
    ASSUME NEW b \in Nat, b # 1, NEW q \in Nat, 400 * b <= 2 * q + 200, 2 * q - 200 < 400 * b,
           NEW rate \in Rates, NEW x \in {Raised(b, rate), Rounded(b * rate, 100)}
    PROVE  /\ x \in Nat
           /\ 20000 * x - q * rate <= 29500 /\ q * rate - 20000 * x <= 29500
<1> DEFINE n == b * rate
           r == Rounded(n, 100)
<1>1. rate \in Nat /\ n \in Nat
    BY DEF Rates
<1>2. r \in Nat /\ 200 * r <= 2 * n + 100 /\ 2 * n - 100 < 200 * r
    <2>1. n \in Nat /\ r = Rounded(n, 100)
        BY <1>1
    <2> HIDE DEF n, r
    <2> QED BY <2>1, RoundedHundredths
<1>3. x = r \/ x = IF rate > 100 /\ r <= b /\ b > 0 THEN b + 1 ELSE r
    BY DEF Raised
<1>4. 200 * n - q * rate <= 19500 /\ q * rate - 200 * n <= 19500
    BY DEF Rates
<1>5. CASE x = r
    <2> HIDE DEF n, r
    <2>1. q * rate \in Int
        BY <1>1
    <2> QED BY <1>1, <1>2, <1>4, <1>5, <2>1
<1>6. CASE x # r
    <2>1. x = b + 1 /\ rate > 100 /\ r <= b /\ b >= 2
        BY <1>3, <1>6
    <2>2. rate = 120 /\ b = 2
        BY <1>2, <2>1 DEF Rates
    <2> QED BY <2>1, <2>2
<1> QED BY <1>5, <1>6

Charged(slot, half, x) ==
    /\ PublicCharge(slot, half) = 100 * x
    /\ 20000 * x - (market.base * half) * RateOf(slot) <= 29500
    /\ (market.base * half) * RateOf(slot) - 20000 * x <= 29500

LEMMA ChargedNear ==
    ASSUME PricesTypeOK, NEW slot, slot.start \in Hour, market.base >= 300, market.event = 0,
           NEW half \in Nat
    PROVE  \E x \in Nat : Charged(slot, half, x)
<1> DEFINE q == market.base * half
           b == BaseRupees(half)
           x == IF queue[slot.start] = "EXPIRED" THEN Rounded(b * 120, 100) ELSE Raised(b, RateOf(slot))
<1>0. market.base \in Nat
    BY PricesAssumption DEF PricesTypeOK
<1>1. q \in Nat /\ (half = 0 => q = 0) /\ (half > 0 => q >= 300)
    <2>1. half > 0 => market.base * half >= market.base
        BY <1>0
    <2> QED BY <1>0, <2>1
<1>2. b = Rounded(q, 200)
    BY DEF BaseRupees
<1>3. RateOf(slot) \in Rates
    BY RatesOfTheDay
<1>4. PublicCharge(slot, half) = 100 * x
    BY DEF PublicCharge, ChargedPrice, RateOf
<1>5. x \in {Raised(b, RateOf(slot)), Rounded(b * RateOf(slot), 100)}
    BY DEF RateOf
<1> HIDE DEF q, b, x
<1>6. b \in Nat /\ 400 * b <= 2 * q + 200 /\ 2 * q - 200 < 400 * b
    BY <1>1, <1>2, RoundedHalfHours
<1>7. b # 1
    BY <1>1, <1>6
<1>8. /\ x \in Nat
      /\ 20000 * x - q * RateOf(slot) <= 29500 /\ q * RateOf(slot) - 20000 * x <= 29500
    BY <1>1, <1>3, <1>5, <1>6, <1>7, RaisedNear
<1>9. Charged(slot, half, x)
    BY <1>4, <1>8 DEF q, Charged
<1> QED BY <1>8, <1>9

ChargedAs(slot, half, m, x) ==
    /\ PublicCharge(slot, half) = 100 * x
    /\ 20000 * x - m * half <= 29500
    /\ m * half - 20000 * x <= 29500

LEMMA PricesAreNear ==
    ASSUME PricesTypeOK, NEW slot, slot.start \in Hour, Free(slot), market.base >= 300, market.event = 0
    PROVE  PriceIsNear(slot) /\ \A half \in Nat : PartOfHour(slot, half)
<1> DEFINE rate == RateOf(slot)
           inRupees == Rounded(market.base * rate, 10000)
<1>0. market.base \in Nat
    BY PricesAssumption DEF PricesTypeOK
<1>1. rate \in Rates /\ rate \in Nat
    BY RatesOfTheDay
<1>2. ListedPrice(slot) = 100 * inRupees /\ inRupees \in Nat
    BY <1>0, <1>1, ListedIsShown, ShownNear
<1>3. /\ 10000 * inRupees - market.base * rate <= 5000
      /\ market.base * rate - 10000 * inRupees <= 5000
    <2>1. /\ Shown(rate) = 100 * inRupees
          /\ 100 * Shown(rate) - market.base * rate <= 5000
          /\ market.base * rate - 100 * Shown(rate) <= 5000
        BY <1>0, <1>1, ShownNear
    <2> HIDE DEF inRupees, rate
    <2> QED BY <1>0, <1>1, <1>2, <2>1
<1>5. PICK m \in Nat : m = market.base * rate
    BY <1>0, <1>1
<1>4. ASSUME NEW half \in Nat
      PROVE  \E x \in Nat : ChargedAs(slot, half, m, x)
    <2>1. PICK x \in Nat : Charged(slot, half, x)
        BY ChargedNear
    <2>2. (market.base * half) * rate = m * half
        <3> HIDE DEF rate
        <3> QED BY <1>0, <1>1, <1>5
    <2>3. /\ PublicCharge(slot, half) = 100 * x
          /\ 20000 * x - (market.base * half) * rate <= 29500
          /\ (market.base * half) * rate - 20000 * x <= 29500
        BY <2>1 DEF Charged
    <2>4. ChargedAs(slot, half, m, x)
        <3> HIDE DEF rate
        <3> QED BY <2>2, <2>3 DEF ChargedAs
    <2> QED BY <2>4
<1> HIDE DEF rate, inRupees
<1>7. PriceIsNear(slot)
    <2>1. PICK x \in Nat : ChargedAs(slot, OneHour, m, x)
        BY <1>4 DEF OneHour
    <2>2. /\ PublicCharge(slot, OneHour) = 100 * x
          /\ 20000 * x - m * 2 <= 29500 /\ m * 2 - 20000 * x <= 29500
        BY <2>1 DEF ChargedAs, OneHour
    <2>3. x <= inRupees + 1 /\ inRupees <= x + 1
        BY <1>2, <1>3, <1>5, <2>2
    <2> QED BY <1>2, <2>2, <2>3 DEF PriceIsNear
<1>8. ASSUME NEW half \in Nat PROVE PartOfHour(slot, half)
    <2>0. PICK x \in Nat : ChargedAs(slot, half, m, x)
        BY <1>4
    <2>1. /\ PublicCharge(slot, half) = 100 * x
          /\ 20000 * x - m * half <= 29500 /\ m * half - 20000 * x <= 29500
        BY <2>0 DEF ChargedAs
    <2>2. (10000 * inRupees - m) * half <= 5000 * half /\ (m - 10000 * inRupees) * half <= 5000 * half
        BY <1>2, <1>3, <1>5, MultipliedBound
    <2>3. PICK y \in Nat : y = half * inRupees
        BY <1>2
    <2>4. half * (100 * inRupees) = 100 * y
        BY <1>2, <2>3
    <2>5. /\ (10000 * inRupees - m) * half = 10000 * y - m * half
          /\ (m - 10000 * inRupees) * half = m * half - 10000 * y
        BY <1>2, <1>5, <2>3
    <2>6. m * half \in Nat
        BY <1>5
    <2>7. 200 * x - 100 * y <= 50 * half + 300 /\ 100 * y - 200 * x <= 50 * half + 300
        BY <2>1, <2>2, <2>5, <2>6
    <2> QED BY <1>2, <2>1, <2>4, <2>7 DEF PartOfHour
<1> QED BY <1>7, <1>8

LEMMA ListedHours ==
    ASSUME market.hours \in [open : Hour, close : Hour] PROVE ListedSlots \subseteq HourSlot
<1> SUFFICES ASSUME NEW h \in market.hours.open .. MaxHour - 1
             PROVE  [start |-> h % 24, end |-> (h + 1) % 24] \in HourSlot
    BY DEF ListedSlots
<1>1. market.hours.open \in Int /\ MaxHour \in Int
    BY DEF Hour, MaxHour
<1>2. h % 24 \in Hour /\ (h + 1) % 24 \in Hour
    BY <1>1 DEF Hour
<1> QED BY <1>2 DEF HourSlot

\* The variables have their types.
THEOREM PricesTypes == PricesSpec => []PricesTypeOK
<1>1. PricesInit => PricesTypeOK
    BY DEF PricesInit, PricesTypeOK
<1>2. PricesTypeOK /\ [PricesNext]_priceVars => PricesTypeOK'
    <2> SUFFICES ASSUME PricesTypeOK, [PricesNext]_priceVars PROVE PricesTypeOK'
        OBVIOUS
    <2>1. ListedSlots \subseteq HourSlot
        BY ListedHours, PricesAssumption DEF PricesTypeOK
    <2>2. ASSUME NEW slot \in ListedSlots, BookSlot(slot) \/ CancelSlot(slot) PROVE PricesTypeOK'
        BY <2>1, <2>2 DEF BookSlot, CancelSlot, PricesTypeOK
    <2>3. ASSUME NEW slot \in ListedSlots, WaitForSlot(slot) PROVE PricesTypeOK'
        BY <2>1, <2>3 DEF WaitForSlot, PricesTypeOK, HourSlot
    <2>4. ASSUME NEW hour \in Hour, WaitEnds(hour) PROVE PricesTypeOK'
        BY <2>4 DEF WaitEnds, PricesTypeOK
    <2>5. CASE UNCHANGED priceVars
        BY <2>5 DEF priceVars, PricesTypeOK
    <2> QED BY <2>2, <2>3, <2>4, <2>5 DEF PricesNext
<1> QED BY <1>1, <1>2, PTL DEF PricesSpec

\* The list and createBooking compute a slot's price twice; for a free slot they agree to the
\* rupee when the base price is in whole rupees, three or more, and without an event are within a
\* rupee for every base price, and within their roundings for every length of a booking, for all
\* hours and days and however bookings and the waitlist move the price.
THEOREM ShownPrice == PricesSpec => []ShownPriceIsCharged
<1>1. ASSUME PricesTypeOK PROVE ShownPriceIsCharged
    <2>1. market.hours \in [open : Hour, close : Hour]
        BY <1>1, PricesAssumption DEF PricesTypeOK
    <2>2. \A slot \in ListedSlots : slot.start \in Hour
        BY <2>1, ListedHours DEF HourSlot
    <2>3. Durations \subseteq Nat
        BY PricesAssumption
    <2> QED BY <1>1, <2>2, <2>3, WholeStands, PricesAreNear DEF ShownPriceIsCharged
<1> QED BY <1>1, PricesTypes, PTL

----------------------------------------------------------------------------
(* TurfRatings.  A call that runs alone writes the count and the average of *)
(* the ratings as they are.                                                 *)

RatingSteps == {"idle", "check", "create", "count", "write"}

\* An average is whatever was computed; that it is a number is not needed.
IsEntry(k) ==
    \E v : k \in [at : RatingSteps, booking : Rateable \cup {0}, stars : Stars \cup {0},
                  count : Nat, average : {v}, alone : BOOLEAN]

IsFunction == \E S : rating \in [RateCalls -> S]

RatingShape ==
    /\ played \subseteq Rateable
    /\ IsFunction
    /\ \A r \in RateCalls : IsEntry(rating[r])
    /\ starsMixed \in BOOLEAN

IsCurrent(row) == row.count = StarCount /\ row.average = Average

AloneCalls ==
    \A r, q \in RateCalls : rating[r].at # "idle" /\ rating[q].at # "idle" /\ rating[r].alone => q = r

\* What a call that is alone has counted.
AloneCounts == \A r \in RateCalls : rating[r].at = "write" /\ rating[r].alone => IsCurrent(rating[r])

\* No call has changed the ratings and not written the turf yet.
Told == \A r \in RateCalls : rating[r].at \notin {"count", "write"}

RatingInv ==
    /\ RatingShape /\ AloneCalls /\ AloneCounts
    /\ Told /\ ~starsMixed => IsCurrent(turfStars)

----------------------------------------------------------------------------
LEMMA CountFacts == StarCount \in Nat
BY RatingsAssumption, FS_Subset, FS_CardinalityType DEF StarCount, Rated

LEMMA SameStars ==
    ASSUME stars' = stars PROVE StarCount' = StarCount /\ Average' = Average
BY DEF Average, StarCount, StarSum, Rated

LEMMA IdleRatingIsEntry == IsEntry(IdleRating) /\ IdleRating.at = "idle"
BY DEF IsEntry, RatingSteps, IdleRating

LEMMA CallReplaced ==
    ASSUME IsFunction
    PROVE  \A r \in RateCalls : \A k :
              rating' = [rating EXCEPT ![r] = k] =>
                 IsFunction' /\ \A q \in RateCalls : rating'[q] = IF q = r THEN k ELSE rating[q]
<1> SUFFICES ASSUME NEW r \in RateCalls, NEW k, rating' = [rating EXCEPT ![r] = k]
             PROVE  IsFunction' /\ \A q \in RateCalls : rating'[q] = IF q = r THEN k ELSE rating[q]
    OBVIOUS
<1>1. PICK S : rating \in [RateCalls -> S]
    BY DEF IsFunction
<1>2. rating' \in [RateCalls -> S \cup {k}]
    BY <1>1
<1> QED BY <1>1, <1>2 DEF IsFunction

LEMMA EntryOf ==
    ASSUME RatingInv, NEW r \in RateCalls
    PROVE  IsEntry(rating[r]) /\ IsFunction /\ played \subseteq Rateable /\ starsMixed \in BOOLEAN
BY DEF RatingInv, RatingShape

\* A call goes on or ends, and the ratings stay.
LEMMA CallStep ==
    ASSUME RatingInv, NEW r \in RateCalls, NEW k, IsEntry(k),
           rating' = [rating EXCEPT ![r] = k], rating[r].at # "idle",
           k.at # "idle" => k.alone = rating[r].alone,
           k.at = "write" /\ k.alone => IsCurrent(k),
           played' = played, stars' = stars, starsMixed' \in BOOLEAN,
           (Told /\ ~starsMixed)' => IsCurrent(turfStars')
    PROVE  RatingInv'
<1>1. IsFunction' /\ \A q \in RateCalls : rating'[q] = IF q = r THEN k ELSE rating[q]
    BY CallReplaced, EntryOf
<1>2. StarCount' = StarCount /\ Average' = Average
    BY SameStars
<1>3. RatingShape'
    BY <1>1 DEF RatingInv, RatingShape, IsEntry
<1>4. AloneCalls'
    BY <1>1 DEF RatingInv, AloneCalls
<1>5. AloneCounts'
    BY <1>1, <1>2 DEF RatingInv, AloneCounts, IsCurrent
<1>6. (Told /\ ~starsMixed => IsCurrent(turfStars))'
    BY <1>2 DEF IsCurrent
<1> QED BY <1>3, <1>4, <1>5, <1>6 DEF RatingInv

LEMMA AskStep ==
    ASSUME RatingInv, NEW r \in RateCalls, AskRating(r) PROVE RatingInv'
<1>1. PICK b \in played, n \in Stars :
         LET alone == \A q \in RateCalls : rating[q].at = "idle"
         IN  rating' = [q \in RateCalls |->
                IF q = r THEN [IdleRating EXCEPT !.at = "check", !.booking = b, !.stars = n, !.alone = alone]
                ELSE [rating[q] EXCEPT !.alone = rating[q].at = "idle"]]
    BY Zenon DEF AskRating
<1>d. b \in Rateable
    BY EntryOf
<1>a. UNCHANGED <<played, stars, turfStars, starsMixed>> /\ rating[r].at = "idle" /\ b \in Rateable
    BY <1>d, Zenon DEF AskRating
<1>b. PICK alone \in BOOLEAN : alone <=> \A q \in RateCalls : rating[q].at = "idle"
    OBVIOUS
<1> DEFINE k == [IdleRating EXCEPT !.at = "check", !.booking = b, !.stars = n, !.alone = alone]
<1>c. \A q \in RateCalls :
         rating'[q] = IF q = r THEN k ELSE [rating[q] EXCEPT !.alone = rating[q].at = "idle"]
    BY <1>1, <1>b, Zenon
<1>3. IsEntry(k) /\ k.at = "check" /\ k.alone = alone
    BY <1>a DEF IsEntry, RatingSteps, IdleRating
<1> HIDE DEF k
<1>5. ASSUME NEW q \in RateCalls, q # r
      PROVE  /\ IsEntry(rating'[q]) /\ rating'[q].at = rating[q].at
             /\ rating'[q].alone <=> rating[q].at = "idle"
    <2>1. IsEntry(rating[q])
        BY EntryOf
    <2>2. PICK was \in BOOLEAN : was <=> rating[q].at = "idle"
        OBVIOUS
    <2>3. rating'[q] = [rating[q] EXCEPT !.alone = was]
        BY <1>c, <1>5, <2>2, Zenon
    <2>4. IsEntry(rating'[q]) /\ rating'[q].at = rating[q].at /\ rating'[q].alone = was
        BY <2>1, <2>3 DEF IsEntry
    <2> QED BY <2>2, <2>4
<1>6. rating'[r] = k
    BY <1>c
<1>7. IsFunction' /\ \A q \in RateCalls : IsEntry(rating'[q])
    <2>1. rating' = [q \in RateCalls |-> rating'[q]]
        BY <1>1, Zenon
    <2>2. [q \in RateCalls |-> rating'[q]] \in [RateCalls -> {rating'[q] : q \in RateCalls}]
        OBVIOUS
    <2> QED BY <1>3, <1>5, <1>6, <2>1, <2>2 DEF IsFunction
<1>8. RatingShape'
    BY <1>a, <1>7 DEF RatingInv, RatingShape, IsEntry
<1>9. AloneCalls' /\ AloneCounts' /\ (Told' => Told)
    BY <1>a, <1>b, <1>3, <1>5, <1>6 DEF AloneCalls, AloneCounts, Told
<1>10. (Told /\ ~starsMixed => IsCurrent(turfStars))'
    BY <1>a, <1>9, SameStars DEF RatingInv, IsCurrent
<1> QED BY <1>8, <1>9, <1>10 DEF RatingInv

LEMMA CheckStep ==
    ASSUME RatingInv, NEW r \in RateCalls, CheckRating(r) PROVE RatingInv'
<1>1. /\ IsEntry(rating[r]) /\ rating[r].at = "check" /\ IsFunction
      /\ IsEntry(IdleRating) /\ IdleRating.at = "idle"
      /\ UNCHANGED <<played, stars, turfStars, starsMixed>>
    BY IdleRatingIsEntry, EntryOf DEF CheckRating
<1>2. PICK k :
         /\ IsEntry(k) /\ rating' = [rating EXCEPT ![r] = k] /\ k.at \in {"idle", "create"}
         /\ k.at # "idle" => k.alone = rating[r].alone
    <2>1. CASE stars[rating[r].booking] # 0
        BY <1>1, <2>1 DEF CheckRating
    <2>2. CASE ~(stars[rating[r].booking] # 0)
        <3> DEFINE k == [rating[r] EXCEPT !.at = "create"]
        <3>1. IsEntry(k) /\ k.at = "create" /\ k.alone = rating[r].alone
            BY <1>1 DEF IsEntry, RatingSteps
        <3>2. rating' = [rating EXCEPT ![r] = k]
            BY <2>2 DEF CheckRating, RatingStep
        <3> HIDE DEF k
        <3> QED BY <3>1, <3>2
    <2> QED BY <2>1, <2>2
<1>b. IsFunction /\ rating' = [rating EXCEPT ![r] = k]
    BY <1>1, <1>2
<1>a. \A q \in RateCalls : rating'[q] = IF q = r THEN k ELSE rating[q]
    BY <1>b, CallReplaced, Zenon
<1>3. Told' => Told
    BY <1>1, <1>2, <1>a DEF Told
<1>4. (Told /\ ~starsMixed)' => IsCurrent(turfStars')
    BY <1>1, <1>3 DEF RatingInv
<1> QED BY <1>1, <1>2, <1>4, CallStep DEF RatingInv, RatingShape

LEMMA CreateStep ==
    ASSUME RatingInv, NEW r \in RateCalls, CreateRating(r) PROVE RatingInv'
<1>1. /\ IsEntry(rating[r]) /\ rating[r].at = "create" /\ IsFunction
      /\ IsEntry(IdleRating) /\ IdleRating.at = "idle"
      /\ UNCHANGED <<played, turfStars, starsMixed>>
    BY IdleRatingIsEntry, EntryOf DEF CreateRating
<1>2. CASE stars[rating[r].booking] # 0
    <2>1. rating' = [rating EXCEPT ![r] = IdleRating] /\ stars' = stars
        BY <1>2 DEF CreateRating
    <2>2. Told' => Told
        <3>1. \A q \in RateCalls : rating'[q] = IF q = r THEN IdleRating ELSE rating[q]
            BY <1>1, <2>1, CallReplaced, Zenon
        <3> QED BY <1>1, <3>1 DEF Told
    <2>3. (Told /\ ~starsMixed)' => IsCurrent(turfStars')
        BY <1>1, <2>2 DEF RatingInv
    <2> QED BY <1>1, <2>1, <2>3, CallStep DEF RatingInv, RatingShape
<1>3. CASE ~(stars[rating[r].booking] # 0)
    <2> DEFINE k == [rating[r] EXCEPT !.at = "count"]
    <2>1. IsEntry(k) /\ k.at = "count" /\ k.alone = rating[r].alone
        BY <1>1 DEF IsEntry, RatingSteps
    <2>2. /\ rating' = [rating EXCEPT ![r] = k]
          /\ stars' = [stars EXCEPT ![rating[r].booking] = rating[r].stars]
        BY <1>3 DEF CreateRating, RatingStep
    <2> HIDE DEF k
    <2>3. /\ IsFunction'
          /\ \A q \in RateCalls : rating'[q] = IF q = r THEN k ELSE rating[q]
        <3>1. IsFunction /\ rating' = [rating EXCEPT ![r] = k]
            BY <1>1, <2>2
        <3>2. \A q \in RateCalls : rating'[q] = IF q = r THEN k ELSE rating[q]
            BY <3>1, CallReplaced, Zenon
        <3>3. IsFunction'
            BY <3>1, CallReplaced, Zenon
        <3> QED BY <3>2, <3>3
    <2>5. RatingShape'
        BY <1>1, <2>1, <2>3 DEF RatingInv, RatingShape, IsEntry
    <2>6. AloneCalls'
        BY <1>1, <2>1, <2>3 DEF RatingInv, AloneCalls
    <2>7. AloneCounts'
        BY <1>1, <2>1, <2>3 DEF RatingInv, AloneCalls, AloneCounts
    <2>8. ~Told'
        BY <2>1, <2>3 DEF Told
    <2> QED BY <2>5, <2>6, <2>7, <2>8 DEF RatingInv
<1> QED BY <1>2, <1>3

LEMMA StarCountStep ==
    ASSUME RatingInv, NEW r \in RateCalls, CountRatings(r) PROVE RatingInv'
<1>1. /\ IsEntry(rating[r]) /\ rating[r].at = "count"
      /\ UNCHANGED <<played, stars, turfStars, starsMixed>>
      /\ StarCount \in Nat
    BY EntryOf, CountFacts DEF CountRatings
<1> DEFINE k == [rating[r] EXCEPT !.at = "write", !.count = StarCount, !.average = Average]
<1>2. rating' = [rating EXCEPT ![r] = k]
    BY DEF CountRatings
<1>3. IsEntry(k) /\ k.at = "write" /\ k.alone = rating[r].alone /\ IsCurrent(k)
    BY <1>1 DEF IsEntry, RatingSteps, IsCurrent
<1> HIDE DEF k
<1>a. IsFunction
    BY EntryOf
<1>b. \A q \in RateCalls : rating'[q] = IF q = r THEN k ELSE rating[q]
    BY <1>2, <1>a, CallReplaced, Zenon
<1>4. ~Told'
    BY <1>3, <1>b DEF Told
<1> QED BY <1>1, <1>2, <1>3, <1>4, CallStep DEF RatingInv, RatingShape

LEMMA WriteStep ==
    ASSUME RatingInv, NEW r \in RateCalls, WriteTurfStars(r) PROVE RatingInv'
<1>1. /\ IsEntry(rating[r]) /\ rating[r].at = "write"
      /\ IsEntry(IdleRating) /\ IdleRating.at = "idle"
      /\ rating' = [rating EXCEPT ![r] = IdleRating] /\ UNCHANGED <<played, stars>>
      /\ turfStars' = [average |-> rating[r].average, count |-> rating[r].count]
      /\ starsMixed' = ~rating[r].alone
    BY IdleRatingIsEntry, EntryOf DEF WriteTurfStars
<1>2. /\ starsMixed' \in BOOLEAN
      /\ turfStars'.average = rating[r].average /\ turfStars'.count = rating[r].count
    BY <1>1 DEF IsEntry
<1>3. (Told /\ ~starsMixed)' => IsCurrent(turfStars')
    BY <1>1, <1>2 DEF RatingInv, AloneCounts, IsCurrent
<1> QED BY <1>1, <1>2, <1>3, CallStep

LEMMA FailStep ==
    ASSUME RatingInv, NEW r \in RateCalls, RatingFails(r) PROVE RatingInv'
<1>1. /\ IsEntry(rating[r]) /\ rating[r].at # "idle"
      /\ IsEntry(IdleRating) /\ IdleRating.at = "idle"
      /\ rating' = [rating EXCEPT ![r] = IdleRating] /\ UNCHANGED <<played, stars, turfStars>>
      /\ starsMixed' = (starsMixed \/ rating[r].at \in {"count", "write"})
      /\ starsMixed \in BOOLEAN /\ starsMixed' \in BOOLEAN
    BY IdleRatingIsEntry, EntryOf DEF RatingFails
<1>a. IsFunction /\ rating' = [rating EXCEPT ![r] = IdleRating]
    BY <1>1, EntryOf
<1>b. \A q \in RateCalls : rating'[q] = IF q = r THEN IdleRating ELSE rating[q]
    BY <1>a, CallReplaced, Zenon
<1>2. Told' /\ ~starsMixed' => Told /\ ~starsMixed
    BY <1>1, <1>b DEF Told
<1>3. (Told /\ ~starsMixed)' => IsCurrent(turfStars')
    BY <1>1, <1>2 DEF RatingInv
<1> QED BY <1>1, <1>3, CallStep DEF RatingInv, RatingShape

LEMMA RatingStart == ASSUME RatingsInit PROVE RatingInv
<1>1. IsEntry(IdleRating) /\ IdleRating.at = "idle"
    BY DEF IsEntry, RatingSteps, IdleRating
<1>2. RatingShape
    BY <1>1 DEF RatingsInit, RatingShape, IsFunction
<1>3. Rated = {}
    BY DEF RatingsInit, Rated
<1>4. IsCurrent(turfStars)
    BY <1>3, FS_EmptySet DEF RatingsInit, IsCurrent, StarCount, Average
<1> QED BY <1>1, <1>2, <1>4 DEF RatingsInit, RatingInv, AloneCalls, AloneCounts

\* Calls that run alone, and what they write.
THEOREM RatingInvariant == RatingsSpec => []RatingInv
<1>1. RatingsInit => RatingInv
    BY RatingStart
<1>2. RatingInv /\ [RatingsNext]_rateVars => RatingInv'
    <2> SUFFICES ASSUME RatingInv, [RatingsNext]_rateVars PROVE RatingInv'
        OBVIOUS
    <2>1. ASSUME UNCHANGED <<stars, turfStars, rating, starsMixed>>, played' \subseteq Rateable
          PROVE  RatingInv'
        BY <2>1, SameStars
           DEF RatingInv, RatingShape, IsFunction, AloneCalls, AloneCounts, Told, IsCurrent
    <2>2. CASE PlayOrNot
        BY <2>1, <2>2 DEF PlayOrNot, RatingInv, RatingShape
    <2>3. CASE UNCHANGED rateVars
        BY <2>1, <2>3 DEF rateVars, RatingInv, RatingShape
    <2> QED BY <2>2, <2>3, AskStep, CheckStep, CreateStep, StarCountStep, WriteStep, FailStep DEF RatingsNext
<1> QED BY <1>1, <1>2, PTL DEF RatingsSpec

\* The turf's average and number of reviews are those of its ratings whenever no call is at work,
\* unless the last calls overlapped or ended in between: for any bookings, calls and ratings.
THEOREM RatingStaysCurrent == RatingsSpec => []RatingIsCurrent
<1>1. RatingInv => RatingIsCurrent
    BY DEF RatingInv, RatingIsCurrent, Told, IsCurrent
<1> QED BY <1>1, RatingInvariant, PTL

\* An average is at most five stars, and no more ratings are counted than there are bookings.
InBounds(row) == row.average \in 0 .. 50 /\ row.count \in 0 .. Cardinality(Rateable)

RatingBounds ==
    /\ stars \in [Rateable -> Stars \cup {0}]
    /\ InBounds(turfStars)
    /\ \A r \in RateCalls : rating[r].at = "write" => InBounds(rating[r])

LEMMA DividedByTwice ==
    ASSUME NEW n \in Nat \ {0}, NEW x \in Nat, x <= 101 * n
    PROVE  x \div (2 * n) \in 0 .. 50
<1> PICK m \in Nat \ {0} : m = 2 * n
    OBVIOUS
<1> PICK q \in Int, rest \in Int : q = x \div m /\ rest = x % m /\ q * m + rest = x
    OBVIOUS
<1>1. rest \in 0 .. m - 1
    OBVIOUS
<1>2. q >= 0
    OBVIOUS
<1>3. q <= 50
  <2>1. q >= 51 => q * m >= 51 * m
      OBVIOUS
  <2>2. 51 * m = 102 * n
      OBVIOUS
  <2> QED BY <1>1, <2>1, <2>2
<1> QED BY <1>2, <1>3

LEMMA AverageInBounds ==
    ASSUME stars \in [Rateable -> Stars \cup {0}]
    PROVE  StarCount \in 0 .. Cardinality(Rateable) /\ Average \in 0 .. 50
<1>1. Rated \subseteq Rateable /\ IsFiniteSet(Rateable) /\ Stars \subseteq 1 .. 5
    BY RatingsAssumption DEF Rated
<1>2. StarCount \in Nat /\ Cardinality(Rateable) \in Nat /\ StarCount <= Cardinality(Rateable) /\ IsFiniteSet(Rated)
    BY <1>1, FS_Subset, FS_CardinalityType DEF StarCount
<1>3. \A b \in Rated : stars[b] \in 1 .. 5
    BY <1>1 DEF Rated
<1> PICK one : one = [b \in Rated |-> 0]
    BY Zenon
<1> PICK five : five = [b \in Rated |-> 5]
    BY Zenon
<1>4. SumOver(one, Rated) = 0 * StarCount /\ SumOver(five, Rated) = 5 * StarCount
  <2>1. \A b \in Rated : one[b] = 0 /\ five[b] = 5
      OBVIOUS
  <2> QED BY <1>2, <2>1, SumOfSame DEF StarCount
<1>5. SumOver(one, Rated) <= StarSum /\ StarSum <= SumOver(five, Rated) /\ StarSum \in Int
  <2>1. \A b \in Rated : one[b] = 0 /\ five[b] = 5 /\ stars[b] \in Int /\ 0 <= stars[b] /\ stars[b] <= 5
      BY <1>3
  <2>2. \A b \in Rated : one[b] \in Int /\ stars[b] \in Int /\ one[b] <= stars[b]
      BY <2>1
  <2>3. \A b \in Rated : stars[b] \in Int /\ five[b] \in Int /\ stars[b] <= five[b]
      BY <2>1
  <2>4. SumOver(one, Rated) <= SumOver(stars, Rated)
      BY <1>2, <2>2, SumAtMost
  <2>5. SumOver(stars, Rated) <= SumOver(five, Rated)
      BY <1>2, <2>3, SumAtMost
  <2>6. SumOver(stars, Rated) \in Int
      BY <1>2, <2>3, SumIsInt
  <2> QED BY <2>4, <2>5, <2>6 DEF StarSum
<1>6. StarSum \in Nat /\ StarSum <= 5 * StarCount
    BY <1>2, <1>4, <1>5
<1>7. Average \in 0 .. 50
  <2>1. CASE StarCount = 0
      BY <2>1 DEF Average
  <2>2. CASE StarCount # 0
    <3> PICK n \in Nat \ {0} : n = StarCount
        BY <1>2, <2>2
    <3> PICK x \in Nat : x = 20 * StarSum + StarCount
        BY <1>2, <1>6
    <3>1. x <= 101 * n
        BY <1>6
    <3>2. x \div (2 * n) \in 0 .. 50
        BY <3>1, DividedByTwice
    <3> QED BY <2>2, <3>2 DEF Average
  <2> QED BY <2>1, <2>2
<1> QED BY <1>2, <1>7

\* No call comes to its write with other figures than it had.
LEMMA BoundsStay ==
    ASSUME RatingBounds, stars' \in [Rateable -> Stars \cup {0}], InBounds(turfStars'),
           \A r \in RateCalls : rating'[r].at = "write" =>
               InBounds(rating'[r]) \/ (rating[r].at = "write" /\ rating'[r].average = rating[r].average
                                                            /\ rating'[r].count = rating[r].count)
    PROVE  RatingBounds'
BY DEF RatingBounds, InBounds

\* A call gets another entry.
LEMMA BoundsOfCall ==
    ASSUME RatingInv, RatingBounds, stars' \in [Rateable -> Stars \cup {0}], InBounds(turfStars'),
           NEW r \in RateCalls, NEW k, rating' = [rating EXCEPT ![r] = k], k.at = "write" => InBounds(k)
    PROVE  RatingBounds'
<1>1. \A q \in RateCalls : rating'[q] = IF q = r THEN k ELSE rating[q]
    BY CallReplaced, EntryOf
<1> QED BY <1>1, BoundsStay

LEMMA RatingBoundsStep ==
    ASSUME RatingInv, RatingBounds, [RatingsNext]_rateVars PROVE RatingBounds'
<1>1. stars \in [Rateable -> Stars \cup {0}] /\ InBounds(turfStars)
    BY DEF RatingBounds
<1>2. CASE PlayOrNot \/ UNCHANGED rateVars
    BY <1>2 DEF PlayOrNot, rateVars, RatingBounds, InBounds
<1>3. ASSUME NEW r \in RateCalls, AskRating(r) PROVE RatingBounds'
  <2>1. \A q \in RateCalls : rating'[q].at = "write" =>
           rating[q].at = "write" /\ rating'[q].average = rating[q].average /\ rating'[q].count = rating[q].count
    <3> PICK k, alone : /\ rating' = [q \in RateCalls |-> IF q = r THEN k ELSE [rating[q] EXCEPT !.alone = alone[q]]]
                        /\ k.at = "check"
      <4>1. PICK b \in played, n \in Stars :
               LET alone == \A q \in RateCalls : rating[q].at = "idle"
               IN  rating' = [q \in RateCalls |->
                      IF q = r THEN [IdleRating EXCEPT !.at = "check", !.booking = b, !.stars = n, !.alone = alone]
                      ELSE [rating[q] EXCEPT !.alone = rating[q].at = "idle"]]
          BY <1>3, Zenon DEF AskRating
      <4> DEFINE k == [IdleRating EXCEPT !.at = "check", !.booking = b, !.stars = n,
                                         !.alone = \A q \in RateCalls : rating[q].at = "idle"]
                 alone == [q \in RateCalls |-> rating[q].at = "idle"]
      <4>2. k.at = "check"
          BY DEF IdleRating
      <4>3. rating' = [q \in RateCalls |-> IF q = r THEN k ELSE [rating[q] EXCEPT !.alone = alone[q]]]
          BY <4>1, Zenon
      <4> HIDE DEF k, alone
      <4> QED BY <4>2, <4>3
    <3>1. ASSUME NEW q \in RateCalls, q # r
          PROVE  /\ rating'[q].at = rating[q].at
                 /\ rating'[q].average = rating[q].average /\ rating'[q].count = rating[q].count
      <4>1. IsEntry(rating[q])
          BY EntryOf
      <4>2. rating'[q] = [rating[q] EXCEPT !.alone = alone[q]]
          BY <3>1
      <4> QED BY <4>1, <4>2 DEF IsEntry
    <3>2. rating'[r].at = "check"
        OBVIOUS
    <3> QED BY <3>1, <3>2, Zenon
  <2>3. UNCHANGED <<played, stars, turfStars, starsMixed>>
      BY <1>3, Zenon DEF AskRating
  <2>2. stars' = stars /\ turfStars' = turfStars
      BY <2>3
  <2> QED BY <1>1, <2>1, <2>2, BoundsStay
<1>4. ASSUME NEW r \in RateCalls, CheckRating(r) PROVE RatingBounds'
  <2>1. PICK k : rating' = [rating EXCEPT ![r] = k] /\ k.at # "write"
    <3>1. CASE stars[rating[r].booking] # 0
        BY <1>4, <3>1, IdleRatingIsEntry DEF CheckRating
    <3>2. CASE stars[rating[r].booking] = 0
      <4>1. rating' = [rating EXCEPT ![r] = [rating[r] EXCEPT !.at = "create"]]
          BY <1>4, <3>2 DEF CheckRating, RatingStep
      <4>2. [rating[r] EXCEPT !.at = "create"].at = "create"
          BY EntryOf DEF IsEntry
      <4> QED BY <4>1, <4>2
    <3> QED BY <3>1, <3>2
  <2>2. stars' = stars /\ turfStars' = turfStars
      BY <1>4 DEF CheckRating
  <2> QED BY <1>1, <2>1, <2>2, BoundsOfCall
<1>5. ASSUME NEW r \in RateCalls, CreateRating(r) PROVE RatingBounds'
  <2>1. PICK k : rating' = [rating EXCEPT ![r] = k] /\ k.at # "write"
    <3>1. CASE stars[rating[r].booking] # 0
        BY <1>5, <3>1, IdleRatingIsEntry DEF CreateRating
    <3>2. CASE stars[rating[r].booking] = 0
      <4>1. rating' = [rating EXCEPT ![r] = [rating[r] EXCEPT !.at = "count"]]
          BY <1>5, <3>2 DEF CreateRating, RatingStep
      <4>2. [rating[r] EXCEPT !.at = "count"].at = "count"
          BY EntryOf DEF IsEntry
      <4> QED BY <4>1, <4>2
    <3> QED BY <3>1, <3>2
  <2>2. stars' \in [Rateable -> Stars \cup {0}] /\ turfStars' = turfStars
    <3>1. rating[r].stars \in Stars \cup {0}
        BY EntryOf DEF IsEntry
    <3> QED BY <1>1, <1>5, <3>1 DEF CreateRating
  <2> QED BY <1>1, <2>1, <2>2, BoundsOfCall
<1>6. ASSUME NEW r \in RateCalls, CountRatings(r) PROVE RatingBounds'
  <2>1. rating' = [rating EXCEPT ![r] = [rating[r] EXCEPT !.at = "write", !.count = StarCount, !.average = Average]]
      BY <1>6 DEF CountRatings
  <2>2. PICK k : k = [rating[r] EXCEPT !.at = "write", !.count = StarCount, !.average = Average]
      BY Zenon
  <2>3. k.count = StarCount /\ k.average = Average
      BY <2>2, EntryOf DEF IsEntry
  <2>4. InBounds(k)
      BY <1>1, <2>3, AverageInBounds DEF InBounds
  <2>5. stars' = stars /\ turfStars' = turfStars
      BY <1>6 DEF CountRatings
  <2>6. rating' = [rating EXCEPT ![r] = k]
      BY <2>1, <2>2, Zenon
  <2> QED BY <1>1, <2>4, <2>5, <2>6, BoundsOfCall
<1>7. ASSUME NEW r \in RateCalls, WriteTurfStars(r) PROVE RatingBounds'
  <2>1. rating' = [rating EXCEPT ![r] = IdleRating] /\ IdleRating.at # "write" /\ stars' = stars
      BY <1>7, IdleRatingIsEntry DEF WriteTurfStars
  <2>2. InBounds(turfStars')
      BY <1>7 DEF WriteTurfStars, RatingBounds, InBounds
  <2> QED BY <1>1, <2>1, <2>2, BoundsOfCall
<1>8. ASSUME NEW r \in RateCalls, RatingFails(r) PROVE RatingBounds'
  <2>1. /\ rating' = [rating EXCEPT ![r] = IdleRating] /\ IdleRating.at # "write"
        /\ stars' = stars /\ turfStars' = turfStars
      BY <1>8, IdleRatingIsEntry DEF RatingFails
  <2> QED BY <1>1, <2>1, BoundsOfCall
<1> QED BY <1>2, <1>3, <1>4, <1>5, <1>6, <1>7, <1>8 DEF RatingsNext

\* However calls overlap and fail, an average is between none and five stars, and no more ratings
\* are counted than there are bookings.
THEOREM RatingTypes == RatingsSpec => []RatingsTypeOK
<1>1. RatingsInit => RatingBounds
  <2>1. Cardinality(Rateable) \in Nat
      BY RatingsAssumption, FS_CardinalityType
  <2> QED BY <2>1, IdleRatingIsEntry DEF RatingsInit, RatingBounds, InBounds
<1>2. RatingInv /\ RatingBounds /\ [RatingsNext]_rateVars => RatingBounds'
    BY RatingBoundsStep
<1>3. RatingInv /\ RatingBounds => RatingsTypeOK
  <2> SUFFICES ASSUME RatingInv, RatingBounds PROVE RatingsTypeOK
      OBVIOUS
  <2>1. \A r \in RateCalls : rating[r].at \in RatingSteps
      BY EntryOf DEF IsEntry
  <2> QED BY <2>1 DEF RatingInv, RatingShape, RatingSteps, RatingBounds, InBounds, RatingsTypeOK
<1> QED BY <1>1, <1>2, <1>3, RatingInvariant, PTL DEF RatingsSpec

----------------------------------------------------------------------------
(* PlayerPoints.  What a handler has read is as well earned as the row: its *)
(* streak by the days played on up to its last, its points by the matches.  *)

StatsRow == [streak : Nat, points : Nat, matches : Nat, last : Nat]
GameEntry == [outcome : Outcomes, at : {"idle", "decay", "count", "create", "deduct", "done"},
              seen : StatsRow \cup {NoRow}, failed : BOOLEAN, day : Nat]
Handlers == Games \cup Looks

\* What a handler is at, and what it has read.
Handled(g, k) ==
    /\ k.at \in {"decay", "count", "deduct"} => k.seen \in StatsRow /\ stats # NoRow
    /\ k.at \in {"decay", "count"} => k.seen.last <= k.day /\ k.day <= today
    /\ k.at \in {"count", "create", "deduct"} => g \in Games
    /\ k.at = "count" => k.outcome = "COMPLETED"
    /\ k.at = "deduct" => k.outcome \in {"NO_SHOW", "CANCELLED"}

PointsShape ==
    /\ stats \in StatsRow \cup {NoRow}
    /\ stats # NoRow => stats.last <= today
    /\ today \in Nat
    /\ game \in [Handlers -> GameEntry]
    /\ playedOn \subseteq 0 .. today
    /\ clobbered \in BOOLEAN
    /\ \A g \in Handlers : Handled(g, game[g])

\* The days played on, up to one.
UpTo(days, d) == {x \in days : x <= d}
DaysUpTo(days, d) == Cardinality(UpTo(days, d))
Dayset(days) == \E t \in Nat : days \subseteq 0 .. t

StreaksEarned ==
    /\ stats # NoRow => stats.streak <= DaysUpTo(playedOn, stats.last)
    /\ \A g \in Handlers : game[g].at \in {"decay", "count"} =>
          game[g].seen.streak <= DaysUpTo(playedOn, game[g].seen.last)

Count(outcome) == Cardinality(Done(outcome))

PointsEarned ==
    /\ stats = NoRow => Matches = 0
    /\ PointsAddUp
    /\ \A g \in Handlers : game[g].at = "deduct" => game[g].seen.points <= Reward * Matches

PointsInv == PointsShape /\ StreaksEarned /\ PointsEarned

----------------------------------------------------------------------------
LEMMA MonusFacts ==
    ASSUME NEW a \in Nat, NEW b \in Nat
    PROVE  Monus(a, b) \in Nat /\ Monus(a, b) <= a /\ Monus(a, b) + b >= a
BY DEF Monus

LEMMA PenaltyIsNat == ASSUME NEW outcome PROVE Penalty(outcome) \in Nat
BY DEF Penalty

LEMMA DaysAreNat == ASSUME NEW days, Dayset(days) PROVE \A x \in days : x \in Int
BY DEF Dayset

LEMMA DaysAreFinite ==
    ASSUME NEW days, Dayset(days), NEW d \in Int
    PROVE  IsFiniteSet(UpTo(days, d)) /\ DaysUpTo(days, d) \in Nat
<1>1. PICK t \in Nat : days \subseteq 0 .. t
    BY DEF Dayset
<1>2. IsFiniteSet(0 .. t)
    BY FS_Interval
<1>3. UpTo(days, d) \subseteq 0 .. t
    BY <1>1 DEF UpTo
<1>4. IsFiniteSet(UpTo(days, d))
    BY <1>2, <1>3, FS_Subset
<1> QED BY <1>4, FS_CardinalityType DEF DaysUpTo

\* More days, up to a later one.
LEMMA DaysGrow ==
    ASSUME NEW days, NEW more, Dayset(days), Dayset(more), days \subseteq more,
           NEW d \in Nat, NEW e \in Nat, d <= e
    PROVE  DaysUpTo(days, d) <= DaysUpTo(more, e)
<1>1. IsFiniteSet(UpTo(more, e))
    BY DaysAreFinite
<1>2. UpTo(days, d) \subseteq UpTo(more, e)
  <2>1. \A x \in days : x <= d => x <= e
      BY DaysAreNat
  <2> QED BY <2>1, Zenon DEF UpTo
<1> QED BY <1>1, <1>2, FS_Subset DEF DaysUpTo

LEMMA AnotherDay ==
    ASSUME NEW days, Dayset(days), NEW day \in Nat
    PROVE  Dayset(days \cup {day})
<1>1. PICK t \in Nat : days \subseteq 0 .. t
    BY DEF Dayset
<1>2. days \cup {day} \subseteq 0 .. (t + day)
    BY <1>1
<1>3. t + day \in Nat
    OBVIOUS
<1> QED BY <1>2, <1>3 DEF Dayset

\* A day after d is one more.
LEMMA DayCounts ==
    ASSUME NEW days, Dayset(days), NEW d \in Int, NEW day \in Nat, d < day
    PROVE  DaysUpTo(days, d) + 1 <= DaysUpTo(days \cup {day}, day)
<1> DEFINE more == days \cup {day}
<1>1. IsFiniteSet(UpTo(days, d))
    BY DaysAreFinite
<1>2. day \notin UpTo(days, d) /\ UpTo(days, d) \cup {day} \subseteq UpTo(more, day)
  <2>1. \A x \in days : x <= d => x <= day
      BY DaysAreNat
  <2>2. day <= day /\ ~(day <= d)
      OBVIOUS
  <2> QED BY <2>1, <2>2, Zenon DEF UpTo
<1>3. Cardinality(UpTo(days, d) \cup {day}) = Cardinality(UpTo(days, d)) + 1
    BY <1>1, <1>2, FS_AddElement
<1>4. Dayset(more) /\ day \in Int
    BY AnotherDay
<1> HIDE DEF more
<1>5. IsFiniteSet(UpTo(more, day))
    BY <1>4, DaysAreFinite
<1>6. Cardinality(UpTo(days, d) \cup {day}) <= Cardinality(UpTo(more, day))
    BY <1>2, <1>5, FS_Subset
<1> QED BY <1>3, <1>6 DEF DaysUpTo, more

LEMMA DayIsADay ==
    ASSUME NEW days, Dayset(days), NEW day \in Nat
    PROVE  1 <= DaysUpTo(days \cup {day}, day)
<1> DEFINE before == day - 1
           more == days \cup {day}
<1>1. before \in Int /\ before < day
    OBVIOUS
<1> HIDE DEF before
<1>2. DaysUpTo(days, before) \in Nat
    BY <1>1, DaysAreFinite
<1>3. DaysUpTo(days, before) + 1 <= DaysUpTo(more, day)
    BY <1>1, DayCounts
<1>4. Dayset(more) /\ day \in Int
    BY AnotherDay
<1> HIDE DEF more
<1>5. DaysUpTo(more, day) \in Nat
    BY <1>4, DaysAreFinite
<1>6. 1 <= DaysUpTo(more, day)
    BY <1>2, <1>3, <1>5
<1> QED BY <1>6 DEF more

----------------------------------------------------------------------------
LEMMA DoneIsFinite == ASSUME NEW outcome PROVE IsFiniteSet(Done(outcome)) /\ Count(outcome) \in Nat
BY PointsAssumption, FS_Subset, FS_CardinalityType DEF Done, Count

\* A handler's step; it counts when it ends.
HandlerMoves(g, k) ==
    /\ game' = [game EXCEPT ![g] = k]
    /\ k \in GameEntry /\ game[g].at # "done"

LEMMA HandlerStep ==
    ASSUME PointsShape, NEW g \in Handlers, NEW k, HandlerMoves(g, k)
    PROVE  /\ game' \in [Handlers -> GameEntry]
           /\ \A h \in Handlers : game'[h] = IF h = g THEN k ELSE game[h]
BY DEF PointsShape, HandlerMoves

\* The handler's end is one more with this outcome.
HasEnded(g, k, outcome) == g \in Games /\ k.at = "done" /\ k.outcome = outcome /\ ~k.failed

LEMMA CountStep ==
    ASSUME PointsShape, NEW g \in Handlers, NEW k, HandlerMoves(g, k), NEW outcome
    PROVE  /\ Count(outcome) \in Nat /\ Count(outcome)' \in Nat
           /\ HasEnded(g, k, outcome) => Count(outcome)' = Count(outcome) + 1
           /\ ~HasEnded(g, k, outcome) => Count(outcome)' = Count(outcome)
<1>1. \A h \in Handlers : game'[h] = IF h = g THEN k ELSE game[h]
    BY HandlerStep
<1>2. game[g].at # "done" /\ Games \subseteq Handlers
    BY DEF HandlerMoves, Handlers
<1>3. IsFiniteSet(Done(outcome)) /\ Count(outcome) \in Nat /\ g \notin Done(outcome)
    BY <1>2, DoneIsFinite DEF Done
<1>4. Done(outcome)' = {h \in Games : game'[h].at = "done" /\ game'[h].outcome = outcome /\ ~game'[h].failed}
    BY DEF Done
<1>5. Count(outcome)' = Cardinality(Done(outcome)')
    BY DEF Count
<1>6. CASE HasEnded(g, k, outcome)
    <2>1. ASSUME NEW h \in Games
          PROVE  /\ game'[h].at = "done" /\ game'[h].outcome = outcome /\ ~game'[h].failed
                 <=> h = g \/ (game[h].at = "done" /\ game[h].outcome = outcome /\ ~game[h].failed)
      <3>1. CASE h = g
          BY <1>1, <1>2, <1>6, <3>1 DEF HasEnded
      <3>2. CASE h # g
          BY <1>1, <1>2, <3>2
      <3> QED BY <3>1, <3>2
    <2>2. Done(outcome)' = Done(outcome) \cup {g}
        BY <1>4, <1>6, <2>1 DEF Done, HasEnded
    <2>3. Cardinality(Done(outcome) \cup {g}) = Cardinality(Done(outcome)) + 1
        BY <1>3, FS_AddElement
    <2> QED BY <1>3, <1>5, <1>6, <2>2, <2>3 DEF Count
<1>7. CASE ~HasEnded(g, k, outcome)
    <2>1. Done(outcome)' = Done(outcome)
        BY <1>1, <1>2, <1>4, <1>7 DEF Done, HasEnded
    <2> QED BY <1>3, <1>5, <1>7, <2>1 DEF Count
<1> QED BY <1>6, <1>7

\* The steps of one handler: what each part of the invariant asks of them.
LEMMA ShapeStep ==
    ASSUME PointsShape, NEW g \in Handlers, NEW k, HandlerMoves(g, k), Handled(g, k)',
           today' = today, stats' \in StatsRow \cup {NoRow}, stats # NoRow => stats' # NoRow,
           stats' # NoRow => stats'.last <= today,
           playedOn' \subseteq 0 .. today, clobbered' \in BOOLEAN
    PROVE  PointsShape'
<1>1. game' \in [Handlers -> GameEntry] /\ \A h \in Handlers : game'[h] = IF h = g THEN k ELSE game[h]
    BY HandlerStep
<1>2. ASSUME NEW h \in Handlers PROVE Handled(h, game[h])' 
  <2>1. CASE h = g
      BY <1>1, <2>1 DEF Handled
  <2>2. CASE h # g
      BY <1>1, <2>2 DEF Handled, PointsShape
  <2> QED BY <2>1, <2>2
<1> QED BY <1>1, <1>2 DEF PointsShape

LEMMA DaysOfShape == ASSUME PointsShape PROVE Dayset(playedOn)
BY DEF PointsShape, Dayset

LEMMA StreakStep ==
    ASSUME PointsShape, PointsShape', StreaksEarned, NEW g \in Handlers, NEW k, HandlerMoves(g, k),
           playedOn \subseteq playedOn',
           stats' # NoRow => stats'.streak <= DaysUpTo(playedOn', stats'.last),
           k.at \in {"decay", "count"} => k.seen.streak <= DaysUpTo(playedOn', k.seen.last)
    PROVE  StreaksEarned'
<1>1. \A h \in Handlers : game'[h] = IF h = g THEN k ELSE game[h]
    BY HandlerStep
<1>2. ASSUME NEW h \in Handlers, game'[h].at \in {"decay", "count"}
      PROVE  game'[h].seen.streak <= DaysUpTo(playedOn', game'[h].seen.last)
  <2>1. CASE h = g
      BY <1>1, <1>2, <2>1
  <2>2. CASE h # g
    <3> DEFINE seen == game[h].seen
    <3>1. game'[h] = game[h] /\ seen \in StatsRow
        BY <1>1, <1>2, <2>2 DEF PointsShape, Handled
    <3>2. seen.streak \in Nat /\ seen.last \in Nat
        BY <3>1 DEF StatsRow
    <3>3. seen.streak <= DaysUpTo(playedOn, seen.last)
        BY <1>2, <3>1 DEF StreaksEarned
    <3> HIDE DEF seen
    <3>4. Dayset(playedOn) /\ Dayset(playedOn')
        BY DaysOfShape DEF PointsShape, Dayset
    <3>5. /\ DaysUpTo(playedOn, seen.last) <= DaysUpTo(playedOn', seen.last)
          /\ DaysUpTo(playedOn, seen.last) \in Nat /\ DaysUpTo(playedOn', seen.last) \in Nat
        BY <3>2, <3>4, DaysGrow, DaysAreFinite
    <3>6. seen.streak <= DaysUpTo(playedOn', seen.last)
        BY <3>2, <3>3, <3>5
    <3> QED BY <3>1, <3>6 DEF seen
  <2> QED BY <2>1, <2>2
<1> QED BY <1>2 DEF StreaksEarned, DaysUpTo, UpTo

\* The points of the row, and what the penalties may have taken.
PointsCover(points, matches, shows, cancels) ==
    /\ points <= Reward * matches
    /\ clobbered \/ points + Penalty("NO_SHOW") * shows + Penalty("CANCELLED") * cancels >= Reward * matches

LEMMA PointsStep ==
    ASSUME PointsShape, PointsShape', PointsEarned, NEW g \in Handlers, NEW k, HandlerMoves(g, k),
           stats' = NoRow => Count("COMPLETED")' = 0,
           stats' # NoRow => PointsCover(stats.points, Count("COMPLETED"), Count("NO_SHOW"), Count("CANCELLED"))',
           k.at = "deduct" => k.seen.points <= Reward * Count("COMPLETED")'
    PROVE  PointsEarned'
<1>1. \A h \in Handlers : game'[h] = IF h = g THEN k ELSE game[h]
    BY HandlerStep
<1>2. ASSUME NEW h \in Handlers, game'[h].at = "deduct"
      PROVE  game'[h].seen.points <= Reward * Count("COMPLETED")'
  <2>1. CASE h = g
      BY <1>1, <1>2, <2>1
  <2>2. CASE h # g
    <3> DEFINE seen == game[h].seen
    <3>1. game'[h] = game[h] /\ seen \in StatsRow
        BY <1>1, <1>2, <2>2 DEF PointsShape, Handled
    <3>2. seen.points \in Nat
        BY <3>1 DEF StatsRow
    <3>3. seen.points <= Reward * Count("COMPLETED")
        BY <1>2, <3>1 DEF PointsEarned, Matches, Count
    <3> HIDE DEF seen
    <3>4. /\ Count("COMPLETED") \in Nat /\ Count("COMPLETED")' \in Nat
          /\ Count("COMPLETED") <= Count("COMPLETED")'
        BY CountStep
    <3>5. seen.points <= Reward * Count("COMPLETED")'
        BY <3>2, <3>3, <3>4 DEF Reward
    <3> QED BY <3>1, <3>5 DEF seen
  <2> QED BY <2>1, <2>2
<1> QED BY <1>2, Zenon DEF PointsEarned, PointsAddUp, PointsCover, Matches, Count

\* A step that ends nothing that counts and leaves the points.
LEMMA PointsStay ==
    ASSUME PointsShape, PointsShape', PointsEarned, NEW g \in Handlers, NEW k, HandlerMoves(g, k),
           stats' = NoRow <=> stats = NoRow, stats # NoRow => stats'.points = stats.points,
           clobbered' = clobbered, \A outcome \in Outcomes : ~HasEnded(g, k, outcome),
           k.at = "deduct" => k.seen = stats /\ stats # NoRow
    PROVE  PointsEarned'
<1>1. /\ Count("COMPLETED")' = Count("COMPLETED") /\ Count("NO_SHOW")' = Count("NO_SHOW")
      /\ Count("CANCELLED")' = Count("CANCELLED")
    BY CountStep DEF Outcomes
<1>2. stats' = NoRow => Count("COMPLETED")' = 0
    BY <1>1 DEF PointsEarned, Matches, Count
<1>3. stats' # NoRow => PointsCover(stats.points, Count("COMPLETED"), Count("NO_SHOW"), Count("CANCELLED"))'
    BY <1>1, Zenon DEF PointsEarned, PointsAddUp, PointsCover, Matches, Count
<1>4. k.at = "deduct" => k.seen.points <= Reward * Count("COMPLETED")'
    BY <1>1 DEF PointsEarned, PointsAddUp, Matches, Count
<1> QED BY <1>2, <1>3, <1>4, PointsStep

\* What getUserStats leaves the handler at.
LEMMA GivenEntry ==
    ASSUME PointsShape, NEW g \in Handlers, NEW row \in StatsRow \cup {NoRow},
           game[g].at # "done", GivenStats(g, row)
    PROVE  \E k : /\ HandlerMoves(g, k)
                  /\ \/ g \notin Games /\ k.at = "done"
                     \/ /\ g \in Games /\ k.outcome = "COMPLETED" /\ k.seen = row /\ k.day = today
                        /\ k.at = IF row = NoRow THEN "create" ELSE "count"
<1>1. CASE g \in Looks
  <2> DEFINE k == [Fresh EXCEPT !.outcome = game[g].outcome, !.at = "done", !.failed = FALSE]
  <2>1. game' = [game EXCEPT ![g] = k]
      BY <1>1 DEF GivenStats, Ends, EndsWith
  <2>2. k \in GameEntry /\ k.at = "done" /\ g \notin Games
      BY <1>1, PointsAssumption DEF Fresh, GameEntry, PointsShape
  <2> HIDE DEF k
  <2> QED BY <2>1, <2>2 DEF HandlerMoves
<1>2. CASE g \notin Looks
  <2> DEFINE k == [Fresh EXCEPT !.outcome = "COMPLETED", !.seen = row, !.day = today,
                                !.at = IF row = NoRow THEN "create" ELSE "count"]
  <2>1. game' = [game EXCEPT ![g] = k] /\ g \in Games
      BY <1>2 DEF GivenStats, Handlers
  <2>2. /\ k \in GameEntry /\ k.outcome = "COMPLETED" /\ k.seen = row /\ k.day = today
        /\ k.at = IF row = NoRow THEN "create" ELSE "count"
      BY DEF Fresh, GameEntry, PointsShape, Outcomes
  <2> HIDE DEF k
  <2> QED BY <2>1, <2>2 DEF HandlerMoves
<1> QED BY <1>1, <1>2

LEMMA EndsEntry ==
    ASSUME PointsShape, NEW g \in Handlers, NEW failed \in BOOLEAN, game[g].at # "done", EndsWith(g, failed)
    PROVE  \E k : HandlerMoves(g, k) /\ k.at = "done" /\ k.outcome = game[g].outcome /\ k.failed = failed
<1> DEFINE k == [Fresh EXCEPT !.outcome = game[g].outcome, !.at = "done", !.failed = failed]
<1>1. game' = [game EXCEPT ![g] = k]
    BY DEF EndsWith
<1>2. k \in GameEntry /\ k.at = "done" /\ k.outcome = game[g].outcome /\ k.failed = failed
    BY DEF Fresh, GameEntry, PointsShape
<1> HIDE DEF k
<1> QED BY <1>1, <1>2 DEF HandlerMoves

----------------------------------------------------------------------------
LEMMA PointsInitially == PointsInit => PointsInv
<1> SUFFICES ASSUME PointsInit PROVE PointsInv
    BY Zenon
<1>1. stats = NoRow /\ today = 0 /\ playedOn = {} /\ clobbered = FALSE
    BY Zenon DEF PointsInit
<1>2. game = [g \in Handlers |-> Fresh] /\ Fresh \in GameEntry /\ Fresh.at = "idle"
    BY DEF PointsInit, Fresh, GameEntry, Handlers, Outcomes
<1>3. \A g \in Handlers : game[g].at = "idle"
    BY <1>2
<1>4. PointsShape
    BY <1>1, <1>2, <1>3 DEF PointsShape, Handled
<1>5. Done("COMPLETED") = {}
    BY <1>3 DEF Done, Handlers
<1>6. Matches = 0
    BY <1>5, FS_EmptySet DEF Matches
<1> QED BY <1>1, <1>3, <1>4, <1>6 DEF PointsInv, StreaksEarned, PointsEarned, PointsAddUp

LEMMA DaysPassStep == PointsInv /\ DaysPass => PointsInv'
<1> SUFFICES ASSUME PointsInv, DaysPass PROVE PointsInv'
    OBVIOUS
<1>1. stats' = stats /\ game' = game /\ playedOn' = playedOn /\ clobbered' = clobbered
      /\ today' \in Nat /\ today < today'
    BY PointsAssumption DEF DaysPass
<1>2. today \in Nat /\ (stats # NoRow => stats.last \in Nat /\ stats.last <= today) /\ playedOn \subseteq 0 .. today
    BY DEF PointsInv, PointsShape, StatsRow
<1>3. (stats # NoRow => stats.last <= today') /\ playedOn \subseteq 0 .. today'
    BY <1>1, <1>2
<1>4. ASSUME NEW g \in Handlers PROVE Handled(g, game[g])'
  <2>1. Handled(g, game[g]) /\ game[g].day \in Nat
      BY DEF PointsInv, PointsShape, GameEntry
  <2>2. game[g].day <= today => game[g].day <= today'
      BY <1>1, <1>2, <2>1
  <2> QED BY <1>1, <2>1, <2>2, Zenon DEF Handled
<1>5. PointsShape'
    BY <1>1, <1>3, <1>4 DEF PointsInv, PointsShape
<1> QED BY <1>1, <1>5, Zenon DEF PointsInv, StreaksEarned, PointsEarned, PointsAddUp, Matches, Done, DaysUpTo, UpTo

\* The row's last day is a day that has come, and so is its successor by whole periods.
LEMMA DecayKeepsDays ==
    ASSUME NEW day \in Nat, NEW last \in Nat, last <= day, NEW streak \in Nat
    PROVE  LET periods == (day - last) \div Grace
           IN  /\ periods \in Nat /\ last + periods * Grace \in Nat
               /\ last <= last + periods * Grace /\ last + periods * Grace <= day
               /\ Monus(streak, periods) \in Nat /\ Monus(streak, periods) <= streak
<1> DEFINE periods == (day - last) \div Grace
<1>1. periods \in Nat /\ periods * Grace <= day - last
    BY DEF Grace
<1>2. last + periods * Grace \in Nat /\ last <= last + periods * Grace /\ last + periods * Grace <= day
    BY <1>1 DEF Grace
<1>3. Monus(streak, periods) \in Nat /\ Monus(streak, periods) <= streak
    BY <1>1, MonusFacts
<1> QED BY <1>1, <1>2, <1>3

LEMMA ReadStatsStep ==
    ASSUME PointsInv, NEW g \in Handlers, ReadStats(g) PROVE PointsInv'
<1>1. /\ stats' = stats /\ today' = today /\ playedOn' = playedOn /\ clobbered' = clobbered
      /\ game[g].at = "idle" /\ playedOn \subseteq 0 .. today /\ clobbered \in BOOLEAN
    BY DEF ReadStats, PointsInv, PointsShape
<1>2. CASE stats # NoRow /\ today - stats.last > Grace
  <2>1. PICK k : k = [game[g] EXCEPT !.at = "decay", !.seen = stats, !.day = today]
      OBVIOUS
  <2>2. stats # NoRow /\ stats \in StatsRow /\ stats.last <= today /\ today \in Nat /\ game[g] \in GameEntry
      BY <1>2 DEF PointsInv, PointsShape
  <2>3. k \in GameEntry /\ k.at = "decay" /\ k.seen = stats /\ k.day = today
      BY <2>1, <2>2 DEF GameEntry
  <2>4. HandlerMoves(g, k)
      BY <1>1, <1>2, <2>1, <2>3 DEF HandlerMoves, ReadStats
  <2>5. Handled(g, k)'
    <3>1. k.seen \in StatsRow /\ stats' # NoRow /\ k.seen.last <= k.day /\ k.day <= today'
        BY <1>1, <2>2, <2>3
    <3> QED BY <2>3, <3>1 DEF Handled
  <2>6. PointsShape'
    <3>1. stats' \in StatsRow \cup {NoRow} /\ stats' # NoRow /\ stats'.last <= today
        BY <1>1, <2>2
    <3>2. playedOn' \subseteq 0 .. today /\ clobbered' \in BOOLEAN
        BY <1>1
    <3> QED BY <1>1, <2>4, <2>5, <3>1, <3>2, ShapeStep DEF PointsInv
  <2>7. StreaksEarned'
      BY <1>1, <1>2, <2>3, <2>4, <2>6, StreakStep DEF PointsInv, StreaksEarned
  <2>8. \A outcome \in Outcomes : ~HasEnded(g, k, outcome)
      BY <2>3 DEF HasEnded
  <2>9. PointsEarned'
      BY <1>1, <2>3, <2>4, <2>6, <2>8, PointsStay DEF PointsInv
  <2> QED BY <2>6, <2>7, <2>9 DEF PointsInv
<1>3. CASE ~(stats # NoRow /\ today - stats.last > Grace)
  <2>1. GivenStats(g, stats) /\ stats \in StatsRow \cup {NoRow}
      BY <1>3 DEF ReadStats, PointsInv, PointsShape
  <2>2. PICK k : /\ HandlerMoves(g, k)
                 /\ \/ g \notin Games /\ k.at = "done"
                    \/ /\ g \in Games /\ k.outcome = "COMPLETED" /\ k.seen = stats /\ k.day = today
                       /\ k.at = IF stats = NoRow THEN "create" ELSE "count"
      BY <1>1, <2>1, GivenEntry DEF PointsInv
  <2>3. Handled(g, k)'
      BY <1>1, <2>1, <2>2 DEF Handled, PointsInv, PointsShape, StatsRow
  <2>4. PointsShape'
      BY <1>1, <2>1, <2>2, <2>3, ShapeStep DEF PointsInv, PointsShape
  <2>5. StreaksEarned'
      BY <1>1, <2>2, <2>4, StreakStep DEF PointsInv, StreaksEarned
  <2>6. \A outcome \in Outcomes : ~HasEnded(g, k, outcome)
      BY <2>2 DEF HasEnded
  <2>7. PointsEarned'
      BY <1>1, <2>2, <2>4, <2>6, PointsStay DEF PointsInv
  <2> QED BY <2>4, <2>5, <2>7 DEF PointsInv
<1> QED BY <1>2, <1>3

LEMMA ApplyInactivityDecayStep ==
    ASSUME PointsInv, NEW g \in Handlers, ApplyInactivityDecay(g) PROVE PointsInv'
<1> DEFINE seen == game[g].seen
           periods == (game[g].day - seen.last) \div Grace
           row == [stats EXCEPT !.streak = Monus(seen.streak, periods), !.last = seen.last + periods * Grace]
<1>1. /\ stats' = row /\ GivenStats(g, row)
      /\ today' = today /\ playedOn' = playedOn /\ clobbered' = clobbered /\ game[g].at = "decay"
    BY DEF ApplyInactivityDecay
<1>2. /\ seen \in StatsRow /\ stats # NoRow /\ stats \in StatsRow /\ seen.last <= game[g].day
      /\ game[g].day <= today /\ game[g].day \in Nat /\ today \in Nat
    BY <1>1 DEF PointsInv, PointsShape, Handled, GameEntry
<1>3. /\ seen.last + periods * Grace \in Nat /\ seen.last + periods * Grace <= game[g].day
      /\ seen.last <= seen.last + periods * Grace
      /\ Monus(seen.streak, periods) \in Nat /\ Monus(seen.streak, periods) <= seen.streak
    BY <1>2, DecayKeepsDays DEF StatsRow
<1>4. /\ row \in StatsRow /\ row.points = stats.points
      /\ row.last = seen.last + periods * Grace /\ row.streak = Monus(seen.streak, periods)
    BY <1>2, <1>3 DEF StatsRow
<1> HIDE DEF row, periods, seen
<1>5. row.last <= today /\ row # NoRow /\ seen.last <= row.last /\ row.streak <= seen.streak
    BY <1>2, <1>3, <1>4, PointsAssumption DEF StatsRow
<1>6. row.streak <= DaysUpTo(playedOn, row.last)
  <2>1. seen.streak <= DaysUpTo(playedOn, seen.last)
      BY <1>1 DEF PointsInv, StreaksEarned, seen
  <2>2. /\ seen.last \in Nat /\ seen.streak \in Nat /\ row.last \in Nat /\ row.streak \in Nat
      BY <1>2, <1>4 DEF StatsRow
  <2>3. /\ DaysUpTo(playedOn, seen.last) <= DaysUpTo(playedOn, row.last)
        /\ DaysUpTo(playedOn, seen.last) \in Nat /\ DaysUpTo(playedOn, row.last) \in Nat
      BY <1>5, <2>2, DaysGrow, DaysAreFinite, DaysOfShape DEF PointsInv
  <2> QED BY <1>5, <2>1, <2>2, <2>3
<1>7. PICK k : /\ HandlerMoves(g, k)
               /\ \/ g \notin Games /\ k.at = "done"
                  \/ /\ g \in Games /\ k.outcome = "COMPLETED" /\ k.seen = row /\ k.day = today
                     /\ k.at = IF row = NoRow THEN "create" ELSE "count"
    BY <1>1, <1>4, GivenEntry DEF PointsInv
<1>8. Handled(g, k)'
    BY <1>1, <1>2, <1>4, <1>5, <1>7 DEF Handled
<1>9. PointsShape'
    BY <1>1, <1>2, <1>4, <1>5, <1>7, <1>8, ShapeStep DEF PointsInv, PointsShape
<1>10. StreaksEarned'
    BY <1>1, <1>5, <1>6, <1>7, <1>9, StreakStep DEF PointsInv
<1>11. \A outcome \in Outcomes : ~HasEnded(g, k, outcome)
    BY <1>5, <1>7 DEF HasEnded
<1>12. PointsEarned'
    BY <1>1, <1>2, <1>4, <1>5, <1>7, <1>9, <1>11, PointsStay DEF PointsInv
<1> QED BY <1>9, <1>10, <1>12 DEF PointsInv

\* The second creation of the row throws.
LEMMA CreateFails ==
    ASSUME PointsInv, NEW g \in Handlers, game[g].at = "create", EndsWith(g, TRUE),
           UNCHANGED <<stats, today, playedOn, clobbered>>
    PROVE  PointsInv'
<1>1. /\ stats' = stats /\ today' = today /\ playedOn' = playedOn /\ clobbered' = clobbered
      /\ playedOn \subseteq 0 .. today /\ clobbered \in BOOLEAN
      /\ stats \in StatsRow \cup {NoRow} /\ (stats # NoRow => stats.last <= today)
    BY DEF PointsInv, PointsShape
<1>2. PICK k : HandlerMoves(g, k) /\ k.at = "done" /\ k.outcome = game[g].outcome /\ k.failed = TRUE
    BY EndsEntry DEF PointsInv
<1>3. Handled(g, k)'
    BY <1>2 DEF Handled
<1>4. PointsShape'
    BY <1>1, <1>2, <1>3, ShapeStep DEF PointsInv
<1>5. StreaksEarned'
    BY <1>1, <1>2, <1>4, StreakStep DEF PointsInv, StreaksEarned
<1>6. \A outcome \in Outcomes : ~HasEnded(g, k, outcome)
    BY <1>2 DEF HasEnded
<1>7. PointsEarned'
    BY <1>1, <1>2, <1>4, <1>6, PointsStay DEF PointsInv
<1> QED BY <1>4, <1>5, <1>7 DEF PointsInv

LEMMA NewStatsRow ==
    ASSUME NEW streak \in Nat, NEW points \in Nat, NEW matches \in Nat, NEW day \in Nat
    PROVE  LET row == NewStats(streak, points, matches, day)
           IN  /\ row \in StatsRow /\ row # NoRow
               /\ row.streak = streak /\ row.points = points /\ row.last = day
<1>1. NewStats(streak, points, matches, day) \in StatsRow
    BY DEF NewStats, StatsRow
<1>2. NewStats(streak, points, matches, day) # NoRow
    BY <1>1, PointsAssumption DEF StatsRow
<1> QED BY <1>1, <1>2 DEF NewStats

LEMMA CreateOnCompletionStep ==
    ASSUME PointsInv, NEW g \in Handlers, CreateOnCompletion(g) PROVE PointsInv'
<1>1. CASE stats # NoRow
    BY <1>1, CreateFails, Zenon DEF CreateOnCompletion
<1>2. CASE stats = NoRow
  <2>1. /\ stats' = NewStats(1, Reward, 1, today) /\ playedOn' = playedOn \cup {today}
        /\ today' = today /\ clobbered' = clobbered
        /\ game[g].at = "create" /\ game[g].outcome = "COMPLETED" /\ EndsWith(g, FALSE)
      BY <1>2 DEF CreateOnCompletion, Ends
  <2>2. g \in Games /\ today \in Nat /\ playedOn \subseteq 0 .. today /\ clobbered \in BOOLEAN
      BY <2>1 DEF PointsInv, PointsShape, Handled
  <2>3. /\ stats' \in StatsRow /\ stats' # NoRow /\ stats'.streak = 1
        /\ stats'.points = Reward /\ stats'.last = today
    <3>1. 1 \in Nat /\ Reward \in Nat
        BY DEF Reward
    <3> DEFINE row == NewStats(1, Reward, 1, today)
    <3>2. row \in StatsRow /\ row # NoRow /\ row.streak = 1 /\ row.points = Reward /\ row.last = today
        BY <2>2, <3>1, NewStatsRow
    <3> QED
        BY <2>1, <3>2
  <2>4. PICK k : HandlerMoves(g, k) /\ k.at = "done" /\ k.outcome = "COMPLETED" /\ k.failed = FALSE
      BY <2>1, EndsEntry DEF PointsInv
  <2>5. Handled(g, k)'
      BY <2>4 DEF Handled
  <2>6. playedOn' \subseteq 0 .. today
    <3>1. today \in 0 .. today
        BY <2>2
    <3>2. playedOn' = playedOn \cup {today}
        BY <2>1
    <3> QED BY <2>2, <3>1, <3>2
  <2>7. PointsShape'
      BY <1>2, <2>1, <2>2, <2>3, <2>4, <2>5, <2>6, ShapeStep DEF PointsInv
  <2>8. 1 <= DaysUpTo(playedOn', today)
      BY <2>1, <2>2, DayIsADay, DaysOfShape DEF PointsInv
  <2>9. StreaksEarned'
      BY <2>1, <2>3, <2>4, <2>7, <2>8, StreakStep DEF PointsInv
  <2>10. Count("COMPLETED") = 0
      BY <1>2 DEF PointsInv, PointsEarned, Matches, Count
  <2>11. HasEnded(g, k, "COMPLETED") /\ ~HasEnded(g, k, "NO_SHOW") /\ ~HasEnded(g, k, "CANCELLED")
      BY <2>2, <2>4 DEF HasEnded
  <2>12. /\ Count("COMPLETED")' = 1
         /\ Count("NO_SHOW")' \in Nat /\ Count("CANCELLED")' \in Nat
      BY <2>4, <2>10, <2>11, CountStep DEF PointsInv
  <2>13. PointsCover(stats.points, Count("COMPLETED"), Count("NO_SHOW"), Count("CANCELLED"))'
      BY <2>3, <2>12 DEF PointsCover, Reward, Penalty
  <2>14. PointsEarned'
      BY <2>3, <2>4, <2>7, <2>13, PointsStep DEF PointsInv
  <2> QED BY <2>7, <2>9, <2>14 DEF PointsInv
<1> QED BY <1>1, <1>2

\* One increment a day, within the days of grace.
LEMMA CountedStreak ==
    ASSUME NEW days, Dayset(days), NEW row \in StatsRow, NEW day \in Nat, row.last <= day,
           row.streak <= DaysUpTo(days, row.last)
    PROVE  /\ NewStreak(row, day) \in Nat
           /\ NewStreak(row, day) <= DaysUpTo(days \cup {day}, day)
<1>1. row.streak \in Nat /\ row.last \in Nat
    BY DEF StatsRow
<1>2. Dayset(days \cup {day})
    BY AnotherDay
<1> DEFINE more == days \cup {day}
           before == DaysUpTo(days, row.last)
           after == DaysUpTo(more, day)
<1>3. before \in Nat /\ after \in Nat /\ 1 <= after
    BY <1>1, <1>2, DaysAreFinite, DayIsADay
<1>4. before <= after
    BY <1>1, <1>2, DaysGrow
<1>5. row.last # day => before + 1 <= after
    BY <1>1, DayCounts
<1>6. row.streak <= before
    OBVIOUS
<1> HIDE DEF before, after
<1>7. NewStreak(row, day) \in Nat /\ NewStreak(row, day) <= after
    BY <1>1, <1>3, <1>4, <1>5, <1>6 DEF NewStreak
<1> QED BY <1>7 DEF after

LEMMA CountCompletionStep ==
    ASSUME PointsInv, NEW g \in Handlers, CountCompletion(g) PROVE PointsInv'
<1> DEFINE seen == game[g].seen
           day == game[g].day
<1>1. /\ stats' = [stats EXCEPT !.streak = NewStreak(seen, day), !.points = @ + Reward,
                                 !.matches = @ + 1, !.last = day]
      /\ playedOn' = playedOn \cup {day}
      /\ today' = today /\ clobbered' = clobbered /\ game[g].at = "count" /\ EndsWith(g, FALSE)
    BY DEF CountCompletion, Ends
<1>2. /\ seen \in StatsRow /\ stats # NoRow /\ stats \in StatsRow /\ seen.last <= day
      /\ day <= today /\ day \in Nat /\ today \in Nat /\ g \in Games
      /\ game[g].outcome = "COMPLETED" /\ playedOn \subseteq 0 .. today /\ clobbered \in BOOLEAN
    BY <1>1 DEF PointsInv, PointsShape, Handled, GameEntry
<1>3. seen.streak <= DaysUpTo(playedOn, seen.last)
    BY <1>1 DEF PointsInv, StreaksEarned
<1>4. Dayset(playedOn)
    BY DaysOfShape DEF PointsInv
<1> HIDE DEF seen, day
<1>5. NewStreak(seen, day) \in Nat /\ NewStreak(seen, day) <= DaysUpTo(playedOn', day)
    BY <1>1, <1>2, <1>3, <1>4, CountedStreak
<1>6. /\ stats' \in StatsRow /\ stats'.streak = NewStreak(seen, day) /\ stats'.last = day
      /\ stats'.points = stats.points + Reward /\ stats.points \in Nat
  <2> DEFINE streak == NewStreak(seen, day)
             points == stats.points + Reward
             matches == stats.matches + 1
  <2>1. streak \in Nat /\ points \in Nat /\ matches \in Nat /\ day \in Nat /\ stats.points \in Nat
      BY <1>2, <1>5 DEF StatsRow, Reward
  <2>2. stats' = [stats EXCEPT !.streak = streak, !.points = points, !.matches = matches, !.last = day]
      BY <1>1, Zenon
  <2> HIDE DEF streak, points, matches
  <2>3. stats' \in StatsRow /\ stats'.streak = streak /\ stats'.last = day /\ stats'.points = points
      BY <1>2, <2>1, <2>2 DEF StatsRow
  <2> QED BY <2>1, <2>3 DEF streak, points
<1>7. stats' # NoRow
    BY <1>6, PointsAssumption DEF StatsRow
<1>8. PICK k : HandlerMoves(g, k) /\ k.at = "done" /\ k.outcome = "COMPLETED" /\ k.failed = FALSE
    BY <1>1, <1>2, EndsEntry DEF PointsInv
<1>9. Handled(g, k)'
    BY <1>8 DEF Handled
<1>10. playedOn' \subseteq 0 .. today
    BY <1>1, <1>2
<1>11. PointsShape'
    BY <1>1, <1>2, <1>6, <1>7, <1>8, <1>9, <1>10, ShapeStep DEF PointsInv
<1>12. StreaksEarned'
    BY <1>1, <1>5, <1>6, <1>8, <1>11, StreakStep DEF PointsInv
<1>13. HasEnded(g, k, "COMPLETED") /\ ~HasEnded(g, k, "NO_SHOW") /\ ~HasEnded(g, k, "CANCELLED")
    BY <1>2, <1>8 DEF HasEnded
<1>14. /\ Count("COMPLETED")' = Count("COMPLETED") + 1 /\ Count("COMPLETED") \in Nat
       /\ Count("NO_SHOW")' = Count("NO_SHOW") /\ Count("NO_SHOW") \in Nat
       /\ Count("CANCELLED")' = Count("CANCELLED") /\ Count("CANCELLED") \in Nat
    BY <1>8, <1>13, CountStep DEF PointsInv
<1>15. PointsCover(stats.points, Count("COMPLETED"), Count("NO_SHOW"), Count("CANCELLED"))
    BY <1>2, Zenon DEF PointsInv, PointsEarned, PointsAddUp, PointsCover, Matches, Count
<1>16. PointsCover(stats.points, Count("COMPLETED"), Count("NO_SHOW"), Count("CANCELLED"))'
    BY <1>1, <1>6, <1>14, <1>15 DEF PointsCover, Reward, Penalty
<1>17. PointsEarned'
    BY <1>7, <1>8, <1>11, <1>16, PointsStep DEF PointsInv
<1> QED BY <1>11, <1>12, <1>17 DEF PointsInv

LEMMA ReadForPenaltyStep ==
    ASSUME PointsInv, NEW g \in Handlers, ReadForPenalty(g) PROVE PointsInv'
<1>1. /\ stats' = stats /\ today' = today /\ playedOn' = playedOn /\ clobbered' = clobbered
      /\ g \in Games /\ game[g].at = "idle"
      /\ playedOn \subseteq 0 .. today /\ clobbered \in BOOLEAN /\ game[g] \in GameEntry
      /\ stats \in StatsRow \cup {NoRow} /\ (stats # NoRow => stats.last <= today)
    BY DEF ReadForPenalty, PointsInv, PointsShape
<1>2. PICK outcome \in {"NO_SHOW", "CANCELLED"} :
          game' = [game EXCEPT ![g] = [game[g] EXCEPT !.outcome = outcome, !.seen = stats,
                                         !.at = IF stats = NoRow THEN "create" ELSE "deduct"]]
    BY DEF ReadForPenalty
<1>3. PICK k : k = [game[g] EXCEPT !.outcome = outcome, !.seen = stats,
                                    !.at = IF stats = NoRow THEN "create" ELSE "deduct"]
    OBVIOUS
<1>4. /\ k \in GameEntry /\ k.outcome = outcome /\ k.seen = stats
      /\ k.at = IF stats = NoRow THEN "create" ELSE "deduct"
    BY <1>1, <1>3 DEF GameEntry, Outcomes
<1>5. HandlerMoves(g, k)
    BY <1>1, <1>2, <1>3, <1>4 DEF HandlerMoves
<1>6. Handled(g, k)'
    BY <1>1, <1>4 DEF Handled
<1>7. PointsShape'
    BY <1>1, <1>5, <1>6, ShapeStep DEF PointsInv
<1>8. StreaksEarned'
    BY <1>1, <1>4, <1>5, <1>7, StreakStep DEF PointsInv, StreaksEarned
<1>9. \A o \in Outcomes : ~HasEnded(g, k, o)
    BY <1>4 DEF HasEnded
<1>10. PointsEarned'
    BY <1>1, <1>4, <1>5, <1>7, <1>9, PointsStay DEF PointsInv
<1> QED BY <1>7, <1>8, <1>10 DEF PointsInv

LEMMA CreateOnPenaltyStep ==
    ASSUME PointsInv, NEW g \in Handlers, CreateOnPenalty(g) PROVE PointsInv'
<1>1. CASE stats # NoRow
    BY <1>1, CreateFails, Zenon DEF CreateOnPenalty
<1>2. CASE stats = NoRow
  <2>1. /\ stats' = NewStats(0, 0, 0, today) /\ playedOn' = playedOn
        /\ today' = today /\ clobbered' = clobbered
        /\ game[g].at = "create" /\ game[g].outcome \in {"NO_SHOW", "CANCELLED"} /\ EndsWith(g, FALSE)
      BY <1>2 DEF CreateOnPenalty, Ends
  <2>2. g \in Games /\ today \in Nat /\ playedOn \subseteq 0 .. today /\ clobbered \in BOOLEAN
      BY <2>1 DEF PointsInv, PointsShape, Handled
  <2>3. /\ stats' \in StatsRow /\ stats' # NoRow /\ stats'.streak = 0
        /\ stats'.points = 0 /\ stats'.last = today
      BY <2>1, <2>2, NewStatsRow
  <2>4. PICK k : HandlerMoves(g, k) /\ k.at = "done" /\ k.outcome = game[g].outcome /\ k.failed = FALSE
      BY <2>1, EndsEntry DEF PointsInv
  <2>5. Handled(g, k)'
      BY <2>4 DEF Handled
  <2>6. PointsShape'
      BY <1>2, <2>1, <2>2, <2>3, <2>4, <2>5, ShapeStep DEF PointsInv
  <2>7. DaysUpTo(playedOn, today) \in Nat
      BY <2>2, DaysAreFinite, DaysOfShape DEF PointsInv
  <2>8. StreaksEarned'
      BY <2>1, <2>3, <2>4, <2>6, <2>7, StreakStep DEF PointsInv
  <2>9. Count("COMPLETED") = 0
      BY <1>2 DEF PointsInv, PointsEarned, Matches, Count
  <2>10. ~HasEnded(g, k, "COMPLETED")
      BY <2>1, <2>4 DEF HasEnded
  <2>11. /\ Count("COMPLETED")' = 0
         /\ Count("NO_SHOW")' \in Nat /\ Count("CANCELLED")' \in Nat
      BY <2>4, <2>9, <2>10, CountStep DEF PointsInv
  <2>12. PointsCover(stats.points, Count("COMPLETED"), Count("NO_SHOW"), Count("CANCELLED"))'
      BY <2>3, <2>11 DEF PointsCover, Reward, Penalty
  <2>13. PointsEarned'
      BY <2>3, <2>4, <2>6, <2>12, PointsStep DEF PointsInv
  <2> QED BY <2>6, <2>8, <2>13 DEF PointsInv
<1> QED BY <1>1, <1>2

LEMMA DeductStep ==
    ASSUME PointsInv, NEW g \in Handlers, Deduct(g) PROVE PointsInv'
<1> DEFINE seen == game[g].seen
           outcome == game[g].outcome
           points == Monus(seen.points, Penalty(outcome))
<1>1. /\ stats' = IF outcome = "NO_SHOW" THEN [stats EXCEPT !.streak = 0, !.points = points]
                   ELSE [stats EXCEPT !.points = points]
      /\ clobbered' = (clobbered \/ stats.points # seen.points)
      /\ today' = today /\ playedOn' = playedOn /\ game[g].at = "deduct" /\ EndsWith(g, FALSE)
    BY DEF Deduct, Ends
<1>2. /\ seen \in StatsRow /\ stats # NoRow /\ stats \in StatsRow /\ stats.last <= today
      /\ g \in Games /\ outcome \in {"NO_SHOW", "CANCELLED"} /\ playedOn \subseteq 0 .. today
      /\ today \in Nat /\ clobbered \in BOOLEAN
    BY <1>1 DEF PointsInv, PointsShape, Handled
<1>3. seen.points <= Reward * Count("COMPLETED") /\ seen.points \in Nat
    BY <1>1, <1>2 DEF PointsInv, PointsEarned, Matches, Count, StatsRow
<1>4. points \in Nat /\ points <= seen.points /\ points + Penalty(outcome) >= seen.points
    BY <1>3, MonusFacts, PenaltyIsNat
<1>5. PICK k : HandlerMoves(g, k) /\ k.at = "done" /\ k.outcome = outcome /\ k.failed = FALSE
    BY <1>1, EndsEntry DEF PointsInv
<1> HIDE DEF seen, outcome, points
<1>6. /\ stats' \in StatsRow /\ stats'.last = stats.last /\ stats'.points = points
      /\ stats'.streak \in {0, stats.streak} /\ stats.streak \in Nat /\ stats.last \in Nat
      /\ stats.points \in Nat
    BY <1>1, <1>2, <1>4 DEF StatsRow
<1>7. stats' # NoRow
    BY <1>6, PointsAssumption DEF StatsRow
<1>8. Handled(g, k)'
    BY <1>5 DEF Handled
<1>9. clobbered' \in BOOLEAN
    BY <1>1, <1>2
<1>10. PointsShape'
    BY <1>1, <1>2, <1>5, <1>6, <1>7, <1>8, <1>9, ShapeStep DEF PointsInv
<1>11. stats'.streak <= DaysUpTo(playedOn, stats'.last)
  <2>1. stats.streak <= DaysUpTo(playedOn, stats.last) /\ DaysUpTo(playedOn, stats.last) \in Nat
      BY <1>2, <1>6, DaysAreFinite, DaysOfShape DEF PointsInv, StreaksEarned
  <2> QED BY <1>6, <2>1
<1>12. StreaksEarned'
    BY <1>1, <1>5, <1>10, <1>11, StreakStep DEF PointsInv
<1>13. /\ ~HasEnded(g, k, "COMPLETED") /\ HasEnded(g, k, outcome)
       /\ outcome = "NO_SHOW" => ~HasEnded(g, k, "CANCELLED")
       /\ outcome = "CANCELLED" => ~HasEnded(g, k, "NO_SHOW")
    BY <1>2, <1>5 DEF HasEnded
<1>14. /\ Count("COMPLETED")' = Count("COMPLETED") /\ Count("COMPLETED") \in Nat
       /\ Count("NO_SHOW") \in Nat /\ Count("CANCELLED") \in Nat
       /\ Count("NO_SHOW")' = Count("NO_SHOW") + (IF outcome = "NO_SHOW" THEN 1 ELSE 0)
       /\ Count("CANCELLED")' = Count("CANCELLED") + (IF outcome = "NO_SHOW" THEN 0 ELSE 1)
    BY <1>2, <1>5, <1>13, CountStep DEF PointsInv
<1>15. PointsCover(stats.points, Count("COMPLETED"), Count("NO_SHOW"), Count("CANCELLED"))
    BY <1>2, Zenon DEF PointsInv, PointsEarned, PointsAddUp, PointsCover, Matches, Count
<1>16. PointsCover(stats.points, Count("COMPLETED"), Count("NO_SHOW"), Count("CANCELLED"))'
  <2>1. stats'.points <= Reward * Count("COMPLETED")'
      BY <1>3, <1>4, <1>6, <1>14 DEF Reward
  <2>2. ASSUME ~clobbered'
        PROVE  stats'.points + Penalty("NO_SHOW") * Count("NO_SHOW")' + Penalty("CANCELLED") * Count("CANCELLED")'
                  >= Reward * Count("COMPLETED")'
    <3>1. ~clobbered /\ stats.points = seen.points
        BY <1>1, <2>2, Zenon
    <3>2. stats.points + Penalty("NO_SHOW") * Count("NO_SHOW") + Penalty("CANCELLED") * Count("CANCELLED")
             >= Reward * Count("COMPLETED")
        BY <1>15, <3>1, Zenon DEF PointsCover
    <3>3. CASE outcome = "NO_SHOW"
        BY <1>3, <1>4, <1>6, <1>14, <3>1, <3>2, <3>3 DEF Reward, Penalty
    <3>4. CASE outcome = "CANCELLED"
        BY <1>3, <1>4, <1>6, <1>14, <3>1, <3>2, <3>4 DEF Reward, Penalty
    <3> QED BY <1>2, <3>3, <3>4
  <2> QED BY <2>1, <2>2, Zenon DEF PointsCover
<1>17. PointsEarned'
    BY <1>5, <1>7, <1>10, <1>16, PointsStep DEF PointsInv
<1> QED BY <1>10, <1>12, <1>17 DEF PointsInv

LEMMA PointsSteps == PointsInv /\ [PointsNext]_pointsVars => PointsInv'
<1> SUFFICES ASSUME PointsInv, [PointsNext]_pointsVars PROVE PointsInv'
    OBVIOUS
<1>1. CASE DaysPass
    BY <1>1, DaysPassStep
<1>2. ASSUME NEW g \in Handlers,
             \/ ReadStats(g) \/ ApplyInactivityDecay(g) \/ CreateOnCompletion(g) \/ CountCompletion(g)
             \/ ReadForPenalty(g) \/ CreateOnPenalty(g) \/ Deduct(g)
      PROVE  PointsInv'
    BY <1>2, ReadStatsStep, ApplyInactivityDecayStep, CreateOnCompletionStep, CountCompletionStep,
       ReadForPenaltyStep, CreateOnPenaltyStep, DeductStep
<1>3. CASE UNCHANGED pointsVars
    BY <1>3, Zenon DEF pointsVars, PointsInv, PointsShape, Handled, StreaksEarned, DaysUpTo, UpTo, PointsEarned, PointsAddUp,
       Matches, Done
<1> QED BY <1>1, <1>2, <1>3, Zenon DEF PointsNext, Handlers

\* What a handler has read, and the row, are earned by the matches and the days played on.
THEOREM PointsInvariant == PointsSpec => []PointsInv
BY PointsInitially, PointsSteps, PTL DEF PointsSpec

\* A streak is never longer than the days the player played on, whatever handlers overlap:
\* it is at most the days up to the row's last one.
THEOREM StreakEarned == PointsSpec => []StreakIsEarned
<1>1. PointsInv => StreakIsEarned
  <2> SUFFICES ASSUME PointsInv, stats # NoRow PROVE stats.streak <= Cardinality(playedOn)
      BY DEF StreakIsEarned
  <2>1. /\ stats.streak \in Nat /\ stats.last \in Nat /\ today \in Nat /\ playedOn \subseteq 0 .. today
        /\ stats.streak <= DaysUpTo(playedOn, stats.last)
      BY DEF PointsInv, PointsShape, StreaksEarned, StatsRow
  <2>2. UpTo(playedOn, stats.last) \subseteq playedOn
      BY DEF UpTo
  <2>3. IsFiniteSet(playedOn)
    <3>1. IsFiniteSet(0 .. today)
        BY <2>1, FS_Interval
    <3> QED BY <2>1, <3>1, FS_Subset
  <2>4. DaysUpTo(playedOn, stats.last) <= Cardinality(playedOn) /\ Cardinality(playedOn) \in Nat
        /\ DaysUpTo(playedOn, stats.last) \in Nat
      BY <2>2, <2>3, FS_Subset, FS_CardinalityType DEF DaysUpTo
  <2> QED BY <2>1, <2>4
<1> QED BY <1>1, PointsInvariant, PTL

\* Nobody has more points than the matches earned, and nobody loses more than the penalties
\* take, unless a penalty overwrote points given since it read them.
THEOREM PointsAreEarned == PointsSpec => []PointsAddUp
<1>1. PointsInv => PointsAddUp
    BY DEF PointsInv, PointsEarned
<1> QED BY <1>1, PointsInvariant, PTL

TodayInDays == today \in Days

LEMMA DaysStep == TodayInDays /\ [PointsNext]_pointsVars => TodayInDays'
BY Zenon DEF TodayInDays, PointsNext, pointsVars, DaysPass, ReadStats, ApplyInactivityDecay, CreateOnCompletion,
   CountCompletion, ReadForPenalty, CreateOnPenalty, Deduct

\* The row's last day is never after today, nor is a day played on.
THEOREM PointsTypes == PointsSpec => []PointsTypeOK
<1>1. PointsInit => TodayInDays
    BY PointsAssumption DEF PointsAssumption, PointsInit, TodayInDays
<1>2. PointsInv /\ TodayInDays => PointsTypeOK
  <2> SUFFICES ASSUME PointsShape, today \in Days PROVE PointsTypeOK
      BY DEF PointsInv, TodayInDays
  <2>1. stats # NoRow => /\ stats.streak \in Nat /\ stats.points \in Nat
                         /\ stats.matches \in Nat /\ stats.last \in 0 .. today
      BY DEF PointsShape, StatsRow
  <2>2. \A g \in Handlers : /\ game[g].outcome \in Outcomes
                            /\ game[g].at \in {"idle", "decay", "count", "create", "deduct", "done"}
      BY DEF PointsShape, GameEntry
  <2>3. playedOn \subseteq 0 .. today /\ clobbered \in BOOLEAN
      BY DEF PointsShape
  <2>4. \A g \in Games \cup Looks : g \in Handlers
      BY DEF Handlers
  <2> QED BY <2>1, <2>2, <2>3, <2>4, Zenon DEF PointsTypeOK
<1> QED BY <1>1, <1>2, DaysStep, PointsInitially, PointsSteps, PTL DEF PointsSpec

----------------------------------------------------------------------------
(* Offers.  For each turf, the offers logged and the requests that have     *)
(* counted the log and are not over stay together within the bound: a       *)
(* request is let in when at most one is logged, and it leaves when it logs. *)

Offer == [turfs : SUBSET Turfs, logged : BOOLEAN]
OfferEntry == [at : {"idle", "audience", "send", "log"}, turfs : SUBSET Turfs, reach : Nat, offer : Nat]

\* A request knows the place of its offer from sending it to logging it.
InPlace(k) ==
    /\ k.at = "log" => k.offer \in 1 .. Len(offers) /\ offers[k.offer].turfs = k.turfs
    /\ k.at # "log" => k.offer = 0

OffersShape ==
    /\ offers \in Seq(Offer)
    /\ offerCall \in [OfferCalls -> OfferEntry]
    /\ \A c \in OfferCalls : InPlace(offerCall[c])

Asking(t) == {c \in OfferCalls : offerCall[c].at # "idle" /\ t \in offerCall[c].turfs}
FewTogether(t) == Cardinality(Logged(t)) + Cardinality(Asking(t)) <= MaxBroadcasts + Cardinality(OfferCalls) - 1

OffersInv == OffersShape /\ \A t \in Turfs : FewTogether(t)

LEMMA IdleOfferEntry == IdleOffer \in OfferEntry /\ IdleOffer.at = "idle" /\ IdleOffer.offer = 0 /\ IdleOffer.turfs = {}
BY DEF IdleOffer, OfferEntry

LEMMA OfferCounts ==
    ASSUME OffersShape, NEW t
    PROVE  /\ IsFiniteSet(Logged(t)) /\ Cardinality(Logged(t)) \in Nat
           /\ IsFiniteSet(Asking(t)) /\ Cardinality(Asking(t)) \in Nat
           /\ Cardinality(Asking(t)) <= Cardinality(OfferCalls) /\ Cardinality(OfferCalls) \in Nat
<1>1. Len(offers) \in Nat
    BY DEF OffersShape
<1>2. IsFiniteSet(1 .. Len(offers)) /\ Logged(t) \subseteq 1 .. Len(offers)
    BY <1>1, FS_Interval DEF Logged
<1>3. Asking(t) \subseteq OfferCalls /\ IsFiniteSet(OfferCalls)
    BY OffersAssumption DEF Asking
<1> QED BY <1>2, <1>3, FS_Subset, FS_CardinalityType

\* No more are logged, and no other request asks.
\* The same of the state after a step.
LEMMA OfferCountsAfter ==
    ASSUME OffersShape', NEW t
    PROVE  /\ IsFiniteSet(Logged(t)') /\ Cardinality(Logged(t)') \in Nat
           /\ IsFiniteSet(Asking(t)') /\ Cardinality(Asking(t)') \in Nat
           /\ Cardinality(Asking(t)') <= Cardinality(OfferCalls) /\ Cardinality(OfferCalls) \in Nat
<1>1. Len(offers') \in Nat
    BY DEF OffersShape
<1>2. IsFiniteSet(1 .. Len(offers')) /\ Logged(t)' \subseteq 1 .. Len(offers')
    BY <1>1, FS_Interval DEF Logged
<1>3. Asking(t)' \subseteq OfferCalls /\ IsFiniteSet(OfferCalls)
    BY OffersAssumption DEF Asking
<1> QED BY <1>2, <1>3, FS_Subset, FS_CardinalityType

\* No more are logged, and no other request asks.
LEMMA StayFew ==
    ASSUME OffersShape, OffersShape', NEW t, FewTogether(t),
           Cardinality(Logged(t)') <= Cardinality(Logged(t)), Asking(t)' \subseteq Asking(t)
    PROVE  FewTogether(t)'
<1>1. Cardinality(Logged(t)') \in Nat
    BY OfferCountsAfter
<1>2. Cardinality(Asking(t)') <= Cardinality(Asking(t)) /\ Cardinality(Asking(t)') \in Nat
    BY OfferCounts, OfferCountsAfter, FS_Subset
<1>3. Cardinality(Logged(t)) \in Nat /\ Cardinality(Asking(t)) \in Nat /\ Cardinality(OfferCalls) \in Nat
    BY OfferCounts
<1> QED BY <1>1, <1>2, <1>3 DEF FewTogether, MaxBroadcasts

\* The entry of one request changes, the offers and their log do not.
LEMMA RequestStep ==
    ASSUME OffersShape, NEW c \in OfferCalls, NEW k \in OfferEntry,
           offerCall' = [offerCall EXCEPT ![c] = k]
    PROVE  /\ offerCall' \in [OfferCalls -> OfferEntry]
           /\ \A d \in OfferCalls : offerCall'[d] = IF d = c THEN k ELSE offerCall[d]
BY DEF OffersShape

\* A request that does not ask for a turf from now on leaves no other asking.
LEMMA AskingStep ==
    ASSUME OffersShape, NEW c \in OfferCalls, NEW k \in OfferEntry,
           offerCall' = [offerCall EXCEPT ![c] = k], NEW t,
           k.at # "idle" /\ t \in k.turfs => offerCall[c].at # "idle" /\ t \in offerCall[c].turfs
    PROVE  Asking(t)' \subseteq Asking(t)
BY RequestStep DEF Asking

----------------------------------------------------------------------------
LEMMA AskOfferStep ==
    ASSUME OffersInv, NEW c \in OfferCalls, AskOffer(c) PROVE OffersInv'
<1>1. PICK turfs \in Requests :
          /\ \A t \in turfs : Cardinality(Logged(t)) < MaxBroadcasts
          /\ offerCall' = [offerCall EXCEPT ![c] = [IdleOffer EXCEPT !.at = "audience", !.turfs = turfs]]
    BY Zenon DEF AskOffer
<1>2. offers' = offers /\ turfs \in SUBSET Turfs
    BY DEF AskOffer, Requests
<1>3. PICK k : k = [IdleOffer EXCEPT !.at = "audience", !.turfs = turfs]
    OBVIOUS
<1>4. k \in OfferEntry /\ k.at = "audience" /\ k.turfs = turfs /\ k.offer = 0
    BY <1>2, <1>3 DEF IdleOffer, OfferEntry
<1>5. offerCall' = [offerCall EXCEPT ![c] = k]
    BY <1>1, <1>3
<1>6. /\ offerCall' \in [OfferCalls -> OfferEntry]
      /\ \A d \in OfferCalls : offerCall'[d] = IF d = c THEN k ELSE offerCall[d]
    BY <1>4, <1>5, RequestStep DEF OffersInv
<1>7. OffersShape'
    BY <1>2, <1>4, <1>6 DEF OffersInv, OffersShape, InPlace
<1>8. ASSUME NEW t \in Turfs PROVE FewTogether(t)'
  <2>1. Logged(t)' = Logged(t)
      BY <1>2 DEF Logged
  <2>2. CASE t \in turfs
    <3>1. Cardinality(Logged(t)) < MaxBroadcasts
        BY <1>1, <2>2
    <3>2. Cardinality(Logged(t)) \in Nat
        BY OfferCounts DEF OffersInv
    <3>3. /\ Cardinality(Asking(t)') \in Nat /\ Cardinality(OfferCalls) \in Nat
          /\ Cardinality(Asking(t)') <= Cardinality(OfferCalls)
        BY <1>7, OfferCountsAfter
    <3> QED BY <2>1, <3>1, <3>2, <3>3 DEF FewTogether, MaxBroadcasts
  <2>3. CASE t \notin turfs
    <3>1. Asking(t)' \subseteq Asking(t)
        BY <1>4, <1>5, <2>3, AskingStep DEF OffersInv
    <3>2. Cardinality(Logged(t)') <= Cardinality(Logged(t))
        BY <2>1, OfferCounts DEF OffersInv
    <3> QED BY <1>7, <3>1, <3>2, StayFew DEF OffersInv
  <2> QED BY <2>2, <2>3
<1> QED BY <1>7, <1>8 DEF OffersInv

\* The steps that leave the offers, and no request asking that did not.
LEMMA QuietStep ==
    ASSUME OffersInv, NEW c \in OfferCalls, NEW k \in OfferEntry,
           offerCall' = [offerCall EXCEPT ![c] = k], offers' = offers,
           k.at # "log" /\ k.offer = 0, k = IdleOffer \/ (offerCall[c].at # "idle" /\ k.turfs = offerCall[c].turfs)
    PROVE  OffersInv'
<1>1. /\ offerCall' \in [OfferCalls -> OfferEntry]
      /\ \A d \in OfferCalls : offerCall'[d] = IF d = c THEN k ELSE offerCall[d]
    BY RequestStep DEF OffersInv
<1>2. OffersShape'
    BY <1>1 DEF OffersInv, OffersShape, InPlace
<1>3. ASSUME NEW t \in Turfs PROVE FewTogether(t)'
  <2>1. Asking(t)' \subseteq Asking(t)
      BY AskingStep, IdleOfferEntry DEF OffersInv
  <2>2. Logged(t)' = Logged(t)
      BY DEF Logged
  <2>3. Cardinality(Logged(t)') <= Cardinality(Logged(t))
      BY <2>2, OfferCounts DEF OffersInv
  <2> QED BY <1>2, <2>1, <2>3, StayFew DEF OffersInv
<1> QED BY <1>2, <1>3 DEF OffersInv

LEMMA FindAudienceStep ==
    ASSUME OffersInv, NEW c \in OfferCalls, FindAudience(c) PROVE OffersInv'
<1>1. offers' = offers /\ offerCall[c].at = "audience" /\ offerCall[c] \in OfferEntry /\ offerCall[c].offer = 0
    BY DEF FindAudience, OffersInv, OffersShape, InPlace
<1>2. PICK reach \in 0 .. Cardinality(willing) :
          offerCall' = [offerCall EXCEPT ![c] = IF reach = 0 THEN IdleOffer
                                                ELSE [offerCall[c] EXCEPT !.at = "send", !.reach = reach]]
    BY Zenon DEF FindAudience
<1>3. PICK k : k = IF reach = 0 THEN IdleOffer ELSE [offerCall[c] EXCEPT !.at = "send", !.reach = reach]
    OBVIOUS
<1>4. k \in OfferEntry /\ k.at # "log" /\ k.offer = 0 /\ (k = IdleOffer \/ k.turfs = offerCall[c].turfs)
  <2>1. reach \in Nat
      OBVIOUS
  <2>2. CASE reach = 0
      BY <1>3, <2>2, IdleOfferEntry
  <2>3. CASE reach # 0
    <3>1. k = [offerCall[c] EXCEPT !.at = "send", !.reach = reach]
        BY <1>3, <2>3
    <3> QED BY <1>1, <2>1, <3>1 DEF OfferEntry
  <2> QED BY <2>2, <2>3
<1> QED BY <1>1, <1>2, <1>3, <1>4, QuietStep

LEMMA OfferCallFailsStep ==
    ASSUME OffersInv, NEW c \in OfferCalls, OfferCallFails(c) PROVE OffersInv'
BY QuietStep, IdleOfferEntry DEF OfferCallFails

----------------------------------------------------------------------------
LEMMA AppendedOffer ==
    ASSUME OffersShape, NEW turfs \in SUBSET Turfs,
           offers' = Append(offers, [turfs |-> turfs, logged |-> FALSE])
    PROVE  /\ offers' \in Seq(Offer) /\ Len(offers) \in Nat /\ Len(offers') = Len(offers) + 1
           /\ \A i \in 1 .. Len(offers) : offers'[i] = offers[i]
           /\ offers'[Len(offers')] = [turfs |-> turfs, logged |-> FALSE]
           /\ \A t : Logged(t)' = Logged(t)
<1> DEFINE new == [turfs |-> turfs, logged |-> FALSE]
<1>1. offers \in Seq(Offer) /\ new \in Offer /\ new.logged = FALSE
    BY DEF OffersShape, Offer
<1> HIDE DEF new
<1>2. /\ offers' \in Seq(Offer) /\ Len(offers) \in Nat /\ Len(offers') = Len(offers) + 1
      /\ \A i \in 1 .. Len(offers) : offers'[i] = offers[i]
      /\ offers'[Len(offers')] = new
    BY <1>1, AppendProperties, LenProperties DEF new
<1>3. ASSUME NEW t PROVE Logged(t)' = Logged(t)
  <2>1. \A i \in 1 .. Len(offers') : i \in 1 .. Len(offers) \/ i = Len(offers')
      BY <1>2
  <2>2. 1 .. Len(offers) \subseteq 1 .. Len(offers')
      BY <1>2
  <2> QED BY <1>1, <1>2, <2>1, <2>2 DEF Logged
<1> QED BY <1>2, <1>3 DEF new

\* The offer goes out, and the request is to log it or has failed.
LEMMA SentStep ==
    ASSUME OffersInv, NEW c \in OfferCalls, offerCall[c].at = "send", NEW k \in OfferEntry,
           offers' = Append(offers, [turfs |-> offerCall[c].turfs, logged |-> FALSE]),
           offerCall' = [offerCall EXCEPT ![c] = k],
           \/ k = IdleOffer
           \/ k.at = "log" /\ k.turfs = offerCall[c].turfs /\ k.offer = Len(offers')
    PROVE  OffersInv'
<1>1. offerCall[c].turfs \in SUBSET Turfs /\ OffersShape
    BY DEF OffersInv, OffersShape, OfferEntry
<1>2. /\ offers' \in Seq(Offer) /\ Len(offers) \in Nat /\ Len(offers') = Len(offers) + 1
      /\ \A i \in 1 .. Len(offers) : offers'[i] = offers[i]
      /\ offers'[Len(offers')] = [turfs |-> offerCall[c].turfs, logged |-> FALSE]
      /\ \A t : Logged(t)' = Logged(t)
    BY <1>1, AppendedOffer
<1>3. /\ offerCall' \in [OfferCalls -> OfferEntry]
      /\ \A d \in OfferCalls : offerCall'[d] = IF d = c THEN k ELSE offerCall[d]
    BY <1>1, RequestStep
<1>4. ASSUME NEW d \in OfferCalls PROVE InPlace(offerCall[d])'
  <2>1. CASE d = c
      BY <1>2, <1>3, <2>1, IdleOfferEntry DEF InPlace
  <2>2. CASE d # c
      BY <1>1, <1>2, <1>3, <2>2 DEF InPlace, OffersShape
  <2> QED BY <2>1, <2>2
<1>5. OffersShape'
    BY <1>2, <1>3, <1>4 DEF OffersShape
<1>6. ASSUME NEW t \in Turfs PROVE FewTogether(t)'
  <2>1. Asking(t)' \subseteq Asking(t)
      BY <1>1, AskingStep, IdleOfferEntry
  <2>2. Cardinality(Logged(t)') <= Cardinality(Logged(t))
      BY <1>1, <1>2, OfferCounts
  <2> QED BY <1>1, <1>5, <2>1, <2>2, StayFew DEF OffersInv
<1> QED BY <1>5, <1>6 DEF OffersInv

LEMMA IsSentEntry ==
    ASSUME OffersInv, NEW c \in OfferCalls, offerCall[c].at = "send", IsSent(c)
    PROVE  OffersInv'
<1>1. offerCall[c] \in OfferEntry /\ Len(offers') \in Nat
  <2>1. offerCall[c].turfs \in SUBSET Turfs /\ OffersShape
      BY DEF OffersInv, OffersShape, OfferEntry
  <2>2. offers' \in Seq(Offer)
      BY <2>1, AppendedOffer DEF IsSent
  <2> QED BY <2>2, LenProperties DEF OffersInv, OffersShape
<1>2. PICK k : k = [offerCall[c] EXCEPT !.at = "log", !.reach = 0, !.offer = Len(offers')]
    OBVIOUS
<1>3. k \in OfferEntry /\ k.at = "log" /\ k.turfs = offerCall[c].turfs /\ k.offer = Len(offers')
    BY <1>1, <1>2 DEF OfferEntry
<1>4. offerCall' = [offerCall EXCEPT ![c] = k]
    BY <1>2 DEF IsSent, OffersInv, OffersShape
<1>5. offers' = Append(offers, [turfs |-> offerCall[c].turfs, logged |-> FALSE])
    BY DEF IsSent
<1> QED BY <1>3, <1>4, <1>5, SentStep

LEMMA SendOfferStep ==
    ASSUME OffersInv, NEW c \in OfferCalls, SendOffer(c) \/ QueueOffer(c) PROVE OffersInv'
<1>1. CASE IsSent(c)
    BY <1>1, IsSentEntry DEF SendOffer, QueueOffer
<1>2. CASE /\ offers' = Append(offers, [turfs |-> offerCall[c].turfs, logged |-> FALSE])
           /\ offerCall' = [offerCall EXCEPT ![c] = IdleOffer]
    BY <1>2, SentStep, IdleOfferEntry DEF SendOffer, QueueOffer
<1> QED BY <1>1, <1>2 DEF SendOffer, QueueOffer

LEMMA LogOfferStep ==
    ASSUME OffersInv, NEW c \in OfferCalls, LogOffer(c) PROVE OffersInv'
<1> DEFINE o == offerCall[c].offer
           turfs == offerCall[c].turfs
           new == [offers[o] EXCEPT !.logged = TRUE]
<1>1. /\ OffersShape /\ offers \in Seq(Offer) /\ offerCall[c].at = "log"
      /\ o \in 1 .. Len(offers) /\ offers[o].turfs = turfs
      /\ offerCall' = [offerCall EXCEPT ![c] = IdleOffer]
    BY DEF LogOffer, OffersInv, OffersShape, InPlace
<1>2. offers[o] \in Offer
    BY <1>1, ElementOfSeq
<1>3. new \in Offer /\ new.logged = TRUE /\ new.turfs = turfs
    BY <1>1, <1>2 DEF Offer
<1>4. offers' = [offers EXCEPT ![o] = new]
    BY <1>1 DEF LogOffer
<1> HIDE DEF new
<1>5. /\ offers' \in Seq(Offer) /\ Len(offers') = Len(offers)
      /\ \A i \in 1 .. Len(offers) : offers'[i] = IF i = o THEN new ELSE offers[i]
    BY <1>1, <1>3, <1>4, ExceptSeq
<1>6. /\ offerCall' \in [OfferCalls -> OfferEntry]
      /\ \A d \in OfferCalls : offerCall'[d] = IF d = c THEN IdleOffer ELSE offerCall[d]
    BY <1>1, IdleOfferEntry, RequestStep
<1>7. ASSUME NEW d \in OfferCalls PROVE InPlace(offerCall[d])'
  <2>1. CASE d = c
      BY <1>6, <2>1, IdleOfferEntry DEF InPlace
  <2>2. CASE d # c
    <3>1. InPlace(offerCall[d]) /\ offerCall'[d] = offerCall[d]
        BY <1>1, <1>6, <2>2 DEF OffersShape
    <3> QED BY <1>1, <1>3, <1>5, <3>1 DEF InPlace
  <2> QED BY <2>1, <2>2
<1>8. OffersShape'
    BY <1>5, <1>6, <1>7 DEF OffersShape
<1>9. ASSUME NEW t \in Turfs PROVE FewTogether(t)'
  <2>1. CASE t \in turfs
    <3>1. \A i \in Logged(t)' : i \in Logged(t) \cup {o}
        BY <1>5 DEF Logged
    <3>2. IsFiniteSet(Logged(t)) /\ Cardinality(Logged(t)) \in Nat /\ Cardinality(Logged(t)') \in Nat
        BY <1>1, <1>8, OfferCounts, OfferCountsAfter
    <3>3. IsFiniteSet(Logged(t) \cup {o}) /\ Cardinality(Logged(t) \cup {o}) <= Cardinality(Logged(t)) + 1
      <4>1. IsFiniteSet(Logged(t) \cup {o}) /\ Cardinality(Logged(t) \cup {o})
               = IF o \in Logged(t) THEN Cardinality(Logged(t)) ELSE Cardinality(Logged(t)) + 1
          BY <3>2, FS_AddElement
      <4> QED BY <3>2, <4>1
    <3>4. Cardinality(Logged(t)') <= Cardinality(Logged(t) \cup {o})
        BY <3>1, <3>3, FS_Subset
    <3>5. Cardinality(Logged(t) \cup {o}) \in Nat
        BY <3>3, FS_CardinalityType
    <3>6. IsFiniteSet(Asking(t)) /\ Cardinality(Asking(t)) \in Nat /\ Cardinality(Asking(t)') \in Nat
        BY <1>1, <1>8, OfferCounts, OfferCountsAfter
    <3>7. c \in Asking(t) /\ Asking(t)' \subseteq Asking(t) \ {c}
        BY <1>1, <1>6, <2>1, IdleOfferEntry DEF Asking
    <3>8. IsFiniteSet(Asking(t) \ {c}) /\ Cardinality(Asking(t) \ {c}) = Cardinality(Asking(t)) - 1
        BY <3>6, <3>7, FS_RemoveElement
    <3>9. Cardinality(Asking(t)') <= Cardinality(Asking(t) \ {c})
        BY <3>7, <3>8, FS_Subset
    <3>10. FewTogether(t) /\ Cardinality(OfferCalls) \in Nat
        BY OfferCounts DEF OffersInv
    <3> QED BY <3>2, <3>3, <3>4, <3>5, <3>6, <3>8, <3>9, <3>10 DEF FewTogether, MaxBroadcasts
  <2>2. CASE t \notin turfs
    <3>1. \A i \in 1 .. Len(offers) : /\ offers'[i].logged /\ t \in offers'[i].turfs
                                       <=> offers[i].logged /\ t \in offers[i].turfs
        BY <1>1, <1>3, <1>5, <2>2
    <3>2. Logged(t)' = Logged(t)
        BY <1>5, <3>1, Zenon DEF Logged
    <3>3. Cardinality(Logged(t)') <= Cardinality(Logged(t))
        BY <1>1, <3>2, OfferCounts
    <3>4. Asking(t)' \subseteq Asking(t)
        BY <1>1, AskingStep, IdleOfferEntry
    <3> QED BY <1>1, <1>8, <3>3, <3>4, StayFew DEF OffersInv
  <2> QED BY <2>1, <2>2
<1> QED BY <1>8, <1>9 DEF OffersInv

LEMMA OffersAgeStep == OffersInv /\ OffersAge => OffersInv'
<1> SUFFICES ASSUME OffersInv, OffersAge PROVE OffersInv'
    OBVIOUS
<1>1. PICK n \in 1 .. Len(offers) :
        /\ \A c \in OfferCalls : offerCall[c].offer = 0 \/ offerCall[c].offer > n
        /\ offers' = SubSeq(offers, n + 1, Len(offers))
        /\ offerCall' = [c \in OfferCalls |->
                            [offerCall[c] EXCEPT !.offer = IF offerCall[c].offer = 0 THEN 0 ELSE offerCall[c].offer - n]]
    BY Zenon DEF OffersAge
<1>2. /\ OffersShape /\ offers \in Seq(Offer) /\ Len(offers) \in Nat /\ n \in Nat
      /\ \A i \in 1 .. Len(offers) : offers[i] \in Offer
    BY ElementOfSeq DEF OffersInv, OffersShape
<1>3. /\ offers' \in Seq(Offer) /\ Len(offers') = Len(offers) - n
      /\ \A i \in 1 .. (Len(offers) - n) : offers'[i] = offers[i + n]
  <2>1. n + 1 \in Int /\ Len(offers) \in Int /\ \A i \in (n + 1) .. Len(offers) : offers[i] \in Offer
      BY <1>2
  <2> DEFINE m == n + 1
  <2>2. /\ SubSeq(offers, m, Len(offers)) \in Seq(Offer)
        /\ Len(SubSeq(offers, m, Len(offers))) = IF m <= Len(offers) THEN Len(offers) - m + 1 ELSE 0
        /\ \A i \in 1 .. Len(offers) - m + 1 : SubSeq(offers, m, Len(offers))[i] = offers[m + i - 1]
    <3> HIDE DEF m
    <3> QED BY <2>1, SubSeqProperties DEF m
  <2>3. Len(offers) - m + 1 = Len(offers) - n /\ (m <= Len(offers) \/ Len(offers) - n = 0)
      BY <1>2
  <2>4. \A i \in 1 .. (Len(offers) - n) : m + i - 1 = i + n
      BY <1>2
  <2>5. offers' = SubSeq(offers, m, Len(offers))
      BY <1>1
  <2> HIDE DEF m
  <2> QED BY <2>2, <2>3, <2>4, <2>5
<1>4. ASSUME NEW c \in OfferCalls
      PROVE  /\ offerCall'[c] \in OfferEntry
             /\ offerCall'[c].at = offerCall[c].at /\ offerCall'[c].turfs = offerCall[c].turfs
             /\ InPlace(offerCall[c])'
  <2>1. offerCall[c] \in OfferEntry /\ InPlace(offerCall[c])
      BY <1>2 DEF OffersShape
  <2> DEFINE place == IF offerCall[c].offer = 0 THEN 0 ELSE offerCall[c].offer - n
  <2>2. offerCall'[c] = [offerCall[c] EXCEPT !.offer = place]
      BY <1>1
  <2>3. offerCall[c].offer \in Nat /\ (offerCall[c].offer = 0 \/ offerCall[c].offer > n)
      BY <1>1, <2>1 DEF OfferEntry
  <2>4. place \in Nat
      BY <1>2, <2>3
  <2> HIDE DEF place
  <2>5. /\ offerCall'[c] \in OfferEntry /\ offerCall'[c].offer = place
        /\ offerCall'[c].at = offerCall[c].at /\ offerCall'[c].turfs = offerCall[c].turfs
      BY <2>1, <2>2, <2>4 DEF OfferEntry
  <2>6. CASE offerCall[c].at = "log"
    <3>1. offerCall[c].offer \in 1 .. Len(offers) /\ offers[offerCall[c].offer].turfs = offerCall[c].turfs
        BY <2>1, <2>6 DEF InPlace
    <3>2. place = offerCall[c].offer - n /\ place \in 1 .. (Len(offers) - n) /\ place + n = offerCall[c].offer
      <4>1. offerCall[c].offer # 0 /\ offerCall[c].offer > n
          BY <2>3, <3>1
      <4>2. place = offerCall[c].offer - n
          BY <4>1 DEF place
      <4>3. \A p \in 1 .. Len(offers) : p > n => p - n \in 1 .. (Len(offers) - n) /\ (p - n) + n = p
          BY <1>2
      <4> QED BY <3>1, <4>1, <4>2, <4>3
    <3>3. offers'[place] = offers[offerCall[c].offer]
        BY <1>3, <3>2
    <3> QED BY <1>3, <2>5, <2>6, <3>1, <3>2, <3>3 DEF InPlace
  <2>7. CASE offerCall[c].at # "log"
      BY <2>1, <2>5, <2>7 DEF InPlace, place
  <2> QED BY <2>5, <2>6, <2>7
<1>5. OffersShape'
  <2>1. offerCall' \in [OfferCalls -> OfferEntry]
      BY <1>1, <1>4
  <2> QED BY <1>3, <1>4, <2>1 DEF OffersShape
<1>6. ASSUME NEW t \in Turfs PROVE FewTogether(t)'
  <2>1. Asking(t)' \subseteq Asking(t)
      BY <1>4 DEF Asking
  <2>2. \A i \in Logged(t)' : i \in Nat /\ i + n \in Logged(t)
      BY <1>2, <1>3 DEF Logged
  <2> DEFINE f == [i \in Logged(t)' |-> i + n]
  <2>3. f \in [Logged(t)' -> Logged(t)]
      BY <2>2
  <2>4. \A i, j \in Logged(t)' : f[i] = f[j] => i = j
      BY <1>2, <2>2
  <2> HIDE DEF f
  <2>5. f \in Injection(Logged(t)', Logged(t))
      BY <2>3, <2>4 DEF Injection, IsInjective
  <2>6. IsFiniteSet(Logged(t))
      BY <1>2, OfferCounts
  <2>7. Cardinality(Logged(t)') <= Cardinality(Logged(t))
      BY <2>5, <2>6, FS_Injection
  <2> QED BY <1>2, <1>5, <2>1, <2>7, StayFew DEF OffersInv
<1> QED BY <1>5, <1>6 DEF OffersInv

LEMMA OffersInitially == OffersInit => OffersInv
<1> SUFFICES ASSUME OffersInit PROVE OffersInv
    BY Zenon
<1>1. offers = <<>> /\ offerCall = [c \in OfferCalls |-> IdleOffer]
    BY Zenon DEF OffersInit
<1>2. offers \in Seq(Offer) /\ Len(offers) = 0
    BY <1>1
<1>3. \A c \in OfferCalls : offerCall[c] = IdleOffer
    BY <1>1
<1>4. OffersShape
    BY <1>1, <1>2, <1>3, IdleOfferEntry DEF OffersShape, InPlace
<1>5. ASSUME NEW t \in Turfs PROVE FewTogether(t)
  <2>1. Logged(t) = {} /\ Asking(t) = {}
      BY <1>2, <1>3, IdleOfferEntry DEF Logged, Asking
  <2>2. Cardinality(OfferCalls) \in Nat
      BY <1>4, OfferCounts
  <2> QED BY <2>1, <2>2, FS_EmptySet DEF FewTogether, MaxBroadcasts
<1> QED BY <1>4, <1>5 DEF OffersInv

LEMMA OffersSteps == OffersInv /\ [OffersNext]_offerVars => OffersInv'
<1> SUFFICES ASSUME OffersInv, [OffersNext]_offerVars PROVE OffersInv'
    OBVIOUS
<1>1. ASSUME NEW c \in OfferCalls,
             \/ AskOffer(c) \/ FindAudience(c) \/ SendOffer(c)
             \/ QueueOffer(c) \/ LogOffer(c) \/ OfferCallFails(c)
      PROVE  OffersInv'
    BY <1>1, AskOfferStep, FindAudienceStep, SendOfferStep, LogOfferStep, OfferCallFailsStep
<1>2. CASE OffersAge
    BY <1>2, OffersAgeStep
<1>3. CASE UNCHANGED <<offers, offerCall>>
    BY <1>3, Zenon DEF OffersInv, OffersShape, InPlace, FewTogether, Logged, Asking
<1> QED BY <1>1, <1>2, <1>3, Zenon DEF OffersNext, SetWilling, offerVars

\* However the owner's requests overlap, and whatever part of the offers has aged, a turf's
\* customers get in a day at most two offers and one for each other request at work, but
\* for the offers whose request ended before it wrote the log.
THEOREM OffersLimited == OffersSpec => []OffersAreLimited
<1>1. ASSUME OffersInv, NEW t \in Turfs
      PROVE  Cardinality(Recent(t) \ Uncounted) <= MaxBroadcasts + Cardinality(OfferCalls) - 1
  <2> DEFINE L == {c \in Asking(t) : offerCall[c].at = "log"}
             T == {offerCall[c].offer : c \in L}
             f == [c \in L |-> offerCall[c].offer]
  <2>1. OffersShape /\ FewTogether(t)
      BY <1>1 DEF OffersInv
  <2>2. /\ IsFiniteSet(Logged(t)) /\ Cardinality(Logged(t)) \in Nat
        /\ IsFiniteSet(Asking(t)) /\ Cardinality(Asking(t)) \in Nat /\ Cardinality(OfferCalls) \in Nat
      BY <2>1, OfferCounts
  <2>3. f \in Surjection(L, T)
      BY DEF Surjection
  <2>4. L \subseteq Asking(t)
      OBVIOUS
  <2> HIDE DEF f
  <2>5. IsFiniteSet(L) /\ Cardinality(L) <= Cardinality(Asking(t)) /\ Cardinality(L) \in Nat
      BY <2>2, <2>4, FS_Subset, FS_CardinalityType
  <2>6. Recent(t) \ Uncounted \subseteq Logged(t) \cup T
    <3> SUFFICES ASSUME NEW i \in Recent(t), i \notin Uncounted, i \notin Logged(t) PROVE i \in T
        OBVIOUS
    <3>1. i \in 1 .. Len(offers) /\ t \in offers[i].turfs /\ ~offers[i].logged
        BY DEF Recent, Logged
    <3>2. PICK c \in OfferCalls : offerCall[c].offer = i
        BY <3>1 DEF Uncounted
    <3>3. offerCall[c].at = "log" /\ offers[i].turfs = offerCall[c].turfs
        BY <2>1, <3>1, <3>2 DEF OffersShape, InPlace
    <3> QED BY <3>1, <3>2, <3>3 DEF Asking
  <2> HIDE DEF L, T
  <2>7. IsFiniteSet(T) /\ Cardinality(T) <= Cardinality(L) /\ Cardinality(T) \in Nat
      BY <2>3, <2>5, FS_Surjection, FS_CardinalityType
  <2>8. /\ IsFiniteSet(Logged(t) \cup T)
        /\ Cardinality(Logged(t) \cup T) <= Cardinality(Logged(t)) + Cardinality(T)
        /\ Cardinality(Logged(t) \cup T) \in Nat
    <3>1. IsFiniteSet(Logged(t) \cap T)
        BY <2>2, FS_Subset
    <3>2. Cardinality(Logged(t) \cap T) \in Nat
        BY <3>1, FS_CardinalityType
    <3>3. IsFiniteSet(Logged(t) \cup T) /\ Cardinality(Logged(t) \cup T)
             = Cardinality(Logged(t)) + Cardinality(T) - Cardinality(Logged(t) \cap T)
        BY <2>2, <2>7, FS_Union
    <3>4. Cardinality(Logged(t) \cup T) \in Nat
        BY <3>3, FS_CardinalityType
    <3> QED BY <2>2, <2>7, <3>2, <3>3, <3>4
  <2>9. /\ Cardinality(Recent(t) \ Uncounted) <= Cardinality(Logged(t) \cup T)
        /\ Cardinality(Recent(t) \ Uncounted) \in Nat
      BY <2>6, <2>8, FS_Subset, FS_CardinalityType
  <2> QED BY <2>1, <2>2, <2>5, <2>7, <2>8, <2>9 DEF FewTogether, MaxBroadcasts
<1>2. OffersInv => OffersAreLimited
    BY <1>1 DEF OffersAreLimited
<1> QED BY <1>2, OffersInitially, OffersSteps, PTL DEF OffersSpec

----------------------------------------------------------------------------
\* What was asked for is one turf or all of them.
OffersKnown ==
    /\ willing \subseteq Guests
    /\ Len(offers) <= MaxOffers
    /\ \A i \in 1 .. Len(offers) : offers[i].turfs \in Requests
    /\ \A c \in OfferCalls : offerCall[c].at # "idle" => offerCall[c].turfs \in Requests

LEMMA OffersKnownInitially == OffersInit => OffersKnown
BY OffersAssumption, IdleOfferEntry DEF OffersInit, OffersKnown, OffersAssumption

\* A request that goes on asks for the same turfs.
LEMMA KnownRequest ==
    ASSUME OffersShape, OffersKnown, NEW c \in OfferCalls, NEW k \in OfferEntry,
           offerCall' = [offerCall EXCEPT ![c] = k], offers' = offers, willing' = willing,
           k.at # "idle" => k.turfs \in Requests
    PROVE  OffersKnown'
BY RequestStep DEF OffersKnown

LEMMA AskOfferKnown ==
    ASSUME OffersInv, OffersKnown, NEW c \in OfferCalls, AskOffer(c) PROVE OffersKnown'
<1>1. PICK turfs \in Requests :
          offerCall' = [offerCall EXCEPT ![c] = [IdleOffer EXCEPT !.at = "audience", !.turfs = turfs]]
    BY Zenon DEF AskOffer
<1>2. turfs \in SUBSET Turfs
    BY DEF Requests
<1>3. PICK k : k = [IdleOffer EXCEPT !.at = "audience", !.turfs = turfs]
    OBVIOUS
<1>4. k \in OfferEntry /\ k.turfs = turfs
    BY <1>2, <1>3 DEF IdleOffer, OfferEntry
<1> QED BY <1>1, <1>3, <1>4, KnownRequest DEF AskOffer, OffersInv

LEMMA FindAudienceKnown ==
    ASSUME OffersInv, OffersKnown, NEW c \in OfferCalls, FindAudience(c) PROVE OffersKnown'
<1>1. PICK reach \in 0 .. Cardinality(willing) :
          offerCall' = [offerCall EXCEPT ![c] = IF reach = 0 THEN IdleOffer
                                                ELSE [offerCall[c] EXCEPT !.at = "send", !.reach = reach]]
    BY Zenon DEF FindAudience
<1>2. /\ offerCall[c] \in OfferEntry /\ offerCall[c].turfs \in Requests
    BY DEF OffersInv, OffersShape, OffersKnown, FindAudience
<1>3. PICK k : k = IF reach = 0 THEN IdleOffer ELSE [offerCall[c] EXCEPT !.at = "send", !.reach = reach]
    OBVIOUS
<1>4. k \in OfferEntry /\ (k.at # "idle" => k.turfs \in Requests)
  <2>1. CASE reach = 0
      BY <1>3, <2>1, IdleOfferEntry
  <2>2. CASE reach # 0
    <3>1. reach \in Nat /\ k = [offerCall[c] EXCEPT !.at = "send", !.reach = reach]
        BY <1>3, <2>2
    <3> QED BY <1>2, <3>1 DEF OfferEntry
  <2> QED BY <2>1, <2>2
<1> QED BY <1>1, <1>3, <1>4, KnownRequest DEF FindAudience, OffersInv

LEMMA SendOfferKnown ==
    ASSUME OffersInv, OffersKnown, NEW c \in OfferCalls, SendOffer(c) \/ QueueOffer(c) PROVE OffersKnown'
<1>1. /\ OffersShape /\ offerCall[c].at = "send" /\ willing' = willing /\ Len(offers) < MaxOffers
      /\ offers' = Append(offers, [turfs |-> offerCall[c].turfs, logged |-> FALSE])
      /\ \/ offerCall' = [offerCall EXCEPT ![c] = IdleOffer]
         \/ offerCall' = [offerCall EXCEPT ![c].at = "log", ![c].reach = 0, ![c].offer = Len(offers')]
    BY Zenon DEF SendOffer, QueueOffer, IsSent, OffersInv
<1>2. offerCall[c] \in OfferEntry /\ offerCall[c].turfs \in Requests /\ offerCall[c].turfs \in SUBSET Turfs
    BY <1>1 DEF OffersShape, OffersKnown, OfferEntry
<1>3. /\ Len(offers) \in Nat /\ Len(offers') = Len(offers) + 1
      /\ \A i \in 1 .. Len(offers) : offers'[i] = offers[i]
      /\ offers'[Len(offers')] = [turfs |-> offerCall[c].turfs, logged |-> FALSE]
    BY <1>1, <1>2, AppendedOffer
<1>4. \A i \in 1 .. Len(offers') : offers'[i].turfs \in Requests
  <2> SUFFICES ASSUME NEW i \in 1 .. Len(offers') PROVE offers'[i].turfs \in Requests
      OBVIOUS
  <2>1. CASE i = Len(offers')
      BY <1>2, <1>3, <2>1
  <2>2. CASE i \in 1 .. Len(offers)
      BY <1>3, <2>2 DEF OffersKnown
  <2> QED BY <1>3, <2>1, <2>2
<1>5. \A d \in OfferCalls : /\ d # c => offerCall'[d] = offerCall[d]
                            /\ offerCall'[d].at # "idle" => offerCall'[d].turfs = offerCall[d].turfs
                                                            /\ offerCall[d].at # "idle"
    BY <1>1, IdleOfferEntry DEF OffersShape, OfferEntry
<1>6. \A d \in OfferCalls : offerCall'[d].at # "idle" => offerCall'[d].turfs \in Requests
    BY <1>5 DEF OffersKnown
<1>7. Len(offers') <= MaxOffers
    BY <1>1, <1>3, OffersAssumption DEF OffersAssumption
<1> QED BY <1>1, <1>4, <1>6, <1>7 DEF OffersKnown

LEMMA LogOfferKnown ==
    ASSUME OffersInv, OffersKnown, NEW c \in OfferCalls, LogOffer(c) PROVE OffersKnown'
<1> DEFINE o == offerCall[c].offer
           new == [offers[o] EXCEPT !.logged = TRUE]
<1>1. /\ OffersShape /\ offers \in Seq(Offer) /\ o \in 1 .. Len(offers)
      /\ offerCall' = [offerCall EXCEPT ![c] = IdleOffer] /\ willing' = willing
    BY DEF LogOffer, OffersInv, OffersShape, InPlace
<1>2. offers[o] \in Offer
    BY <1>1, ElementOfSeq
<1>3. new \in Offer /\ new.turfs = offers[o].turfs
    BY <1>1, <1>2 DEF Offer
<1>4. offers' = [offers EXCEPT ![o] = new]
    BY <1>1 DEF LogOffer
<1> HIDE DEF new
<1>5. /\ Len(offers') = Len(offers)
      /\ \A i \in 1 .. Len(offers) : offers'[i] = IF i = o THEN new ELSE offers[i]
    BY <1>1, <1>3, <1>4, ExceptSeq
<1>6. \A d \in OfferCalls : offerCall'[d] = IF d = c THEN IdleOffer ELSE offerCall[d]
    BY <1>1, IdleOfferEntry, RequestStep
<1> QED BY <1>1, <1>3, <1>5, <1>6, IdleOfferEntry DEF OffersKnown

LEMMA OfferCallFailsKnown ==
    ASSUME OffersInv, OffersKnown, NEW c \in OfferCalls, OfferCallFails(c) PROVE OffersKnown'
BY KnownRequest, IdleOfferEntry DEF OfferCallFails, OffersInv

LEMMA OffersAgeKnown == OffersInv /\ OffersKnown /\ OffersAge => OffersKnown'
<1> SUFFICES ASSUME OffersInv, OffersKnown, OffersAge PROVE OffersKnown'
    OBVIOUS
<1>1. PICK n \in 1 .. Len(offers) :
        /\ offers' = SubSeq(offers, n + 1, Len(offers))
        /\ offerCall' = [c \in OfferCalls |->
                            [offerCall[c] EXCEPT !.offer = IF offerCall[c].offer = 0 THEN 0 ELSE offerCall[c].offer - n]]
    BY Zenon DEF OffersAge
<1>2. /\ OffersShape /\ Len(offers) \in Nat /\ n \in Nat /\ willing' = willing
      /\ \A i \in 1 .. Len(offers) : offers[i] \in Offer
    BY ElementOfSeq DEF OffersInv, OffersShape, OffersAge
<1> DEFINE m == n + 1
<1>3. /\ Len(offers') = IF m <= Len(offers) THEN Len(offers) - m + 1 ELSE 0
      /\ \A i \in 1 .. Len(offers) - m + 1 : offers'[i] = offers[m + i - 1]
  <2>1. /\ m \in Int /\ Len(offers) \in Int /\ \A i \in m .. Len(offers) : offers[i] \in Offer
        /\ offers' = SubSeq(offers, m, Len(offers))
      BY <1>1, <1>2
  <2> HIDE DEF m
  <2> QED BY <2>1, SubSeqProperties
<1>4. Len(offers') <= MaxOffers
    BY <1>2, <1>3, OffersAssumption DEF OffersKnown, OffersAssumption
<1>5. \A i \in 1 .. Len(offers') : offers'[i].turfs \in Requests
    BY <1>2, <1>3 DEF OffersKnown
<1>6. \A c \in OfferCalls : offerCall'[c].at = offerCall[c].at /\ offerCall'[c].turfs = offerCall[c].turfs
    BY <1>1, <1>2 DEF OffersShape, OfferEntry
<1> QED BY <1>2, <1>4, <1>5, <1>6 DEF OffersKnown

LEMMA OffersKnownSteps == OffersInv /\ OffersKnown /\ [OffersNext]_offerVars => OffersKnown'
<1> SUFFICES ASSUME OffersInv, OffersKnown, [OffersNext]_offerVars PROVE OffersKnown'
    OBVIOUS
<1>1. ASSUME NEW c \in OfferCalls,
             \/ AskOffer(c) \/ FindAudience(c) \/ SendOffer(c)
             \/ QueueOffer(c) \/ LogOffer(c) \/ OfferCallFails(c)
      PROVE  OffersKnown'
    BY <1>1, AskOfferKnown, FindAudienceKnown, SendOfferKnown, LogOfferKnown, OfferCallFailsKnown
<1>2. CASE SetWilling
    BY <1>2 DEF SetWilling, OffersKnown
<1>3. CASE OffersAge
    BY <1>3, OffersAgeKnown
<1>4. CASE UNCHANGED offerVars
    BY <1>4 DEF offerVars, OffersKnown
<1> QED BY <1>1, <1>2, <1>3, <1>4, Zenon DEF OffersNext

\* An offer goes to one turf's customers or to all of them, and a request that logs knows the
\* place of the offer it sent, however many left the 24 hours meanwhile.
THEOREM OffersTypes == OffersSpec => []OffersTypeOK
<1>1. OffersInv /\ OffersKnown => OffersTypeOK
  <2> SUFFICES ASSUME OffersInv, OffersKnown PROVE OffersTypeOK
      OBVIOUS
  <2>1. OffersShape /\ Len(offers) \in Nat
      BY DEF OffersInv, OffersShape
  <2>2. ASSUME NEW i \in 1 .. Len(offers) PROVE offers[i] \in [turfs : Requests, logged : BOOLEAN]
    <3>1. offers[i] \in Offer /\ offers[i].turfs \in Requests
        BY <2>1, ElementOfSeq DEF OffersShape, OffersKnown
    <3> QED BY <3>1 DEF Offer
  <2>3. ASSUME NEW c \in OfferCalls
        PROVE  /\ offerCall[c].at \in {"idle", "audience", "send", "log"}
               /\ offerCall[c].offer \in 0 .. Len(offers)
    <3>1. offerCall[c] \in OfferEntry /\ InPlace(offerCall[c])
        BY <2>1 DEF OffersShape
    <3> QED BY <2>1, <3>1 DEF OfferEntry, InPlace
  <2> QED BY <2>2, <2>3 DEF OffersTypeOK, OffersKnown
<1> QED BY <1>1, OffersInitially, OffersSteps, OffersKnownInitially, OffersKnownSteps, PTL DEF OffersSpec

----------------------------------------------------------------------------
(* The pages                                                                *)

PageRow == [slot : PageSlots, type : PageTypes, status : PageStatus, pay : PagePayment]

\* What was played is paid, and not before its check-in opened.
PlayedRow(row) ==
    row.status = "COMPLETED" =>
        /\ row.pay = "SUCCESS"
        /\ row.slot.start <= row.slot.end => minute >= row.slot.day * Day + row.slot.start - Window

PagesInv ==
    /\ minute \in Instants
    /\ shown \in [PageBookings -> PageRow \cup {NoBooking}]
    /\ payout \in [Settlements -> {"none", "PENDING", "COMPLETED"}]
    /\ \A b \in Exists : PlayedRow(shown[b])

LEMMA NoBookingIsNoRow == \A row \in PageRow : row # NoBooking
BY DEF PageRow, NoBooking

LEMMA RowShown ==
    ASSUME PagesInv, NEW b \in Exists
    PROVE  b \in PageBookings /\ shown[b] \in PageRow /\ PlayedRow(shown[b])
BY DEF PagesInv, Exists

LEMMA SlotFacts ==
    ASSUME NEW slot \in PageSlots
    PROVE  slot.day \in Nat /\ slot.start \in 0 .. 1439 /\ slot.end \in 0 .. 1439
BY PagesAssumption DEF PagesAssumption

LEMMA SlotOf ==
    ASSUME PagesInv, NEW b \in Exists
    PROVE  /\ Slot(b) \in PageSlots
           /\ Slot(b).day \in Nat /\ Slot(b).start \in 0 .. 1439 /\ Slot(b).end \in 0 .. 1439
<1>1. Slot(b) \in PageSlots
    BY RowShown DEF PageRow, Slot
<1> QED BY <1>1, SlotFacts

\* When a slot begins and ends, as numbers.
Timed(b, d, from, to) ==
    /\ d \in Nat /\ from \in 0 .. 1439 /\ to \in 0 .. 1439
    /\ Slot(b).day = d /\ Slot(b).start = from /\ Slot(b).end = to
    /\ Starts(b) = d * 1440 + from
    /\ EndsSameDay(b) = d * 1440 + to
    /\ IsOvernight(b) <=> from > to
    /\ from > to => EndsAt(b) = d * 1440 + 1440 + to
    /\ from <= to => EndsAt(b) = d * 1440 + to

LEMMA TimesFacts ==
    ASSUME PagesInv, NEW b \in Exists
    PROVE  \E d, from, to : Timed(b, d, from, to)
<1> PICK d \in Nat : d = Slot(b).day
    BY SlotOf
<1> PICK from \in 0 .. 1439 : from = Slot(b).start
    BY SlotOf
<1> PICK to \in 0 .. 1439 : to = Slot(b).end
    BY SlotOf
<1>1. Starts(b) = d * 1440 + from
    BY DEF Starts, Instant, Day
<1>2. EndsSameDay(b) = d * 1440 + to
    BY DEF EndsSameDay, Instant, Day
<1>3. IsOvernight(b) <=> from > to
    BY DEF IsOvernight
<1>4. from > to => EndsAt(b) = d * 1440 + 1440 + to
  <2>1. from > to => EndsAt(b) = Instant(b, Slot(b).end, 1)
      BY <1>3 DEF EndsAt
  <2> QED BY <2>1 DEF Instant, Day
<1>5. from <= to => EndsAt(b) = d * 1440 + to
  <2>1. from <= to => EndsAt(b) = Instant(b, Slot(b).end, 0)
    <3>1. from <= to => ~IsOvernight(b)
        BY <1>3
    <3> QED BY <3>1 DEF EndsAt
  <2> QED BY <2>1 DEF Instant, Day
<1>6. Timed(b, d, from, to)
    BY <1>1, <1>2, <1>3, <1>4, <1>5 DEF Timed
<1> QED BY <1>6

LEMMA NowIsNat == ASSUME PagesInv PROVE minute \in Nat
BY PagesAssumption DEF PagesInv, PagesAssumption

LEMMA TypeOf ==
    ASSUME PagesInv, NEW b \in Exists
    PROVE  shown[b].type \in {"FULL_ONLINE", "HALF_ONLINE_HALF_CASH", "FULL_CASH"}
<1>1. shown[b].type \in PageTypes
    BY RowShown DEF PageRow
<1>2. PageTypes \subseteq {"FULL_ONLINE", "HALF_ONLINE_HALF_CASH", "FULL_CASH"}
    BY PagesAssumption DEF PagesAssumption
<1> QED BY <1>1, <1>2

\* One booking gets another row.
LEMMA NextRow ==
    ASSUME PagesInv, NEW b \in PageBookings, NEW row \in PageRow, PlayedRow(row),
           shown' = [shown EXCEPT ![b] = row], UNCHANGED <<minute, payout>>
    PROVE  PagesInv'
<1>1. shown' \in [PageBookings -> PageRow \cup {NoBooking}]
    BY DEF PagesInv
<1>2. ASSUME NEW c \in Exists' PROVE PlayedRow(shown[c])'
  <2>1. CASE c = b
      BY <2>1 DEF PagesInv, PlayedRow
  <2>2. CASE c # b
    <3>1. c \in Exists /\ shown'[c] = shown[c]
        BY <2>2 DEF PagesInv, Exists
    <3>2. PlayedRow(shown[c])
        BY <3>1 DEF PagesInv
    <3> QED BY <3>1, <3>2 DEF PlayedRow
  <2> QED BY <2>1, <2>2
<1> QED BY <1>1, <1>2 DEF PagesInv

\* A booking that is there gets a status.
LEMMA NextStatus ==
    ASSUME PagesInv, NEW b \in Exists, NEW status \in PageStatus, NEW pay \in PagePayment, Becomes(b, status, pay),
           status = "COMPLETED" => /\ pay = "SUCCESS"
                                   /\ ~IsOvernight(b) => minute >= Starts(b) - Window
    PROVE  PagesInv'
<1>1. shown[b] \in PageRow /\ b \in PageBookings
    BY RowShown
<1> PICK old \in PageRow : old = shown[b]
    BY <1>1
<1> PICK row : row = [old EXCEPT !.status = status, !.pay = pay]
    OBVIOUS
<1>2. row \in PageRow
    BY DEF PageRow
<1>3. row.slot = Slot(b) /\ row.status = status /\ row.pay = pay
    BY DEF Slot, PageRow
<1>4. PlayedRow(row)
  <2>1. ASSUME status = "COMPLETED", Slot(b).start <= Slot(b).end
        PROVE  minute >= Slot(b).day * Day + Slot(b).start - Window
    <3> PICK d, from, to : Timed(b, d, from, to)
        BY TimesFacts
    <3>1. from <= to /\ Starts(b) = d * 1440 + from
        BY <2>1 DEF Timed
    <3>2. ~IsOvernight(b)
        BY <3>1 DEF Timed
    <3>3. minute >= Starts(b) - Window
        BY <2>1, <3>2
    <3>4. Slot(b).day * Day + Slot(b).start - Window = Starts(b) - Window
        BY <3>1 DEF Timed, Day, Window
    <3> QED BY <3>3, <3>4
  <2> QED BY <1>3, <2>1 DEF PlayedRow
<1>6. shown' = [shown EXCEPT ![b] = row]
    BY <1>1 DEF Becomes, PagesInv
<1> QED BY <1>1, <1>2, <1>4, <1>6, NextRow DEF Becomes

LEMMA PagesInvInit == PagesInit => PagesInv
BY DEF PagesInit, PagesInv, Exists, NoBooking

LEMMA MinutesPassStep == ASSUME PagesInv, MinutesPass PROVE PagesInv'
<1>1. PICK m \in Instants : m > minute /\ minute' = m
    BY DEF MinutesPass
<1>2. minute \in Nat /\ minute' \in Nat /\ minute' > minute
    BY <1>1, PagesAssumption DEF PagesInv, PagesAssumption
<1>3. ASSUME NEW b \in Exists' PROVE PlayedRow(shown[b])'
  <2>1. b \in Exists /\ shown'[b] = shown[b]
      BY DEF MinutesPass, Exists
  <2>2. shown[b] \in PageRow /\ PlayedRow(shown[b])
      BY <2>1, RowShown
  <2> PICK slot : slot = shown[b].slot
      OBVIOUS
  <2>3. slot \in PageSlots
      BY <2>2 DEF PageRow
  <2> PICK opens : opens = slot.day * Day + slot.start - Window
      OBVIOUS
  <2>4. opens \in Int
      BY <2>3, SlotFacts DEF Day, Window
  <2>5. minute >= opens => minute' >= opens
      BY <1>2, <2>4
  <2> QED BY <2>1, <2>2, <2>5 DEF PlayedRow
<1> QED BY <1>1, <1>3 DEF MinutesPass, PagesInv

LEMMA BooksStep == ASSUME PagesInv, NEW b \in PageBookings, Books(b) PROVE PagesInv'
<1>1. PICK slot \in PageSlots, type \in PageTypes, status \in {"CONFIRMED", "PENDING", "PENDING_APPROVAL"} :
        shown' = [shown EXCEPT ![b] = ShownRow(slot, type, status, "PENDING")]
    BY DEF Books
<1>2. ShownRow(slot, type, status, "PENDING") \in PageRow
    BY DEF ShownRow, PageRow, PageStatus, PagePayment
<1>3. PlayedRow(ShownRow(slot, type, status, "PENDING"))
    BY DEF ShownRow, PlayedRow
<1> QED BY <1>1, <1>2, <1>3, NextRow DEF Books

\* The status of a booking in In(...) is one of them.
LEMMA StatusIn ==
    ASSUME NEW b, NEW statuses, b \in In(statuses) PROVE b \in Exists /\ shown[b].status \in statuses
BY DEF In

LEMMA MovesStep == ASSUME PagesInv, NEW b \in PageBookings, Moves(b) PROVE PagesInv'
<1>1. b \in Exists
    BY StatusIn DEF Moves
<1>2. shown[b].pay \in PagePayment
    BY <1>1, RowShown DEF PageRow
<1>3. PICK status \in {"CONFIRMED", "CANCELLED", "REJECTED"}, pay \in PagePayment : Becomes(b, status, pay)
    BY <1>2 DEF Moves, PagePayment
<1> QED BY <1>1, <1>3, NextStatus DEF PageStatus

LEMMA CheckInStep == ASSUME PagesInv, NEW b \in PageBookings, CheckIn(b) PROVE PagesInv'
<1>1. b \in Exists /\ minute >= Starts(b) - Window
    BY StatusIn DEF CheckIn, CanCheckIn, InWindow
<1> QED BY <1>1, NextStatus DEF CheckIn, PageStatus, PagePayment

LEMMA AutoCompleteStep == ASSUME PagesInv, NEW b \in PageBookings, AutoComplete(b) PROVE PagesInv'
<1>1. b \in Exists
    BY StatusIn DEF AutoComplete
<1>4. ~IsOvernight(b) => minute >= Starts(b) - Window
  <2>1. minute > EndsSameDay(b)
      BY DEF AutoComplete
  <2> PICK d, from, to : Timed(b, d, from, to)
      BY <1>1, TimesFacts
  <2> QED BY <2>1, NowIsNat DEF Timed, Window
<1> QED BY <1>1, <1>4, NextStatus DEF AutoComplete, PageStatus, PagePayment

LEMMA MarkNoShowStep == ASSUME PagesInv, NEW b \in PageBookings, MarkNoShow(b) PROVE PagesInv'
<1>1. b \in Exists
    BY StatusIn DEF MarkNoShow
<1>2. shown[b].pay \in PagePayment
    BY <1>1, RowShown DEF PageRow
<1> QED BY <1>1, <1>2, NextStatus DEF MarkNoShow, PageStatus

LEMMA SamePages ==
    ASSUME PagesInv, UNCHANGED <<minute, shown>>, payout' \in [Settlements -> {"none", "PENDING", "COMPLETED"}]
    PROVE  PagesInv'
BY DEF PagesInv, Exists, PlayedRow

LEMMA PagesInvStep == PagesInv /\ [PagesNext]_pageVars => PagesInv'
<1> SUFFICES ASSUME PagesInv, [PagesNext]_pageVars PROVE PagesInv'
    OBVIOUS
<1>1. CASE MinutesPass
    BY <1>1, MinutesPassStep
<1>2. ASSUME NEW b \in PageBookings, Books(b) \/ Moves(b) \/ CheckIn(b) \/ AutoComplete(b) \/ MarkNoShow(b)
      PROVE  PagesInv'
    BY <1>2, BooksStep, MovesStep, CheckInStep, AutoCompleteStep, MarkNoShowStep
<1>3. CASE CreateSettlement
    BY <1>3, SamePages DEF CreateSettlement, PagesInv
<1>4. CASE MarkAsPaid
    BY <1>4, SamePages DEF MarkAsPaid, PagesInv
<1>5. CASE UNCHANGED pageVars
    BY <1>5, SamePages DEF pageVars, PagesInv
<1> QED BY <1>1, <1>2, <1>3, <1>4, <1>5 DEF PagesNext

\* However bookings come to their status, what was played is paid, and not before its check-in
\* opened, by the time of day (Moves, CheckIn, AutoComplete).
THEOREM PagesInvariant == PagesSpec => []PagesInv
BY PagesInvInit, PagesInvStep, PTL DEF PagesSpec

\* The rows, the clock and the settlements have their types.
THEOREM PagesTypes == PagesSpec => []PagesTypeOK
<1>1. PagesInv => PagesTypeOK
    BY RowShown DEF PagesInv, PagesTypeOK, PageRow
<1> QED BY <1>1, PagesInvariant, PTL

----------------------------------------------------------------------------
LEMMA TodayFacts ==
    ASSUME PagesInv
    PROVE  /\ Today \in Int /\ ServerMinute \in 0 .. 1439
           /\ minute = Today * 1440 + 330 + ServerMinute
<1> PICK m \in Int : m = minute - 330
    BY NowIsNat
<1> PICK q \in Int : q = m \div 1440
    OBVIOUS
<1> PICK r \in Int : r = m % 1440
    OBVIOUS
<1>1. m = q * 1440 + r /\ r \in 0 .. 1439
    OBVIOUS
<1>2. Today = q /\ ServerMinute = r
    BY DEF Today, ServerMinute, Day
<1> QED BY <1>1, <1>2, NowIsNat

LEMMA IndianFacts ==
    ASSUME PagesInv
    PROVE  IndianToday \in Nat /\ minute - IndianToday * 1440 \in 0 .. 1439
<1> PICK q \in Int : q = minute \div 1440
    BY NowIsNat
<1> PICK r \in Int : r = minute % 1440
    BY NowIsNat
<1>1. minute = q * 1440 + r /\ r \in 0 .. 1439 /\ q \in Nat
    BY NowIsNat
<1>2. IndianToday = q
    BY DEF IndianToday, Day
<1> QED BY <1>1, <1>2

\* The bookings on some days.
LEMMA OnDaysFacts ==
    ASSUME NEW b, NEW first, NEW beyond
    PROVE  b \in OnDays(first, beyond) <=> b \in Exists /\ Slot(b).day \in first .. beyond - 1
BY DEF OnDays

LEMMA InWhat ==
    ASSUME NEW b, NEW statuses PROVE b \in In(statuses) <=> b \in Exists /\ shown[b].status \in statuses
BY DEF In

LEMMA ListsDoAgree == ASSUME PagesInv PROVE ListsAgree
<1>1. Upcoming \cap Past = {}
  <2> SUFFICES ASSUME NEW b \in Upcoming, b \in Past PROVE FALSE
      OBVIOUS
  <2>1. shown[b].status \in {"PENDING", "CONFIRMED"} /\ b \in Exists /\ EndsSameDay(b) > minute
      BY InWhat DEF Upcoming
  <2>2. b \notin In(Ended)
      BY <2>1, InWhat DEF Ended
  <2>3. EndsSameDay(b) <= minute
      BY <2>2 DEF Past
  <2> PICK d, from, to : Timed(b, d, from, to)
      BY <2>1, TimesFacts
  <2> QED BY <2>1, <2>3, NowIsNat DEF Timed
<1>2. ASSUME NEW b \in SameDay \cap In({"CONFIRMED"}), minute < EndsAt(b)
      PROVE  b \in Upcoming \cap OwnerUpcoming
  <2>1. b \in Exists /\ ~IsOvernight(b)
      BY DEF SameDay
  <2> PICK d, from, to : Timed(b, d, from, to)
      BY <2>1, TimesFacts
  <2>4. EndsAt(b) = d * 1440 + to /\ EndsSameDay(b) = d * 1440 + to /\ d \in Nat /\ to \in 0 .. 1439
      BY <2>1 DEF Timed
  <2> PICK t \in Int : t = Today
      BY TodayFacts
  <2>5. minute >= t * 1440 + 330
      BY TodayFacts
  <2>2. d >= Today /\ EndsSameDay(b) > minute
      BY <1>2, <2>4, <2>5, NowIsNat
  <2>3. b \in In({"PENDING", "CONFIRMED"}) /\ b \in In({"CONFIRMED", "PENDING", "PENDING_APPROVAL"})
      BY InWhat
  <2> QED BY <2>2, <2>3 DEF Timed, Upcoming, OwnerUpcoming
<1>3. ASSUME NEW b \in Exists, Slot(b).day < Today PROVE b \in Past \/ minute < EndsAt(b)
  <2> PICK d, from, to : Timed(b, d, from, to)
      BY TimesFacts
  <2>1. EndsSameDay(b) <= minute \/ minute < EndsAt(b)
      BY NowIsNat DEF Timed
  <2> QED BY <1>3, <2>1 DEF Past
<1>4. In(Ended) \subseteq Past \cap OwnerPast
  <2> SUFFICES ASSUME NEW b \in In(Ended) PROVE b \in Past /\ b \in OwnerPast
      OBVIOUS
  <2>1. b \in Exists /\ shown[b].status \in Ended
      BY InWhat
  <2> QED BY <2>1, InWhat DEF Past, OwnerPast, Ended
<1>5. In({"COMPLETED"}) \subseteq Transactions
  <2> SUFFICES ASSUME NEW b \in In({"COMPLETED"}) PROVE b \in Transactions
      OBVIOUS
  <2>1. b \in Exists /\ shown[b].status = "COMPLETED"
      BY InWhat
  <2> QED BY <2>1, RowShown DEF PlayedRow, Transactions
<1>6. Dashboard.upcoming \subseteq OwnerUpcoming
  <2> SUFFICES ASSUME NEW b \in Dashboard.upcoming PROVE b \in OwnerUpcoming
      OBVIOUS
  <2>1. b \in In({"CONFIRMED"}) /\ Slot(b).day > Today
      BY DEF Dashboard
  <2>2. b \in In({"CONFIRMED", "PENDING", "PENDING_APPROVAL"}) /\ b \in Exists
      BY <2>1, InWhat
  <2> QED BY <2>1, <2>2, SlotOf, TodayFacts DEF OwnerUpcoming
<1>7. FilteredToday \cup FilteredTomorrow \subseteq FilteredWeek /\ FilteredWeek \subseteq OwnerWeek
  <2> PICK t \in Int : t = Today
      BY TodayFacts
  <2>1. t .. t + 1 - 1 \subseteq t .. t + 7 - 1 /\ t + 1 .. t + 2 - 1 \subseteq t .. t + 7 - 1
        /\ t .. t + 7 - 1 \subseteq t .. t + 8 - 1
      OBVIOUS
  <2> QED BY <2>1 DEF FilteredToday, FilteredTomorrow, FilteredWeek, OwnerWeek, OnDays
<1>8. ActiveToday \subseteq FilteredToday
  <2> SUFFICES ASSUME NEW b \in ActiveToday PROVE b \in FilteredToday
      OBVIOUS
  <2>1. b \in Exists /\ Slot(b).day = Today
      BY InWhat DEF ActiveToday
  <2> QED BY <2>1, TodayFacts DEF FilteredToday, OnDays
<1> QED BY <1>1, <1>2, <1>3, <1>4, <1>5, <1>6, <1>7, <1>8 DEF ListsAgree

LEMMA CodesDoAgree == ASSUME PagesInv PROVE CodeAgrees
<1> SUFFICES ASSUME NEW b \in Exists
             PROVE  /\ b \in In({"CONFIRMED"}) /\ Slot(b).start >= Window => (b \in Reminded <=> minute = Starts(b) - Window)
                    /\ QrStatus(b) = "ACTIVE" <=> CanCheckIn(b)
                    /\ b \in SameDay /\ Slot(b).start >= 340 /\ CanCheckIn(b) => b \in ActiveToday \cap OwnerActive
    BY DEF CodeAgrees
<1> PICK d, from, to : Timed(b, d, from, to)
    BY TimesFacts
<1>1. ASSUME b \in In({"CONFIRMED"}), Slot(b).start >= Window
      PROVE  b \in Reminded <=> minute = Starts(b) - Window
  <2>1. b \in Reminded <=> d = IndianToday /\ from = (minute + 10) % 1440
      BY <1>1 DEF Reminded, Timed, Window, Day
  <2> PICK q \in Nat : q = IndianToday
      BY IndianFacts
  <2> PICK r \in 0 .. 1439 : r = minute - q * 1440
      BY IndianFacts
  <2>6. minute = q * 1440 + r
      BY NowIsNat
  <2>2. (minute + 10) % 1440 = IF r < 1430 THEN r + 10 ELSE r - 1430
      BY <2>6
  <2>3. from \in 10 .. 1439 /\ d \in Nat /\ Starts(b) = d * 1440 + from
      BY <1>1 DEF Timed, Window
  <2>4. d = q /\ from = (minute + 10) % 1440 => minute = d * 1440 + from - 10
      BY <2>2, <2>3, <2>6
  <2>5. minute = d * 1440 + from - 10 => d = q /\ from = r + 10 /\ r < 1430
      BY <2>3, <2>6
  <2> QED BY <2>1, <2>2, <2>3, <2>4, <2>5 DEF Window
<1>2. QrStatus(b) = "ACTIVE" <=> CanCheckIn(b)
  <2>1. CASE shown[b].status = "CONFIRMED"
    <3>1. /\ b \in In({"CONFIRMED"}) /\ b \notin In({"COMPLETED"})
          /\ b \notin In({"CANCELLED", "REJECTED"}) /\ b \notin In({"NO_SHOW"})
        BY <2>1, InWhat
    <3>2. QrStatus(b) = IF minute < Starts(b) - Window THEN "UPCOMING"
                        ELSE IF minute > EndsAt(b) + Window THEN "EXPIRED" ELSE "ACTIVE"
        BY <3>1 DEF QrStatus
    <3>3. InWindow(b) <=> ~(minute < Starts(b) - Window) /\ ~(minute > EndsAt(b) + Window)
        BY NowIsNat DEF InWindow, Timed, Window
    <3> QED BY <3>1, <3>2, <3>3 DEF CanCheckIn
  <2>2. CASE shown[b].status # "CONFIRMED"
    <3>1. b \notin In({"CONFIRMED"})
        BY <2>2, InWhat
    <3>2. QrStatus(b) # "ACTIVE"
        BY <3>1 DEF QrStatus
    <3> QED BY <3>1, <3>2 DEF CanCheckIn
  <2> QED BY <2>1, <2>2
<1>3. ASSUME b \in SameDay, Slot(b).start >= 340, CanCheckIn(b)
      PROVE  b \in ActiveToday \cap OwnerActive
  <2>1. ~IsOvernight(b) /\ b \in In({"CONFIRMED"}) /\ InWindow(b)
      BY <1>3 DEF SameDay, CanCheckIn
  <2>2. d * 1440 + 330 <= minute /\ minute <= d * 1440 + 1449
      BY <1>3, <2>1, NowIsNat DEF Timed, InWindow, Window
  <2>3. d \in Nat /\ Slot(b).day = d
      BY DEF Timed
  <2>4. d = Today
      BY <2>2, <2>3, TodayFacts
  <2>5. b \in In({"CONFIRMED", "PENDING"})
      BY <2>1, InWhat
  <2> QED BY <2>3, <2>4, <2>5 DEF ActiveToday, OwnerActive
<1> QED BY <1>1, <1>2, <1>3

LEMMA SlotsDoAgree == ASSUME PagesInv PROVE SlotsAgree
<1> SUFFICES ASSUME NEW slot \in PageSlots, slot \in SlotPage(slot.day)
             PROVE  InTime(slot) /\ \A b \in OwnerUpcoming : Slot(b) # slot
    BY DEF SlotsAgree
<1>1. slot.day \in Today .. Today + 90 /\ slot.start >= MinBookable(slot.day) /\ slot \notin Taken(slot.day)
    BY DEF SlotPage
<1>2. InTime(slot)
  <2>1. ASSUME slot.day = Today PROVE slot.start >= ServerMinute + Advance
    <3> PICK m \in 0 .. 1439 : m = ServerMinute
        BY TodayFacts
    <3> PICK q \in Int : q = (m + 44) \div 30
        OBVIOUS
    <3>1. q * 30 >= m + 15
        OBVIOUS
    <3>2. MinBookable(slot.day) = q * 30
        BY <2>1 DEF MinBookable, Advance
    <3> PICK from \in 0 .. 1439 : from = slot.start
        BY SlotFacts
    <3>3. from >= q * 30
        BY <1>1, <3>2
    <3>4. from >= m + 15
        BY <3>1, <3>3
    <3> QED BY <3>4 DEF Advance
  <2> QED BY <1>1, <2>1 DEF InTime
<1>3. ASSUME NEW b \in OwnerUpcoming PROVE Slot(b) # slot
  <2>1. b \in Exists /\ shown[b].status \in {"CONFIRMED", "PENDING", "PENDING_APPROVAL"}
      BY InWhat DEF OwnerUpcoming
  <2>2. b \notin In({"CANCELLED", "NO_SHOW", "REJECTED"})
      BY <2>1, InWhat
  <2> QED BY <1>1, <2>1, <2>2 DEF Taken
<1> QED BY <1>2, <1>3

LEMMA PlayedInTime == ASSUME PagesInv PROVE PlayedNotBeforeStart
<1> SUFFICES ASSUME NEW b \in SameDay \cap In({"COMPLETED"}) PROVE minute >= Starts(b) - Window
    BY DEF PlayedNotBeforeStart
<1>1. b \in Exists /\ ~IsOvernight(b) /\ shown[b].status = "COMPLETED"
    BY InWhat DEF SameDay
<1> PICK d, from, to : Timed(b, d, from, to)
    BY <1>1, TimesFacts
<1>2. PlayedRow(shown[b])
    BY <1>1, RowShown
<1>3. d = shown[b].slot.day /\ from = shown[b].slot.start /\ to = shown[b].slot.end
    BY DEF Timed, Slot
<1>6. d \in Nat /\ from \in 0 .. 1439 /\ to \in 0 .. 1439 /\ (IsOvernight(b) <=> from > to)
    BY DEF Timed
<1>4. from <= to /\ d \in Nat /\ from \in Nat
    BY <1>1, <1>6
<1>5. minute >= d * Day + from - Window
    BY <1>1, <1>2, <1>3, <1>4 DEF PlayedRow
<1> QED BY <1>4, <1>5 DEF Timed, Day, Window

----------------------------------------------------------------------------
LEMMA BookingsAreFinite == IsFiniteSet(Exists) /\ \A B : B \subseteq Exists => IsFiniteSet(B)
<1>1. IsFiniteSet(Exists)
    BY PagesAssumption, LessIsFinite DEF PagesAssumption, Exists
<1> QED BY <1>1, LessIsFinite

\* All bookings are worth the same.
LEMMA WorthIs ==
    ASSUME NEW B, B \subseteq Exists
    PROVE  Worth(B) = 1000 * Cardinality(B) /\ Worth(B) \in Nat /\ Cardinality(B) \in Nat
<1> DEFINE v == [b \in B |-> Amount]
<1>1. DOMAIN v = B /\ \A b \in B : v[b] = 1000
    BY DEF Amount
<1>4. Worth(B) = SumOver(v, B)
    BY <1>1 DEF Worth, Sum
<1> HIDE DEF v
<1>2. IsFiniteSet(B)
    BY BookingsAreFinite
<1>3. SumOver(v, B) = 1000 * Cardinality(B)
    BY <1>1, <1>2, SumOfSame
<1>5. Cardinality(B) \in Nat
    BY <1>2, FS_CardinalityType
<1> QED BY <1>3, <1>4, <1>5

LEMMA WorthOfBoth ==
    ASSUME NEW A, NEW B, A \subseteq Exists, B \subseteq Exists, A \cap B = {}
    PROVE  Worth(A \cup B) = Worth(A) + Worth(B)
<1> PICK c : c = A \cup B
    OBVIOUS
<1>1. c \subseteq Exists /\ IsFiniteSet(c)
    BY BookingsAreFinite
<1>2. Cardinality(c) = Cardinality(A) + Cardinality(B)
    BY <1>1, CountBoth
<1>3. Worth(c) = 1000 * Cardinality(c) /\ Worth(A) = 1000 * Cardinality(A) /\ Worth(B) = 1000 * Cardinality(B)
    BY <1>1, WorthIs
<1>4. Cardinality(A) \in Nat /\ Cardinality(B) \in Nat
    BY WorthIs
<1> QED BY <1>2, <1>3, <1>4

LEMMA WorthOfMore ==
    ASSUME NEW A, NEW B, A \subseteq B, B \subseteq Exists PROVE Worth(A) <= Worth(B)
<1> PICK more : more = B \ A
    OBVIOUS
<1>1. more \subseteq Exists /\ A \subseteq Exists /\ A \cap more = {} /\ A \cup more = B
    OBVIOUS
<1>2. Worth(A \cup more) = Worth(A) + Worth(more)
    BY <1>1, WorthOfBoth
<1>3. Worth(more) \in Nat /\ Worth(A) \in Nat
    BY <1>1, WorthIs
<1>4. Worth(B) = Worth(A) + Worth(more)
    BY <1>1, <1>2, Zenon
<1> QED BY <1>3, <1>4

\* What the bookings of each class are worth makes what all are worth.
LEMMA WorthByDay ==
    ASSUME PagesInv PROVE Sum(RevenueByDate) = TotalRevenue
<1> PICK class : class = [b \in Won |-> Slot(b).day]
    OBVIOUS
<1> PICK f : f = RevenueByDate
    OBVIOUS
<1>1. Won \subseteq Exists /\ IsFiniteSet(Won)
    BY BookingsAreFinite DEF Won, In
<1>2. DaysOf(Won) = {class[b] : b \in Won}
    BY DEF DaysOf
<1>3. IsFiniteSet(DaysOf(Won))
    BY <1>1, <1>2, ImageIsFinite
<1>4. \A b \in Won : class[b] \in DaysOf(Won)
    BY <1>2
<1>5. ASSUME NEW k \in DaysOf(Won) PROVE f[k] = 1000 * Cardinality({b \in Won : class[b] = k})
  <2> PICK mine : mine = {b \in Won : Slot(b).day = k}
      OBVIOUS
  <2>1. mine = {b \in Won : class[b] = k}
      OBVIOUS
  <2>2. f[k] = Worth(mine)
      BY DEF RevenueByDate
  <2>3. mine \subseteq Exists
      BY <1>1
  <2>4. f[k] = 1000 * Cardinality(mine)
      BY <2>2, <2>3, WorthIs
  <2> DEFINE alike == {b \in Won : class[b] = k}
  <2>5. mine = alike
      BY <2>1
  <2> HIDE DEF alike
  <2>6. f[k] = 1000 * Cardinality(alike)
      BY <2>4, <2>5
  <2> QED BY <2>6 DEF alike
<1>9. CountsClasses(f, DaysOf(Won), 1000, Won, class)
    BY <1>5 DEF CountsClasses
<1>6. SumOver(f, DaysOf(Won)) = 1000 * Cardinality(Won)
    BY <1>1, <1>3, <1>4, <1>9, CountByClass
<1>7. DOMAIN f = DaysOf(Won)
    BY DEF RevenueByDate
<1> QED BY <1>1, <1>6, <1>7, WorthIs DEF Sum, TotalRevenue

LEMMA BookingsByDay ==
    ASSUME PagesInv PROVE Sum(BookingsByDate) = Cardinality(Exists)
<1> PICK class : class = [b \in Exists |-> Slot(b).day]
    OBVIOUS
<1> PICK f : f = BookingsByDate
    OBVIOUS
<1>1. IsFiniteSet(Exists)
    BY BookingsAreFinite
<1>2. DaysOf(Exists) = {class[b] : b \in Exists}
    BY DEF DaysOf
<1>3. IsFiniteSet(DaysOf(Exists))
    BY <1>1, <1>2, ImageIsFinite
<1>4. \A b \in Exists : class[b] \in DaysOf(Exists)
    BY <1>2
<1>5. ASSUME NEW k \in DaysOf(Exists) PROVE f[k] = 1 * Cardinality({b \in Exists : class[b] = k})
  <2> PICK mine : mine = {b \in Exists : Slot(b).day = k}
      OBVIOUS
  <2>1. mine = {b \in Exists : class[b] = k}
      OBVIOUS
  <2>2. f[k] = Cardinality(mine)
      BY DEF BookingsByDate
  <2>4. mine \subseteq Exists
      BY <2>1
  <2>3. Cardinality(mine) \in Nat
      BY <2>4, WorthIs
  <2>5. f[k] = 1 * Cardinality(mine)
      BY <2>2, <2>3
  <2> QED BY <2>1, <2>5, Zenon
<1>9. CountsClasses(f, DaysOf(Exists), 1, Exists, class)
    BY <1>5 DEF CountsClasses
<1>6. SumOver(f, DaysOf(Exists)) = 1 * Cardinality(Exists)
    BY <1>1, <1>3, <1>4, <1>9, CountByClass
<1>7. DOMAIN f = DaysOf(Exists)
    BY DEF BookingsByDate
<1>8. Cardinality(Exists) \in Nat
    BY WorthIs
<1> QED BY <1>6, <1>7, <1>8 DEF Sum

LEMMA BookingsByStatus ==
    ASSUME PagesInv PROVE Sum(BookingStats) = Cardinality(Exists)
<1> PICK class : class = [b \in Exists |-> shown[b].status]
    BY Zenon
<1> PICK f : f = BookingStats
    OBVIOUS
<1>1. IsFiniteSet(Exists)
    BY BookingsAreFinite
<1>3. IsFiniteSet(PageStatus)
  <2>1. IsFiniteSet({"PENDING"}) /\ IsFiniteSet({"PENDING_APPROVAL"}) /\ IsFiniteSet({"CONFIRMED"})
        /\ IsFiniteSet({"COMPLETED"}) /\ IsFiniteSet({"CANCELLED"}) /\ IsFiniteSet({"NO_SHOW"}) /\ IsFiniteSet({"REJECTED"})
      BY FS_Singleton
  <2>2. IsFiniteSet({"PENDING"} \cup {"PENDING_APPROVAL"} \cup {"CONFIRMED"} \cup {"COMPLETED"}
                    \cup {"CANCELLED"} \cup {"NO_SHOW"} \cup {"REJECTED"})
      BY <2>1, FS_Union
  <2>3. PageStatus = {"PENDING"} \cup {"PENDING_APPROVAL"} \cup {"CONFIRMED"} \cup {"COMPLETED"}
                    \cup {"CANCELLED"} \cup {"NO_SHOW"} \cup {"REJECTED"}
      BY DEF PageStatus
  <2> QED BY <2>2, <2>3
<1>4. \A b \in Exists : class[b] \in PageStatus
    BY RowShown DEF PageRow
<1>5. ASSUME NEW k \in PageStatus PROVE f[k] = 1 * Cardinality({b \in Exists : class[b] = k})
  <2>a. PICK mine : mine = In({k})
      OBVIOUS
  <2>1. mine = {b \in Exists : class[b] = k}
      BY <2>a DEF In
  <2>2. f[k] = Cardinality(mine)
      BY <2>a DEF BookingStats
  <2>4. mine \subseteq Exists
      BY <2>1
  <2>3. Cardinality(mine) \in Nat
      BY <2>4, WorthIs
  <2>5. f[k] = 1 * Cardinality(mine)
      BY <2>2, <2>3
  <2> QED BY <2>1, <2>5, Zenon
<1>9. CountsClasses(f, PageStatus, 1, Exists, class)
    BY <1>5 DEF CountsClasses
<1>6. SumOver(f, PageStatus) = 1 * Cardinality(Exists)
    BY <1>1, <1>3, <1>4, <1>9, CountByClass
<1>7. DOMAIN f = PageStatus
    BY DEF BookingStats
<1>8. Cardinality(Exists) \in Nat
    BY WorthIs
<1> QED BY <1>6, <1>7, <1>8 DEF Sum

\* Of no booking more is owed than it is worth.
LEMMA OwedIsPart == ASSUME PagesInv PROVE Owed <= OwnerAnalytics.total
<1> PICK C : C = In({"COMPLETED"})
    OBVIOUS
<1> PICK f : f = [b \in C |-> Deposit[shown[b].type]]
    OBVIOUS
<1> PICK e : e = [b \in C |-> Amount]
    OBVIOUS
<1>1. C \subseteq Exists /\ IsFiniteSet(C)
    BY BookingsAreFinite DEF In
<1>2. ASSUME NEW b \in C PROVE f[b] \in Int /\ e[b] \in Int /\ f[b] <= e[b]
  <2>1. shown[b].type \in {"FULL_ONLINE", "HALF_ONLINE_HALF_CASH", "FULL_CASH"}
      BY <1>1, TypeOf
  <2>2. e[b] = 1000 /\ f[b] = Deposit[shown[b].type]
      BY DEF Amount
  <2>3. Deposit[shown[b].type] \in {0, 300, 1000}
      BY <2>1 DEF Deposit
  <2> QED BY <2>2, <2>3
<1>3. SumOver(f, C) <= SumOver(e, C)
    BY <1>1, <1>2, SumAtMost
<1>4. Owed = SumOver(f, C)
    BY DEF Owed, Deposits, Sum
<1>5. OwnerAnalytics.total = SumOver(e, C)
    BY DEF OwnerAnalytics, Worth, Sum
<1> QED BY <1>3, <1>4, <1>5

LEMMA PayoutsAddUp == AdminDashboard.pendingPayouts + AdminDashboard.donePayouts = OwnerSettled
<1>a. PICK A : A = {s \in Settlements : payout[s] \in {"PENDING"}}
    OBVIOUS
<1>b. PICK B : B = {s \in Settlements : payout[s] \in {"COMPLETED"}}
    OBVIOUS
<1>c. PICK c : c = {s \in Settlements : payout[s] \in {"PENDING", "COMPLETED"}}
    OBVIOUS
<1>1. c = A \cup B /\ A \cap B = {} /\ c \subseteq Settlements
    BY <1>a, <1>b, <1>c
<1>2. IsFiniteSet(c)
    BY <1>1, PagesAssumption, LessIsFinite DEF PagesAssumption
<1>3. Cardinality(c) = Cardinality(A) + Cardinality(B) /\ Cardinality(A) \in Nat /\ Cardinality(B) \in Nat
    BY <1>1, <1>2, CountBoth
<1>4. /\ AdminDashboard.pendingPayouts = 1000 * Cardinality(A)
      /\ AdminDashboard.donePayouts = 1000 * Cardinality(B)
      /\ OwnerSettled = 1000 * Cardinality(c)
    BY <1>a, <1>b, <1>c DEF AdminDashboard, OwnerSettled, Payouts, Amount
<1> QED BY <1>3, <1>4

LEMMA MoneyDoesAgree == ASSUME PagesInv PROVE MoneyAgrees
<1>1. TotalRevenue = OwnerAnalytics.total + Worth(In({"CONFIRMED"}))
  <2> PICK A : A = In({"COMPLETED"})
      OBVIOUS
  <2> PICK B : B = In({"CONFIRMED"})
      OBVIOUS
  <2>1. Won = A \cup B /\ A \cap B = {} /\ A \subseteq Exists /\ B \subseteq Exists
      BY DEF Won, In
  <2>2. Worth(Won) = Worth(A) + Worth(B)
      BY <2>1, WorthOfBoth
  <2> QED BY <2>2 DEF TotalRevenue, OwnerAnalytics
<1>2. PlatformAnalytics.revenue = TotalRevenue
    BY DEF PlatformAnalytics, TotalRevenue
<1>3. Sum(RevenueByDate) = TotalRevenue
    BY WorthByDay
<1>4. Sum(BookingsByDate) = OverallAnalytics.all /\ Sum(BookingStats) = OverallAnalytics.all
    BY BookingsByDay, BookingsByStatus DEF OverallAnalytics
<1>5. Exists = Online \cup Cash /\ Online \cap Cash = {}
  <2>1. \A b \in Exists : shown[b].type \in {"FULL_ONLINE", "HALF_ONLINE_HALF_CASH", "FULL_CASH"}
      BY TypeOf
  <2> QED BY <2>1 DEF Online, Cash, OfTypes
<1>6. PaymentSplit.online + PaymentSplit.cash = OverallAnalytics.all
  <2>1. Cardinality(Exists) = Cardinality(Online) + Cardinality(Cash)
      BY <1>5, BookingsAreFinite, CountBoth
  <2> QED BY <2>1 DEF PaymentSplit, OverallAnalytics
<1>7. CashVsOnline.cash + CashVsOnline.online >= Dashboard.overall
  <2> PICK X : X = Won \cup PaidOf(Exists)
      OBVIOUS
  <2> PICK A : A = Cash \cap X
      OBVIOUS
  <2> PICK B : B = Online \cap X
      OBVIOUS
  <2>1. X \subseteq Exists /\ Earned \subseteq X
      BY DEF Won, PaidOf, Earned, In
  <2>2. X = A \cup B /\ A \cap B = {} /\ A \subseteq Exists /\ B \subseteq Exists
      BY <1>5, <2>1
  <2>3. Worth(X) = Worth(A) + Worth(B)
      BY <2>2, WorthOfBoth
  <2>4. Worth(Earned) <= Worth(X)
      BY <2>1, WorthOfMore
  <2>5. Earned \subseteq Exists
      BY <2>1
  <2>6. Worth(Earned) \in Nat /\ Worth(A) \in Nat /\ Worth(B) \in Nat
      BY <2>2, <2>5, WorthIs
  <2>7. CashVsOnline.cash = Worth(A) /\ CashVsOnline.online = Worth(B) /\ Dashboard.overall = Worth(Earned)
      BY DEF CashVsOnline, Dashboard
  <2> QED BY <2>3, <2>4, <2>6, <2>7
<1>8. ASSUME NEW day \in Today - 6 .. Today PROVE Trends[day] <= Chart[day]
  <2> PICK A : A = {b \in In({"COMPLETED"}) : Slot(b).day = day}
      OBVIOUS
  <2> PICK B : B = {b \in Earned : Slot(b).day = day}
      OBVIOUS
  <2>1. A \subseteq B /\ B \subseteq Exists
      BY DEF Earned, PaidOf, In
  <2>2. Trends[day] = Worth(A) /\ Chart[day] = Worth(B)
      BY DEF Trends, Chart
  <2> QED BY <2>1, <2>2, WorthOfMore
<1>9. ASSUME NEW day \in DOMAIN RevenueByDate \cap DOMAIN DailyCharts.revenue
      PROVE  DailyCharts.revenue[day] = RevenueByDate[day]
  <2>1. day \in DaysOf(Won) /\ day \in Today - 29 .. Today
      BY DEF RevenueByDate, DailyCharts
  <2> QED BY <2>1 DEF RevenueByDate, DailyCharts
<1>10. ASSUME NEW day \in DOMAIN BookingsByDate \cap DOMAIN DailyCharts.bookings
       PROVE  DailyCharts.bookings[day] = BookingsByDate[day]
  <2>1. day \in DaysOf(Exists) /\ day \in Today - 6 .. Today
      BY DEF BookingsByDate, DailyCharts
  <2>2. day .. day + 1 - 1 = {day}
      BY <2>1, TodayFacts
  <2>3. OnDays(day, day + 1) = {b \in Exists : Slot(b).day = day}
      BY <2>2 DEF OnDays
  <2> QED BY <2>1, <2>3 DEF BookingsByDate, DailyCharts
<1> QED BY <1>1, <1>2, <1>3, <1>4, <1>6, <1>7, <1>8, <1>9, <1>10, OwedIsPart, PayoutsAddUp DEF MoneyAgrees

\* No page contradicts another, however many bookings, slots, settlements and instants there are:
\* the lists (getUserBookings, getOwnerBookings), the check-in code, the slots offered and the figures.
THEOREM PagesFit == PagesSpec => []PagesFitTogether
<1>1. PagesInv => PagesFitTogether
    BY ListsDoAgree, CodesDoAgree, SlotsDoAgree, MoneyDoesAgree, PlayedInTime DEF PagesFitTogether
<1> QED BY <1>1, PagesInvariant, PTL

----------------------------------------------------------------------------
(* The seven together.  A behaviour of the small instances' specification   *)
(* is one of every component: its steps are steps of one, and leave the     *)
(* others alone.                                                            *)

LEMMA EachBegins ==
    Init => /\ SplitInit /\ PointsInit /\ MaintInit /\ PricesInit
            /\ OffersInit /\ PagesInit /\ RatingsInit
BY Zenon DEF Init

LEMMA EachSteps ==
    [Next]_vars => /\ [SplitNext]_splitVars /\ [PointsNext]_pointsVars /\ [MaintNext]_maintVars
                   /\ [PricesNext]_priceVars /\ [OffersNext]_offerVars
                   /\ [PagesNext]_pageVars /\ [RatingsNext]_rateVars
<1>1. CASE /\ SplitNext
           /\ UNCHANGED <<part, pointsVars, maintVars, priceVars, offerVars, pageVars, rateVars>>
    BY <1>1
<1>2. CASE /\ PointsNext
           /\ UNCHANGED <<part, splitVars, maintVars, priceVars, offerVars, pageVars, rateVars>>
    BY <1>2
<1>3. CASE /\ MaintNext
           /\ UNCHANGED <<part, splitVars, pointsVars, priceVars, offerVars, pageVars, rateVars>>
    BY <1>3
<1>4. CASE /\ PricesNext
           /\ UNCHANGED <<part, splitVars, pointsVars, maintVars, offerVars, pageVars, rateVars>>
    BY <1>4
<1>5. CASE /\ OffersNext
           /\ UNCHANGED <<part, splitVars, pointsVars, maintVars, priceVars, pageVars, rateVars>>
    BY <1>5
<1>6. CASE /\ PagesNext
           /\ UNCHANGED <<part, splitVars, pointsVars, maintVars, priceVars, offerVars, rateVars>>
    BY <1>6
<1>7. CASE /\ RatingsNext
           /\ UNCHANGED <<part, splitVars, pointsVars, maintVars, priceVars, offerVars, pageVars>>
    BY <1>7
<1>8. CASE UNCHANGED vars
    BY <1>8 DEF vars
<1> QED BY <1>1, <1>2, <1>3, <1>4, <1>5, <1>6, <1>7, <1>8, Zenon DEF Next

LEMMA EachPart ==
    Spec => /\ SplitSpec /\ PointsSpec /\ MaintSpec /\ PricesSpec
            /\ OffersSpec /\ PagesSpec /\ RatingsSpec
BY EachBegins, EachSteps, PTL
   DEF Spec, SplitSpec, PointsSpec, MaintSpec, PricesSpec, OffersSpec, PagesSpec, RatingsSpec

\* The variables of all seven have their types, whichever of them runs: among others nobody has
\* points below zero (handleNoShow), no turf an average above five stars (rateTurf), and a request
\* that logs an offer knows which (owner-crm.service).
THEOREM TypesHold == Spec => []TypeOK
<1>1. SplitTypeOK /\ PointsTypeOK /\ MaintTypeOK /\ PricesTypeOK
         /\ OffersTypeOK /\ PagesTypeOK /\ RatingsTypeOK => TypeOK
    BY Zenon DEF TypeOK
<1> QED BY <1>1, EachPart, SplitTypes, PointsTypes, MaintTypes, PricesTypes,
           OffersTypes, PagesTypes, RatingTypes, PTL

\* The customer's and the owner's lists, the earnings, the dashboard's counts and the settlement
\* of one set of bookings fit together at every minute, for every set of bookings and slots.
THEOREM PagesDoAgree == Spec => []PagesAgree
<1>1. PagesFitTogether => PagesAgree
    BY Zenon DEF PagesAgree
<1> QED BY <1>1, EachPart, PagesFit, PTL
=============================================================================

------------------------------ MODULE SumFacts ------------------------------
(****************************************************************************)
(* What SumOver computes.  The proofs go by a smallest finite set on which  *)
(* the claim fails, which is the library's well-foundedness of inclusion.   *)
(****************************************************************************)
EXTENDS Sums, FiniteSetTheorems, TLAPS

\* A set of finite sets has one that contains no other of them.
LEMMA SmallestSet ==
    ASSUME NEW S, NEW T, T \subseteq FiniteSubsetsOf(S), T # {}
    PROVE  \E s \in T : \A t \in T : t \subseteq s => t = s
<1> DEFINE R == StrictSubsetOrdering(S)
           F == FiniteSubsetsOf(S)
<1>1. IsWellFoundedOn(R, F)
    BY FS_StrictSubsetOrderingWellFounded
<1>2. \A t, s \in F : t \subseteq s /\ t # s => <<t, s>> \in R
    BY DEF StrictSubsetOrdering, FiniteSubsetsOf
<1>3. T \subseteq F
    OBVIOUS
<1> HIDE DEF R, F
<1>4. \E x \in T : \A y \in T : ~(<<y, x>> \in R)
    BY <1>1, <1>3, WFMin
<1> QED BY <1>2, <1>3, <1>4

One(s) == CHOOSE x \in s : TRUE

LEMMA OneIsIn == ASSUME NEW s, s # {} PROVE One(s) \in s
BY DEF One

\* g adds f up, on the subsets of S.
AddsUp(f, S, g) ==
    g = [s \in SUBSET S |-> IF s = {} THEN 0 ELSE f[One(s)] + g[s \ {One(s)}]]

LEMMA SumIsChosen == ASSUME NEW f, NEW S PROVE SumOver(f, S) = (CHOOSE g : AddsUp(f, S, g))[S]
BY DEF SumOver, MapThenFoldSet, AddsUp, One

LEMMA AddsUpAt ==
    ASSUME NEW f, NEW S, NEW g, AddsUp(f, S, g), NEW t, t \subseteq S
    PROVE  g[t] = IF t = {} THEN 0 ELSE f[One(t)] + g[t \ {One(t)}]
<1> DEFINE body(s) == IF s = {} THEN 0 ELSE f[One(s)] + g[s \ {One(s)}]
<1>1. g = [s \in SUBSET S |-> body(s)]
    BY DEF AddsUp
<1> HIDE DEF body
<1>2. g[t] = body(t)
    BY <1>1
<1> QED BY <1>2 DEF body

LEMMA LessIsFinite ==
    ASSUME NEW s, IsFiniteSet(s), NEW t, t \subseteq s PROVE IsFiniteSet(t)
BY FS_Subset

\* What a set adds up to depends on what f is on it alone.
LEMMA SumsAgree ==
    ASSUME NEW f, NEW e, NEW S, NEW U, NEW g, NEW h, AddsUp(f, S, g), AddsUp(e, U, h),
           NEW s, IsFiniteSet(s), s \subseteq S, s \subseteq U, \A x \in s : f[x] = e[x]
    PROVE  g[s] = h[s]
<1> DEFINE T == {t \in SUBSET s : g[t] # h[t]}
<1> SUFFICES ASSUME T # {} PROVE FALSE
    OBVIOUS
<1>1. T \subseteq FiniteSubsetsOf(s)
  <2>1. \A t \in T : IsFiniteSet(t)
      BY LessIsFinite
  <2> QED BY <2>1 DEF FiniteSubsetsOf
<1> HIDE DEF T
<1>2. PICK t \in T : \A u \in T : u \subseteq t => u = t
    BY <1>1, SmallestSet
<1>3. t \subseteq s /\ t \subseteq S /\ t \subseteq U /\ g[t] # h[t]
    BY DEF T
<1>4. g[t] = IF t = {} THEN 0 ELSE f[One(t)] + g[t \ {One(t)}]
    BY <1>3, AddsUpAt
<1>5. h[t] = IF t = {} THEN 0 ELSE e[One(t)] + h[t \ {One(t)}]
    BY <1>3, AddsUpAt
<1>6. t # {}
    BY <1>3, <1>4, <1>5
<1>7. One(t) \in t /\ One(t) \in s
    BY <1>3, <1>6, OneIsIn
<1>8. t \ {One(t)} \notin T
    BY <1>2, <1>7
<1>9. g[t \ {One(t)}] = h[t \ {One(t)}]
    BY <1>3, <1>8 DEF T
<1> QED BY <1>3, <1>4, <1>5, <1>6, <1>7, <1>9

\* Adding up is defined for every finite set.
LEMMA AddsUpExists == ASSUME NEW f, NEW S, IsFiniteSet(S) PROVE \E g : AddsUp(f, S, g)
<1> DEFINE T == {t \in SUBSET S : ~ \E g : AddsUp(f, t, g)}
<1> SUFFICES ASSUME T # {} PROVE FALSE
    OBVIOUS
<1>1. T \subseteq FiniteSubsetsOf(S)
  <2>1. \A t \in T : IsFiniteSet(t)
      BY LessIsFinite
  <2> QED BY <2>1 DEF FiniteSubsetsOf
<1> HIDE DEF T
<1>2. PICK t \in T : \A u \in T : u \subseteq t => u = t
    BY <1>1, SmallestSet
<1>3. \A u : u \subseteq t /\ u # t => \E g : AddsUp(f, u, g)
  <2>1. t \subseteq S /\ \A u \in SUBSET S : u \notin T => \E g : AddsUp(f, u, g)
      BY DEF T
  <2> QED BY <1>2, <2>1
<1>4. ASSUME NEW u, u \subseteq t, u # t
      PROVE  /\ AddsUp(f, u, CHOOSE g : AddsUp(f, u, g))
             /\ SumOver(f, u) = (CHOOSE g : AddsUp(f, u, g))[u]
    BY <1>3, <1>4, SumIsChosen
<1>5. ASSUME NEW u, u \subseteq t, u # t
      PROVE  SumOver(f, u) = IF u = {} THEN 0 ELSE f[One(u)] + SumOver(f, u \ {One(u)})
  <2>1. PICK g : AddsUp(f, u, g) /\ SumOver(f, u) = g[u]
      BY <1>4, <1>5
  <2>2. g[u] = IF u = {} THEN 0 ELSE f[One(u)] + g[u \ {One(u)}]
      BY <2>1, AddsUpAt
  <2>3. ASSUME u # {} PROVE g[u \ {One(u)}] = SumOver(f, u \ {One(u)})
    <3> DEFINE v == u \ {One(u)}
    <3>1. v \subseteq t /\ v # t /\ v \subseteq u /\ v \subseteq v
        BY <1>5, <2>3, OneIsIn
    <3> HIDE DEF v
    <3>2. PICK h : AddsUp(f, v, h) /\ SumOver(f, v) = h[v]
        BY <1>4, <3>1
    <3>3. IsFiniteSet(v)
        BY <1>5, <3>1, LessIsFinite DEF T
    <3>4. g[v] = h[v]
        BY <2>1, <3>1, <3>2, <3>3, SumsAgree
    <3> QED BY <3>2, <3>4 DEF v
  <2> QED BY <2>1, <2>2, <2>3
<1> DEFINE G == [u \in SUBSET t |-> IF u = {} THEN 0 ELSE f[One(u)] + SumOver(f, u \ {One(u)})]
<1>6. ASSUME NEW u \in SUBSET t, u # {} PROVE G[u \ {One(u)}] = SumOver(f, u \ {One(u)})
  <2> DEFINE v == u \ {One(u)}
  <2>1. v \in SUBSET t /\ v # t
      BY <1>6, OneIsIn
  <2> HIDE DEF v
  <2> QED BY <1>5, <2>1 DEF v
<1>7. AddsUp(f, t, G)
  <2> DEFINE body(u) == IF u = {} THEN 0 ELSE f[One(u)] + SumOver(f, u \ {One(u)})
             mine(u) == IF u = {} THEN 0 ELSE f[One(u)] + G[u \ {One(u)}]
  <2>1. G = [u \in SUBSET t |-> body(u)]
      OBVIOUS
  <2>2. \A u \in SUBSET t : body(u) = mine(u)
      BY <1>6
  <2>3. [u \in SUBSET t |-> body(u)] = [u \in SUBSET t |-> mine(u)]
    <3> HIDE DEF body, mine
    <3> QED BY <2>2
  <2>4. G = [u \in SUBSET t |-> mine(u)]
      BY <2>1, <2>3
  <2> QED BY <2>4 DEF AddsUp
<1> QED BY <1>2, <1>7 DEF T

LEMMA SumIsAdded ==
    ASSUME NEW f, NEW S, IsFiniteSet(S)
    PROVE  \E g : AddsUp(f, S, g) /\ SumOver(f, S) = g[S]
<1>1. AddsUp(f, S, CHOOSE g : AddsUp(f, S, g))
    BY AddsUpExists
<1> QED BY <1>1, SumIsChosen

----------------------------------------------------------------------------
LEMMA SumOfNone == ASSUME NEW f PROVE SumOver(f, {}) = 0
<1>1. PICK g : AddsUp(f, {}, g) /\ SumOver(f, {}) = g[{}]
    BY FS_EmptySet, SumIsAdded
<1> QED BY <1>1, AddsUpAt

LEMMA SumUnfolds ==
    ASSUME NEW f, NEW S, IsFiniteSet(S), S # {}
    PROVE  SumOver(f, S) = f[One(S)] + SumOver(f, S \ {One(S)})
<1> DEFINE R == S \ {One(S)}
<1>1. PICK g : AddsUp(f, S, g) /\ SumOver(f, S) = g[S]
    BY SumIsAdded
<1>2. g[S] = f[One(S)] + g[R]
    BY <1>1, AddsUpAt
<1>3. R \subseteq S /\ IsFiniteSet(R) /\ R \subseteq R
    BY LessIsFinite
<1> HIDE DEF R
<1>4. PICK h : AddsUp(f, R, h) /\ SumOver(f, R) = h[R]
    BY <1>3, SumIsAdded
<1>5. g[R] = h[R]
    BY <1>1, <1>3, <1>4, SumsAgree
<1> QED BY <1>1, <1>2, <1>4, <1>5 DEF R

\* The sum depends on the values on the set alone.
LEMMA SameSum ==
    ASSUME NEW f, NEW e, NEW S, IsFiniteSet(S), \A x \in S : f[x] = e[x]
    PROVE  SumOver(f, S) = SumOver(e, S)
<1>1. PICK g : AddsUp(f, S, g) /\ SumOver(f, S) = g[S]
    BY SumIsAdded
<1>2. PICK h : AddsUp(e, S, h) /\ SumOver(e, S) = h[S]
    BY SumIsAdded
<1>3. S \subseteq S
    OBVIOUS
<1> QED BY <1>1, <1>2, <1>3, SumsAgree

LEMMA SumIsInt ==
    ASSUME NEW f, NEW S, IsFiniteSet(S), \A x \in S : f[x] \in Int
    PROVE  SumOver(f, S) \in Int
<1> DEFINE T == {t \in SUBSET S : SumOver(f, t) \notin Int}
<1> SUFFICES ASSUME T # {} PROVE FALSE
    BY DEF T
<1>1. T \subseteq FiniteSubsetsOf(S)
  <2>1. \A t \in T : IsFiniteSet(t)
      BY LessIsFinite
  <2> QED BY <2>1 DEF FiniteSubsetsOf
<1> HIDE DEF T
<1>2. PICK t \in T : \A u \in T : u \subseteq t => u = t
    BY <1>1, SmallestSet
<1>3. t \subseteq S /\ SumOver(f, t) \notin Int
    BY DEF T
<1>4. t # {}
    BY <1>3, SumOfNone
<1>5. IsFiniteSet(t) /\ One(t) \in t
    BY <1>3, <1>4, LessIsFinite, OneIsIn
<1>6. SumOver(f, t) = f[One(t)] + SumOver(f, t \ {One(t)})
    BY <1>4, <1>5, SumUnfolds
<1>7. SumOver(f, t \ {One(t)}) \in Int
    BY <1>2, <1>3, <1>5 DEF T
<1> QED BY <1>3, <1>5, <1>6, <1>7

\* Any element may be taken first.
LEMMA SumWithout ==
    ASSUME NEW f, NEW S, IsFiniteSet(S), \A x \in S : f[x] \in Int, NEW x \in S
    PROVE  SumOver(f, S) = f[x] + SumOver(f, S \ {x})
<1> DEFINE T == {t \in SUBSET S : \E y \in t : SumOver(f, t) # f[y] + SumOver(f, t \ {y})}
<1> SUFFICES ASSUME T # {} PROVE FALSE
    BY DEF T
<1>1. T \subseteq FiniteSubsetsOf(S)
  <2>1. \A t \in T : IsFiniteSet(t)
      BY LessIsFinite
  <2> QED BY <2>1 DEF FiniteSubsetsOf
<1> HIDE DEF T
<1>2. PICK t \in T : \A u \in T : u \subseteq t => u = t
    BY <1>1, SmallestSet
<1>3. PICK y \in t : SumOver(f, t) # f[y] + SumOver(f, t \ {y})
    BY DEF T
<1>4. t \subseteq S /\ IsFiniteSet(t) /\ t # {}
    BY <1>3, LessIsFinite DEF T
<1> DEFINE z == One(t)
<1>5. z \in t /\ SumOver(f, t) = f[z] + SumOver(f, t \ {z})
    BY <1>4, OneIsIn, SumUnfolds
<1> HIDE DEF z
<1>6. z # y
    BY <1>3, <1>5
<1>7. \A u : u \subseteq t /\ u # t => \A v \in u : SumOver(f, u) = f[v] + SumOver(f, u \ {v})
    BY <1>2, <1>4 DEF T
<1>8. SumOver(f, t \ {z}) = f[y] + SumOver(f, (t \ {z}) \ {y})
    BY <1>3, <1>5, <1>6, <1>7
<1>9. SumOver(f, t \ {y}) = f[z] + SumOver(f, (t \ {y}) \ {z})
    BY <1>3, <1>5, <1>6, <1>7
<1> DEFINE w == (t \ {z}) \ {y}
<1>10. (t \ {y}) \ {z} = w /\ w \subseteq S
    BY <1>4
<1>11. IsFiniteSet(w) /\ \A v \in w : f[v] \in Int
    BY <1>4, <1>10, LessIsFinite
<1> HIDE DEF w
<1>12. SumOver(f, w) \in Int
    BY <1>11, SumIsInt
<1>13. f[y] \in Int /\ f[z] \in Int
    BY <1>3, <1>4, <1>5
<1> DEFINE all == SumOver(f, t)
           notY == SumOver(f, t \ {y})
           notZ == SumOver(f, t \ {z})
           neither == SumOver(f, w)
<1>14. all # f[y] + notY /\ all = f[z] + notZ
    BY <1>3, <1>5, Zenon
<1>15. notZ = f[y] + neither /\ notY = f[z] + neither
    BY <1>8, <1>9, <1>10, Zenon DEF w
<1> HIDE DEF all, notY, notZ, neither
<1>16. neither \in Int
    BY <1>12 DEF neither
<1> QED BY <1>13, <1>14, <1>15, <1>16

\* A new value for one element changes the sum by the difference.
LEMMA SumChanges ==
    ASSUME NEW f, NEW e, NEW S, IsFiniteSet(S), NEW x \in S,
           \A y \in S : f[y] \in Int /\ e[y] \in Int, \A y \in S \ {x} : e[y] = f[y]
    PROVE  SumOver(e, S) - SumOver(f, S) = e[x] - f[x]
<1> DEFINE R == S \ {x}
<1>1. IsFiniteSet(R) /\ \A y \in R : e[y] = f[y] /\ f[y] \in Int
    BY LessIsFinite
<1>2. SumOver(f, S) = f[x] + SumOver(f, R) /\ SumOver(e, S) = e[x] + SumOver(e, R)
    BY SumWithout
<1> HIDE DEF R
<1>3. SumOver(e, R) = SumOver(f, R)
    BY <1>1, SameSum
<1>4. SumOver(f, R) \in Int
    BY <1>1, SumIsInt
<1> QED BY <1>2, <1>3, <1>4

\* No value is greater, nor is the sum.
LEMMA SumAtMost ==
    ASSUME NEW f, NEW e, NEW S, IsFiniteSet(S), \A y \in S : f[y] \in Int /\ e[y] \in Int /\ f[y] <= e[y]
    PROVE  SumOver(f, S) <= SumOver(e, S)
<1> DEFINE T == {t \in SUBSET S : ~(SumOver(f, t) <= SumOver(e, t))}
<1> SUFFICES ASSUME T # {} PROVE FALSE
    BY DEF T
<1>1. T \subseteq FiniteSubsetsOf(S)
  <2>1. \A t \in T : IsFiniteSet(t)
      BY LessIsFinite
  <2> QED BY <2>1 DEF FiniteSubsetsOf
<1> HIDE DEF T
<1>2. PICK t \in T : \A u \in T : u \subseteq t => u = t
    BY <1>1, SmallestSet
<1>3. t \subseteq S /\ ~(SumOver(f, t) <= SumOver(e, t)) /\ IsFiniteSet(t)
    BY LessIsFinite DEF T
<1>4. t # {}
    BY <1>3, SumOfNone
<1> DEFINE z == One(t)
           R == t \ {z}
<1>5. /\ z \in t /\ SumOver(f, t) = f[z] + SumOver(f, R)
      /\ SumOver(e, t) = e[z] + SumOver(e, R)
    BY <1>3, <1>4, OneIsIn, SumUnfolds
<1> HIDE DEF z
<1>6. SumOver(f, R) <= SumOver(e, R)
    BY <1>2, <1>3, <1>5 DEF T
<1>7. IsFiniteSet(R) /\ \A y \in R : f[y] \in Int /\ e[y] \in Int
    BY <1>3, LessIsFinite
<1> HIDE DEF R
<1>8. SumOver(f, R) \in Int /\ SumOver(e, R) \in Int
    BY <1>7, SumIsInt
<1>9. f[z] \in Int /\ e[z] \in Int /\ f[z] <= e[z]
    BY <1>3, <1>5
<1> QED BY <1>3, <1>5, <1>6, <1>8, <1>9

\* Two sets with nothing in common.
LEMMA SumOfBoth ==
    ASSUME NEW f, NEW S, NEW U, IsFiniteSet(S), IsFiniteSet(U), S \cap U = {},
           \A y \in S \cup U : f[y] \in Int
    PROVE  SumOver(f, S \cup U) = SumOver(f, S) + SumOver(f, U)
<1> DEFINE T == {t \in SUBSET S : SumOver(f, t \cup U) # SumOver(f, t) + SumOver(f, U)}
<1> SUFFICES ASSUME T # {} PROVE FALSE
    BY DEF T
<1>1. T \subseteq FiniteSubsetsOf(S)
  <2>1. \A t \in T : IsFiniteSet(t)
      BY LessIsFinite
  <2> QED BY <2>1 DEF FiniteSubsetsOf
<1> HIDE DEF T
<1>2. PICK t \in T : \A u \in T : u \subseteq t => u = t
    BY <1>1, SmallestSet
<1>3. t \subseteq S /\ SumOver(f, t \cup U) # SumOver(f, t) + SumOver(f, U) /\ IsFiniteSet(t)
    BY LessIsFinite DEF T
<1>4. SumOver(f, U) \in Int
    BY SumIsInt
<1>5. t # {}
  <2>1. {} \cup U = U
      OBVIOUS
  <2> QED BY <1>3, <1>4, <2>1, SumOfNone
<1>6. PICK z : z \in t
    BY <1>5
<1> DEFINE R == t \ {z}
<1>7. IsFiniteSet(t \cup U) /\ z \in t \cup U /\ \A y \in t \cup U : f[y] \in Int
    BY <1>3, <1>6, FS_Union
<1>8. SumOver(f, t \cup U) = f[z] + SumOver(f, (t \cup U) \ {z})
    BY <1>7, SumWithout
<1>9. SumOver(f, t) = f[z] + SumOver(f, R)
    BY <1>3, <1>6, SumWithout
<1>10. (t \cup U) \ {z} = R \cup U
    BY <1>3, <1>6
<1>11. SumOver(f, R \cup U) = SumOver(f, R) + SumOver(f, U)
    BY <1>2, <1>3, <1>6 DEF T
<1>12. IsFiniteSet(R) /\ \A y \in R : f[y] \in Int
    BY <1>3, LessIsFinite
<1> HIDE DEF R
<1>13. SumOver(f, R) \in Int
    BY <1>12, SumIsInt
<1>14. f[z] \in Int
    BY <1>7
<1> DEFINE both == SumOver(f, t \cup U)
           one == SumOver(f, t)
           other == SumOver(f, U)
           rest == SumOver(f, R)
<1>15. both # one + other /\ one = f[z] + rest
    BY <1>3, <1>9, Zenon DEF R
<1>16. both = f[z] + (rest + other)
    BY <1>8, <1>10, <1>11, Zenon DEF R
<1> HIDE DEF both, one, rest, other
<1>17. rest \in Int /\ other \in Int
    BY <1>4, <1>13 DEF rest, other
<1> QED BY <1>14, <1>15, <1>16, <1>17

LEMMA SumPlus ==
    ASSUME NEW f, NEW e, NEW h, NEW S, IsFiniteSet(S),
           \A y \in S : f[y] \in Int /\ e[y] \in Int /\ h[y] = f[y] + e[y]
    PROVE  SumOver(h, S) = SumOver(f, S) + SumOver(e, S)
<1> DEFINE T == {t \in SUBSET S : SumOver(h, t) # SumOver(f, t) + SumOver(e, t)}
<1> SUFFICES ASSUME T # {} PROVE FALSE
    BY DEF T
<1>1. T \subseteq FiniteSubsetsOf(S)
  <2>1. \A t \in T : IsFiniteSet(t)
      BY LessIsFinite
  <2> QED BY <2>1 DEF FiniteSubsetsOf
<1> HIDE DEF T
<1>2. PICK t \in T : \A u \in T : u \subseteq t => u = t
    BY <1>1, SmallestSet
<1>3. t \subseteq S /\ SumOver(h, t) # SumOver(f, t) + SumOver(e, t) /\ IsFiniteSet(t)
    BY LessIsFinite DEF T
<1>4. t # {}
  <2>1. SumOver(f, {}) = 0 /\ SumOver(e, {}) = 0 /\ SumOver(h, {}) = 0
      BY SumOfNone
  <2>2. ASSUME t = {} PROVE FALSE
    <3>1. SumOver(f, t) = 0 /\ SumOver(e, t) = 0 /\ SumOver(h, t) = 0
        BY <2>1, <2>2, Zenon
    <3>2. SumOver(f, t) + SumOver(e, t) = 0
        BY <3>1
    <3> QED BY <1>3, <3>1, <3>2, Zenon
  <2> QED BY <2>2
<1> DEFINE z == One(t)
           R == t \ {z}
<1>5. /\ z \in t /\ SumOver(f, t) = f[z] + SumOver(f, R)
      /\ SumOver(e, t) = e[z] + SumOver(e, R) /\ SumOver(h, t) = h[z] + SumOver(h, R)
    BY <1>3, <1>4, OneIsIn, SumUnfolds
<1> HIDE DEF z
<1>6. SumOver(h, R) = SumOver(f, R) + SumOver(e, R)
    BY <1>2, <1>3, <1>5 DEF T
<1>7. IsFiniteSet(R) /\ \A y \in R : f[y] \in Int /\ e[y] \in Int
    BY <1>3, LessIsFinite
<1> HIDE DEF R
<1>8. SumOver(f, R) \in Int /\ SumOver(e, R) \in Int
    BY <1>7, SumIsInt
<1>9. f[z] \in Int /\ e[z] \in Int /\ h[z] = f[z] + e[z]
    BY <1>3, <1>5
<1> QED BY <1>3, <1>5, <1>6, <1>8, <1>9

LEMMA SumOfZeros ==
    ASSUME NEW f, NEW S, IsFiniteSet(S), \A x \in S : f[x] = 0
    PROVE  SumOver(f, S) = 0
<1>1. \A x \in S : f[x] \in Int /\ f[x] = f[x] + f[x]
    OBVIOUS
<1> DEFINE sum == SumOver(f, S)
<1>2. sum = sum + sum
    BY <1>1, SumPlus
<1>3. sum \in Int
    BY <1>1, SumIsInt
<1> HIDE DEF sum
<1>4. sum = 0
    BY <1>2, <1>3
<1> QED BY <1>4 DEF sum

\* The same value everywhere.
LEMMA SumOfSame ==
    ASSUME NEW f, NEW S, IsFiniteSet(S), NEW k \in Int, \A x \in S : f[x] = k
    PROVE  SumOver(f, S) = k * Cardinality(S)
<1> DEFINE T == {t \in SUBSET S : SumOver(f, t) # k * Cardinality(t)}
<1> SUFFICES ASSUME T # {} PROVE FALSE
    BY DEF T
<1>1. T \subseteq FiniteSubsetsOf(S)
  <2>1. \A t \in T : IsFiniteSet(t)
      BY LessIsFinite
  <2> QED BY <2>1 DEF FiniteSubsetsOf
<1> HIDE DEF T
<1>2. PICK t \in T : \A u \in T : u \subseteq t => u = t
    BY <1>1, SmallestSet
<1>3. t \subseteq S /\ SumOver(f, t) # k * Cardinality(t) /\ IsFiniteSet(t)
    BY LessIsFinite DEF T
<1>4. t # {}
    BY <1>3, SumOfNone, FS_EmptySet
<1> PICK x : x = One(t)
    OBVIOUS
<1> DEFINE less == t \ {x}
<1>5. x \in t /\ SumOver(f, t) = f[x] + SumOver(f, less) /\ f[x] = k
    BY <1>3, <1>4, SumUnfolds, OneIsIn
<1>6. SumOver(f, less) = k * Cardinality(less)
    BY <1>2, <1>3, <1>5 DEF T
<1>7. Cardinality(less) = Cardinality(t) - 1 /\ Cardinality(t) \in Nat
    BY <1>3, <1>5, FS_RemoveElement, FS_CardinalityType
<1> HIDE DEF less
<1>8. \A n \in Int : k + k * (n - 1) = k * n
    OBVIOUS
<1> QED BY <1>3, <1>5, <1>6, <1>7, <1>8

\* A finite set of numbers has a greatest.
LEMMA HasGreatest ==
    ASSUME NEW S, IsFiniteSet(S), S # {}, S \subseteq Int
    PROVE  \E m \in S : \A y \in S : m >= y
<1> DEFINE T == {t \in SUBSET S : t # {} /\ \A m \in t : \E y \in t : ~(m >= y)}
<1> SUFFICES ASSUME T # {} PROVE FALSE
    BY DEF T
<1>1. T \subseteq FiniteSubsetsOf(S)
  <2>1. \A t \in T : IsFiniteSet(t)
      BY LessIsFinite
  <2> QED BY <2>1 DEF FiniteSubsetsOf
<1> HIDE DEF T
<1>2. PICK t \in T : \A u \in T : u \subseteq t => u = t
    BY <1>1, SmallestSet
<1>3. t \subseteq S /\ t # {} /\ \A m \in t : \E y \in t : ~(m >= y)
    BY DEF T
<1> PICK x \in t : TRUE
    BY <1>3
<1>4. t \ {x} \notin T
    BY <1>2
<1>5. t \ {x} # {}
    BY <1>3
<1>6. PICK m \in t \ {x} : \A y \in t \ {x} : m >= y
    BY <1>3, <1>4, <1>5 DEF T
<1>7. m \in Int /\ x \in Int /\ t \subseteq Int
    BY <1>3
<1>8. \E y \in t : ~(m >= y)
    BY <1>3
<1>9. ~(m >= x)
    BY <1>6, <1>8
<1>10. \A y \in t : x >= y
    BY <1>6, <1>7, <1>9
<1> QED BY <1>3, <1>10

LEMMA SumToLast ==
    ASSUME NEW n \in Nat, NEW f, \A x \in 0 .. n : f[x] \in Int
    PROVE  SumOver(f, 0 .. n) = f[n] + SumOver(f, 0 .. (n - 1))
<1> DEFINE S == 0 .. n
<1>1. IsFiniteSet(S)
    BY FS_Interval
<1>2. n \in S /\ (\A x \in S : f[x] \in Int) /\ S \ {n} = 0 .. (n - 1)
    OBVIOUS
<1> HIDE DEF S
<1>3. SumOver(f, S) = f[n] + SumOver(f, S \ {n})
    BY <1>1, <1>2, SumWithout
<1> QED BY <1>2, <1>3, Zenon DEF S

\* The values of 0 .. n - 1, each one place later.
LEMMA SumOfShifted ==
    ASSUME NEW m \in Nat, NEW f, NEW e, \A x \in 0 .. m : f[x] \in Int,
           e[0] = 0, \A x \in 1 .. m : e[x] = f[x - 1]
    PROVE  SumOver(e, 0 .. m) = SumOver(f, 0 .. (m - 1))
<1> DEFINE T == {t \in SUBSET (0 .. m) : \E n \in 0 .. m : /\ t = 0 .. n
                                                          /\ SumOver(e, 0 .. n) # SumOver(f, 0 .. (n - 1))}
<1> SUFFICES ASSUME T # {} PROVE FALSE
  <2>1. 0 .. m \in SUBSET (0 .. m) /\ m \in 0 .. m
      OBVIOUS
  <2> QED BY <2>1 DEF T
<1>1. T \subseteq FiniteSubsetsOf(0 .. m)
  <2>1. IsFiniteSet(0 .. m)
      BY FS_Interval
  <2>2. \A t \in T : IsFiniteSet(t)
      BY <2>1, LessIsFinite
  <2> QED BY <2>2 DEF FiniteSubsetsOf
<1> HIDE DEF T
<1>2. PICK t \in T : \A u \in T : u \subseteq t => u = t
    BY <1>1, SmallestSet
<1>3. PICK n \in 0 .. m : t = 0 .. n /\ SumOver(e, 0 .. n) # SumOver(f, 0 .. (n - 1))
    BY DEF T
<1>4. n \in Nat /\ \A x \in 0 .. n : e[x] \in Int
  <2>1. \A x \in 1 .. m : x - 1 \in 0 .. m /\ e[x] \in Int
      OBVIOUS
  <2>2. \A x \in 0 .. n : x = 0 \/ x \in 1 .. m
      OBVIOUS
  <2> QED BY <2>1, <2>2
<1>5. SumOver(e, 0 .. n) = e[n] + SumOver(e, 0 .. (n - 1))
    BY <1>4, SumToLast
<1>6. CASE n = 0
  <2>1. 0 .. (n - 1) = {}
      BY <1>6
  <2>2. SumOver(e, 0 .. (n - 1)) = 0 /\ SumOver(f, 0 .. (n - 1)) = 0
      BY <2>1, SumOfNone, Zenon
  <2>3. e[n] = 0
      BY <1>6
  <2> QED BY <1>3, <1>5, <2>2, <2>3
<1>7. CASE n # 0
  <2> DEFINE k == n - 1
  <2>1. k \in Nat /\ k \in 0 .. m /\ 0 .. k \subseteq t /\ 0 .. k # t /\ 0 .. k \subseteq 0 .. m
      BY <1>3, <1>7
  <2>2. e[n] = f[k]
      BY <1>7
  <2> HIDE DEF k
  <2>3. SumOver(e, 0 .. k) = SumOver(f, 0 .. (k - 1))
      BY <1>2, <2>1 DEF T
  <2>4. \A x \in 0 .. k : f[x] \in Int
      BY <2>1
  <2>5. SumOver(f, 0 .. k) = f[k] + SumOver(f, 0 .. (k - 1))
      BY <2>1, <2>4, SumToLast
  <2>6. SumOver(e, 0 .. n) = f[k] + SumOver(e, 0 .. k)
      BY <1>5, <2>2, Zenon DEF k
  <2>7. SumOver(e, 0 .. n) = SumOver(f, 0 .. k)
      BY <2>3, <2>5, <2>6, Zenon
  <2> QED BY <1>3, <2>7, Zenon DEF k
<1> QED BY <1>6, <1>7

----------------------------------------------------------------------------
(* Sums and counts by classes. *)

\* f adds v up class by class.
AddsClasses(f, K, v, S, class) == \A k \in K : f[k] = SumOver(v, {x \in S : class[x] = k})

\* A sum by classes is the sum.
LEMMA SumByClass ==
    ASSUME NEW v, NEW S, IsFiniteSet(S), \A x \in S : v[x] \in Int, NEW class,
           NEW f, NEW K, IsFiniteSet(K), AddsClasses(f, K, v, S, class)
    PROVE  SumOver(f, K) = SumOver(v, {x \in S : class[x] \in K})
<1> DEFINE In(t) == {x \in S : class[x] \in t}
           T == {t \in SUBSET K : SumOver(f, t) # SumOver(v, In(t))}
<1> SUFFICES ASSUME T # {} PROVE FALSE
    BY DEF T
<1>1. T \subseteq FiniteSubsetsOf(K)
  <2>1. \A t \in T : IsFiniteSet(t)
      BY LessIsFinite
  <2> QED BY <2>1 DEF FiniteSubsetsOf
<1> HIDE DEF T
<1>2. PICK t \in T : \A u \in T : u \subseteq t => u = t
    BY <1>1, SmallestSet
<1>3. t \subseteq K /\ SumOver(f, t) # SumOver(v, In(t)) /\ IsFiniteSet(t)
    BY LessIsFinite DEF T
<1>4. t # {}
  <2>1. In({}) = {}
      OBVIOUS
  <2> HIDE DEF In
  <2> QED BY <1>3, <2>1, SumOfNone
<1> PICK k : k = One(t)
    OBVIOUS
<1> DEFINE less == t \ {k}
           this == {x \in S : class[x] = k}
<1>5. k \in t /\ k \in K /\ SumOver(f, t) = f[k] + SumOver(f, less)
    BY <1>3, <1>4, SumUnfolds, OneIsIn
<1>6. SumOver(f, less) = SumOver(v, In(less))
  <2>1. less \in SUBSET K /\ less # t
      BY <1>3, <1>5
  <2>2. less \notin T
      BY <1>2, <2>1
  <2> HIDE DEF less
  <2> QED BY <2>1, <2>2 DEF T
<1>7. f[k] = SumOver(v, this)
    BY <1>5 DEF AddsClasses
<1>8. In(t) = In(less) \cup this /\ In(less) \cap this = {} /\ In(less) \subseteq S /\ this \subseteq S
    BY <1>5
<1> HIDE DEF In, this, less
<1>9. IsFiniteSet(In(less)) /\ IsFiniteSet(this) /\ \A y \in In(less) \cup this : v[y] \in Int
    BY <1>8, LessIsFinite
<1>10. SumOver(v, In(t)) = SumOver(v, In(less)) + SumOver(v, this)
    BY <1>8, <1>9, SumOfBoth
<1>11. SumOver(v, In(less)) \in Int /\ SumOver(v, this) \in Int
    BY <1>9, SumIsInt
<1> QED BY <1>3, <1>5, <1>6, <1>7, <1>10, <1>11

\* f counts m for each element, class by class.
CountsClasses(f, K, m, S, class) == \A k \in K : f[k] = m * Cardinality({x \in S : class[x] = k})

\* Counting class by class.
LEMMA CountByClass ==
    ASSUME NEW S, IsFiniteSet(S), NEW m \in Int, NEW class, NEW K, IsFiniteSet(K), \A x \in S : class[x] \in K,
           NEW f, CountsClasses(f, K, m, S, class)
    PROVE  SumOver(f, K) = m * Cardinality(S)
<1> DEFINE v == [x \in S |-> m]
           this(k) == {x \in S : class[x] = k}
<1>1. \A x \in S : v[x] = m
    OBVIOUS
<1>2. \A k \in K : this(k) \subseteq S
    OBVIOUS
<1>3. {x \in S : class[x] \in K} = S
    OBVIOUS
<1> HIDE DEF v
<1>4. ASSUME NEW k \in K PROVE f[k] = SumOver(v, this(k))
  <2> PICK s : s = this(k)
      OBVIOUS
  <2>3. f[k] = m * Cardinality(s)
      BY DEF CountsClasses
  <2>1. IsFiniteSet(s) /\ \A x \in s : v[x] = m
      BY <1>1, <1>2, LessIsFinite
  <2>2. SumOver(v, s) = m * Cardinality(s)
      BY <2>1, SumOfSame
  <2> QED BY <2>2, <2>3
<1>7. \A x \in S : v[x] \in Int
    BY <1>1
<1>5. SumOver(f, K) = SumOver(v, {x \in S : class[x] \in K})
  <2>1. AddsClasses(f, K, v, S, class)
      BY <1>4 DEF AddsClasses
  <2> QED BY <2>1, <1>7, SumByClass
<1>6. SumOver(v, S) = m * Cardinality(S)
    BY <1>1, SumOfSame
<1> QED BY <1>3, <1>5, <1>6

LEMMA ImageIsFinite ==
    ASSUME NEW S, IsFiniteSet(S), NEW f PROVE IsFiniteSet({f[x] : x \in S})
<1> DEFINE T == {f[x] : x \in S}
           g == [x \in S |-> f[x]]
<1>1. g \in Surjection(S, T)
    BY DEF Surjection
<1> HIDE DEF g, T
<1>2. IsFiniteSet(T)
    BY <1>1, FS_Surjection
<1> QED BY <1>2 DEF T

\* Two parts with nothing in common.
LEMMA CountBoth ==
    ASSUME NEW S, IsFiniteSet(S), NEW A, NEW B, S = A \cup B, A \cap B = {}
    PROVE  /\ Cardinality(S) = Cardinality(A) + Cardinality(B)
           /\ Cardinality(A) \in Nat /\ Cardinality(B) \in Nat /\ IsFiniteSet(A) /\ IsFiniteSet(B)
<1>1. IsFiniteSet(A) /\ IsFiniteSet(B)
    BY FS_Subset
<1>2. Cardinality(A) \in Nat /\ Cardinality(B) \in Nat
    BY <1>1, FS_CardinalityType
<1>3. Cardinality(A \cup B) = Cardinality(A) + Cardinality(B) - Cardinality(A \cap B)
    BY <1>1, FS_Union
<1>4. Cardinality(A \cap B) = 0
    BY FS_EmptySet
<1> QED BY <1>1, <1>2, <1>3, <1>4
=============================================================================

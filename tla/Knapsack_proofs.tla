---------------------------- MODULE Knapsack_proofs ----------------------------
(***************************************************************************)
(* Facts about the sums of Knapsack, for any finite set of orders.  Total  *)
(* goes through a set in an order of its own; what the search needs is     *)
(* that an order adds its own weight or value, in whatever order it is     *)
(* added.  The proofs are by induction over the subsets of a finite set,   *)
(* stated for a set of subsets instead of a predicate.                     *)
(***************************************************************************)
EXTENDS Knapsack, FiniteSetTheorems, TLAPS

\* What holds for a set when it holds for its proper subsets holds for all.
LEMMA SubsetInduction ==
    ASSUME NEW S, IsFiniteSet(S), NEW F,
           \A u \in SUBSET S : (\A v \in SUBSET u : v # u => v \in F) => u \in F
    PROVE  SUBSET S \subseteq F
<1> DEFINE Left == {u \in SUBSET S : u \notin F}
<1>1. IsWellFoundedOn(StrictSubsetOrdering(S), SUBSET S)
  BY FS_StrictSubsetOrderingWellFounded, FS_FiniteSubsetsOfFinite
<1>2. SUFFICES ASSUME Left # {} PROVE FALSE
  OBVIOUS
<1>3. Left \subseteq SUBSET S
  OBVIOUS
<1>4. PICK u \in Left : \A v \in Left : ~ (<<v, u>> \in StrictSubsetOrdering(S))
  <2> HIDE DEF Left
  <2> QED
    BY <1>1, <1>2, <1>3, WFMin
<1>5. \A v \in SUBSET u : v # u => v \in F
  BY <1>4 DEF StrictSubsetOrdering
<1>6. QED
  BY <1>4, <1>5

----------------------------------------------------------------------------
(* The recursion of Total *)

First(s) == CHOOSE x \in s : TRUE

\* f sums w over the subsets of S, the way Total does.
SumsUp(w, S, f) ==
    f = [s \in SUBSET S |-> IF s = {} THEN 0
                            ELSE w[First(s)] + f[s \ {First(s)}]]

\* Total is the value of such a function, if there is one.
LEMMA TotalIsChosen ==
    ASSUME NEW w, NEW S
    PROVE  Total(w, S) = (CHOOSE f : SumsUp(w, S, f))[S]
  BY DEF Total, MapThenSumSet, MapThenFoldSet, SumsUp, First

\* An element of a nonempty set.
LEMMA FirstIn == ASSUME NEW s, s # {} PROVE First(s) \in s
  BY DEF First

\* What two such functions have in common, they agree on.
LEMMA SumsAgree ==
    ASSUME NEW w, NEW S, IsFiniteSet(S), NEW T, NEW f, NEW g,
           SumsUp(w, S, f), SumsUp(w, T, g)
    PROVE  \A s \in SUBSET S : s \in SUBSET T => f[s] = g[s]
<1> DEFINE F == {s \in SUBSET S : s \in SUBSET T => f[s] = g[s]}
<1>1. ASSUME NEW u \in SUBSET S, \A v \in SUBSET u : v # u => v \in F
      PROVE  u \in F
  <2>1. SUFFICES ASSUME u \in SUBSET T, u # {} PROVE f[u] = g[u]
    BY DEF SumsUp
  <2>2. u \ {First(u)} \in F
    BY <1>1, <2>1, FirstIn
  <2>3. /\ f[u] = w[First(u)] + f[u \ {First(u)}]
        /\ g[u] = w[First(u)] + g[u \ {First(u)}]
    BY <2>1 DEF SumsUp
  <2>4. QED
    BY <2>1, <2>2, <2>3
<1>2. SUBSET S \subseteq F
  <2> HIDE DEF F
  <2> QED
    BY <1>1, SubsetInduction
<1>3. QED
  BY <1>2

\* Such a function exists for every finite set.
LEMMA SumsExist ==
    ASSUME NEW w, NEW S, IsFiniteSet(S)
    PROVE  \A s \in SUBSET S : \E f : SumsUp(w, s, f)
<1> DEFINE F == {s \in SUBSET S : \E f : SumsUp(w, s, f)}
           sum(s) == CHOOSE f : SumsUp(w, s, f)
<1>1. ASSUME NEW u \in SUBSET S, \A v \in SUBSET u : v # u => v \in F
      PROVE  u \in F
  <2> DEFINE rest(s) == s \ {First(s)}
             g == [s \in SUBSET u |-> IF s = {} THEN 0
                     ELSE w[First(s)] + sum(rest(s))[rest(s)]]
  <2>1. ASSUME NEW s \in SUBSET u, s # {} PROVE g[rest(s)] = sum(rest(s))[rest(s)]
    <3> DEFINE t == rest(s)
    <3>1. t \in SUBSET u /\ t # u
      BY <2>1, FirstIn
    <3>2. SumsUp(w, t, sum(t))
      BY <1>1, <3>1
    <3>3. CASE t = {}
      BY <3>1, <3>2, <3>3 DEF SumsUp
    <3>4. CASE t # {}
      <4>1. rest(t) \in SUBSET u /\ rest(t) # u
        BY <3>1, <3>4, FirstIn
      <4>2. SumsUp(w, rest(t), sum(rest(t)))
        BY <1>1, <4>1
      <4>3. IsFiniteSet(t)
        BY <3>1, FS_Subset
      <4>4. sum(t)[rest(t)] = sum(rest(t))[rest(t)]
        <5>1. rest(t) \in SUBSET t
          OBVIOUS
        <5> HIDE DEF sum, rest, t
        <5> QED
          BY <3>2, <4>2, <4>3, <5>1, SumsAgree
      <4>5. sum(t)[t] = w[First(t)] + sum(t)[rest(t)]
        <5> HIDE DEF sum
        <5> QED
          BY <3>2, <3>4 DEF SumsUp
      <4>6. g[t] = w[First(t)] + sum(rest(t))[rest(t)]
        BY <3>1, <3>4
      <4>7. QED
        BY <4>4, <4>5, <4>6
    <3>5. QED
      BY <3>3, <3>4
  <2>2. g = [s \in SUBSET u |-> IF s = {} THEN 0 ELSE w[First(s)] + g[rest(s)]]
    <3>1. \A s \in SUBSET u :
             g[s] = IF s = {} THEN 0 ELSE w[First(s)] + sum(rest(s))[rest(s)]
      <4> HIDE DEF sum, rest
      <4> QED
        OBVIOUS
    <3>2. g = [s \in SUBSET u |-> g[s]]
      OBVIOUS
    <3>3. \A s \in SUBSET u : s # {} => g[rest(s)] = sum(rest(s))[rest(s)]
      BY <2>1
    <3> HIDE DEF g, sum, rest
    <3> QED
      BY <3>1, <3>2, <3>3
  <2>3. SumsUp(w, u, g)
    BY <2>2 DEF SumsUp
  <2>4. QED
    BY <2>3
<1>2. SUBSET S \subseteq F
  <2> HIDE DEF F
  <2> QED
    BY <1>1, SubsetInduction
<1>3. QED
  BY <1>2

\* Total takes away its first element.
LEMMA TotalUnfolds ==
    ASSUME NEW w, NEW S, IsFiniteSet(S)
    PROVE  Total(w, S) = IF S = {} THEN 0
                         ELSE w[First(S)] + Total(w, S \ {First(S)})
<1> DEFINE sum(s) == CHOOSE f : SumsUp(w, s, f)
           rest == S \ {First(S)}
<1>1. SumsUp(w, S, sum(S)) /\ SumsUp(w, rest, sum(rest))
  BY SumsExist
<1>2. IsFiniteSet(rest)
  BY FS_Subset
<1>3. sum(S)[rest] = sum(rest)[rest]
  <2>1. rest \in SUBSET rest /\ rest \in SUBSET S
    OBVIOUS
  <2> HIDE DEF sum, rest
  <2> QED
    BY <1>1, <1>2, <2>1, SumsAgree
<1>4. sum(S)[S] = IF S = {} THEN 0 ELSE w[First(S)] + sum(S)[rest]
  <2> HIDE DEF sum
  <2> QED
    BY <1>1 DEF SumsUp
<1>5. Total(w, S) = sum(S)[S] /\ Total(w, rest) = sum(rest)[rest]
  BY TotalIsChosen
<1>6. QED
  <2> HIDE DEF sum
  <2> QED
    BY <1>3, <1>4, <1>5

----------------------------------------------------------------------------
(* The laws of the sum *)

\* The sum of nothing is 0.
LEMMA TotalEmpty == ASSUME NEW w PROVE Total(w, {}) = 0
  BY TotalUnfolds, FS_EmptySet

\* The sum of integers is an integer.
LEMMA TotalInt ==
    ASSUME NEW w, NEW S, IsFiniteSet(S), \A x \in S : w[x] \in Int
    PROVE  \A s \in SUBSET S : Total(w, s) \in Int
<1> DEFINE F == {s \in SUBSET S : Total(w, s) \in Int}
<1>1. ASSUME NEW u \in SUBSET S, \A v \in SUBSET u : v # u => v \in F
      PROVE  u \in F
  <2>1. CASE u = {}
    BY <2>1, TotalEmpty
  <2>2. CASE u # {}
    <3>1. First(u) \in u /\ u \ {First(u)} \in F
      BY <1>1, <2>2, FirstIn
    <3>2. Total(w, u) = w[First(u)] + Total(w, u \ {First(u)})
      BY <2>2, TotalUnfolds, FS_Subset
    <3>3. QED
      BY <3>1, <3>2
  <2>3. QED
    BY <2>1, <2>2
<1>2. SUBSET S \subseteq F
  <2> HIDE DEF F
  <2> QED
    BY <1>1, SubsetInduction
<1>3. QED
  BY <1>2

\* Any element may be the one that is taken away.
LEMMA TotalWithout ==
    ASSUME NEW w, NEW S, IsFiniteSet(S), \A x \in S : w[x] \in Int
    PROVE  \A s \in SUBSET S : \A x \in s : Total(w, s) = w[x] + Total(w, s \ {x})
<1> DEFINE F == {s \in SUBSET S : \A x \in s : Total(w, s) = w[x] + Total(w, s \ {x})}
<1>1. ASSUME NEW u \in SUBSET S, \A v \in SUBSET u : v # u => v \in F
      PROVE  u \in F
  <2> SUFFICES ASSUME NEW x \in u PROVE Total(w, u) = w[x] + Total(w, u \ {x})
    OBVIOUS
  <2> DEFINE y == First(u)
             both == (u \ {x}) \ {y}
  <2>1. y \in u /\ Total(w, u) = w[y] + Total(w, u \ {y})
    BY TotalUnfolds, FirstIn, FS_Subset
  <2>2. CASE x = y
    BY <2>1, <2>2
  <2>3. CASE x # y
    <3>1. u \ {x} \in F /\ u \ {y} \in F
      BY <1>1, <2>1
    <3>2. Total(w, u \ {x}) = w[y] + Total(w, both)
      BY <2>1, <2>3, <3>1
    <3>3. Total(w, u \ {y}) = w[x] + Total(w, both)
      <4>1. (u \ {y}) \ {x} = both
        OBVIOUS
      <4> QED
        BY <2>3, <3>1, <4>1
    <3>4. w[x] \in Int /\ w[y] \in Int /\ Total(w, both) \in Int
      <4>1. both \in SUBSET S
        OBVIOUS
      <4> QED
        BY <2>1, <4>1, TotalInt
    <3>5. QED
      BY <2>1, <3>2, <3>3, <3>4
  <2>4. QED
    BY <2>2, <2>3
<1>2. SUBSET S \subseteq F
  <2> HIDE DEF F
  <2> QED
    BY <1>1, SubsetInduction
<1>3. QED
  BY <1>2

\* An order adds its own weight or value.
LEMMA TotalAdd ==
    ASSUME NEW w, NEW S, IsFiniteSet(S), \A x \in S : w[x] \in Int,
           NEW s \in SUBSET S, NEW x \in S \ s
    PROVE  Total(w, s \cup {x}) = Total(w, s) + w[x]
<1>1. (s \cup {x}) \ {x} = s /\ s \cup {x} \in SUBSET S
  OBVIOUS
<1>2. Total(w, s \cup {x}) = w[x] + Total(w, s)
  BY <1>1, TotalWithout
<1>3. QED
  BY <1>2, TotalInt

\* More orders do not weigh less.
LEMMA TotalGrows ==
    ASSUME NEW w, NEW S, IsFiniteSet(S), \A x \in S : w[x] \in Nat,
           NEW s \in SUBSET S
    PROVE  \A t \in SUBSET S : s \subseteq t => Total(w, s) <= Total(w, t)
<1> DEFINE F == {t \in SUBSET S : s \subseteq t => Total(w, s) <= Total(w, t)}
<1>1. ASSUME NEW u \in SUBSET S, \A v \in SUBSET u : v # u => v \in F
      PROVE  u \in F
  <2>1. Total(w, s) \in Int /\ Total(w, u) \in Int
    BY TotalInt
  <2>2. CASE u = s \/ ~ (s \subseteq u)
    BY <2>1, <2>2
  <2>3. CASE s \subseteq u /\ u # s
    <3>1. PICK x \in u : x \notin s
      BY <2>3
    <3>2. u \ {x} \in F
      BY <1>1
    <3>3. Total(w, u) = w[x] + Total(w, u \ {x})
      BY TotalWithout
    <3>4. Total(w, u \ {x}) \in Int /\ w[x] \in Nat
      BY TotalInt
    <3>5. QED
      BY <2>1, <2>3, <3>1, <3>2, <3>3, <3>4
  <2>4. QED
    BY <2>2, <2>3
<1>2. SUBSET S \subseteq F
  <2> HIDE DEF F
  <2> QED
    BY <1>1, SubsetInduction
<1>3. QED
  BY <1>2

\* The sum depends on the weights of the orders of the set only.
LEMMA TotalSame ==
    ASSUME NEW w, NEW v, NEW S, IsFiniteSet(S), \A x \in S : w[x] = v[x]
    PROVE  \A s \in SUBSET S : Total(w, s) = Total(v, s)
<1> DEFINE F == {s \in SUBSET S : Total(w, s) = Total(v, s)}
<1>1. ASSUME NEW u \in SUBSET S, \A t \in SUBSET u : t # u => t \in F
      PROVE  u \in F
  <2>1. CASE u = {}
    BY <2>1, TotalEmpty
  <2>2. CASE u # {}
    <3>1. First(u) \in u /\ u \ {First(u)} \in F
      BY <1>1, <2>2, FirstIn
    <3>2. /\ Total(w, u) = w[First(u)] + Total(w, u \ {First(u)})
          /\ Total(v, u) = v[First(u)] + Total(v, u \ {First(u)})
      BY <2>2, TotalUnfolds, FS_Subset
    <3>3. QED
      BY <3>1, <3>2
  <2>3. QED
    BY <2>1, <2>2
<1>2. SUBSET S \subseteq F
  <2> HIDE DEF F
  <2> QED
    BY <1>1, SubsetInduction
<1>3. QED
  BY <1>2

\* Another weight of one order changes the sum by the difference.
LEMMA TotalChange ==
    ASSUME NEW w, NEW v, NEW S, IsFiniteSet(S), NEW x \in S,
           \A y \in S : w[y] \in Int /\ v[y] \in Int,
           \A y \in S \ {x} : w[y] = v[y]
    PROVE  Total(v, S) = Total(w, S) - w[x] + v[x]
<1> DEFINE rest == S \ {x}
<1>1. Total(w, S) = w[x] + Total(w, rest) /\ Total(v, S) = v[x] + Total(v, rest)
  BY TotalWithout
<1>2. Total(w, rest) = Total(v, rest)
  BY TotalSame, FS_Subset
<1>3. Total(w, rest) \in Int
  BY TotalInt
<1>4. QED
  BY <1>1, <1>2, <1>3
================================================================================

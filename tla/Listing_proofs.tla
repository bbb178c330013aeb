----------------------------- MODULE Listing_proofs -----------------------------
(***************************************************************************)
(* Theorems about Listing, for lists of any length: a stable sort keeps    *)
(* every element in its place of the order, and the pages of a list, put   *)
(* one after the other, are the list.                                      *)
(***************************************************************************)
EXTENDS Listing, FiniteSetTheorems, SequenceTheorems, TLAPS

-----------------------------------------------------------------------------
(* Sorting *)

\* The elements that are kept are compared by integers.
Comparable(list, kept, view) ==
    /\ IsFiniteSet(kept)
    /\ \A i \in kept : i \in Nat /\ list[i][view.field] \in Int

\* Whatever the direction, the comparison and the numbers order the elements.
LEMMA AheadOrders ==
    ASSUME NEW list, NEW view, NEW kept, Comparable(list, kept, view)
    PROVE  /\ \A i \in kept : Ahead(list, view, i, i)
           /\ \A i, j \in kept :
                 i # j => (Ahead(list, view, i, j) <=> ~Ahead(list, view, j, i))
           /\ \A i, j, k \in kept :
                 Ahead(list, view, i, j) /\ Ahead(list, view, j, k)
                     => Ahead(list, view, i, k)
<1> DEFINE key(i) == list[i][view.field]
<1>1. \A i \in kept : i \in Nat /\ key(i) \in Int
  BY DEF Comparable
<1>2. \A i, j \in kept : Precedes(view, list[i], list[j]) <=>
          IF view.order = "desc" THEN key(i) > key(j) ELSE key(i) < key(j)
  BY DEF Precedes
<1> HIDE DEF key
<1>3. CASE view.order = "desc"
  BY <1>1, <1>2, <1>3 DEF Ahead
<1>4. CASE view.order # "desc"
  BY <1>1, <1>2, <1>4 DEF Ahead
<1>5. QED
  BY <1>3, <1>4

\* The elements ahead of one, itself included.
Leading(list, kept, view, i) == {j \in kept : Ahead(list, view, j, i)}

\* An element that is ahead of another one has a smaller rank.
LEMMA RanksFollow ==
    ASSUME NEW list, NEW view, NEW kept, Comparable(list, kept, view)
    PROVE  /\ \A i \in kept : Rank(list, kept, view, i) \in 1 .. Cardinality(kept)
           /\ \A i, j \in kept : i # j /\ Ahead(list, view, i, j)
                 => Rank(list, kept, view, i) < Rank(list, kept, view, j)
<1>1. \A i \in kept : /\ Rank(list, kept, view, i) = Cardinality(Leading(list, kept, view, i))
                      /\ Leading(list, kept, view, i) \in SUBSET kept
                      /\ i \in Leading(list, kept, view, i)
  BY AheadOrders DEF Rank, Leading
<1>2. IsFiniteSet(kept) /\ Cardinality(kept) \in Nat
  BY FS_CardinalityType DEF Comparable
<1>3. \A i \in kept : /\ IsFiniteSet(Leading(list, kept, view, i))
                      /\ Cardinality(Leading(list, kept, view, i)) \in Nat
                      /\ Cardinality(Leading(list, kept, view, i)) <= Cardinality(kept)
                      /\ Cardinality(Leading(list, kept, view, i)) # 0
  BY <1>1, <1>2, FS_Subset, FS_CardinalityType, FS_EmptySet
<1>4. ASSUME NEW i \in kept, NEW j \in kept, i # j, Ahead(list, view, i, j)
      PROVE  Rank(list, kept, view, i) < Rank(list, kept, view, j)
  <2>1. Leading(list, kept, view, i) \in SUBSET Leading(list, kept, view, j)
    BY <1>4, AheadOrders DEF Leading
  <2>2. j \notin Leading(list, kept, view, i)
    BY <1>4, AheadOrders DEF Leading
  <2>3. /\ Cardinality(Leading(list, kept, view, i)) <= Cardinality(Leading(list, kept, view, j))
        /\ Cardinality(Leading(list, kept, view, i)) # Cardinality(Leading(list, kept, view, j))
    BY <1>1, <1>3, <2>1, <2>2, FS_Subset
  <2>4. QED
    BY <1>1, <1>3, <2>3
<1>5. QED
  BY <1>1, <1>2, <1>3, <1>4

\* The ranks are the places of the sorted list, each taken once.
LEMMA RanksAreThePlaces ==
    ASSUME NEW list, NEW view, NEW kept, Comparable(list, kept, view)
    PROVE  /\ Cardinality(kept) \in Nat
           /\ \A k \in 1 .. Cardinality(kept) :
                 \E i \in kept : Rank(list, kept, view, i) = k
           /\ \A i, j \in kept :
                 Rank(list, kept, view, i) = Rank(list, kept, view, j) => i = j
<1> DEFINE n == Cardinality(kept)
           rank == [i \in kept |-> Rank(list, kept, view, i)]
<1>1. IsFiniteSet(kept) /\ n \in Nat
  BY FS_CardinalityType DEF Comparable
<1>2. \A i, j \in kept : i # j => rank[i] # rank[j]
  BY AheadOrders, RanksFollow
<1>3. rank \in Injection(kept, 1 .. n)
  BY <1>2, RanksFollow DEF Injection, IsInjective
<1>4. IsFiniteSet(1 .. n) /\ Cardinality(1 .. n) = n
  BY <1>1, FS_Interval
<1>5. rank \in Surjection(kept, 1 .. n)
  BY <1>3, <1>4, FS_Injection
<1>6. QED
  BY <1>1, <1>2, <1>5 DEF Surjection

\* The number of the element at a place of the sorted list.
Place(list, kept, view, k) == CHOOSE i \in kept : Rank(list, kept, view, i) = k

\* A sorted list has every element that is kept once, and each before those that it
\* precedes and, if neither precedes the other, before those of larger numbers
\* (the sort.SliceStable of ListOrders, the ORDER BY of ListProducts).
THEOREM SortingTheorem ==
    ASSUME NEW list, NEW view, NEW kept, Comparable(list, kept, view)
    PROVE  LET n == Cardinality(kept)
               sorted == Sorted(list, kept, view)
               number(k) == Place(list, kept, view, k)
           IN  /\ n \in Nat /\ sorted = [k \in 1 .. n |-> list[number(k)]]
               /\ \A k \in 1 .. n :
                     number(k) \in kept /\ Rank(list, kept, view, number(k)) = k
               /\ \A i \in kept : /\ Rank(list, kept, view, i) \in 1 .. n
                                  /\ number(Rank(list, kept, view, i)) = i
               /\ \A k, m \in 1 .. n : k < m =>
                     \/ Precedes(view, sorted[k], sorted[m])
                     \/ /\ ~Precedes(view, sorted[m], sorted[k])
                        /\ number(k) < number(m)
<1> DEFINE n == Cardinality(kept)
           number(k) == Place(list, kept, view, k)
<1>1. n \in Nat /\ Sorted(list, kept, view) = [k \in 1 .. n |-> list[number(k)]]
  BY RanksAreThePlaces DEF Sorted, Place
<1>2. \A k \in 1 .. n : number(k) \in kept /\ Rank(list, kept, view, number(k)) = k
  BY RanksAreThePlaces DEF Place
<1>3. \A i \in kept : /\ Rank(list, kept, view, i) \in 1 .. n
                      /\ number(Rank(list, kept, view, i)) = i
  BY <1>2, RanksFollow, RanksAreThePlaces
<1>4. ASSUME NEW k \in 1 .. n, NEW m \in 1 .. n, k < m
      PROVE  \/ Precedes(view, list[number(k)], list[number(m)])
             \/ /\ ~Precedes(view, list[number(m)], list[number(k)])
                /\ number(k) < number(m)
  <2> HIDE DEF number
  <2>1. /\ number(k) \in kept /\ number(m) \in kept /\ number(k) # number(m)
        /\ number(k) \in Nat /\ number(m) \in Nat
    BY <1>1, <1>2, <1>4 DEF Comparable
  <2>2. ~Ahead(list, view, number(m), number(k))
    BY <1>1, <1>2, <1>4, <2>1, RanksFollow
  <2>3. Ahead(list, view, number(k), number(m))
    BY <2>1, <2>2, AheadOrders
  <2>4. QED
    BY <2>1, <2>2, <2>3 DEF Ahead
<1>5. QED
  BY <1>1, <1>2, <1>3, <1>4

\* An element does not come to an earlier place when the list grows around it.
LEMMA RankGrows ==
    ASSUME NEW list, NEW view, NEW kept, Comparable(list, kept, view),
           NEW more, NEW keptMore, IsFiniteSet(keptMore), kept \subseteq keptMore,
           \A i \in kept : more[i][view.field] = list[i][view.field],
           NEW i \in kept
    PROVE  Rank(list, kept, view, i) <= Rank(more, keptMore, view, i)
<1>1. Leading(list, kept, view, i) \in SUBSET Leading(more, keptMore, view, i)
  BY DEF Leading, Ahead, Precedes
<1>2. Leading(more, keptMore, view, i) \in SUBSET keptMore
  BY DEF Leading
<1>3. IsFiniteSet(Leading(more, keptMore, view, i))
  BY <1>2, FS_Subset
<1>4. QED
  BY <1>1, <1>3, FS_Subset DEF Rank, Leading

-----------------------------------------------------------------------------
(* Lists put one after the other *)

\* What holds for 0 and for the successor of a number it holds for, holds up to n.
LEMMA CountingUp ==
    ASSUME NEW n \in Nat, NEW F, 0 \in F,
           \A i \in 0 .. n : i < n /\ i \in F => i + 1 \in F
    PROVE  0 .. n \subseteq F
<1> DEFINE Left == {i \in 0 .. n : i \notin F}
<1>1. SUFFICES ASSUME Left # {} PROVE FALSE
  OBVIOUS
<1>2. PICK i \in Left : \A j \in Left : ~ (<<j, i>> \in OpToRel(<, Nat))
  <2>1. Left \subseteq Nat
    OBVIOUS
  <2> HIDE DEF Left
  <2> QED
    BY <1>1, <2>1, NatLessThanWellFounded, WFMin
<1>3. i \in 0 .. n /\ i \notin F
  OBVIOUS
<1>4. ASSUME NEW j \in 0 .. n, j < i PROVE j \in F
  <2>1. <<j, i>> \in OpToRel(<, Nat)
    <3>1. <<j, i>> \in Nat \X Nat /\ <<j, i>>[1] < <<j, i>>[2]
      BY <1>3, <1>4
    <3>2. QED
      BY <3>1, Zenon DEF OpToRel
  <2>2. j \notin Left
    BY <1>2, <2>1
  <2>3. QED
    BY <2>2
<1> HIDE DEF Left
<1>5. i # 0 /\ i - 1 \in 0 .. n /\ i - 1 < i /\ i - 1 < n /\ (i - 1) + 1 = i
  BY <1>3
<1>6. i - 1 \in F
  BY <1>4, <1>5
<1>7. QED
  BY <1>3, <1>5, <1>6

\* f puts the first i lists of seqs one after the other, for each i up to n.
Chains(f, seqs, n) ==
    f = [i \in 1 .. n |-> IF i = 1 THEN seqs[i] ELSE f[i - 1] \o seqs[i]]

\* FlattenSeq is the last value of such a function, if there is one.
LEMMA FlattenIsChosen ==
    ASSUME NEW seqs, Len(seqs) # 0
    PROVE  FlattenSeq(seqs) = (CHOOSE f : Chains(f, seqs, Len(seqs)))[Len(seqs)]
  BY DEF FlattenSeq, Chains

\* Two such functions agree.
LEMMA ChainsAgree ==
    ASSUME NEW seqs, NEW n \in Nat, NEW f, NEW g, Chains(f, seqs, n), Chains(g, seqs, n)
    PROVE  \A i \in 1 .. n : f[i] = g[i]
<1> DEFINE F == {i \in 0 .. n : i # 0 => f[i] = g[i]}
<1>1. ASSUME NEW i \in 0 .. n, i < n, i \in F
      PROVE  i + 1 \in F
  <2>1. i + 1 \in 1 .. n /\ (i + 1) - 1 = i
    BY <1>1
  <2>2. /\ f[i + 1] = IF i = 0 THEN seqs[i + 1] ELSE f[i] \o seqs[i + 1]
        /\ g[i + 1] = IF i = 0 THEN seqs[i + 1] ELSE g[i] \o seqs[i + 1]
    <3> HIDE DEF F
    <3>1. \A j \in 1 .. n : /\ f[j] = IF j = 1 THEN seqs[j] ELSE f[j - 1] \o seqs[j]
                            /\ g[j] = IF j = 1 THEN seqs[j] ELSE g[j - 1] \o seqs[j]
      BY Zenon DEF Chains
    <3>2. i + 1 = 1 <=> i = 0
      OBVIOUS
    <3>3. QED
      BY <2>1, <3>1, <3>2
  <2>3. QED
    BY <1>1, <2>1, <2>2
<1>2. 0 \in F
  OBVIOUS
<1>3. 0 .. n \subseteq F
  <2> HIDE DEF F
  <2> QED
    BY <1>1, <1>2, CountingUp
<1>4. QED
  BY <1>3

\* So FlattenSeq is the last value of any.
LEMMA FlattenUnfolds ==
    ASSUME NEW seqs, Len(seqs) \in Nat \ {0}, NEW f, Chains(f, seqs, Len(seqs))
    PROVE  FlattenSeq(seqs) = f[Len(seqs)]
<1> DEFINE g == CHOOSE h : Chains(h, seqs, Len(seqs))
<1>1. Chains(g, seqs, Len(seqs))
  OBVIOUS
<1>2. g[Len(seqs)] = f[Len(seqs)]
  <2> HIDE DEF g
  <2> QED
    BY <1>1, ChainsAgree
<1>3. QED
  BY <1>2, FlattenIsChosen

\* Such a function exists.
LEMMA ChainsExist ==
    ASSUME NEW seqs, NEW n \in Nat
    PROVE  \E f : Chains(f, seqs, n)
<1> DEFINE F == {i \in 0 .. n : \E f : Chains(f, seqs, i)}
<1>1. 0 \in F
  <2> DEFINE f == [i \in 1 .. 0 |-> seqs]
  <2>1. Chains(f, seqs, 0)
    BY DEF Chains
  <2>2. QED
    BY <2>1
<1>2. ASSUME NEW i \in 0 .. n, i < n, i \in F PROVE i + 1 \in F
  <2>1. PICK f : Chains(f, seqs, i)
    BY <1>2
  <2> DEFINE value(j) == IF j = 1 THEN seqs[j] ELSE f[j - 1] \o seqs[j]
             g == [j \in 1 .. i + 1 |-> value(j)]
  <2>2. \A j \in 1 .. i : f[j] = value(j)
    BY <2>1 DEF Chains
  <2>3. \A j \in 1 .. i + 1 : j # 1 => j - 1 \in 1 .. i /\ j - 1 \in 1 .. i + 1
    OBVIOUS
  <2>4. \A j \in 1 .. i + 1 : j # 1 => g[j - 1] = f[j - 1]
    <3> HIDE DEF value
    <3> QED
      BY <2>2, <2>3
  <2>5. \A j \in 1 .. i + 1 : value(j) = IF j = 1 THEN seqs[j] ELSE g[j - 1] \o seqs[j]
    <3> HIDE DEF g
    <3> QED
      BY <2>4
  <2>6. Chains(g, seqs, i + 1)
    <3>1. g = [j \in 1 .. i + 1 |-> value(j)]
      OBVIOUS
    <3> HIDE DEF g, value
    <3>2. [j \in 1 .. i + 1 |-> value(j)]
              = [j \in 1 .. i + 1 |-> IF j = 1 THEN seqs[j] ELSE g[j - 1] \o seqs[j]]
      BY <2>5
    <3>3. QED
      BY <3>1, <3>2 DEF Chains
  <2>7. i + 1 \in 0 .. n
    BY <1>2
  <2>8. QED
    BY <2>6, <2>7
<1>3. 0 .. n \subseteq F
  <2> HIDE DEF F
  <2> QED
    BY <1>1, <1>2, CountingUp
<1>4. QED
  BY <1>3

\* Lists of elements of S, put one after the other, are a list of elements of S.
LEMMA FlattenKeepsElements ==
    ASSUME NEW S, NEW n \in Nat, NEW seqs \in [1 .. n -> Seq(S)]
    PROVE  FlattenSeq(seqs) \in Seq(S)
<1> DEFINE T == Seq(S)
<1>1. Len(seqs) = n
  <2> HIDE DEF T
  <2> QED
    OBVIOUS
<1>2. CASE n = 0
  <2>1. seqs = <<>>
    <3> HIDE DEF T
    <3> QED
      BY <1>2
  <2>2. FlattenSeq(seqs) = <<>>
    BY <2>1 DEF FlattenSeq
  <2>3. QED
    BY <2>2
<1>3. CASE n # 0
  <2>1. PICK f : Chains(f, seqs, n)
    BY ChainsExist
  <2> DEFINE F == {i \in 0 .. n : i # 0 => f[i] \in T}
  <2>2. ASSUME NEW s \in T, NEW t \in T PROVE s \o t \in T
    BY ConcatProperties
  <2>3. \A j \in 1 .. n : seqs[j] \in T
    OBVIOUS
  <2> HIDE DEF T
  <2>4. ASSUME NEW i \in 0 .. n, i < n, i \in F PROVE i + 1 \in F
    <3>1. i + 1 \in 1 .. n /\ (i + 1) - 1 = i /\ (i + 1 = 1 <=> i = 0)
      BY <2>4
    <3>2. f[i + 1] = IF i = 0 THEN seqs[i + 1] ELSE f[i] \o seqs[i + 1]
      <4>1. \A j \in 1 .. n : f[j] = IF j = 1 THEN seqs[j] ELSE f[j - 1] \o seqs[j]
        BY <2>1, Zenon DEF Chains
      <4> HIDE DEF F
      <4>2. QED
        BY <3>1, <4>1
    <3>3. seqs[i + 1] \in T
      BY <2>3, <3>1
    <3>4. CASE i = 0
      BY <3>1, <3>2, <3>3, <3>4
    <3>5. CASE i # 0
      <4>1. f[i] \in T
        BY <2>4, <3>5
      <4>2. f[i + 1] \in T
        BY <2>2, <3>2, <3>3, <3>5, <4>1
      <4>3. QED
        BY <3>1, <4>2
    <3>6. QED
      BY <3>4, <3>5
  <2>5. 0 .. n \subseteq F
    <3>1. 0 \in F
      OBVIOUS
    <3> HIDE DEF F
    <3> QED
      BY <2>4, <3>1, CountingUp
  <2>6. f[n] \in T
    BY <1>3, <2>5
  <2>7. FlattenSeq(seqs) = f[n]
    BY <1>1, <1>3, <2>1, FlattenUnfolds
  <2>8. QED
    BY <2>6, <2>7 DEF T
<1>4. QED
  BY <1>2, <1>3

-----------------------------------------------------------------------------
(* Pages *)

\* The part of a view that paging reads, and the positions of a page.
At(p, size) == [page |-> p, size |-> size]
Holds(list, v, i) == i - Offset(v) \in DOMAIN PageOf(list, v)

\* Division rounds down.
LEMMA Quotient ==
    ASSUME NEW n \in Nat, NEW d \in Nat \ {0}
    PROVE  /\ n \div d \in Nat
           /\ (n \div d) * d <= n
           /\ n < (n \div d) * d + d
BY Z3

\* Two multiples of a number are at least that number apart.
LEMMA Multiples ==
    ASSUME NEW a \in Nat, NEW b \in Nat, NEW d \in Nat \ {0}, a < b
    PROVE  a * d + d <= b * d
BY Z3

\* The product of natural numbers is one.
LEMMA Product ==
    ASSUME NEW a \in Nat, NEW b \in Nat
    PROVE  a * b \in Nat
BY Z3

\* A page is a run of the list behind its offset.
LEMMA PageOfList ==
    ASSUME NEW S, NEW list \in Seq(S), NEW size \in Nat \ {0}, NEW p \in Nat \ {0}
    PROVE  /\ Offset(At(p, size)) = (p - 1) * size
           /\ (p - 1) * size \in Nat
           /\ \A i \in 1..Len(list) :
                 Holds(list, At(p, size), i)
                     <=> (p - 1) * size < i /\ i <= (p - 1) * size + size
           /\ \A i \in 1..Len(list) : Holds(list, At(p, size), i) =>
                 PageOf(list, At(p, size))[i - (p - 1) * size] = list[i]
<1> DEFINE o == (p - 1) * size
           end == IF o + size > Len(list) THEN Len(list) ELSE o + size
<1>1. Offset(At(p, size)) = o
  BY DEF Offset, At
<1>2. o \in Nat
  BY Product
<1>3. PageOf(list, At(p, size)) = SubSeq(list, o + 1, end)
  BY <1>1 DEF PageOf, At
<1> HIDE DEF o
<1>4. Len(list) \in Nat /\ end \in Nat
  BY <1>2
<1>5. /\ \A k \in 1..(end - o) : SubSeq(list, o + 1, end)[k] = list[o + k]
      /\ DOMAIN SubSeq(list, o + 1, end) = 1..(end - o)
  BY <1>2, <1>4
<1> QED
  BY <1>1, <1>2, <1>3, <1>4, <1>5 DEF Holds, o

\* Every position of a list is on exactly one page, one of those the grid offers,
\* and in its place there (Offset of the handlers, the slices of ListOrders and
\* ListProducts, and the page count of the grid).
THEOREM PagingTheorem ==
    ASSUME NEW S, NEW list \in Seq(S), NEW size \in Nat \ {0},
           NEW i \in 1..Len(list)
    PROVE  \E p \in 1..PageCount(Len(list), size) :
              /\ PageOf(list, At(p, size))[i - Offset(At(p, size))] = list[i]
              /\ \A q \in Nat \ {0} : Holds(list, At(q, size), i) <=> q = p
<1> DEFINE p == ((i - 1) \div size) + 1
           pages == PageCount(Len(list), size)
<1>1. /\ p \in Nat \ {0}
      /\ (p - 1) * size < i
      /\ i <= (p - 1) * size + size
  BY Quotient
<1>2. Len(list) \in Nat \ {0} /\ i \in Nat /\ i <= Len(list)
  OBVIOUS
<1>3. pages \in Nat /\ Len(list) <= pages * size
  <2>1. pages = (Len(list) + size - 1) \div size
    BY <1>2 DEF PageCount
  <2>2. Len(list) + size - 1 \in Nat
    BY <1>2
  <2> QED
    BY <1>2, <2>1, <2>2, Quotient, Product
<1> HIDE DEF p, pages
<1>4. p <= pages
  <2>1. SUFFICES ASSUME pages < p PROVE FALSE
    BY <1>1, <1>3
  <2>2. CASE pages = p - 1
    BY <1>1, <1>2, <1>3, <2>2
  <2>3. CASE pages < p - 1
    <3>1. pages * size + size <= (p - 1) * size
      BY <1>1, <1>3, <2>3, Multiples
    <3> QED
      BY <1>1, <1>2, <1>3, <3>1, Product
  <2> QED
    BY <1>1, <1>3, <2>1, <2>2, <2>3
<1>5. ASSUME NEW q \in Nat \ {0}
      PROVE  Holds(list, At(q, size), i) <=> q = p
  <2>1. Holds(list, At(q, size), i)
            <=> (q - 1) * size < i /\ i <= (q - 1) * size + size
    BY PageOfList
  <2>2. (p - 1) * size \in Nat /\ (q - 1) * size \in Nat
    BY <1>1, Product
  <2>3. CASE q = p
    BY <1>1, <2>1, <2>3
  <2>4. CASE q < p
    <3>1. (q - 1) * size + size <= (p - 1) * size
      BY <1>1, <2>4, Multiples
    <3> QED
      BY <1>1, <1>2, <2>1, <2>2, <2>4, <3>1
  <2>5. CASE p < q
    <3>1. (p - 1) * size + size <= (q - 1) * size
      BY <1>1, <2>5, Multiples
    <3> QED
      BY <1>1, <1>2, <2>1, <2>2, <2>5, <3>1
  <2> QED
    BY <1>1, <2>3, <2>4, <2>5
<1>6. PageOf(list, At(p, size))[i - Offset(At(p, size))] = list[i]
  <2>1. Holds(list, At(p, size), i)
    BY <1>1, <1>5
  <2>2. Offset(At(p, size)) = (p - 1) * size
    BY <1>1, PageOfList
  <2>3. PageOf(list, At(p, size))[i - (p - 1) * size] = list[i]
    BY <1>1, <2>1, PageOfList
  <2> QED
    BY <2>2, <2>3, Zenon
<1>7. p \in 1..PageCount(Len(list), size)
  BY <1>1, <1>3, <1>4 DEF pages
<1>8. WITNESS p \in 1..PageCount(Len(list), size)
<1> QED
  BY <1>5, <1>6

\* The pages of a list up to one end where that page ends.
LEMMA NextPage ==
    ASSUME NEW S, NEW list \in Seq(S), NEW size \in Nat \ {0},
           NEW p \in 1 .. PageCount(Len(list), size)
    PROVE  LET end == IF p * size > Len(list) THEN Len(list) ELSE p * size
           IN  /\ (p - 1) * size \in 0 .. Len(list)
               /\ end \in (p - 1) * size .. Len(list)
               /\ PageOf(list, At(p, size)) = SubSeq(list, (p - 1) * size + 1, end)
               /\ p = PageCount(Len(list), size) => end = Len(list)
<1> DEFINE n == Len(list)
           pages == PageCount(n, size)
<1>1. n \in Nat /\ pages \in Nat /\ p \in 1 .. pages
  <2>1. n \in Nat
    OBVIOUS
  <2>2. pages \in Nat
    BY <2>1, Quotient DEF PageCount
  <2>3. QED
    BY <2>1, <2>2
<1>2. n <= pages * size /\ (pages - 1) * size <= n
  <2>1. CASE n = 0
    BY <2>1 DEF PageCount
  <2>2. CASE n # 0
    <3>1. pages = (n + size - 1) \div size /\ n + size - 1 \in Nat
      BY <1>1, <2>2 DEF PageCount
    <3>2. /\ pages * size <= n + size - 1
          /\ n + size - 1 < pages * size + size
      BY <3>1, Quotient
    <3>3. pages * size \in Nat /\ (pages - 1) * size = pages * size - size
      BY <1>1, Product
    <3>4. QED
      BY <1>1, <3>2, <3>3
  <2>3. QED
    BY <2>1, <2>2
<1>3. (p - 1) * size \in Nat /\ (p - 1) * size <= n
  <2>1. CASE p = pages
    BY <1>1, <1>2, <2>1, Product
  <2>2. CASE p # pages
    <3>1. p - 1 \in Nat /\ pages - 1 \in Nat /\ p - 1 < pages - 1
      BY <1>1, <2>2
    <3>2. (p - 1) * size + size <= (pages - 1) * size
      BY <3>1, Multiples
    <3>3. (p - 1) * size \in Nat /\ (pages - 1) * size \in Nat
      BY <3>1, Product
    <3>4. QED
      BY <1>1, <1>2, <3>2, <3>3
  <2>3. QED
    BY <2>1, <2>2
<1>4. p * size = (p - 1) * size + size
  BY <1>1, Z3
<1>5. PageOf(list, At(p, size)) =
          SubSeq(list, (p - 1) * size + 1, IF p * size > n THEN n ELSE p * size)
  BY <1>4 DEF PageOf, Offset, At
<1> DEFINE o == (p - 1) * size
<1> HIDE DEF n, pages, o
<1>6. QED
  BY <1>1, <1>2, <1>3, <1>4, <1>5 DEF n, pages, o

\* The pages that the grid offers, one after the other, are the list.
THEOREM PagesMakeTheList ==
    ASSUME NEW S, NEW list \in Seq(S), NEW size \in Nat \ {0}
    PROVE  FlattenSeq([p \in 1 .. PageCount(Len(list), size) |->
                          PageOf(list, At(p, size))]) = list
<1> DEFINE n == Len(list)
           pages == PageCount(n, size)
           seqs == [p \in 1 .. pages |-> PageOf(list, At(p, size))]
           end(p) == IF p * size > n THEN n ELSE p * size
           f == [p \in 1 .. pages |-> SubSeq(list, 1, end(p))]
<1>1. n \in Nat /\ pages \in Nat \ {0}
  <2>1. n \in Nat
    OBVIOUS
  <2>2. CASE n = 0
    BY <2>1, <2>2 DEF PageCount
  <2>3. CASE n # 0
    <3>1. pages = (n + size - 1) \div size /\ n + size - 1 \in Nat /\ n + size - 1 >= size
      BY <2>1, <2>3 DEF PageCount
    <3>2. pages \in Nat /\ n + size - 1 < pages * size + size
      BY <3>1, Quotient
    <3>3. pages # 0
      BY <3>1, <3>2
    <3>4. QED
      BY <2>1, <3>2, <3>3
  <2>4. QED
    BY <2>2, <2>3
<1>2. Len(seqs) = pages
  <2> HIDE DEF pages
  <2> QED
    BY <1>1
<1>3. ASSUME NEW p \in 1 .. pages
      PROVE  f[p] = IF p = 1 THEN seqs[p] ELSE f[p - 1] \o seqs[p]
  <2>1. /\ (p - 1) * size \in 0 .. n
        /\ end(p) \in (p - 1) * size .. n
        /\ seqs[p] = SubSeq(list, (p - 1) * size + 1, end(p))
    BY NextPage
  <2>2. CASE p = 1
    <3>1. (p - 1) * size = 0 /\ (p - 1) * size + 1 = 1
      BY <2>2
    <3>2. seqs[p] = SubSeq(list, 1, end(p))
      BY <2>1, <3>1
    <3>3. QED
      BY <2>2, <3>2
  <2>3. CASE p # 1
    <3>1. p - 1 \in 1 .. pages /\ end(p - 1) = (p - 1) * size
      BY <1>1, <2>1, <2>3
    <3>2. f[p - 1] = SubSeq(list, 1, (p - 1) * size)
      BY <3>1
    <3>3. SubSeq(list, 1, (p - 1) * size) \o SubSeq(list, (p - 1) * size + 1, end(p))
              = SubSeq(list, 1, end(p))
      <4> DEFINE k == (p - 1) * size  m == end(p)
      <4>1. 1 \in 1 .. n + 1 /\ k \in 1 - 1 .. n /\ m \in k .. n
        BY <1>1, <2>1
      <4> HIDE DEF k, m
      <4>2. SubSeq(list, 1, k) \o SubSeq(list, k + 1, m) = SubSeq(list, 1, m)
        BY <4>1, ConcatAdjacentSubSeq
      <4>3. QED
        BY <4>2 DEF k, m
    <3>4. QED
      BY <2>1, <2>3, <3>2, <3>3
  <2>4. QED
    BY <2>2, <2>3
<1>4. Chains(f, seqs, pages)
  <2>1. f = [p \in 1 .. pages |-> f[p]]
    OBVIOUS
  <2> HIDE DEF f, seqs, pages
  <2> QED
    BY <1>3, <2>1 DEF Chains
<1>5. f[pages] = list
  <2>1. end(pages) = n
    <3>1. pages \in 1 .. PageCount(Len(list), size)
      BY <1>1
    <3>2. QED
      BY <3>1, NextPage
  <2>2. f[pages] = SubSeq(list, 1, n)
    BY <1>1, <2>1
  <2>3. QED
    BY <2>2, SubSeqFull
<1>6. FlattenSeq(seqs) = f[pages]
  <2> HIDE DEF f, seqs, pages
  <2> QED
    BY <1>1, <1>2, <1>4, FlattenUnfolds
<1>7. QED
  BY <1>5, <1>6

\* Every position is on one of the pages that the grid offers.
LEMMA OnAPage ==
    ASSUME NEW S, NEW list \in Seq(S), NEW size \in Nat \ {0},
           NEW i \in 1 .. Len(list)
    PROVE  \E p \in 1 .. PageCount(Len(list), size) : Holds(list, At(p, size), i)
<1>1. PICK p \in 1 .. PageCount(Len(list), size) :
         \A q \in Nat \ {0} : Holds(list, At(q, size), i) <=> q = p
  BY PagingTheorem
<1>2. p \in Nat \ {0}
  OBVIOUS
<1>3. QED
  BY <1>1, <1>2

\* A later position is on no earlier page, although the lists may differ.
LEMMA LaterPage ==
    ASSUME NEW S, NEW T, NEW size \in Nat \ {0},
           NEW list \in Seq(S), NEW i \in 1 .. Len(list), NEW p \in Nat \ {0},
           NEW more \in Seq(T), NEW j \in 1 .. Len(more), NEW q \in Nat \ {0},
           i <= j, Holds(list, At(p, size), i), Holds(more, At(q, size), j)
    PROVE  p <= q
<1>1. (p - 1) * size < i /\ j <= (q - 1) * size + size
  BY PageOfList
<1>2. i \in Nat /\ j \in Nat /\ (p - 1) * size \in Nat /\ (q - 1) * size \in Nat
  BY PageOfList
<1>3. SUFFICES ASSUME q - 1 < p - 1 PROVE FALSE
  OBVIOUS
<1>4. (q - 1) * size + size <= (p - 1) * size
  BY <1>3, Multiples
<1>5. QED
  BY <1>1, <1>2, <1>4

\* A page has elements of its list, no more than the list has.
LEMMA PageIsAList ==
    ASSUME NEW S, NEW list \in Seq(S), NEW size \in Nat \ {0}, NEW p \in Nat \ {0}
    PROVE  /\ PageOf(list, At(p, size)) \in Seq(S)
           /\ Len(PageOf(list, At(p, size))) \in Nat
           /\ Len(PageOf(list, At(p, size))) <= Len(list)
<1> DEFINE o == (p - 1) * size
           end == IF o + size > Len(list) THEN Len(list) ELSE o + size
<1>1. o \in Nat
  BY Product
<1>2. PageOf(list, At(p, size)) = SubSeq(list, o + 1, end)
  BY DEF PageOf, Offset, At
<1> HIDE DEF o
<1>3. Len(list) \in Nat /\ end \in Nat /\ end <= Len(list)
  BY <1>1
<1> HIDE DEF end
<1>4. \A i \in o + 1 .. end : list[i] \in S
  BY <1>1, <1>3, ElementOfSeq
<1>5. /\ SubSeq(list, o + 1, end) \in Seq(S)
      /\ Len(SubSeq(list, o + 1, end)) = IF o + 1 <= end THEN end - (o + 1) + 1 ELSE 0
  BY <1>1, <1>3, <1>4, SubSeqProperties
<1>6. QED
  BY <1>1, <1>2, <1>3, <1>5
=============================================================================

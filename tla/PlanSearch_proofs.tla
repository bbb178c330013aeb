--------------------------- MODULE PlanSearch_proofs ---------------------------
(***************************************************************************)
(* Proofs about PlanSearch, for any listing, capacity and growth of the    *)
(* slices: the types, that the slices of the calls under way hold what the *)
(* calls chose although they share arrays, that the search returns a best  *)
(* plan, and that a search whose context ends stops in time.               *)
(***************************************************************************)
EXTENDS PlanSearch, Knapsack_proofs, SequenceTheorems

----------------------------------------------------------------------------
(* The rows *)

\* The orders that a call with this index has decided on.
Before(i) == {orders[j].order_id : j \in 1 .. i - 1}

\* The rows are finitely many, with weights and values of their own.
LEMMA RowsTyped ==
    ASSUME orders \in Listings
    PROVE  /\ Len(orders) \in Nat /\ DOMAIN orders = 1 .. Len(orders)
           /\ \A i \in 1 .. Len(orders) :
                 orders[i] \in [order_id : Nat, weight : Nat, value : Nat]
           /\ \A i, j \in 1 .. Len(orders) :
                 orders[i].order_id = orders[j].order_id => i = j
<1> DEFINE R == [order_id : Nat, weight : Nat, value : Nat]
<1>1. orders \in Seq(R)
  BY SearchAssumption
<1>2. /\ Len(orders) \in Nat /\ DOMAIN orders = 1 .. Len(orders)
      /\ \A i \in 1 .. Len(orders) : orders[i] \in R
  <2> HIDE DEF R
  <2> QED
    BY <1>1, LenProperties, ElementOfSeq
<1>3. \A i, j \in DOMAIN orders : orders[i].order_id = orders[j].order_id => i = j
  BY SearchAssumption
<1>4. QED
  BY <1>2, <1>3

\* The weight and the value of an order are those of its row.
LEMMA RowFound ==
    ASSUME orders \in Listings, NEW i \in 1 .. Len(orders)
    PROVE  /\ orders[i].order_id \in Ids
           /\ WeightOf[orders[i].order_id] = orders[i].weight
           /\ ValueOf[orders[i].order_id] = orders[i].value
<1>1. orders[i] \in ToSet(orders) /\ orders[i].order_id \in Ids
  BY RowsTyped DEF ToSet, Ids
<1>2. ASSUME NEW row \in ToSet(orders), row.order_id = orders[i].order_id
      PROVE  row = orders[i]
  BY <1>2, RowsTyped DEF ToSet
<1>3. Row(orders[i].order_id) = orders[i]
  BY <1>1, <1>2 DEF Row
<1>4. QED
  BY <1>1, <1>3 DEF WeightOf, ValueOf

\* Weights and values are natural numbers.
LEMMA RowNumbers ==
    ASSUME orders \in Listings, NEW o \in Ids
    PROVE  WeightOf[o] \in Nat /\ ValueOf[o] \in Nat
<1>1. PICK i \in 1 .. Len(orders) : o = orders[i].order_id
  BY RowsTyped DEF Ids
<1>2. QED
  BY <1>1, RowFound, RowsTyped

\* There are finitely many orders.
LEMMA IdsFinite == ASSUME orders \in Listings PROVE IsFiniteSet(Ids)
<1> DEFINE id == [i \in 1 .. Len(orders) |-> orders[i].order_id]
<1>1. id \in Surjection(1 .. Len(orders), Ids)
  BY RowsTyped DEF Surjection, Ids
<1>2. IsFiniteSet(1 .. Len(orders))
  BY RowsTyped, FS_Interval
<1>3. QED
  BY <1>1, <1>2, FS_Surjection

\* The decisions go through the rows one by one.
LEMMA BeforeGrows ==
    ASSUME orders \in Listings
    PROVE  /\ Before(1) = {}
           /\ Before(Len(orders) + 1) = Ids
           /\ \A i \in 1 .. Len(orders) + 1 : Before(i) \subseteq Ids
           /\ \A i \in 1 .. Len(orders) :
                 /\ Before(i + 1) = Before(i) \cup {orders[i].order_id}
                 /\ orders[i].order_id \notin Before(i)
           /\ \A i, j \in 1 .. Len(orders) + 1 : i <= j => Before(i) \subseteq Before(j)
           /\ \A i, j \in 1 .. Len(orders) + 1 : i < j => orders[i].order_id \in Before(j)
<1> USE RowsTyped DEF Before, Ids
<1>1. Before(1) = {} /\ Before(Len(orders) + 1) = Ids
  OBVIOUS
<1>2. ASSUME NEW i \in 1 .. Len(orders) + 1, NEW j \in 1 .. i - 1
      PROVE  orders[j].order_id \in Ids
  <2>1. j \in 1 .. Len(orders) /\ DOMAIN orders = 1 .. Len(orders)
    OBVIOUS
  <2>2. QED
    BY <2>1
<1>3. ASSUME NEW i \in 1 .. Len(orders)
      PROVE  /\ Before(i + 1) = Before(i) \cup {orders[i].order_id}
             /\ orders[i].order_id \notin Before(i)
  OBVIOUS
<1>4. ASSUME NEW i \in 1 .. Len(orders) + 1, NEW j \in 1 .. Len(orders) + 1
      PROVE  /\ i <= j => Before(i) \subseteq Before(j)
             /\ i < j => orders[i].order_id \in Before(j)
  OBVIOUS
<1>5. \A i \in 1 .. Len(orders) + 1 : Before(i) \subseteq Ids
  <2> HIDE DEF Ids
  <2>1. QED
    BY <1>2
<1>6. QED
  <2> HIDE DEF Ids, Before
  <2>1. QED
    BY <1>1, <1>3, <1>4, <1>5

----------------------------------------------------------------------------
(* Slices over the arrays a *)

\* Every array holds order numbers.
ArraysIn(a) == a \in Seq(Seq(Nat))

\* A slice points into its array and holds no order twice.
SliceIn(a, s) ==
    /\ s \in [array : Nat, len : Nat]
    /\ s.array <= Len(a)
    /\ s.array = 0 => s.len = 0
    /\ s.array # 0 =>
         /\ s.len <= Len(a[s.array])
         /\ \A i, j \in 1 .. s.len : a[s.array][i] = a[s.array][j] => i = j

HeldIn(a, s) == {a[s.array][i] : i \in 1 .. s.len}

\* A slice of the same elements holds the same orders.
LEMMA HeldSame ==
    ASSUME NEW a, NEW b, NEW s, NEW t, s.len = t.len,
           \A i \in 1 .. s.len : a[s.array][i] = b[t.array][i]
    PROVE  HeldIn(a, s) = HeldIn(b, t)
  BY DEF HeldIn

\* The orders of a slice are the elements of its contents.
LEMMA ContentIsHeld ==
    ASSUME ArraysIn(arrays), NEW s, SliceIn(arrays, s)
    PROVE  /\ Content(s) \in Seq(Nat)
           /\ Len(Content(s)) = s.len
           /\ \A i \in 1 .. s.len : Content(s)[i] = arrays[s.array][i]
           /\ ToSet(Content(s)) = HeldIn(arrays, s)
           /\ IsInjective(Content(s))
<1>1. CASE s.array = 0
  <2>1. s = Nil /\ s.len = 0
    BY <1>1 DEF SliceIn, Nil
  <2>2. Content(s) = <<>>
    BY <2>1 DEF Content
  <2>3. QED
    BY <2>1, <2>2 DEF HeldIn, ToSet, IsInjective
<1>2. CASE s.array # 0
  <2>1. /\ s.array \in 1 .. Len(arrays) /\ arrays[s.array] \in Seq(Nat)
        /\ s.len \in Nat /\ s.len <= Len(arrays[s.array]) /\ s # Nil
    BY <1>2 DEF ArraysIn, SliceIn, Nil
  <2>2. Content(s) = SubSeq(arrays[s.array], 1, s.len)
    BY <2>1 DEF Content
  <2>3. \A i \in 1 .. s.len : arrays[s.array][i] \in Nat
    BY <2>1
  <2>4. /\ Content(s) \in Seq(Nat) /\ Len(Content(s)) = s.len
        /\ \A i \in 1 .. s.len : Content(s)[i] = arrays[s.array][i]
    <3> DEFINE arr == arrays[s.array]
               sub == SubSeq(arr, 1, s.len)
    <3>1. /\ sub \in Seq(Nat)
          /\ Len(sub) = IF 1 <= s.len THEN s.len - 1 + 1 ELSE 0
          /\ \A i \in 1 .. s.len - 1 + 1 : sub[i] = arr[1 + i - 1]
      <4>1. \A i \in 1 .. s.len : arr[i] \in Nat
        BY <2>3
      <4> HIDE DEF arr
      <4> QED
        BY <2>1, <4>1, SubSeqProperties
    <3> HIDE DEF arr, sub
    <3>2. Len(sub) = s.len /\ \A i \in 1 .. s.len : sub[i] = arr[i]
      BY <2>1, <3>1
    <3>3. QED
      BY <2>2, <3>1, <3>2 DEF arr, sub
  <2>5. DOMAIN Content(s) = 1 .. s.len
    BY <2>4
  <2>6. ToSet(Content(s)) = HeldIn(arrays, s)
    BY <2>4, <2>5 DEF HeldIn, ToSet
  <2>7. IsInjective(Content(s))
    BY <1>2, <2>4, <2>5 DEF SliceIn, IsInjective
  <2>8. QED
    BY <2>4, <2>6, <2>7
<1>3. QED
  BY <1>1, <1>2

\* A slice whose elements are those of s, and then o.
LEMMA HeldWith ==
    ASSUME NEW a, NEW s, SliceIn(a, s), NEW o, NEW b, NEW t \in [array : Nat, len : Nat],
           t.array \in 1 .. Len(b), t.len = s.len + 1, t.len <= Len(b[t.array]),
           \A i \in 1 .. s.len : b[t.array][i] = a[s.array][i],
           b[t.array][s.len + 1] = o, o \notin HeldIn(a, s)
    PROVE  SliceIn(b, t) /\ HeldIn(b, t) = HeldIn(a, s) \cup {o}
<1>1. s.len \in Nat /\ s.array \in Nat /\ (s.array = 0 => s.len = 0)
  BY DEF SliceIn
<1>2. /\ \A i, j \in 1 .. s.len : a[s.array][i] = a[s.array][j] => i = j
      /\ \A i \in 1 .. s.len : a[s.array][i] # o
  BY <1>1 DEF SliceIn, HeldIn
<1>3. \A i \in 1 .. t.len : i \in 1 .. s.len \/ i = s.len + 1
  BY <1>1
<1>4. /\ s.len + 1 \in 1 .. t.len
      /\ \A i \in 1 .. s.len : i \in 1 .. t.len
  BY <1>1
<1>5. \A i, j \in 1 .. t.len : b[t.array][i] = b[t.array][j] => i = j
  BY <1>2, <1>3
<1>6. SliceIn(b, t)
  BY <1>5 DEF SliceIn
<1>7. HeldIn(b, t) = HeldIn(a, s) \cup {o}
  BY <1>3, <1>4 DEF HeldIn
<1>8. QED
  BY <1>6, <1>7

\* A slice does not notice that there are more arrays.
LEMMA OldSliceKept ==
    ASSUME NEW a, NEW b, Len(a) \in Nat, Len(b) = Len(a) + 1,
           \A i \in 1 .. Len(a) : b[i] = a[i],
           NEW t, SliceIn(a, t)
    PROVE  SliceIn(b, t) /\ HeldIn(b, t) = HeldIn(a, t) /\ t.array # Len(a) + 1
<1>1. /\ t \in [array : Nat, len : Nat] /\ t.array <= Len(a)
      /\ t.array = 0 => t.len = 0
      /\ t.array # 0 => b[t.array] = a[t.array]
  BY DEF SliceIn
<1>2. SliceIn(b, t)
  BY <1>1 DEF SliceIn
<1>3. \A i \in 1 .. t.len : b[t.array][i] = a[t.array][i]
  BY <1>1
<1>4. HeldIn(b, t) = HeldIn(a, t)
  BY <1>3, HeldSame
<1>5. QED
  BY <1>1, <1>2, <1>4

\* append(slice, order) holds the order besides, and leaves alone every slice
\* that does not reach further into the same array.
LEMMA AppendKeeps ==
    ASSUME ArraysIn(arrays), NEW slack \in Nat, NEW s, SliceIn(arrays, s),
           NEW o \in Nat, o \notin HeldIn(arrays, s)
    PROVE  LET b == ArraysAfter(s, o, slack)
           IN  /\ ArraysIn(b) /\ Len(b) >= Len(arrays)
               /\ SliceIn(b, Appended(s))
               /\ HeldIn(b, Appended(s)) = HeldIn(arrays, s) \cup {o}
               /\ Appended(s).len = s.len + 1
               /\ \A t : /\ SliceIn(arrays, t)
                         /\ t.array = s.array => t.len <= s.len
                         => SliceIn(b, t) /\ HeldIn(b, t) = HeldIn(arrays, t)
               /\ \A t : /\ SliceIn(arrays, t) /\ t.array # 0 /\ t.array # s.array
                         => t.array # Appended(s).array
<1> DEFINE b == ArraysAfter(s, o, slack)
<1>1. CASE HasRoom(s)
  <2>1. /\ s.array \in 1 .. Len(arrays) /\ arrays[s.array] \in Seq(Nat)
        /\ s.len \in Nat /\ s.len + 1 <= Len(arrays[s.array])
    BY <1>1 DEF ArraysIn, HasRoom, SliceIn, Nil
  <2>2. b = [arrays EXCEPT ![s.array] = [arrays[s.array] EXCEPT ![s.len + 1] = o]]
    BY <1>1 DEF ArraysAfter
  <2> DEFINE c == [arrays[s.array] EXCEPT ![s.len + 1] = o]
  <2>3. /\ c \in Seq(Nat) /\ Len(c) = Len(arrays[s.array])
        /\ \A i \in 1 .. Len(arrays[s.array]) :
              c[i] = IF i = s.len + 1 THEN o ELSE arrays[s.array][i]
    BY <2>1, ExceptSeq
  <2>4. /\ ArraysIn(b) /\ Len(b) = Len(arrays)
        /\ \A i \in 1 .. Len(arrays) : b[i] = IF i = s.array THEN c ELSE arrays[i]
    <3> HIDE DEF c, b
    <3> QED
      BY <2>1, <2>2, <2>3, ExceptSeq DEF ArraysIn, c
  <2> HIDE DEF b, c
  <2>5. Appended(s) = [array |-> s.array, len |-> s.len + 1]
    BY <1>1 DEF Appended
  <2>6. SliceIn(b, Appended(s)) /\ HeldIn(b, Appended(s)) = HeldIn(arrays, s) \cup {o}
    <3>1. /\ Appended(s).array = s.array /\ Appended(s).len = s.len + 1
          /\ Appended(s) \in [array : Nat, len : Nat]
      BY <2>1, <2>5
    <3>2. \A i \in 1 .. s.len + 1 : b[s.array][i] =
             IF i <= s.len THEN arrays[s.array][i] ELSE o
      <4>1. b[s.array] = c
        BY <2>1, <2>4
      <4>2. \A i \in 1 .. s.len + 1 : i \in 1 .. Len(arrays[s.array])
        BY <2>1
      <4>3. \A i \in 1 .. s.len + 1 : i = s.len + 1 <=> ~ (i <= s.len)
        BY <2>1
      <4>4. QED
        BY <2>3, <4>1, <4>2, <4>3
    <3>3. QED
      <4> DEFINE t == Appended(s)
      <4>0. /\ \A i \in 1 .. s.len : i \in 1 .. s.len + 1 /\ i <= s.len
            /\ s.len + 1 \in 1 .. s.len + 1 /\ ~ (s.len + 1 <= s.len)
        BY <2>1
      <4>1. /\ t \in [array : Nat, len : Nat] /\ t.array \in 1 .. Len(b)
            /\ t.len = s.len + 1 /\ t.len <= Len(b[t.array])
        BY <2>1, <2>3, <2>4, <3>1
      <4>a. /\ \A i \in 1 .. s.len : b[t.array][i] = arrays[s.array][i]
            /\ b[t.array][s.len + 1] = o
        BY <3>1, <3>2, <4>0
      <4>2. SliceIn(b, t) /\ HeldIn(b, t) = HeldIn(arrays, s) \cup {o}
        <5> HIDE DEF t
        <5> QED
          BY <4>1, <4>a, HeldWith
      <4> QED
        BY <4>2 DEF t
  <2>7. ASSUME NEW t, SliceIn(arrays, t), t.array = s.array => t.len <= s.len
        PROVE  SliceIn(b, t) /\ HeldIn(b, t) = HeldIn(arrays, t)
    <3>1. t.array # 0 => t.array \in 1 .. Len(arrays) /\ t.len <= Len(arrays[t.array])
      BY <2>7 DEF SliceIn
    <3>2. \A i \in 1 .. t.len : b[t.array][i] = arrays[t.array][i]
      <4>1. CASE t.array = 0
        BY <2>7, <4>1 DEF SliceIn
      <4>2. CASE t.array # 0 /\ t.array # s.array
        BY <2>4, <3>1, <4>2
      <4>3. CASE t.array # 0 /\ t.array = s.array
        <5>1. b[t.array] = c /\ t.len <= s.len /\ t.len \in Nat
          BY <2>4, <2>7, <3>1, <4>3 DEF SliceIn
        <5>2. ASSUME NEW i \in 1 .. t.len
              PROVE  i \in 1 .. Len(arrays[s.array]) /\ i # s.len + 1
          <6>1. Len(arrays[s.array]) \in Nat /\ s.len \in Nat
            BY <2>1
          <6>2. i \in Nat /\ 1 <= i /\ i <= t.len
            BY <5>1
          <6>3. t.len <= s.len /\ t.len \in Nat
            BY <5>1
          <6>4. s.len + 1 <= Len(arrays[s.array])
            BY <2>1
          <6> QED
            BY <6>1, <6>2, <6>3, <6>4
        <5>3. QED
          BY <2>3, <4>3, <5>1, <5>2
      <4>4. QED
        BY <4>1, <4>2, <4>3
    <3>3. t.array # 0 => Len(b[t.array]) = Len(arrays[t.array])
      BY <2>3, <2>4, <3>1
    <3>4. HeldIn(b, t) = HeldIn(arrays, t)
      BY <3>2, HeldSame
    <3>5. QED
      BY <2>4, <2>7, <3>1, <3>2, <3>3, <3>4 DEF SliceIn
  <2>8. QED
    BY <2>4, <2>5, <2>6, <2>7 DEF b
<1>2. CASE ~ HasRoom(s)
  <2> DEFINE fresh == Len(arrays) + 1
             rest == [i \in 1 .. slack |-> 0]
             c == Content(s) \o <<o>> \o rest
  <2>1. b = Append(arrays, c) /\ Appended(s) = [array |-> fresh, len |-> s.len + 1]
    BY <1>2 DEF ArraysAfter, Appended
  <2>2. /\ Content(s) \in Seq(Nat) /\ Len(Content(s)) = s.len
        /\ \A i \in 1 .. s.len : Content(s)[i] = arrays[s.array][i]
        /\ s.len \in Nat
    BY ContentIsHeld DEF SliceIn
  <2>3. /\ Content(s) \o <<o>> \in Seq(Nat) /\ Len(Content(s) \o <<o>>) = s.len + 1
        /\ \A i \in 1 .. s.len + 1 : (Content(s) \o <<o>>)[i] =
              IF i <= s.len THEN arrays[s.array][i] ELSE o
    <3>1. <<o>> \in Seq(Nat) /\ Len(<<o>>) = 1 /\ <<o>>[1] = o
      OBVIOUS
    <3> DEFINE x == Content(s)
               y == <<o>>
    <3>2. /\ x \o y \in Seq(Nat) /\ Len(x \o y) = Len(x) + Len(y)
          /\ \A i \in 1 .. Len(x) + Len(y) : (x \o y)[i] =
                IF i <= Len(x) THEN x[i] ELSE y[i - Len(x)]
      <4> HIDE DEF x, y
      <4>1. x \in Seq(Nat) /\ y \in Seq(Nat)
        BY <2>2, <3>1 DEF x, y
      <4> QED
        BY <4>1, ConcatProperties
    <3>3. \A i \in 1 .. s.len + 1 : i > s.len => y[i - s.len] = o
      BY <2>2
    <3> HIDE DEF x, y
    <3> QED
      BY <2>2, <3>1, <3>2, <3>3 DEF x, y
  <2>4. /\ c \in Seq(Nat) /\ Len(c) >= s.len + 1
        /\ \A i \in 1 .. s.len + 1 : c[i] = IF i <= s.len THEN arrays[s.array][i] ELSE o
    <3> DEFINE x == Content(s) \o <<o>>
    <3>1. rest \in Seq(Nat) /\ Len(rest) = slack
      OBVIOUS
    <3>2. x \in Seq(Nat) /\ Len(x) = s.len + 1
      BY <2>3
    <3>3. /\ x \o rest \in Seq(Nat) /\ Len(x \o rest) = Len(x) + Len(rest)
          /\ \A i \in 1 .. Len(x) + Len(rest) : (x \o rest)[i] =
                IF i <= Len(x) THEN x[i] ELSE rest[i - Len(x)]
      <4> HIDE DEF x, rest
      <4> QED
        BY <3>1, <3>2, ConcatProperties
    <3>4. /\ s.len + 1 + slack \in Nat /\ s.len + 1 + slack >= s.len + 1
          /\ \A i \in 1 .. s.len + 1 : i \in 1 .. s.len + 1 + slack /\ i <= s.len + 1
      BY <2>2
    <3> HIDE DEF rest
    <3>5. c = x \o rest
      OBVIOUS
    <3> HIDE DEF c
    <3>6. c \in Seq(Nat) /\ Len(c) >= s.len + 1
      BY <3>1, <3>2, <3>3, <3>4, <3>5
    <3>7. \A i \in 1 .. s.len + 1 : c[i] = x[i]
      <4> HIDE DEF x
      <4> QED
        BY <3>1, <3>2, <3>3, <3>4, <3>5
    <3> QED
      BY <2>3, <3>6, <3>7
  <2> HIDE DEF c
  <2>5. /\ ArraysIn(b) /\ Len(b) = fresh /\ b[fresh] = c
        /\ \A i \in 1 .. Len(arrays) : b[i] = arrays[i]
    BY <2>1, <2>4, AppendProperties DEF ArraysIn
  <2> HIDE DEF b
  <2>6. SliceIn(b, Appended(s)) /\ HeldIn(b, Appended(s)) = HeldIn(arrays, s) \cup {o}
    <3>1. /\ Appended(s).array = fresh /\ Appended(s).len = s.len + 1
          /\ Appended(s) \in [array : Nat, len : Nat] /\ fresh \in Nat \ {0}
      BY <2>1, <2>2
    <3>2. \A i \in 1 .. s.len + 1 : b[fresh][i] =
             IF i <= s.len THEN arrays[s.array][i] ELSE o
      BY <2>4, <2>5
    <3>3. QED
      <4> DEFINE t == Appended(s)
      <4> HIDE DEF fresh
      <4>1. /\ t \in [array : Nat, len : Nat] /\ t.array \in 1 .. Len(b)
            /\ t.len = s.len + 1 /\ t.len <= Len(b[t.array])
        BY <2>4, <2>5, <3>1
      <4>0. /\ \A i \in 1 .. s.len : i \in 1 .. s.len + 1 /\ i <= s.len
            /\ s.len + 1 \in 1 .. s.len + 1 /\ ~ (s.len + 1 <= s.len)
        BY <2>2
      <4>2. /\ \A i \in 1 .. s.len : b[t.array][i] = arrays[s.array][i]
            /\ b[t.array][s.len + 1] = o
        BY <3>1, <3>2, <4>0
      <4> HIDE DEF t
      <4>3. SliceIn(b, t) /\ HeldIn(b, t) = HeldIn(arrays, s) \cup {o}
        BY <4>1, <4>2, HeldWith
      <4> QED
        BY <4>3 DEF t
  <2>7. ASSUME NEW t, SliceIn(arrays, t)
        PROVE  SliceIn(b, t) /\ HeldIn(b, t) = HeldIn(arrays, t) /\ t.array # fresh
    <3>1. Len(arrays) \in Nat
      BY DEF ArraysIn
    <3> QED
      BY <2>5, <2>7, <3>1, OldSliceKept
  <2>8. QED
    BY <2>1, <2>5, <2>6, <2>7 DEF b
<1>3. QED
  BY <1>1, <1>2

\* A copy holds the same orders in an array that no other slice has.
LEMMA CopyKeeps ==
    ASSUME ArraysIn(arrays), NEW s, SliceIn(arrays, s)
    PROVE  LET b == Append(arrays, Content(s))
               copy == [array |-> Len(arrays) + 1, len |-> s.len]
           IN  /\ ArraysIn(b) /\ Len(b) = Len(arrays) + 1
               /\ SliceIn(b, copy)
               /\ HeldIn(b, copy) = HeldIn(arrays, s)
               /\ \A t : SliceIn(arrays, t) =>
                     /\ SliceIn(b, t) /\ HeldIn(b, t) = HeldIn(arrays, t)
                     /\ t.array # copy.array
<1> DEFINE b == Append(arrays, Content(s))
           copy == [array |-> Len(arrays) + 1, len |-> s.len]
<1>1. /\ Content(s) \in Seq(Nat) /\ Len(Content(s)) = s.len
      /\ \A i \in 1 .. s.len : Content(s)[i] = arrays[s.array][i]
  BY ContentIsHeld
<1>2. /\ ArraysIn(b) /\ Len(b) = Len(arrays) + 1 /\ b[Len(arrays) + 1] = Content(s)
      /\ \A i \in 1 .. Len(arrays) : b[i] = arrays[i]
  BY <1>1, AppendProperties DEF ArraysIn
<1> HIDE DEF b
<1>3. SliceIn(b, copy) /\ HeldIn(b, copy) = HeldIn(arrays, s)
  <2>1. \A i \in 1 .. s.len : b[copy.array][i] = arrays[s.array][i]
    BY <1>1, <1>2
  <2>2. /\ s.len \in Nat
        /\ \A i, j \in 1 .. s.len : arrays[s.array][i] = arrays[s.array][j] => i = j
    BY DEF SliceIn
  <2>3. HeldIn(b, copy) = HeldIn(arrays, s)
    BY <2>1, HeldSame
  <2>4. QED
    BY <1>1, <1>2, <2>1, <2>2, <2>3 DEF SliceIn
<1>4. ASSUME NEW t, SliceIn(arrays, t)
      PROVE  SliceIn(b, t) /\ HeldIn(b, t) = HeldIn(arrays, t) /\ t.array # copy.array
  <2>1. Len(arrays) \in Nat
    BY DEF ArraysIn
  <2>2. QED
    BY <1>2, <1>4, <2>1, OldSliceKept
<1>5. QED
  BY <1>2, <1>3, <1>4 DEF b

----------------------------------------------------------------------------
(* The calls under way *)

CallRecord == [i : Nat, weight : Nat, value : Nat,
               set : [array : Nat, len : Nat], left : BOOLEAN]

\* A call knows the sums of the orders that it took among the rows before it.
CallIn(a, c) ==
    /\ c.i \in 1 .. Len(orders) + 1
    /\ SliceIn(a, c.set)
    /\ c.set.len <= c.i - 1
    /\ HeldIn(a, c.set) \subseteq Before(c.i)
    /\ c.weight = Total(WeightOf, HeldIn(a, c.set))
    /\ c.value = Total(ValueOf, HeldIn(a, c.set))
    /\ c.left => c.i <= Len(orders)

\* The call d was made below c, which left its order out.
NestedIn(a, c, d) ==
    /\ c.left
    /\ c.i < d.i
    /\ HeldIn(a, c.set) = HeldIn(a, d.set) \cap Before(c.i)
    /\ orders[c.i].order_id \notin HeldIn(a, d.set)
    /\ c.set.len <= d.set.len

Stack(a, cs) ==
    /\ cs \in Seq(CallRecord)
    /\ \A k \in 1 .. Len(cs) : CallIn(a, cs[k])
    /\ \A j, k \in 1 .. Len(cs) : j < k => NestedIn(a, cs[j], cs[k])

\* A stack without its last call is a stack.
LEMMA Popped ==
    ASSUME NEW a, NEW cs, Stack(a, cs), cs # <<>>
    PROVE  /\ Len(cs) \in Nat \ {0}
           /\ Stack(a, Front(cs)) /\ Len(Front(cs)) = Len(cs) - 1
           /\ \A k \in 1 .. Len(cs) - 1 : Front(cs)[k] = cs[k]
           /\ \A k \in 1 .. Len(Front(cs)) : Front(cs)[k] = cs[k] /\ k \in 1 .. Len(cs)
<1>1. /\ cs \in Seq(CallRecord) /\ Len(cs) \in Nat \ {0}
      /\ \A k \in 1 .. Len(cs) : cs[k] \in CallRecord
  <2>1. cs \in Seq(CallRecord)
    BY DEF Stack
  <2>2. QED
    BY <2>1, EmptySeq, LenProperties, ElementOfSeq
<1>2. /\ Front(cs) \in Seq(CallRecord)
      /\ Len(Front(cs)) = IF 1 <= Len(cs) - 1 THEN Len(cs) - 1 - 1 + 1 ELSE 0
      /\ \A k \in 1 .. Len(cs) - 1 - 1 + 1 : Front(cs)[k] = cs[1 + k - 1]
  <2>1. \A k \in 1 .. Len(cs) - 1 : cs[k] \in CallRecord
    BY <1>1
  <2>2. Len(cs) - 1 \in Int
    BY <1>1
  <2>3. QED
    BY <2>1, <2>2, SubSeqProperties DEF Front
<1>3. Len(Front(cs)) = Len(cs) - 1 /\ \A k \in 1 .. Len(cs) - 1 : Front(cs)[k] = cs[k]
  <2>1. ASSUME NEW n \in Nat \ {0}
        PROVE  n - 1 - 1 + 1 = n - 1 /\ (1 <= n - 1 \/ n - 1 = 0)
    OBVIOUS
  <2>2. \A k \in 1 .. Len(cs) - 1 : 1 + k - 1 = k
    BY <1>1
  <2>3. QED
    BY <1>1, <1>2, <2>1, <2>2
<1>4. \A k \in 1 .. Len(cs) - 1 : k \in 1 .. Len(cs)
  BY <1>1
<1>5. QED
  BY <1>1, <1>2, <1>3, <1>4 DEF Stack

\* A call may be put on a stack that it is nested in.
LEMMA Pushed ==
    ASSUME NEW a, NEW cs, Stack(a, cs), NEW c \in CallRecord, CallIn(a, c),
           \A k \in 1 .. Len(cs) : NestedIn(a, cs[k], c)
    PROVE  /\ Len(cs) \in Nat
           /\ Stack(a, Append(cs, c)) /\ Len(Append(cs, c)) = Len(cs) + 1
           /\ \A k \in 1 .. Len(cs) : Append(cs, c)[k] = cs[k]
           /\ Append(cs, c)[Len(cs) + 1] = c
<1> DEFINE ds == Append(cs, c)
<1>1. /\ ds \in Seq(CallRecord) /\ Len(ds) = Len(cs) + 1 /\ Len(cs) \in Nat
      /\ \A k \in 1 .. Len(cs) : ds[k] = cs[k]
      /\ ds[Len(cs) + 1] = c
  <2>1. cs \in Seq(CallRecord)
    BY DEF Stack
  <2>2. QED
    BY <2>1, LenProperties, AppendProperties
<1> HIDE DEF ds
<1>2. \A k \in 1 .. Len(ds) : k \in 1 .. Len(cs) \/ k = Len(cs) + 1
  BY <1>1
<1>3. \A j, k \in 1 .. Len(ds) : j < k => j \in 1 .. Len(cs)
  BY <1>1
<1>4. Stack(a, ds)
  BY <1>1, <1>2, <1>3 DEF Stack
<1>5. QED
  BY <1>1, <1>4 DEF ds

\* A call may say that it has left its order out.
LEMMA Marked ==
    ASSUME NEW a, NEW cs, Stack(a, cs), cs # <<>>, cs[Len(cs)].i <= Len(orders)
    PROVE  LET ds == [cs EXCEPT ![Len(cs)].left = TRUE]
           IN  /\ Stack(a, ds) /\ Len(ds) = Len(cs) /\ Len(cs) \in Nat \ {0}
               /\ \A k \in 1 .. Len(cs) - 1 : ds[k] = cs[k]
               /\ ds[Len(cs)] = [cs[Len(cs)] EXCEPT !.left = TRUE]
<1> DEFINE ds == [cs EXCEPT ![Len(cs)].left = TRUE]
           top == [cs[Len(cs)] EXCEPT !.left = TRUE]
<1>1. /\ cs \in Seq(CallRecord) /\ Len(cs) \in Nat \ {0}
      /\ \A k \in 1 .. Len(cs) : cs[k] \in CallRecord
  <2>1. cs \in Seq(CallRecord)
    BY DEF Stack
  <2>2. QED
    BY <2>1, EmptySeq, LenProperties, ElementOfSeq
<1>2. /\ top \in CallRecord /\ top.i = cs[Len(cs)].i /\ top.set = cs[Len(cs)].set
      /\ top.weight = cs[Len(cs)].weight /\ top.value = cs[Len(cs)].value
      /\ top.left
  <2> DEFINE last == cs[Len(cs)]
  <2>1. last \in CallRecord
    BY <1>1
  <2> HIDE DEF last
  <2>2. /\ [last EXCEPT !.left = TRUE] \in CallRecord
        /\ [last EXCEPT !.left = TRUE].i = last.i
        /\ [last EXCEPT !.left = TRUE].set = last.set
        /\ [last EXCEPT !.left = TRUE].weight = last.weight
        /\ [last EXCEPT !.left = TRUE].value = last.value
        /\ [last EXCEPT !.left = TRUE].left
    BY <2>1 DEF CallRecord
  <2>3. QED
    BY <2>2 DEF last
<1>3. /\ ds \in Seq(CallRecord) /\ Len(ds) = Len(cs)
      /\ \A k \in 1 .. Len(cs) : ds[k] = IF k = Len(cs) THEN top ELSE cs[k]
  <2>1. ds = [cs EXCEPT ![Len(cs)] = top]
    OBVIOUS
  <2> HIDE DEF ds, top
  <2>2. Len(cs) \in 1 .. Len(cs)
    BY <1>1
  <2>3. QED
    BY <1>1, <1>2, <2>1, <2>2, ExceptSeq
<1> HIDE DEF ds, top
<1>4. CallIn(a, top)
  <2>1. CallIn(a, cs[Len(cs)])
    BY <1>1 DEF Stack
  <2>2. QED
    BY <1>2, <2>1 DEF CallIn
<1>5. \A j \in 1 .. Len(cs) : j < Len(cs) => NestedIn(a, cs[j], top)
  <2>1. \A j \in 1 .. Len(cs) : j < Len(cs) => NestedIn(a, cs[j], cs[Len(cs)])
    BY <1>1 DEF Stack
  <2>2. QED
    BY <1>2, <2>1 DEF NestedIn
<1>6. Stack(a, ds)
  <2>1. \A k \in 1 .. Len(ds) : CallIn(a, ds[k])
    BY <1>3, <1>4 DEF Stack
  <2>2. ASSUME NEW j \in 1 .. Len(ds), NEW k \in 1 .. Len(ds), j < k
        PROVE  NestedIn(a, ds[j], ds[k])
    <3>1. ds[j] = cs[j]
      BY <1>1, <1>3, <2>2
    <3>2. QED
      BY <1>1, <1>3, <1>5, <2>2, <3>1 DEF Stack
  <2>3. QED
    BY <1>3, <2>1, <2>2 DEF Stack
<1>7. QED
  BY <1>1, <1>3, <1>6 DEF ds, top

\* Arrays that keep the slices of a stack keep the stack.
LEMMA StackKept ==
    ASSUME NEW a, NEW b, NEW cs, Stack(a, cs),
           \A k \in 1 .. Len(cs) : /\ SliceIn(b, cs[k].set)
                                   /\ HeldIn(b, cs[k].set) = HeldIn(a, cs[k].set)
    PROVE  Stack(b, cs)
<1>1. \A k \in 1 .. Len(cs) : CallIn(b, cs[k])
  BY DEF Stack, CallIn
<1>2. \A j, k \in 1 .. Len(cs) : j < k => NestedIn(b, cs[j], cs[k])
  BY DEF Stack, NestedIn
<1>3. QED
  BY <1>1, <1>2 DEF Stack

----------------------------------------------------------------------------
(* What the search knows *)

\* The choices p that agree with a call and that it has still to look at.
Undecided(a, c, p) ==
    /\ HeldIn(a, c.set) = p \cap Before(c.i)
    /\ c.left => orders[c.i].order_id \in p

\* No carriable choice that was looked at has a better value than v.
Explored(a, cs, v) ==
    \A p \in SUBSET Ids : Total(WeightOf, p) <= robotCapacity =>
        \/ Total(ValueOf, p) <= v
        \/ \E k \in 1 .. Len(cs) : Undecided(a, cs[k], p)

\* The slice holds a plan of the value v in which every order counts.
Best(a, s, v) ==
    /\ SliceIn(a, s) /\ s.len <= Len(orders)
    /\ HeldIn(a, s) \subseteq Ids
    /\ v \in Nat /\ v = Total(ValueOf, HeldIn(a, s))
    /\ IF robotCapacity < 0 THEN HeldIn(a, s) = {}
       ELSE Total(WeightOf, HeldIn(a, s)) <= robotCapacity
    /\ \A o \in HeldIn(a, s) : ValueOf[o] > 0

\* No call has the array of the best plan.
Apart(s, cs) == s.array # 0 => \A k \in 1 .. Len(cs) : cs[k].set.array # s.array

Input == orders \in Listings /\ robotCapacity \in Capacities

\* The arguments are of their types.
LEMMA InputTyped ==
    ASSUME Input
    PROVE  /\ robotCapacity \in Int
           /\ IsFiniteSet(Ids)
           /\ \A o \in Ids : WeightOf[o] \in Nat /\ ValueOf[o] \in Nat
           /\ \A o \in Ids : WeightOf[o] \in Int /\ ValueOf[o] \in Int
           /\ \A p \in SUBSET Ids :
                 Total(WeightOf, p) \in Int /\ Total(ValueOf, p) \in Int
<1>1. robotCapacity \in Int
  BY SearchAssumption DEF Input
<1>2. IsFiniteSet(Ids)
  BY IdsFinite DEF Input
<1>3. \A o \in Ids : WeightOf[o] \in Nat /\ ValueOf[o] \in Nat
  BY RowNumbers DEF Input
<1>4. \A o \in Ids : WeightOf[o] \in Int /\ ValueOf[o] \in Int
  BY <1>3
<1>5. \A p \in SUBSET Ids : Total(WeightOf, p) \in Int /\ Total(ValueOf, p) \in Int
  BY <1>2, <1>4, TotalInt
<1>6. QED
  BY <1>1, <1>2, <1>3, <1>4, <1>5

\* A call that is too heavy has nothing left to look at.
LEMMA TooHeavy ==
    ASSUME Input, NEW a, NEW c \in CallRecord, CallIn(a, c), c.weight > robotCapacity,
           NEW p \in SUBSET Ids, Total(WeightOf, p) <= robotCapacity
    PROVE  ~ Undecided(a, c, p)
<1> SUFFICES ASSUME Undecided(a, c, p) PROVE FALSE
  OBVIOUS
<1> DEFINE h == HeldIn(a, c.set)
<1>1. h \subseteq p /\ h \in SUBSET Ids /\ c.weight = Total(WeightOf, h)
  BY DEF Undecided, CallIn
<1>2. Total(WeightOf, h) <= Total(WeightOf, p)
  <2> HIDE DEF h
  <2> QED
    BY <1>1, InputTyped, TotalGrows
<1>3. QED
  <2>1. Total(WeightOf, h) \in Int /\ Total(WeightOf, p) \in Int /\ robotCapacity \in Int
    BY <1>1, InputTyped
  <2> HIDE DEF h
  <2>2. QED
    BY <1>1, <1>2, <2>1

\* A call at the end of the rows has its own choice left.
LEMMA OnlyItself ==
    ASSUME Input, NEW a, NEW c \in CallRecord, CallIn(a, c), c.i > Len(orders),
           NEW p \in SUBSET Ids, Undecided(a, c, p)
    PROVE  p = HeldIn(a, c.set)
<1>1. c.i = Len(orders) + 1
  BY RowsTyped DEF CallIn, Input
<1>2. Before(c.i) = Ids
  BY <1>1, BeforeGrows DEF Input
<1>3. QED
  BY <1>2 DEF Undecided

\* The search goes on without the last call, when that has nothing left that
\* is better.
LEMMA ReturnExplores ==
    ASSUME NEW a, NEW cs, Stack(a, cs), cs # <<>>, NEW v, NEW w, Explored(a, cs, v),
           \A p \in SUBSET Ids : Total(ValueOf, p) <= v => Total(ValueOf, p) <= w,
           \A p \in SUBSET Ids :
              Total(WeightOf, p) <= robotCapacity /\ Undecided(a, cs[Len(cs)], p)
              => Total(ValueOf, p) <= w
    PROVE  Explored(a, Front(cs), w)
<1> SUFFICES ASSUME NEW p \in SUBSET Ids, Total(WeightOf, p) <= robotCapacity,
                    ~ (Total(ValueOf, p) <= w)
             PROVE  \E k \in 1 .. Len(Front(cs)) : Undecided(a, Front(cs)[k], p)
  BY DEF Explored
<1>1. PICK k \in 1 .. Len(cs) : Undecided(a, cs[k], p)
  BY DEF Explored
<1>2. k # Len(cs)
  BY <1>1
<1>3. k \in 1 .. Len(cs) - 1
  BY <1>2, Popped
<1>4. Front(cs)[k] = cs[k] /\ Len(Front(cs)) = Len(cs) - 1
  BY <1>3, Popped
<1>5. QED
  BY <1>1, <1>3, <1>4

\* Arrays that keep the slices keep what is to be looked at.
LEMMA ExploredKept ==
    ASSUME NEW a, NEW b, NEW cs, NEW v, Explored(a, cs, v),
           \A k \in 1 .. Len(cs) : HeldIn(b, cs[k].set) = HeldIn(a, cs[k].set)
    PROVE  Explored(b, cs, v)
  BY DEF Explored, Undecided

\* A choice that is better than all before it has no order without value: the
\* search leaves an order out before it takes it.
LEMMA NothingIdle ==
    ASSUME Input, NEW a, NEW cs, Stack(a, cs), cs # <<>>, NEW v, v \in Int,
           Explored(a, cs, v),
           cs[Len(cs)].i > Len(orders), ~ cs[Len(cs)].left,
           cs[Len(cs)].weight <= robotCapacity, cs[Len(cs)].value > v
    PROVE  \A o \in HeldIn(a, cs[Len(cs)].set) : ValueOf[o] > 0
<1> DEFINE n == Len(cs)
           c == cs[n]
           h == HeldIn(a, c.set)
<1>1. n \in Nat \ {0} /\ n \in 1 .. n
  BY Popped
<1>2. CallIn(a, c) /\ c \in CallRecord
  BY <1>1, ElementOfSeq DEF Stack
<1>3. h \in SUBSET Ids /\ c.weight = Total(WeightOf, h) /\ c.value = Total(ValueOf, h)
  BY <1>2, BeforeGrows DEF CallIn, Input
<1> SUFFICES ASSUME NEW o \in h, ~ (ValueOf[o] > 0) PROVE FALSE
  OBVIOUS
<1> DEFINE p == h \ {o}
<1>4. p \in SUBSET Ids /\ p \subseteq h
  BY <1>3
<1>5. ValueOf[o] = 0
  BY <1>3, InputTyped
<1>6. Total(ValueOf, p) = c.value
  <2>1. Total(ValueOf, h) = ValueOf[o] + Total(ValueOf, p)
    <3>1. /\ IsFiniteSet(Ids) /\ h \in SUBSET Ids /\ o \in h
          /\ \A x \in Ids : ValueOf[x] \in Int
      BY <1>3, InputTyped
    <3> HIDE DEF h
    <3> QED
      BY <3>1, TotalWithout
  <2>2. Total(ValueOf, p) \in Int
    BY <1>4, InputTyped
  <2> HIDE DEF h, p, c
  <2>3. QED
    BY <1>3, <1>5, <2>1, <2>2
<1>7. Total(WeightOf, p) <= robotCapacity
  <2>1. Total(WeightOf, p) <= Total(WeightOf, h)
    <3> HIDE DEF h, p
    <3> QED
      BY <1>3, <1>4, InputTyped, TotalGrows
  <2>2. /\ Total(WeightOf, p) \in Int /\ Total(WeightOf, h) \in Int
        /\ robotCapacity \in Int
    BY <1>3, <1>4, InputTyped
  <2>3. Total(WeightOf, h) <= robotCapacity
    BY <1>3
  <2> HIDE DEF h, p, c
  <2>4. QED
    BY <2>1, <2>2, <2>3
<1>8. ~ (Total(ValueOf, p) <= v)
  <2>1. Total(ValueOf, p) \in Int /\ c.value > v
    BY <1>4, InputTyped
  <2> HIDE DEF c, p
  <2>2. QED
    BY <1>6, <2>1
<1>9. PICK k \in 1 .. n : Undecided(a, cs[k], p)
  <2> HIDE DEF p
  <2> QED
    BY <1>4, <1>7, <1>8 DEF Explored
<1>10. CASE k = n
  <2>1. p = h
    BY <1>2, <1>4, <1>9, <1>10, OnlyItself
  <2>2. QED
    BY <2>1
<1>11. CASE k # n
  <2>1. NestedIn(a, cs[k], c)
    BY <1>1, <1>11 DEF Stack
  <2>2. orders[cs[k].i].order_id \in p
    BY <1>9, <2>1 DEF Undecided, NestedIn
  <2>3. QED
    BY <1>4, <2>1, <2>2 DEF NestedIn
<1>12. QED
  BY <1>10, <1>11

----------------------------------------------------------------------------
(* The invariant of the search, step by step *)

SearchInv ==
    /\ Input
    /\ ArraysIn(arrays)
    /\ Stack(arrays, calls)
    /\ Best(arrays, bestSet, bestValue)
    /\ Apart(bestSet, calls)
    /\ result # "canceled" => Explored(arrays, calls, bestValue)
    /\ result \in {"none", "plan", "canceled"}
    /\ result = "none" <=> calls # <<>>

\* The arguments do not change, and what is said of them stays.
LEMMA InputStays ==
    ASSUME UNCHANGED input, Input, ArraysIn(arrays'), Stack(arrays', calls'),
           Best(arrays', bestSet', bestValue'), Apart(bestSet', calls'),
           result' # "canceled" => Explored(arrays', calls', bestValue'),
           result' \in {"none", "plan", "canceled"},
           result' = "none" <=> calls' # <<>>
    PROVE  SearchInv'
<1>1. orders' = orders /\ robotCapacity' = robotCapacity
  BY DEF input
<1>2. Ids' = Ids /\ WeightOf' = WeightOf /\ ValueOf' = ValueOf
  BY <1>1 DEF Ids, WeightOf, ValueOf, Row
<1>3. \A i : Before(i)' = Before(i)
  BY <1>1 DEF Before
<1>4. Input'
  BY <1>1 DEF Input
<1>5. Stack(arrays, calls)'
  BY <1>1, <1>2, <1>3 DEF Stack, CallIn, NestedIn
<1>6. Best(arrays, bestSet, bestValue)'
  BY <1>1, <1>2, <1>3 DEF Best
<1>7. Explored(arrays', calls', bestValue') => Explored(arrays, calls, bestValue)'
  BY <1>1, <1>2, <1>3 DEF Explored, Undecided
<1>8. QED
  BY <1>4, <1>5, <1>6, <1>7 DEF SearchInv

\* The call on top of the stack.
LEMMA TopTyped ==
    ASSUME SearchInv, calls # <<>>
    PROVE  /\ Len(calls) \in Nat \ {0} /\ Len(calls) \in 1 .. Len(calls)
           /\ Top = calls[Len(calls)] /\ Top \in CallRecord
           /\ CallIn(arrays, Top) /\ SliceIn(arrays, Top.set)
           /\ \A k \in 1 .. Len(calls) : SliceIn(arrays, calls[k].set)
           /\ Top.i \in 1 .. Len(orders) + 1 /\ Len(orders) \in Nat
           /\ result = "none" /\ Explored(arrays, calls, bestValue)
<1>1. Len(calls) \in Nat \ {0} /\ Len(calls) \in 1 .. Len(calls)
  BY Popped DEF SearchInv
<1>2. Top = calls[Len(calls)]
  BY DEF Top, Last
<1>3. Top \in CallRecord /\ CallIn(arrays, Top)
  BY <1>1, <1>2, ElementOfSeq DEF SearchInv, Stack
<1>4. \A k \in 1 .. Len(calls) : SliceIn(arrays, calls[k].set)
  BY DEF SearchInv, Stack, CallIn
<1>5. Len(orders) \in Nat
  BY RowsTyped DEF SearchInv, Input
<1>6. QED
  BY <1>1, <1>2, <1>3, <1>4, <1>5 DEF CallIn, SearchInv

\* Returning from the last call ends the search, from another goes on with it.
LEMMA ReturnEnds ==
    ASSUME SearchInv, calls # <<>>, Return
    PROVE  /\ calls' = Front(calls) /\ Stack(arrays, calls')
           /\ result' \in {"none", "plan", "canceled"}
           /\ result' = "none" <=> calls' # <<>>
<1>1. /\ Len(calls) \in Nat \ {0} /\ Stack(arrays, Front(calls))
      /\ Len(Front(calls)) = Len(calls) - 1
  BY Popped DEF SearchInv
<1>2. Front(calls) \in Seq(CallRecord)
  BY <1>1 DEF Stack
<1>3. Front(calls) = <<>> <=> Len(calls) = 1
  BY <1>1, <1>2, EmptySeq
<1>4. QED
  BY <1>1, <1>3 DEF Return

\* A call that is too heavy.
LEMMA PruneKeeps == SearchInv /\ Prune => SearchInv'
<1> SUFFICES ASSUME SearchInv, Prune PROVE SearchInv'
  OBVIOUS
<1>1. /\ calls # <<>> /\ Return /\ Top.weight > robotCapacity
      /\ UNCHANGED <<input, arrays, bestValue, bestSet>>
  BY DEF Prune
<1>2. Explored(arrays, Front(calls), bestValue)
  <2>1. \A p \in SUBSET Ids :
           ~ (Total(WeightOf, p) <= robotCapacity /\ Undecided(arrays, Top, p))
    BY <1>1, TopTyped, TooHeavy DEF SearchInv
  <2>2. QED
    BY <1>1, <2>1, TopTyped, ReturnExplores DEF SearchInv
<1>3. Apart(bestSet, Front(calls))
  <2>1. \A k \in 1 .. Len(Front(calls)) :
           Front(calls)[k] = calls[k] /\ k \in 1 .. Len(calls)
    BY <1>1, Popped DEF SearchInv
  <2>2. QED
    BY <2>1 DEF Apart, SearchInv
<1>4. QED
  BY <1>1, <1>2, <1>3, ReturnEnds, InputStays DEF SearchInv

\* The end of the rows.
LEMMA LeafKeeps == SearchInv /\ Leaf => SearchInv'
<1> SUFFICES ASSUME SearchInv, Leaf PROVE SearchInv'
  OBVIOUS
<1>1. /\ calls # <<>> /\ Return /\ ~ Top.left /\ Top.weight <= robotCapacity
      /\ Top.i > Len(orders) /\ UNCHANGED input
  BY DEF Leaf, CountStep
<1>2. Input /\ ArraysIn(arrays) /\ Stack(arrays, calls)
  BY DEF SearchInv
<1>3. \A p \in SUBSET Ids : Undecided(arrays, Top, p) => Total(ValueOf, p) = Top.value
  BY <1>1, <1>2, TopTyped, OnlyItself DEF CallIn
<1>4. Top.value \in Nat /\ Top.weight \in Nat /\ bestValue \in Nat
  BY <1>1, TopTyped DEF CallRecord, SearchInv, Best
<1>5. CASE Top.value > bestValue
  <2> DEFINE copy == [array |-> Len(arrays) + 1, len |-> Top.set.len]
             b == Append(arrays, Content(Top.set))
  <2>1. bestValue' = Top.value /\ bestSet' = copy /\ arrays' = b
    BY <1>5 DEF Leaf
  <2>2. /\ ArraysIn(b) /\ SliceIn(b, copy)
        /\ HeldIn(b, copy) = HeldIn(arrays, Top.set)
        /\ \A t : SliceIn(arrays, t) =>
              SliceIn(b, t) /\ HeldIn(b, t) = HeldIn(arrays, t) /\ t.array # copy.array
    <3>1. SliceIn(arrays, Top.set)
      BY <1>1, TopTyped
    <3>2. QED
      BY <1>2, <3>1, CopyKeeps
  <2> HIDE DEF b, copy
  <2>3. Explored(arrays, Front(calls), Top.value)
    <3>1. \A p \in SUBSET Ids :
             Total(ValueOf, p) <= bestValue => Total(ValueOf, p) <= Top.value
      BY <1>2, <1>4, <1>5, InputTyped
    <3>2. \A p \in SUBSET Ids :
             Undecided(arrays, Top, p) => Total(ValueOf, p) <= Top.value
      BY <1>3, <1>4
    <3>3. QED
      BY <1>1, <1>2, <3>1, <3>2, TopTyped, ReturnExplores
  <2>4. /\ \A k \in 1 .. Len(Front(calls)) : Front(calls)[k] = calls[k]
        /\ \A k \in 1 .. Len(Front(calls)) : k \in 1 .. Len(calls)
        /\ Stack(arrays, Front(calls))
    BY <1>1, <1>2, Popped
  <2>5. \A k \in 1 .. Len(Front(calls)) :
           /\ SliceIn(b, Front(calls)[k].set)
           /\ HeldIn(b, Front(calls)[k].set) = HeldIn(arrays, Front(calls)[k].set)
           /\ Front(calls)[k].set.array # copy.array
    BY <1>1, <2>2, <2>4, TopTyped
  <2>6. Explored(b, Front(calls), Top.value) /\ Stack(b, Front(calls))
    BY <2>3, <2>4, <2>5, ExploredKept, StackKept
  <2>7. Apart(copy, Front(calls))
    BY <2>5 DEF Apart
  <2>8. Best(b, copy, Top.value)
    <3>1. copy.len = Top.set.len /\ copy.len <= Len(orders)
      BY <1>1, TopTyped DEF copy, CallIn, SliceIn
    <3>2. /\ HeldIn(arrays, Top.set) \subseteq Ids
          /\ Top.value = Total(ValueOf, HeldIn(arrays, Top.set))
          /\ Top.weight = Total(WeightOf, HeldIn(arrays, Top.set))
      BY <1>1, <1>2, TopTyped, BeforeGrows DEF CallIn, Input
    <3>3. \A o \in HeldIn(arrays, Top.set) : ValueOf[o] > 0
      BY <1>1, <1>2, <1>4, <1>5, TopTyped, NothingIdle
    <3>4. ~ (robotCapacity < 0)
      BY <1>1, <1>2, <1>4, InputTyped
    <3>5. QED
      BY <1>1, <1>4, <2>2, <3>1, <3>2, <3>3, <3>4 DEF Best
  <2>9. QED
    BY <1>1, <1>2, <2>1, <2>2, <2>6, <2>7, <2>8, ReturnEnds, InputStays
<1>6. CASE ~ (Top.value > bestValue)
  <2>1. UNCHANGED <<bestValue, bestSet, arrays>>
    BY <1>6 DEF Leaf
  <2>2. Explored(arrays, Front(calls), bestValue)
    <3>1. \A p \in SUBSET Ids :
             Undecided(arrays, Top, p) => Total(ValueOf, p) <= bestValue
      BY <1>3, <1>4, <1>6
    <3>2. QED
      BY <1>1, <1>2, <3>1, TopTyped, ReturnExplores
  <2>3. Apart(bestSet, Front(calls))
    <3>1. \A k \in 1 .. Len(Front(calls)) :
             Front(calls)[k] = calls[k] /\ k \in 1 .. Len(calls)
      BY <1>1, <1>2, Popped
    <3>2. QED
      BY <3>1 DEF Apart, SearchInv
  <2>4. QED
    BY <1>1, <2>1, <2>2, <2>3, ReturnEnds, InputStays DEF SearchInv
<1>7. QED
  BY <1>5, <1>6

\* The context is over: every call returns.
LEMMA CancelKeeps == SearchInv /\ Cancel => SearchInv'
<1> SUFFICES ASSUME SearchInv, Cancel PROVE SearchInv'
  OBVIOUS
<1>1. calls' = <<>> /\ result' = "canceled" /\ UNCHANGED <<input, arrays, bestValue, bestSet>>
  BY DEF Cancel
<1>2. Stack(arrays, <<>>)
  <2>1. <<>> \in Seq(CallRecord) /\ Len(<<>>) = 0
    BY EmptySeq
  <2>2. QED
    BY <2>1 DEF Stack
<1>3. Apart(bestSet, <<>>)
  <2>1. Len(<<>>) = 0
    OBVIOUS
  <2>2. QED
    BY <2>1 DEF Apart
<1>4. QED
  BY <1>1, <1>2, <1>3, InputStays DEF SearchInv

\* The order is left out.
LEMMA LeaveOutKeeps == SearchInv /\ LeaveOut => SearchInv'
<1> SUFFICES ASSUME SearchInv, LeaveOut PROVE SearchInv'
  OBVIOUS
<1> DEFINE n == Len(calls)
           ms == [calls EXCEPT ![n].left = TRUE]
           c == Call(Top.i + 1, Top.weight, Top.value, Top.set)
           id == orders[Top.i].order_id
<1>1. /\ calls # <<>> /\ ~ Top.left /\ Top.i <= Len(orders)
      /\ calls' = Append(ms, c)
      /\ UNCHANGED <<input, arrays, bestValue, bestSet, result>>
  BY DEF LeaveOut, CountStep
<1>2. Input /\ Stack(arrays, calls) /\ n \in Nat \ {0} /\ n \in 1 .. n /\ Top = calls[n]
  BY <1>1, TopTyped DEF SearchInv
<1>3. /\ Top \in CallRecord /\ CallIn(arrays, Top) /\ Top.i \in 1 .. Len(orders)
      /\ Len(orders) \in Nat
  BY <1>1, TopTyped DEF CallRecord
<1>4. /\ c \in CallRecord /\ c.i = Top.i + 1 /\ c.weight = Top.weight
      /\ c.value = Top.value /\ c.set = Top.set /\ ~ c.left
  BY <1>3 DEF Call, CallRecord
<1>5. /\ Stack(arrays, ms) /\ Len(ms) = n
      /\ \A k \in 1 .. n - 1 : ms[k] = calls[k]
      /\ ms[n] = [Top EXCEPT !.left = TRUE]
  BY <1>1, <1>2, Marked
<1>6. /\ ms[n].i = Top.i /\ ms[n].set = Top.set /\ ms[n].left
  BY <1>3, <1>5 DEF CallRecord
<1> HIDE DEF c, ms
<1>7. /\ Before(c.i) = Before(Top.i) \cup {id} /\ id \notin Before(Top.i)
      /\ Before(Top.i) \subseteq Before(c.i)
  BY <1>2, <1>3, <1>4, BeforeGrows DEF Input
<1>8. CallIn(arrays, c)
  BY <1>3, <1>4, <1>7 DEF CallIn, SliceIn
<1>9. \A k \in 1 .. Len(ms) : NestedIn(arrays, ms[k], c)
  <2>1. ASSUME NEW k \in 1 .. n, k < n PROVE NestedIn(arrays, ms[k], c)
    <3>1. NestedIn(arrays, calls[k], Top) /\ ms[k] = calls[k] /\ calls[k].i \in Int
      BY <1>2, <1>5, <2>1 DEF Stack, CallIn
    <3>2. QED
      BY <1>3, <1>4, <3>1 DEF NestedIn
  <2>2. NestedIn(arrays, ms[n], c)
    <3>1. HeldIn(arrays, Top.set) \subseteq Before(Top.i) /\ Top.set.len \in Nat
      BY <1>3 DEF CallIn, SliceIn
    <3>2. QED
      BY <1>3, <1>4, <1>6, <1>7, <3>1 DEF NestedIn
  <2>3. QED
    BY <1>2, <1>5, <2>1, <2>2
<1>10. /\ Stack(arrays, calls') /\ Len(calls') = n + 1
       /\ \A k \in 1 .. n : calls'[k] = ms[k]
       /\ calls'[n + 1] = c
  BY <1>1, <1>4, <1>5, <1>8, <1>9, Pushed
<1>11. \A k \in 1 .. n + 1 : k \in 1 .. n - 1 \/ k = n \/ k = n + 1
  BY <1>2
<1>12. Explored(arrays, calls', bestValue)
  <2> SUFFICES ASSUME NEW p \in SUBSET Ids, Total(WeightOf, p) <= robotCapacity,
                      ~ (Total(ValueOf, p) <= bestValue)
               PROVE  \E k \in 1 .. n + 1 : Undecided(arrays, calls'[k], p)
    BY <1>10 DEF Explored
  <2>1. PICK k \in 1 .. n : Undecided(arrays, calls[k], p)
    BY <1>1, TopTyped DEF Explored
  <2>2. CASE k # n
    <3>1. k \in 1 .. n - 1 /\ k \in 1 .. n + 1
      BY <1>2, <2>2
    <3>2. calls'[k] = calls[k]
      BY <1>5, <1>10, <3>1
    <3>3. QED
      BY <2>1, <3>1, <3>2
  <2>3. CASE k = n /\ id \in p
    <3>1. Undecided(arrays, calls'[n], p)
      BY <1>2, <1>6, <1>10, <2>1, <2>3 DEF Undecided
    <3>2. QED
      BY <1>2, <3>1
  <2>4. CASE k = n /\ id \notin p
    <3>1. Undecided(arrays, calls'[n + 1], p)
      BY <1>2, <1>4, <1>7, <1>10, <2>1, <2>4 DEF Undecided
    <3>2. n + 1 \in 1 .. n + 1
      BY <1>2
    <3>3. QED
      BY <3>1, <3>2
  <2>5. QED
    BY <2>2, <2>3, <2>4
<1>13. Apart(bestSet, calls')
  <2>1. \A k \in 1 .. n + 1 : \E j \in 1 .. n : calls'[k].set = calls[j].set
    <3>1. ASSUME NEW k \in 1 .. n - 1 PROVE k \in 1 .. n /\ calls'[k] = calls[k]
      BY <1>2, <1>5, <1>10
    <3>2. calls'[n].set = calls[n].set /\ calls'[n + 1].set = calls[n].set
      BY <1>2, <1>4, <1>6, <1>10
    <3>3. QED
      BY <1>2, <1>11, <3>1, <3>2
  <2>2. QED
    BY <1>10, <2>1 DEF Apart, SearchInv
<1>14. calls' # <<>> /\ result = "none"
  <2>1. Len(<<>>) = 0 /\ n + 1 # 0
    BY <1>2
  <2>2. QED
    BY <1>1, <1>10, <2>1, TopTyped
<1>15. QED
  BY <1>1, <1>2, <1>10, <1>12, <1>13, <1>14, InputStays DEF SearchInv

\* The order is taken.
LEMMA TakeKeeps == SearchInv /\ Take => SearchInv'
<1> SUFFICES ASSUME SearchInv, Take PROVE SearchInv'
  OBVIOUS
<1> DEFINE n == Len(calls)
           fs == Front(calls)
           order == orders[Top.i]
           id == order.order_id
           d == Call(Top.i + 1, Top.weight + order.weight, Top.value + order.value,
                     Appended(Top.set))
           h == HeldIn(arrays, Top.set)
<1>a. PICK slack \in Slacks : arrays' = ArraysAfter(Top.set, id, slack)
  BY DEF Take
<1> DEFINE b == ArraysAfter(Top.set, id, slack)
<1>1. /\ calls # <<>> /\ Top.left /\ arrays' = b /\ calls' = Append(fs, d)
      /\ UNCHANGED <<input, bestValue, bestSet, result>>
  BY <1>a DEF Take
<1>2. /\ Input /\ ArraysIn(arrays) /\ Stack(arrays, calls) /\ Apart(bestSet, calls)
      /\ Best(arrays, bestSet, bestValue)
      /\ n \in Nat \ {0} /\ n \in 1 .. n /\ Top = calls[n]
  BY <1>1, TopTyped DEF SearchInv
<1>3. /\ Top \in CallRecord /\ CallIn(arrays, Top) /\ SliceIn(arrays, Top.set)
      /\ Top.i \in 1 .. Len(orders) /\ Len(orders) \in Nat
  BY <1>1, TopTyped DEF CallIn
<1>4. /\ order \in [order_id : Nat, weight : Nat, value : Nat]
      /\ id \in Nat /\ order.weight \in Nat /\ order.value \in Nat
      /\ id \in Ids /\ WeightOf[id] = order.weight /\ ValueOf[id] = order.value
  BY <1>2, <1>3, RowsTyped, RowFound DEF Input
<1>5. /\ Before(Top.i + 1) = Before(Top.i) \cup {id} /\ id \notin Before(Top.i)
      /\ Before(Top.i) \subseteq Ids
      /\ \A j \in 1 .. Len(orders) + 1 : j < Top.i =>
            /\ orders[j].order_id \in Before(Top.i)
            /\ Before(j) \subseteq Before(Top.i)
  <2>1. Top.i \in 1 .. Len(orders) + 1
    BY <1>3
  <2>2. \A j \in 1 .. Len(orders) + 1 : j < Top.i => j <= Top.i
    BY <1>3
  <2>3. QED
    BY <1>2, <1>3, <2>1, <2>2, BeforeGrows DEF Input
<1>6. h \subseteq Before(Top.i) /\ id \notin h /\ h \in SUBSET Ids
  BY <1>3, <1>5 DEF CallIn
<1>7. /\ ArraysIn(b) /\ SliceIn(b, Appended(Top.set))
      /\ HeldIn(b, Appended(Top.set)) = h \cup {id}
      /\ Appended(Top.set).len = Top.set.len + 1
      /\ \A t : /\ SliceIn(arrays, t)
                /\ t.array = Top.set.array => t.len <= Top.set.len
                => SliceIn(b, t) /\ HeldIn(b, t) = HeldIn(arrays, t)
      /\ \A t : /\ SliceIn(arrays, t) /\ t.array # 0 /\ t.array # Top.set.array
                => t.array # Appended(Top.set).array
  <2>1. slack \in Nat
    BY SearchAssumption
  <2>2. /\ ArraysIn(arrays) /\ SliceIn(arrays, Top.set)
        /\ id \in Nat /\ id \notin HeldIn(arrays, Top.set)
    BY <1>2, <1>3, <1>4, <1>6
  <2> DEFINE s == Top.set
  <2> HIDE DEF id, s
  <2>3. QED
    BY <2>1, <2>2, AppendKeeps DEF s
<1>8. /\ d \in CallRecord /\ d.i = Top.i + 1 /\ d.set = Appended(Top.set)
      /\ d.weight = Top.weight + order.weight /\ d.value = Top.value + order.value
      /\ ~ d.left
  <2>1. Appended(Top.set) \in [array : Nat, len : Nat]
    BY <1>7 DEF SliceIn
  <2>2. Top.weight + order.weight \in Nat /\ Top.value + order.value \in Nat
    BY <1>3, <1>4 DEF CallRecord
  <2>3. Top.i + 1 \in Nat
    BY <1>3
  <2>4. QED
    BY <2>1, <2>2, <2>3 DEF Call, CallRecord
<1> HIDE DEF b, d, h, id, order
<1>9. CallIn(b, d)
  <2>1. /\ Total(WeightOf, h \cup {id}) = Total(WeightOf, h) + WeightOf[id]
        /\ Total(ValueOf, h \cup {id}) = Total(ValueOf, h) + ValueOf[id]
    <3>1. id \in Ids \ h /\ IsFiniteSet(Ids)
          /\ \A o \in Ids : WeightOf[o] \in Int /\ ValueOf[o] \in Int
      BY <1>2, <1>4, <1>6, InputTyped
    <3>2. Total(WeightOf, h \cup {id}) = Total(WeightOf, h) + WeightOf[id]
      BY <1>6, <3>1, TotalAdd
    <3>3. Total(ValueOf, h \cup {id}) = Total(ValueOf, h) + ValueOf[id]
      BY <1>6, <3>1, TotalAdd
    <3>4. QED
      BY <3>2, <3>3
  <2>2. d.weight = Total(WeightOf, h \cup {id}) /\ d.value = Total(ValueOf, h \cup {id})
    BY <1>3, <1>4, <1>8, <2>1 DEF CallIn, h
  <2>3. Top.set.len \in Nat /\ Top.set.len <= Top.i - 1
    BY <1>3 DEF CallIn, SliceIn
  <2>4. d.i \in 1 .. Len(orders) + 1 /\ d.set.len <= d.i - 1
    BY <1>3, <1>7, <1>8, <2>3
  <2>5. QED
    BY <1>5, <1>6, <1>7, <1>8, <2>2, <2>4 DEF CallIn
<1>10. /\ Stack(arrays, fs) /\ Len(fs) = n - 1
       /\ \A k \in 1 .. n - 1 : fs[k] = calls[k] /\ k \in 1 .. n
  <2>1. /\ Stack(arrays, fs) /\ Len(fs) = n - 1
        /\ \A k \in 1 .. n - 1 : fs[k] = calls[k]
    BY <1>1, <1>2, Popped
  <2>2. \A k \in 1 .. n - 1 : k \in 1 .. n
    BY <1>2
  <2>3. QED
    BY <2>1, <2>2
<1> HIDE DEF fs
<1>11. ASSUME NEW k \in 1 .. n - 1
       PROVE  NestedIn(arrays, calls[k], Top) /\ CallIn(arrays, calls[k])
  <2>1. k \in 1 .. n /\ k < n
    BY <1>2
  <2>2. QED
    BY <1>2, <2>1 DEF Stack
<1>12. \A k \in 1 .. n - 1 :
          SliceIn(b, fs[k].set) /\ HeldIn(b, fs[k].set) = HeldIn(arrays, fs[k].set)
  BY <1>7, <1>10, <1>11 DEF NestedIn, CallIn
<1>13. Stack(b, fs)
  BY <1>10, <1>12, StackKept
<1>14. \A k \in 1 .. Len(fs) : NestedIn(b, fs[k], d)
  <2> SUFFICES ASSUME NEW k \in 1 .. n - 1 PROVE NestedIn(b, fs[k], d)
    BY <1>10
  <2>1. NestedIn(arrays, fs[k], Top) /\ CallIn(arrays, fs[k])
    BY <1>10, <1>11
  <2>2. HeldIn(b, fs[k].set) = HeldIn(arrays, fs[k].set)
    BY <1>12
  <2>3. fs[k].i \in 1 .. Len(orders) + 1 /\ fs[k].i < Top.i
    BY <2>1 DEF NestedIn, CallIn
  <2>4. /\ orders[fs[k].i].order_id # id
        /\ id \notin Before(fs[k].i)
    BY <1>5, <2>3
  <2>5. HeldIn(arrays, fs[k].set) = HeldIn(b, d.set) \cap Before(fs[k].i)
    BY <1>7, <1>8, <2>1, <2>4 DEF NestedIn, h
  <2>6. orders[fs[k].i].order_id \notin HeldIn(b, d.set)
    BY <1>7, <1>8, <2>1, <2>4 DEF NestedIn, h
  <2>7. fs[k].i < d.i
    BY <1>3, <1>8, <2>3
  <2>8. fs[k].set.len <= d.set.len
    <3>1. fs[k].set.len <= Top.set.len /\ fs[k].set.len \in Nat /\ Top.set.len \in Nat
      BY <1>3, <2>1 DEF NestedIn, CallIn, SliceIn
    <3>2. QED
      BY <1>7, <1>8, <3>1
  <2>9. QED
    BY <2>1, <2>2, <2>5, <2>6, <2>7, <2>8 DEF NestedIn
<1>15. /\ Stack(b, calls') /\ Len(calls') = n
       /\ \A k \in 1 .. n - 1 : calls'[k] = fs[k]
       /\ calls'[n] = d
  <2>1. /\ Stack(b, Append(fs, d)) /\ Len(Append(fs, d)) = Len(fs) + 1
        /\ \A k \in 1 .. Len(fs) : Append(fs, d)[k] = fs[k]
        /\ Append(fs, d)[Len(fs) + 1] = d
    BY <1>8, <1>9, <1>13, <1>14, Pushed
  <2>2. Len(fs) + 1 = n
    BY <1>2, <1>10
  <2>3. QED
    BY <1>1, <1>10, <2>1, <2>2
<1>16. Explored(b, calls', bestValue)
  <2> SUFFICES ASSUME NEW p \in SUBSET Ids, Total(WeightOf, p) <= robotCapacity,
                      ~ (Total(ValueOf, p) <= bestValue)
               PROVE  \E k \in 1 .. n : Undecided(b, calls'[k], p)
    BY <1>15 DEF Explored
  <2>1. PICK k \in 1 .. n : Undecided(arrays, calls[k], p)
    BY <1>1, TopTyped DEF Explored
  <2>2. CASE k # n
    <3>1. k \in 1 .. n - 1
      BY <1>2, <2>2
    <3>2. calls'[k] = fs[k] /\ fs[k] = calls[k]
      BY <1>10, <1>15, <3>1
    <3>3. Undecided(b, calls'[k], p)
      BY <1>12, <2>1, <3>1, <3>2 DEF Undecided
    <3>4. QED
      BY <3>3
  <2>3. CASE k = n
    <3>1. h = p \cap Before(Top.i) /\ id \in p
      BY <1>1, <1>2, <2>1, <2>3 DEF Undecided, h, id, order
    <3>2. Undecided(b, d, p)
      BY <1>5, <1>7, <1>8, <3>1 DEF Undecided
    <3>3. QED
      BY <1>2, <1>15, <3>2
  <2>4. QED
    BY <2>2, <2>3
<1>17. Apart(bestSet, calls')
  <2> SUFFICES ASSUME bestSet.array # 0, NEW k \in 1 .. n
               PROVE  calls'[k].set.array # bestSet.array
    BY <1>15 DEF Apart
  <2>1. \A j \in 1 .. n : calls[j].set.array # bestSet.array
    BY <1>2 DEF Apart
  <2>2. CASE k = n
    BY <1>2, <1>7, <1>8, <1>15, <2>1, <2>2 DEF Best
  <2>3. CASE k # n
    <3>1. k \in 1 .. n - 1
      BY <1>2, <2>3
    <3>2. QED
      BY <1>10, <1>15, <2>1, <3>1
  <2>4. QED
    BY <2>2, <2>3
<1>18. Best(b, bestSet, bestValue)
  <2>1. bestSet.array = Top.set.array => bestSet.len <= Top.set.len
    <3>1. bestSet.array = Top.set.array => bestSet.array = 0
      BY <1>2 DEF Apart
    <3>2. bestSet.array = 0 => bestSet.len = 0
      BY <1>2 DEF Best, SliceIn
    <3>3. Top.set.len \in Nat
      BY <1>3 DEF SliceIn
    <3>4. QED
      BY <3>1, <3>2, <3>3
  <2>2. SliceIn(arrays, bestSet)
    BY <1>2 DEF Best
  <2>3. SliceIn(b, bestSet) /\ HeldIn(b, bestSet) = HeldIn(arrays, bestSet)
    BY <1>7, <2>1, <2>2
  <2>4. QED
    BY <1>2, <2>3 DEF Best
<1>19. calls' # <<>> /\ result = "none"
  <2>1. Len(<<>>) = 0 /\ n # 0
    BY <1>2
  <2>2. QED
    BY <1>1, <1>15, <2>1, TopTyped
<1>20. QED
  BY <1>1, <1>2, <1>7, <1>15, <1>16, <1>17, <1>18, <1>19, InputStays

\* The search starts with nothing decided.
LEMMA SearchInvInit == Init => SearchInv
<1> SUFFICES ASSUME Init PROVE SearchInv
  OBVIOUS
<1> DEFINE c == Call(1, 0, 0, Nil)
<1>1. /\ Input /\ calls = <<c>> /\ arrays = <<>> /\ bestValue = 0 /\ bestSet = Nil
      /\ result = "none"
  BY DEF Init, Input
<1>2. /\ c \in CallRecord /\ c.i = 1 /\ c.weight = 0 /\ c.value = 0 /\ c.set = Nil
      /\ ~ c.left
  BY DEF Call, CallRecord, Nil
<1>3. ArraysIn(arrays) /\ Len(arrays) = 0
  BY <1>1, EmptySeq DEF ArraysIn
<1>4. SliceIn(arrays, Nil) /\ HeldIn(arrays, Nil) = {} /\ Nil.len = 0 /\ Nil.array = 0
  BY <1>3 DEF SliceIn, HeldIn, Nil
<1>5. Len(orders) \in Nat /\ Before(1) = {}
  BY <1>1, RowsTyped, BeforeGrows DEF Input
<1> HIDE DEF c
<1>6. CallIn(arrays, c)
  BY <1>2, <1>4, <1>5, TotalEmpty DEF CallIn
<1>7. calls \in Seq(CallRecord) /\ Len(calls) = 1 /\ calls[1] = c /\ calls # <<>>
  BY <1>1, <1>2
<1>8. Stack(arrays, calls)
  BY <1>6, <1>7 DEF Stack
<1>9. Best(arrays, bestSet, bestValue)
  <2>1. IF robotCapacity < 0 THEN TRUE ELSE 0 <= robotCapacity
    BY <1>1, InputTyped
  <2>2. QED
    BY <1>1, <1>4, <1>5, <2>1, TotalEmpty DEF Best
<1>10. Apart(bestSet, calls)
  BY <1>1, <1>4 DEF Apart
<1>11. Explored(arrays, calls, bestValue)
  <2>1. \A p : Undecided(arrays, c, p)
    BY <1>2, <1>4, <1>5 DEF Undecided
  <2>2. QED
    BY <1>7, <2>1 DEF Explored
<1>12. QED
  BY <1>1, <1>3, <1>7, <1>8, <1>9, <1>10, <1>11 DEF SearchInv

\* Every step keeps the invariant.
LEMMA SearchStep == SearchInv /\ [Next]_vars => SearchInv'
<1> SUFFICES ASSUME SearchInv, [Next]_vars PROVE SearchInv'
  OBVIOUS
<1>1. CASE UNCHANGED vars \/ EndContext
  <2>1. UNCHANGED <<input, calls, arrays, bestValue, bestSet, result>>
    BY <1>1 DEF vars, input, EndContext
  <2>2. QED
    BY <2>1, InputStays DEF SearchInv
<1>2. QED
  BY <1>1, PruneKeeps, CancelKeeps, LeafKeeps, LeaveOutKeeps, TakeKeeps DEF Next

----------------------------------------------------------------------------
(* The context *)

\* The steps counted since the context ended are those since the last look.
ContextInv ==
    /\ steps \in Nat /\ late \in Nat /\ ctx \in {"live", "done"}
    /\ ctx = "live" => late = 0
    /\ ctx = "done" /\ result = "none" => late <= steps % CheckEvery
    /\ late <= CheckEvery

\* A step that is not at a multiple is one further from the last one.
LEMMA NextMultiple ==
    ASSUME NEW n \in Nat, NEW m \in Nat \ {0}
    PROVE  /\ n % m \in 0 .. m - 1
           /\ (n + 1) % m # 0 => (n + 1) % m = (n % m) + 1
  OBVIOUS

\* A counted step.
LEMMA CountedInTime ==
    ASSUME SearchInv, ContextInv, CountStep, ctx' = ctx,
           result' # "none" \/ ~ Cancelled
    PROVE  ContextInv'
<1>1. CheckEvery \in Nat \ {0} /\ steps \in Nat /\ late \in Nat
  BY SearchAssumption DEF ContextInv
<1>2. result = "none" /\ steps' = steps + 1 /\ late' = IF ctx = "done" THEN late + 1 ELSE late
  BY TopTyped DEF CountStep
<1>3. CASE ctx = "live"
  BY <1>1, <1>2, <1>3 DEF ContextInv
<1>4. CASE ctx = "done"
  <2>1. late <= steps % CheckEvery /\ late' = late + 1
    BY <1>2, <1>4 DEF ContextInv
  <2>2. steps % CheckEvery \in 0 .. CheckEvery - 1
    BY <1>1, NextMultiple
  <2>3. late' \in Nat /\ late' <= CheckEvery
    BY <1>1, <2>1, <2>2
  <2>4. ~ Cancelled => late' <= (steps + 1) % CheckEvery
    <3>1. ~ Cancelled => (steps + 1) % CheckEvery = (steps % CheckEvery) + 1
      BY <1>1, <1>4, NextMultiple DEF Cancelled
    <3>2. QED
      BY <1>1, <2>1, <2>2, <3>1
  <2>5. QED
    BY <1>1, <1>2, <1>4, <2>3, <2>4 DEF ContextInv
<1>5. QED
  BY <1>3, <1>4 DEF ContextInv

\* Every step keeps the count.
LEMMA ContextStep == SearchInv /\ ContextInv /\ [Next]_vars => ContextInv'
<1> SUFFICES ASSUME SearchInv, ContextInv, [Next]_vars PROVE ContextInv'
  OBVIOUS
<1>1. CASE UNCHANGED vars
  BY <1>1 DEF vars, ContextInv
<1>2. CASE EndContext
  <2>1. CheckEvery \in Nat \ {0} /\ steps % CheckEvery \in 0 .. CheckEvery - 1
    BY SearchAssumption, NextMultiple DEF ContextInv
  <2>2. QED
    BY <1>2, <2>1 DEF EndContext, ContextInv
<1>3. CASE Prune \/ Take
  <2>1. UNCHANGED <<steps, late, ctx>> /\ calls # <<>>
    BY <1>3 DEF Prune, Take
  <2>2. QED
    BY <2>1, TopTyped DEF ContextInv
<1>4. CASE Cancel
  <2>1. CountStep /\ ctx' = ctx /\ result' = "canceled"
    BY <1>4 DEF Cancel
  <2>2. QED
    BY <2>1, CountedInTime
<1>5. CASE Leaf \/ LeaveOut
  <2>1. CountStep /\ ctx' = ctx /\ ~ Cancelled
    BY <1>5 DEF Leaf, LeaveOut
  <2>2. QED
    BY <2>1, CountedInTime
<1>6. QED
  BY <1>1, <1>2, <1>3, <1>4, <1>5 DEF Next

----------------------------------------------------------------------------
(* What the search promises *)

IInv == SearchInv /\ ContextInv

\* The invariant holds in every state of the search.
THEOREM Invariant == Spec => []IInv
<1>1. Init => IInv
  <2>1. Init => ContextInv
    BY SearchAssumption DEF Init, ContextInv
  <2>2. QED
    BY <2>1, SearchInvInit DEF IInv
<1>2. IInv /\ [Next]_vars => IInv'
  BY SearchStep, ContextStep DEF IInv
<1>3. QED
  BY <1>1, <1>2, PTL DEF Spec

\* Variables keep their types: no call indexes past the rows, no slice past its
\* array.
THEOREM TypeCorrect == Spec => []TypeOK
<1>1. IInv => TypeOK
  <2> SUFFICES ASSUME IInv PROVE TypeOK
    OBVIOUS
  <2> DEFINE slices == [array : 0 .. Len(arrays), len : 0 .. Len(orders)]
             S == [i : 1 .. Len(orders) + 1, weight : Nat, value : Nat,
                   set : slices, left : BOOLEAN]
  <2>1. Len(arrays) \in Nat /\ Len(orders) \in Nat /\ arrays \in Seq(Seq(Nat))
    BY RowsTyped DEF IInv, SearchInv, Input, ArraysIn
  <2>2. ASSUME NEW s, SliceIn(arrays, s), s.len <= Len(orders) PROVE s \in slices
    <3>1. s \in [array : Nat, len : Nat] /\ s.array <= Len(arrays)
      BY <2>2 DEF SliceIn
    <3>2. QED
      BY <2>1, <2>2, <3>1
  <2>3. bestSet \in slices
    BY <2>2 DEF IInv, SearchInv, Best
  <2>4. ASSUME NEW k \in 1 .. Len(calls) PROVE calls[k] \in S
    <3>1. calls[k] \in CallRecord /\ CallIn(arrays, calls[k])
      BY ElementOfSeq DEF IInv, SearchInv, Stack
    <3>2. calls[k].set.len <= Len(orders)
      <4>1. /\ calls[k].i \in 1 .. Len(orders) + 1 /\ calls[k].set.len \in Nat
            /\ calls[k].set.len <= calls[k].i - 1
        BY <3>1 DEF CallIn, SliceIn
      <4>2. QED
        BY <2>1, <4>1
    <3>3. calls[k].set \in slices
      BY <2>2, <3>1, <3>2 DEF CallIn
    <3> HIDE DEF slices
    <3>4. QED
      BY <3>1, <3>3 DEF CallIn, CallRecord
  <2>5. calls \in Seq(S)
    <3>1. Len(calls) \in Nat /\ calls \in [1 .. Len(calls) -> CallRecord]
      BY LenProperties DEF IInv, SearchInv, Stack
    <3> HIDE DEF S
    <3>2. calls \in [1 .. Len(calls) -> S]
      BY <2>4, <3>1
    <3>3. QED
      BY <3>1, <3>2, SeqDef
  <2>6. QED
    BY <2>1, <2>3, <2>5 DEF IInv, SearchInv, Best, ContextInv, TypeOK
<1>2. QED
  BY <1>1, Invariant, PTL

\* The slices of the calls under way hold what the calls chose, whatever append
\* shares between them.
THEOREM ChoicesAreHeld == Spec => []SlicesHoldTheirChoice
<1>1. IInv => SlicesHoldTheirChoice
  <2> SUFFICES ASSUME IInv, NEW k \in DOMAIN calls
               PROVE  LET set == ToSet(Content(calls[k].set))
                      IN  /\ set \subseteq {orders[i].order_id : i \in 1 .. calls[k].i - 1}
                          /\ calls[k].weight = Total(WeightOf, set)
                          /\ calls[k].value = Total(ValueOf, set)
    BY DEF SlicesHoldTheirChoice
  <2>1. k \in 1 .. Len(calls)
    BY LenProperties DEF IInv, SearchInv, Stack
  <2>2. CallIn(arrays, calls[k]) /\ ArraysIn(arrays)
    BY <2>1 DEF IInv, SearchInv, Stack
  <2>3. ToSet(Content(calls[k].set)) = HeldIn(arrays, calls[k].set)
    BY <2>2, ContentIsHeld DEF CallIn
  <2>4. QED
    BY <2>2, <2>3 DEF CallIn, Before
<1>2. QED
  BY <1>1, Invariant, PTL

\* A search that is not canceled returns a best plan, each order once, whatever the
\* listing, the capacity and the growth of the slices.
THEOREM PlansAreBest == Spec => []PlanIsBest
<1>1. IInv => PlanIsBest
  <2> DEFINE plan == Content(bestSet)
             p == ToSet(plan)
  <2> SUFFICES ASSUME IInv, result = "plan"
               PROVE  /\ IsInjective(plan)
                      /\ p \in BestPlans(Ids, WeightOf, ValueOf, robotCapacity)
                      /\ bestValue = Total(ValueOf, p)
    BY DEF PlanIsBest
  <2>1. /\ Input /\ ArraysIn(arrays) /\ Best(arrays, bestSet, bestValue)
        /\ Explored(arrays, calls, bestValue) /\ calls = <<>>
    BY DEF IInv, SearchInv
  <2>2. IsInjective(plan) /\ p = HeldIn(arrays, bestSet)
    BY <2>1, ContentIsHeld DEF Best
  <2> HIDE DEF p, plan
  <2>3. /\ p \subseteq Ids /\ bestValue = Total(ValueOf, p) /\ bestValue \in Nat
        /\ IF robotCapacity < 0 THEN p = {} ELSE Total(WeightOf, p) <= robotCapacity
        /\ \A o \in p : ValueOf[o] > 0
    BY <2>1, <2>2 DEF Best
  <2>4. \A q \in SUBSET Ids : Total(WeightOf, q) <= robotCapacity =>
           ~ (Total(ValueOf, q) > Total(ValueOf, p))
    <3>1. Len(calls) = 0
      BY <2>1
    <3>2. \A q \in SUBSET Ids : Total(WeightOf, q) <= robotCapacity =>
             Total(ValueOf, q) <= bestValue /\ Total(ValueOf, q) \in Int
      BY <2>1, <3>1, InputTyped DEF Explored
    <3>3. QED
      BY <2>3, <3>2
  <2>5. p \in BestPlans(Ids, WeightOf, ValueOf, robotCapacity)
    BY <2>3, <2>4 DEF BestPlans, Carriable
  <2>6. QED
    BY <2>2, <2>3, <2>5
<1>2. QED
  BY <1>1, Invariant, PTL

\* A search whose context ended takes at most CheckEvery more steps.
THEOREM StopsInTime == Spec => []CancelsInTime
<1>1. IInv => CancelsInTime
  BY DEF IInv, ContextInv, CancelsInTime
<1>2. QED
  BY <1>1, Invariant, PTL
================================================================================

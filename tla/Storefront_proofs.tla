--------------------------- MODULE Storefront_proofs ---------------------------
(***************************************************************************)
(* Theorems about Storefront: which request a page has heard of, which     *)
(* orders a history has, and what the pages of a list have together.       *)
(***************************************************************************)
EXTENDS Storefront, Listing_proofs, Knapsack_proofs

\* The numbers of the requests: none is in the future, and the one sent last
\* carries the view of the page.
IInv ==
    /\ asked \in Nat
    /\ \A a \in asks : /\ a.n \in Nat /\ a.n <= asked
                       /\ a.n = asked => a.view = view
    /\ shown.n \in Nat /\ shown.n <= asked
    /\ LatestAnswerFitsTheView

\* A change of the view sends a request of its own (Fetch).
LEMMA FetchKeepsIInv ==
    ASSUME IInv, NEW v, Fetch(v)
    PROVE  IInv'
BY DEF IInv, Fetch, Ask, LatestAnswerFitsTheView

\* So does a page that opens, which has heard of nothing (Open).
LEMMA OpenKeepsIInv ==
    ASSUME IInv, NEW t, Open(t)
    PROVE  IInv'
BY DEF IInv, Open, Ask, NoAsk, LatestAnswerFitsTheView

\* An answer changes what a request carries back, never what it asked for.
LEMMA AnswerKeepsIInv ==
    ASSUME IInv, NEW a \in asks, NEW b, b.n = a.n, b.view = a.view,
           asks' = (asks \ {a}) \cup {b}, UNCHANGED <<asked, view, shown>>
    PROVE  IInv'
BY DEF IInv, LatestAnswerFitsTheView

\* Requests that are under way keep their numbers and views.
THEOREM Inductive == Spec => []IInv
<1>1. Init => IInv
  BY DEF Init, IInv, NoAsk, LatestAnswerFitsTheView
<1>2. ASSUME IInv, [Next]_vars PROVE IInv'
  <2>1. CASE Leave
    BY <1>2, <2>1, OpenKeepsIInv DEF Leave
  <2>2. CASE Search
    BY <1>2, <2>2, FetchKeepsIInv DEF Search
  <2>3. CASE TurnPage
    BY <1>2, <2>3, FetchKeepsIInv DEF TurnPage
  <2>4. CASE Resize
    BY <1>2, <2>4, FetchKeepsIInv DEF Resize
  <2>5. CASE Sort
    BY <1>2, <2>5, FetchKeepsIInv DEF Sort
  <2>6. CASE ChangeQuantity
    BY <1>2, <2>6 DEF ChangeQuantity, page, IInv, LatestAnswerFitsTheView
  <2>7. CASE Submit
    BY <1>2, <2>7 DEF Submit, page, IInv, LatestAnswerFitsTheView
  <2>8. ASSUME NEW a \in asks, Serve(a) PROVE IInv'
    <3> DEFINE answer == [a EXCEPT !.stage = "answered",
                            !.total = Len(Listed(a.view)),
                            !.rows = Numbers(PageOf(Listed(a.view), a.view))]
    <3>1. answer.n = a.n /\ answer.view = a.view
      OBVIOUS
    <3>2. asks' = (asks \ {a}) \cup {answer} /\ UNCHANGED <<asked, view, shown>>
      BY <2>8 DEF Serve
    <3> QED
      BY <1>2, <3>1, <3>2, AnswerKeepsIInv
  <2>9. ASSUME NEW a \in asks, FailAsk(a) PROVE IInv'
    <3> DEFINE answer == [a EXCEPT !.stage = "failed"]
    <3>1. answer.n = a.n /\ answer.view = a.view
      OBVIOUS
    <3>2. asks' = (asks \ {a}) \cup {answer} /\ UNCHANGED <<asked, view, shown>>
      BY <2>9 DEF FailAsk
    <3> QED
      BY <1>2, <3>1, <3>2, AnswerKeepsIInv
  <2>10. ASSUME NEW a \in asks, HearListing(a) PROVE IInv'
    BY <1>2, <2>10 DEF HearListing, IInv, LatestAnswerFitsTheView
  <2>11. ASSUME NEW c \in checkouts, Store(c) \/ Refuse(c) \/ HearCheckout(c)
         PROVE  IInv'
    BY <1>2, <2>11 DEF Store, Refuse, HearCheckout, page, IInv,
                       LatestAnswerFitsTheView
  <2>12. CASE UpdateStatuses
    BY <1>2, <2>12 DEF UpdateStatuses, page, IInv, LatestAnswerFitsTheView
  <2>13. CASE UNCHANGED vars
    BY <1>2, <2>13 DEF vars, IInv, LatestAnswerFitsTheView
  <2> QED
    BY <1>2, <2>1, <2>2, <2>3, <2>4, <2>5, <2>6, <2>7, <2>8, <2>9, <2>10,
       <2>11, <2>12, <2>13 DEF Next
<1> QED
  BY <1>1, <1>2, PTL DEF Spec
-----------------------------------------------------------------------------
\* The answer to the request sent last is the answer for the view of the page,
\* however many requests are under way (the effects of both pages).
THEOREM LatestAnswerTheorem == Spec => []LatestAnswerFitsTheView
<1>1. IInv => LatestAnswerFitsTheView
  BY DEF IInv
<1> QED
  BY <1>1, Inductive, PTL
-----------------------------------------------------------------------------
(* What is listed *)

\* The types of a view of a page, and of the numbers on it.
Views(t) ==
    [search : Texts \cup {NoText}, type : {"partial", "prefix"},
     page : Nat \ {0}, size : Sizes,
     field : IF t = "product" THEN ProductFields ELSE OrderFields,
     order : {"asc", "desc"}]

Listable == IF tab = "product" THEN Products ELSE DOMAIN orders
RowLists == Seq(Listable)

OrdersIn == orders \in Seq(OrderRecords)

\* The table behind the page, and the numbers of the rows that a view matches.
Table == IF tab = "product" THEN ProductRows ELSE OrderRows(orders)

Matching(v) ==
    {i \in Listable : IF tab = "product" THEN ProductMatches(v, Table[i])
                                         ELSE OrderMatches(v, Table[i])}

\* The products and the orders are numbered from 1.
LEMMA Numbered ==
    /\ Len(Catalogue) \in Nat /\ Products = 1 .. Len(Catalogue)
    /\ \A p \in Products : Catalogue[p] \in [name : Nat, value : Nat, weight : Nat]
    /\ OrdersIn => /\ Len(orders) \in Nat /\ DOMAIN orders = 1 .. Len(orders)
                   /\ \A i \in DOMAIN orders : orders[i] \in OrderRecords
<1> DEFINE R == [name : Nat, value : Nat, weight : Nat]
           Q == OrderRecords
<1>1. Catalogue \in Seq(R)
  BY ListingAssumption
<1>2. OrdersIn => orders \in Seq(Q)
  BY DEF OrdersIn
<1> HIDE DEF R, Q
<1>3. /\ Len(Catalogue) \in Nat /\ Products = 1 .. Len(Catalogue)
      /\ \A p \in Products : Catalogue[p] \in R
  BY <1>1, LenProperties, ElementOfSeq DEF Products
<1>4. OrdersIn => /\ Len(orders) \in Nat /\ DOMAIN orders = 1 .. Len(orders)
                  /\ \A i \in DOMAIN orders : orders[i] \in Q
  BY <1>2, LenProperties, ElementOfSeq
<1>5. QED
  BY <1>3, <1>4 DEF R, Q

\* A row of a history, and what it is sorted by.
LEMMA HistoryRows ==
    ASSUME NEW os, os \in Seq(OrderRecords)
    PROVE  /\ Len(os) \in Nat /\ DOMAIN os = 1 .. Len(os)
           /\ \A i \in DOMAIN os :
                 /\ OrderRows(os)[i].order_id = i
                 /\ \A v \in Views("orders") : OrderRows(os)[i][v.field] \in Int
<1> DEFINE Q == OrderRecords
<1>1. Len(os) \in Nat /\ DOMAIN os = 1 .. Len(os) /\ \A i \in DOMAIN os : os[i] \in Q
  <2>1. os \in Seq(Q)
    OBVIOUS
  <2> HIDE DEF Q
  <2>2. QED
    BY <2>1, LenProperties, ElementOfSeq
<1>2. ASSUME NEW i \in DOMAIN os
      PROVE  /\ OrderRows(os)[i].order_id = i
             /\ \A v \in Views("orders") : OrderRows(os)[i][v.field] \in Int
  <2>1. /\ i \in Nat
        /\ OrderRows(os)[i] =
              [order_id |-> i, product_name |-> Catalogue[os[i].product].name,
               shipped_status |-> os[i].status, created_at |-> os[i].created,
               arrived_at |-> os[i].arrived]
    BY <1>1 DEF OrderRows
  <2>2. /\ os[i].product \in Products /\ os[i].status \in Nat
        /\ os[i].created \in Nat /\ os[i].arrived \in Nat
    BY <1>1 DEF OrderRecords
  <2>3. Catalogue[os[i].product].name \in Nat
    BY <2>2, Numbered
  <2>4. ASSUME NEW v \in Views("orders") PROVE OrderRows(os)[i][v.field] \in Int
    <3>1. v.field \in OrderFields
      BY DEF Views
    <3>2. QED
      BY <2>1, <2>2, <2>3, <3>1 DEF OrderFields
  <2>5. QED
    BY <2>1, <2>4
<1>3. QED
  BY <1>1, <1>2

\* A row carries its number, and has an integer in every field a page sorts by.
LEMMA TableRows ==
    ASSUME OrdersIn, tab \in Tabs, NEW i \in Listable
    PROVE  /\ Number(Table[i]) = i
           /\ \A v \in Views(tab) : Table[i][v.field] \in Int
<1>1. CASE tab = "product"
  <2>1. /\ i \in Products /\ i \in Nat
        /\ Table[i] = [product_id |-> i, name |-> Catalogue[i].name,
                       value |-> Catalogue[i].value, weight |-> Catalogue[i].weight]
    BY <1>1, Numbered DEF Listable, Table, ProductRows
  <2>2. Catalogue[i].name \in Nat /\ Catalogue[i].value \in Nat /\ Catalogue[i].weight \in Nat
    BY <2>1, Numbered
  <2>3. ASSUME NEW v \in Views(tab) PROVE Table[i][v.field] \in Int
    <3>1. v.field \in ProductFields
      BY <1>1 DEF Views
    <3>2. QED
      BY <2>1, <2>2, <3>1 DEF ProductFields
  <2>4. QED
    BY <1>1, <2>1, <2>3 DEF Number
<1>2. CASE tab = "orders"
  <2>1. i \in DOMAIN orders /\ Table[i] = OrderRows(orders)[i]
    BY <1>2 DEF Listable, Table
  <2>2. QED
    BY <1>2, <2>1, HistoryRows DEF OrdersIn, Number
<1>3. QED
  BY <1>1, <1>2 DEF Tabs

\* The list behind a view: the rows that it matches, sorted.
LEMMA ListedIsSorted ==
    ASSUME OrdersIn, tab \in Tabs, NEW v \in Views(tab)
    PROVE  /\ Listed(v) = Sorted(Table, Matching(v), v)
           /\ Comparable(Table, Matching(v), v)
           /\ Matching(v) \subseteq Listable
           /\ IsFiniteSet(Listable) /\ Listable \subseteq Nat
<1>1. Matching(v) \subseteq Listable
  BY DEF Matching
<1>2. \E n \in Nat : Listable = 1 .. n
  BY Numbered DEF Listable
<1>3. IsFiniteSet(Listable) /\ Listable \subseteq Nat
  BY <1>2, FS_Interval
<1>4. Comparable(Table, Matching(v), v)
  BY <1>1, <1>3, TableRows, FS_Subset DEF Comparable
<1>5. Listed(v) = Sorted(Table, Matching(v), v)
  <2>1. CASE tab = "product"
    <3>1. Matching(v) = {p \in Products : ProductMatches(v, ProductRows[p])}
      BY <2>1 DEF Matching, Table, Listable
    <3>2. QED
      BY <2>1, <3>1 DEF Listed, ListProducts, Table
  <2>2. CASE tab # "product"
    <3>1. Matching(v) = {i \in DOMAIN orders : OrderMatches(v, OrderRows(orders)[i])}
      BY <2>2 DEF Matching, Table, Listable
    <3>2. QED
      BY <2>2, <3>1 DEF Listed, ListOrders, Table
  <2>3. QED
    BY <2>1, <2>2
<1>6. QED
  BY <1>1, <1>3, <1>4, <1>5

\* The rows of the table.
Lines == {Table[i] : i \in Listable}

\* A list has rows of the table, one for each number that the view matches.
LEMMA ListedTyped ==
    ASSUME OrdersIn, tab \in Tabs, NEW v \in Views(tab)
    PROVE  /\ Listed(v) \in Seq(Lines)
           /\ Len(Listed(v)) = Cardinality(Matching(v))
           /\ Len(Listed(v)) \in Nat
<1> DEFINE n == Cardinality(Matching(v))
           number(k) == Place(Table, Matching(v), v, k)
<1>1. /\ n \in Nat /\ Listed(v) = [k \in 1 .. n |-> Table[number(k)]]
      /\ \A k \in 1 .. n : number(k) \in Listable
  BY ListedIsSorted, SortingTheorem
<1> HIDE DEF number
<1>2. Listed(v) \in [1 .. n -> Lines]
  BY <1>1 DEF Lines
<1>3. QED
  BY <1>1, <1>2

\* The numbers of rows are numbers of the page.
LEMMA NumbersTyped ==
    ASSUME OrdersIn, tab \in Tabs, NEW s \in Seq(Lines)
    PROVE  /\ Numbers(s) \in RowLists
           /\ Len(Numbers(s)) = Len(s)
<1>1. Len(s) \in Nat /\ DOMAIN s = 1 .. Len(s)
  OBVIOUS
<1>2. \A i \in 1 .. Len(s) : s[i] \in Lines
  OBVIOUS
<1>3. Numbers(s) \in [1 .. Len(s) -> Listable]
  BY <1>1, <1>2, TableRows DEF Numbers, Lines
<1>4. QED
  BY <1>1, <1>3 DEF RowLists

\* What Serve answers.
LEMMA AnswerTyped ==
    ASSUME OrdersIn, tab \in Tabs, NEW v \in Views(tab)
    PROVE  /\ Numbers(PageOf(Listed(v), v)) \in RowLists
           /\ Len(Numbers(PageOf(Listed(v), v))) \in Nat
           /\ Len(Numbers(PageOf(Listed(v), v))) <= Len(Listed(v))
<1>1. v.page \in Nat \ {0} /\ v.size \in Nat \ {0}
  BY StorefrontAssumption DEF Views
<1>2. PageOf(Listed(v), v) = PageOf(Listed(v), At(v.page, v.size))
  BY DEF PageOf, Offset, At
<1>3. QED
  BY <1>1, <1>2, ListedTyped, NumbersTyped, PageIsAList
-----------------------------------------------------------------------------
(* The types *)

Stages == {"sent", "answered", "failed"}

AskIn(a) ==
    /\ a \in [n : Nat, view : Views(tab), told : Nat, stage : Stages,
              rows : RowLists, total : Nat]
    /\ Len(a.rows) <= a.total
    /\ a.told <= announced

PageInv ==
    /\ tab \in Tabs /\ view \in Views(tab)
    /\ rows \in RowLists /\ total \in Nat /\ Len(rows) <= total
    /\ asked \in Nat
    /\ \A a \in asks : AskIn(a)
    /\ quantities \in [Products -> 0 .. MaxQuantity]

\* A list of rows stays one when orders are added.
LEMMA RowListsGrow ==
    ASSUME OrdersIn, OrdersIn', Len(orders) <= Len(orders'), tab' = tab
    PROVE  RowLists \subseteq RowLists'
<1>1. Listable \subseteq Listable'
  BY Numbered DEF Listable, OrdersIn
<1>2. QED
  BY <1>1, SeqMonotonic DEF RowLists

\* What a page knows stays true when orders are added or announced.
LEMMA PageStays ==
    ASSUME PageInv, OrdersIn, OrdersIn', Len(orders) <= Len(orders'),
           announced \in Nat, announced' \in Nat, announced <= announced',
           UNCHANGED <<tab, view, rows, total, asked, asks>>,
           quantities' \in [Products -> 0 .. MaxQuantity]
    PROVE  PageInv'
<1>1. RowLists \subseteq RowLists'
  BY RowListsGrow
<1>2. ASSUME NEW a \in asks PROVE AskIn(a)'
  BY <1>1, <1>2 DEF PageInv, AskIn
<1>3. QED
  BY <1>1, <1>2 DEF PageInv

\* The view that a page opens with.
LEMMA FirstViewTyped == \A t \in Tabs : FirstView(t) \in Views(t)
  BY StorefrontAssumption DEF Tabs, FirstView, Views, ProductFields, OrderFields

\* A request with no answer yet.
LEMMA AskTyped ==
    ASSUME asked \in Nat, announced \in Nat, announced' = announced, tab' \in Tabs,
           NEW v, v \in Views(tab')
    PROVE  \A b : b = Ask(v) => AskIn(b)'
<1>1. <<>> \in RowLists' /\ Len(<<>>) = 0
  BY DEF RowLists
<1>2. QED
  BY <1>1 DEF AskIn, Ask, Stages

\* A page that opens (Open).
LEMMA OpenKeepsPage ==
    ASSUME PageInv, announced \in Nat, announced' = announced,
           NEW t \in Tabs, Open(t)
    PROVE  PageInv'
<1>1. tab' = t /\ view' = FirstView(t) /\ FirstView(t) \in Views(tab')
  BY FirstViewTyped DEF Open
<1>2. asks' = {Ask(FirstView(t))}
  BY DEF Open
<1>3. \A b : b = Ask(FirstView(t)) => AskIn(b)'
  BY <1>1, AskTyped DEF PageInv
<1>4. <<>> \in RowLists' /\ Len(<<>>) = 0
  BY DEF RowLists
<1>5. quantities' \in [Products -> 0 .. MaxQuantity]
  BY StorefrontAssumption DEF Open, NoQuantities
<1>6. QED
  BY <1>1, <1>2, <1>3, <1>4, <1>5 DEF Open, PageInv

\* A change of the view (Fetch).
LEMMA FetchKeepsPage ==
    ASSUME PageInv, announced \in Nat, NEW v \in Views(tab), Fetch(v)
    PROVE  PageInv'
<1>1. /\ view' = v /\ asks' = asks \cup {Ask(v)} /\ asked' = asked + 1
      /\ UNCHANGED <<orders, tab, rows, total, quantities, announced>>
  BY DEF Fetch, entry
<1>2. \A b : b = Ask(v) => AskIn(b)'
  BY <1>1, AskTyped DEF PageInv
<1>3. ASSUME NEW a \in asks PROVE AskIn(a)'
  BY <1>1, <1>3 DEF PageInv, AskIn, RowLists, Listable
<1>4. rows' \in RowLists'
  BY <1>1 DEF PageInv, RowLists, Listable
<1>5. QED
  BY <1>1, <1>2, <1>3, <1>4 DEF PageInv

\* A view whose parts change.
LEMMA ViewParts ==
    ASSUME NEW t, NEW v \in Views(t)
    PROVE  /\ \A text \in Texts \cup {NoText}, type \in {"partial", "prefix"} :
                 [v EXCEPT !.search = text, !.type = type, !.page = 1] \in Views(t)
           /\ \A size \in Sizes : [v EXCEPT !.size = size, !.page = 1] \in Views(t)
<1> DEFINE V(F) == [search : Texts \cup {NoText}, type : {"partial", "prefix"},
                    page : Nat \ {0}, size : Sizes, field : F, order : {"asc", "desc"}]
           F == IF t = "product" THEN ProductFields ELSE OrderFields
<1>1. v \in V(F) /\ Views(t) = V(F)
  BY DEF Views
<1> HIDE DEF F
<1>2. ASSUME NEW text \in Texts \cup {NoText}, NEW type \in {"partial", "prefix"}
      PROVE  [v EXCEPT !.search = text, !.type = type, !.page = 1] \in V(F)
  <2>1. [v EXCEPT !.search = text] \in V(F)
    BY <1>1
  <2>2. \A w \in V(F) : [w EXCEPT !.type = type] \in V(F)
    OBVIOUS
  <2>3. \A w \in V(F) : [w EXCEPT !.page = 1] \in V(F)
    OBVIOUS
  <2> HIDE DEF V
  <2>4. QED
    BY <2>1, <2>2, <2>3
<1>3. ASSUME NEW size \in Sizes
      PROVE  [v EXCEPT !.size = size, !.page = 1] \in V(F)
  <2>1. [v EXCEPT !.size = size] \in V(F)
    BY <1>1
  <2>2. \A w \in V(F) : [w EXCEPT !.page = 1] \in V(F)
    OBVIOUS
  <2> HIDE DEF V
  <2>3. QED
    BY <2>1, <2>2
<1> HIDE DEF V
<1>4. QED
  BY <1>1, <1>2, <1>3

\* The search form, the grid and the sort model.
LEMMA ViewsChange ==
    ASSUME PageInv, announced \in Nat, Search \/ TurnPage \/ Resize \/ Sort
    PROVE  PageInv'
<1>1. tab \in Tabs /\ view \in Views(tab) /\ total \in Nat
  BY DEF PageInv
<1>2. \A w : w = view => /\ w.size \in Nat \ {0} /\ w.size \in Sizes
  BY <1>1, StorefrontAssumption DEF Views
<1>3. CASE Search
  <2>1. PICK text \in Texts \cup {NoText}, type \in {"partial", "prefix"} :
           Fetch([view EXCEPT !.search = text, !.type = type, !.page = 1])
    BY <1>3 DEF Search
  <2>2. [view EXCEPT !.search = text, !.type = type, !.page = 1] \in Views(tab)
    BY <1>1, ViewParts
  <2>3. QED
    BY <2>1, <2>2, FetchKeepsPage
<1>4. CASE TurnPage
  <2>1. PICK p \in 0 .. PageCount(total, view.size) - 1 :
           Fetch([view EXCEPT !.page = p + 1])
    BY <1>4 DEF TurnPage
  <2>2. p + 1 \in Nat \ {0}
    <3>1. view.size \in Nat \ {0}
      BY <1>2
    <3>2. PageCount(total, view.size) \in Nat
      BY <1>1, <3>1, Quotient DEF PageCount
    <3>3. QED
      BY <3>2
  <2>3. [view EXCEPT !.page = p + 1] \in Views(tab)
    BY <1>1, <2>2 DEF Views
  <2>4. QED
    BY <2>1, <2>3, FetchKeepsPage
<1>5. CASE Resize
  <2>1. PICK size \in Sizes \ {view.size} : Fetch([view EXCEPT !.size = size, !.page = 1])
    BY <1>5 DEF Resize
  <2>2. [view EXCEPT !.size = size, !.page = 1] \in Views(tab)
    BY <1>1, ViewParts
  <2>3. QED
    BY <2>1, <2>2, FetchKeepsPage
<1>6. CASE Sort
  <2>1. PICK field \in Sorting[tab], order \in {"asc", "desc"} :
           Fetch([view EXCEPT !.field = field, !.order = order])
    BY <1>6 DEF Sort
  <2>2. field \in IF tab = "product" THEN ProductFields ELSE OrderFields
    BY <1>1, StorefrontAssumption DEF Tabs
  <2>3. [view EXCEPT !.field = field, !.order = order] \in Views(tab)
    BY <1>1, <2>2 DEF Views
  <2>4. QED
    BY <2>1, <2>3, FetchKeepsPage
<1>7. QED
  BY <1>3, <1>4, <1>5, <1>6

\* An answer that is under way, an answer that is heard.
LEMMA AnswersKeepPage ==
    ASSUME PageInv, OrdersIn, NEW a \in asks, Serve(a) \/ FailAsk(a) \/ HearListing(a)
    PROVE  PageInv'
<1>1. UNCHANGED <<orders, tab, view, asked, quantities, announced>>
  BY DEF Serve, FailAsk, HearListing, entry
<1>2. RowLists' = RowLists /\ Views(tab)' = Views(tab)
  BY <1>1 DEF RowLists, Listable, Views
<1>3. \A b \in asks : AskIn(b)' /\ AskIn(b)
  BY <1>1, <1>2 DEF PageInv, AskIn
<1>4. <<>> \in RowLists /\ Len(<<>>) = 0
  BY DEF RowLists
<1>5. CASE HearListing(a)
  <2>1. /\ rows' = IF a.stage = "answered" THEN a.rows ELSE <<>>
        /\ total' = IF a.stage = "answered" THEN a.total ELSE total
        /\ asks' = asks \ {a}
    BY <1>5 DEF HearListing
  <2>2. rows' \in RowLists' /\ total' \in Nat /\ Len(rows') <= total'
    BY <1>2, <1>3, <1>4, <2>1 DEF AskIn, PageInv
  <2>3. QED
    BY <1>1, <1>2, <1>3, <2>1, <2>2 DEF PageInv
<1>6. ASSUME NEW b, b \in [n : Nat, view : Views(tab), told : Nat, stage : Stages,
                           rows : RowLists, total : Nat],
             Len(b.rows) <= b.total, b.told = a.told,
             asks' = (asks \ {a}) \cup {b}, UNCHANGED <<rows, total>>
      PROVE  PageInv'
  <2>1. AskIn(b)'
    BY <1>1, <1>2, <1>3, <1>6 DEF AskIn
  <2>2. QED
    BY <1>1, <1>2, <1>3, <1>6, <2>1 DEF PageInv
<1>7. CASE FailAsk(a)
  <2> DEFINE b == [a EXCEPT !.stage = "failed"]
  <2>1. b \in [n : Nat, view : Views(tab), told : Nat, stage : Stages,
               rows : RowLists, total : Nat]
    BY <1>3 DEF AskIn, Stages
  <2>2. Len(b.rows) <= b.total /\ b.told = a.told
    BY <1>3 DEF AskIn
  <2>3. asks' = (asks \ {a}) \cup {b} /\ UNCHANGED <<rows, total>>
    BY <1>7 DEF FailAsk
  <2> HIDE DEF b
  <2>4. QED
    BY <1>6, <2>1, <2>2, <2>3
<1>8. CASE Serve(a)
  <2> DEFINE list == Listed(a.view)
             b == [a EXCEPT !.stage = "answered", !.total = Len(list),
                            !.rows = Numbers(PageOf(list, a.view))]
  <2>1. a.view \in Views(tab)
    BY <1>3 DEF AskIn
  <2>2. /\ Len(list) \in Nat /\ Numbers(PageOf(list, a.view)) \in RowLists
        /\ Len(Numbers(PageOf(list, a.view))) <= Len(list)
    BY <2>1, ListedTyped, AnswerTyped DEF PageInv
  <2>3. asks' = (asks \ {a}) \cup {b} /\ UNCHANGED <<rows, total>>
    BY <1>8 DEF Serve
  <2> HIDE DEF list
  <2>4. b \in [n : Nat, view : Views(tab), told : Nat, stage : Stages,
               rows : RowLists, total : Nat]
    BY <1>3, <2>2 DEF AskIn, Stages
  <2>5. Len(b.rows) <= b.total /\ b.told = a.told
    BY <1>3, <2>2 DEF AskIn
  <2> HIDE DEF b
  <2>6. QED
    BY <1>6, <2>3, <2>4, <2>5
<1>9. QED
  BY <1>5, <1>7, <1>8

\* A quantity that is typed.
LEMMA TypingKeepsPage ==
    ASSUME PageInv, OrdersIn, ChangeQuantity
    PROVE  PageInv'
<1>1. UNCHANGED <<orders, tab, view, rows, total, asked, asks, announced>>
  BY DEF ChangeQuantity, page
<1>2. quantities' \in [Products -> 0 .. MaxQuantity]
  BY DEF ChangeQuantity, PageInv
<1>3. RowLists' = RowLists
  BY <1>1 DEF RowLists, Listable
<1>4. QED
  BY <1>1, <1>2, <1>3 DEF PageInv, AskIn
-----------------------------------------------------------------------------
(* Checkouts *)

CheckoutRecords ==
    [n : 1 .. posted, items : [Products -> Nat],
     entered : [Products -> 0 .. MaxQuantity], here : BOOLEAN,
     stage : {"sent", "stored", "failed"}, made : Nat]

\* A checkout under way is the only one with its number.
CheckoutsIn ==
    /\ posted \in Nat /\ announced \in Nat
    /\ checkouts \subseteq CheckoutRecords
    /\ \A c, d \in checkouts : c.n = d.n => c = d

\* The orders that checkout n made and the page did not announce yet.
Claim(cs, n) == {c \in cs : c.n = n /\ c.stage = "stored"}
Amount(claim) == IF claim = {} THEN 0 ELSE (CHOOSE c \in claim : TRUE).made
Claims(cs, m) == [n \in 1 .. m |-> Amount(Claim(cs, n))]

Unannounced == Total(Claims(checkouts, posted), 1 .. posted)

\* What was announced and what is still to be announced is in the orders.
Books == Len(History) + announced + Unannounced <= Len(orders)

\* A checkout makes orders.
LEMMA NewOrdersTyped ==
    ASSUME Len(orders) \in Nat, NEW items \in [Products -> Nat],
           NEW new \in NewOrders(items)
    PROVE  new \in Seq(OrderRecords) /\ Len(new) \in Nat
<1> DEFINE D == 1 .. Cardinality(Ordered(items))
           unit(p) == [product |-> p, status |-> 3, arrived |-> 0,
                       created |-> Len(orders) + 1]
           units(p) == [u \in 1 .. items[p] |-> unit(p)]
           Q == OrderRecords
<1>1. Ordered(items) \subseteq Products /\ Cardinality(Ordered(items)) \in Nat
  <2>1. Ordered(items) \subseteq Products
    BY DEF Ordered
  <2>2. IsFiniteSet(Products)
    BY Numbered, FS_Interval
  <2>3. QED
    BY <2>1, <2>2, FS_Subset, FS_CardinalityType
<1>2. PICK s \in SetToSeqs(Ordered(items)) :
         new = FlattenSeq([i \in DOMAIN s |-> units(s[i])])
  BY DEF NewOrders
<1>3. s \in [D -> Ordered(items)] /\ DOMAIN s = D
  BY DEF SetToSeqs
<1>4. ASSUME NEW p \in Products PROVE units(p) \in Seq(Q)
  <2>1. unit(p) \in Q
    BY DEF OrderRecords
  <2>2. items[p] \in Nat
    OBVIOUS
  <2> HIDE DEF unit, Q
  <2>3. units(p) \in [1 .. items[p] -> Q]
    BY <2>1
  <2>4. QED
    BY <2>2, <2>3
<1> HIDE DEF units, Q
<1>5. [i \in D |-> units(s[i])] \in [D -> Seq(Q)]
  BY <1>1, <1>3, <1>4
<1>6. new \in Seq(Q)
  BY <1>1, <1>2, <1>3, <1>5, FlattenKeepsElements
<1>7. QED
  BY <1>6, LenProperties DEF Q

\* The claims are numbers, and so is their sum.
LEMMA ClaimsTyped ==
    ASSUME CheckoutsIn
    PROVE  /\ \A n \in 1 .. posted : Claims(checkouts, posted)[n] \in Nat
           /\ IsFiniteSet(1 .. posted)
           /\ Unannounced \in Nat
<1>1. IsFiniteSet(1 .. posted)
  BY FS_Interval DEF CheckoutsIn
<1>2. ASSUME NEW n \in 1 .. posted PROVE Claims(checkouts, posted)[n] \in Nat
  <2>1. \A c \in Claim(checkouts, n) : c.made \in Nat
    BY DEF Claim, CheckoutsIn, CheckoutRecords
  <2>2. QED
    BY <2>1 DEF Claims, Amount
<1>3. Unannounced \in Int
  <2> DEFINE w == Claims(checkouts, posted)
             N == 1 .. posted
  <2>1. \A n \in N : w[n] \in Int
    BY <1>2
  <2>2. N \in SUBSET N /\ Unannounced = Total(w, N)
    BY DEF Unannounced
  <2> HIDE DEF w, N
  <2>3. IsFiniteSet(N)
    BY <1>1 DEF N
  <2>4. QED
    BY <2>1, <2>2, <2>3, TotalInt
<1>4. 0 <= Unannounced
  <2>1. {} \in SUBSET (1 .. posted) /\ (1 .. posted) \in SUBSET (1 .. posted)
    OBVIOUS
  <2>2. QED
    BY <1>1, <1>2, <2>1, TotalEmpty, TotalGrows DEF Unannounced
<1>5. QED
  BY <1>1, <1>2, <1>3, <1>4

\* The claim of a checkout under way.
LEMMA ClaimOf ==
    ASSUME NEW cs, NEW m \in Nat, NEW c \in cs, c.n \in 1 .. m,
           \A d \in cs : d.n = c.n => d = c
    PROVE  Claims(cs, m)[c.n] = IF c.stage = "stored" THEN c.made ELSE 0
<1>1. Claim(cs, c.n) = IF c.stage = "stored" THEN {c} ELSE {}
  BY DEF Claim
<1>2. QED
  BY <1>1 DEF Claims, Amount

\* The sum when one checkout goes on.
LEMMA ClaimChanges ==
    ASSUME CheckoutsIn, CheckoutsIn', posted' = posted, NEW c \in checkouts,
           \A n \in 1 .. posted : n # c.n =>
               Claim(checkouts', n) = Claim(checkouts, n)
    PROVE  Unannounced' = Unannounced
               - (IF c.stage = "stored" THEN c.made ELSE 0)
               + Claims(checkouts', posted)[c.n]
<1> DEFINE w == Claims(checkouts, posted)
           v == Claims(checkouts', posted)
<1>1. c.n \in 1 .. posted
  BY DEF CheckoutsIn, CheckoutRecords
<1>2. w[c.n] = IF c.stage = "stored" THEN c.made ELSE 0
  BY <1>1, ClaimOf DEF CheckoutsIn
<1>3. \A n \in 1 .. posted : w[n] \in Int /\ v[n] \in Int
  <2>1. \A n \in 1 .. posted : w[n] \in Nat
    BY ClaimsTyped
  <2>2. ASSUME NEW n \in 1 .. posted PROVE v[n] \in Nat
    <3>1. \A d \in Claim(checkouts', n) : d.made \in Nat
      BY DEF Claim, CheckoutsIn, CheckoutRecords
    <3>2. QED
      BY <3>1 DEF Claims, Amount
  <2>3. QED
    BY <2>1, <2>2
<1>4. \A n \in (1 .. posted) \ {c.n} : w[n] = v[n]
  BY DEF Claims
<1>5. IsFiniteSet(1 .. posted)
  BY ClaimsTyped
<1>6. Unannounced = Total(w, 1 .. posted) /\ Unannounced' = Total(v, 1 .. posted)
  BY DEF Unannounced
<1>7. Total(v, 1 .. posted) = Total(w, 1 .. posted) - w[c.n] + v[c.n]
  <2> DEFINE N == 1 .. posted
             x == c.n
  <2>1. \A y \in N \ {x} : w[y] = v[y]
    BY <1>4
  <2>2. x \in N /\ \A y \in N : w[y] \in Int /\ v[y] \in Int
    BY <1>1, <1>3
  <2> HIDE DEF w, v, N, x
  <2>3. IsFiniteSet(N)
    BY <1>5 DEF N
  <2>4. Total(v, N) = Total(w, N) - w[x] + v[x]
    BY <2>1, <2>2, <2>3, TotalChange
  <2>5. QED
    BY <2>4 DEF N, x
<1>8. QED
  BY <1>2, <1>6, <1>7

Made(c) == IF c.stage = "stored" THEN c.made ELSE 0

\* A checkout that is answered keeps its number (Store, Refuse).
LEMMA CheckoutGoesOn ==
    ASSUME CheckoutsIn, NEW c \in checkouts, NEW d \in CheckoutRecords, d.n = c.n,
           checkouts' = (checkouts \ {c}) \cup {d}, UNCHANGED <<posted, announced>>
    PROVE  CheckoutsIn' /\ Unannounced' = Unannounced - Made(c) + Made(d)
<1>1. CheckoutRecords' = CheckoutRecords
  BY DEF CheckoutRecords
<1>2. CheckoutsIn'
  BY <1>1 DEF CheckoutsIn
<1>3. \A n \in 1 .. posted : n # c.n => Claim(checkouts', n) = Claim(checkouts, n)
  BY DEF Claim
<1>4. Claims(checkouts', posted)[c.n] = Made(d)
  <2>1. posted \in Nat /\ d \in checkouts' /\ d.n \in 1 .. posted
    BY <1>2 DEF CheckoutsIn, CheckoutRecords
  <2>2. \A x \in checkouts' : x.n = d.n => x = d
    BY DEF CheckoutsIn
  <2>3. Claims(checkouts', posted)[d.n] = Made(d)
    BY <2>1, <2>2, ClaimOf DEF Made
  <2>4. QED
    BY <2>3
<1>5. QED
  BY <1>2, <1>3, <1>4, ClaimChanges DEF Made

\* A checkout whose answer is heard (HearCheckout).
LEMMA CheckoutEnds ==
    ASSUME CheckoutsIn, NEW c \in checkouts, checkouts' = checkouts \ {c},
           posted' = posted, announced' \in Nat
    PROVE  CheckoutsIn' /\ Unannounced' = Unannounced - Made(c)
<1>1. CheckoutRecords' = CheckoutRecords
  BY DEF CheckoutRecords
<1>2. CheckoutsIn'
  BY <1>1 DEF CheckoutsIn
<1>3. \A n \in 1 .. posted : n # c.n => Claim(checkouts', n) = Claim(checkouts, n)
  BY DEF Claim
<1>4. Claim(checkouts', c.n) = {} /\ c.n \in 1 .. posted
  BY DEF Claim, CheckoutsIn, CheckoutRecords
<1>5. Claims(checkouts', posted)[c.n] = 0
  BY <1>4 DEF Claims, Amount
<1>6. Unannounced' = Unannounced - Made(c) + 0
  BY <1>2, <1>3, <1>5, ClaimChanges DEF Made
<1>7. Unannounced \in Nat /\ Made(c) \in Nat
  BY ClaimsTyped DEF Made, CheckoutsIn, CheckoutRecords
<1>8. QED
  BY <1>2, <1>6, <1>7

\* A checkout that is posted (Submit).
LEMMA CheckoutBegins ==
    ASSUME CheckoutsIn, NEW c, c.n = posted + 1, c.stage = "sent",
           c \in CheckoutRecords', checkouts' = checkouts \cup {c},
           posted' = posted + 1, announced' = announced
    PROVE  CheckoutsIn' /\ Unannounced' = Unannounced
<1>1. posted \in Nat /\ posted + 1 \in Nat
  BY DEF CheckoutsIn
<1>2. checkouts \subseteq CheckoutRecords'
  BY <1>1 DEF CheckoutsIn, CheckoutRecords
<1>3. \A d \in checkouts : d.n # posted + 1
  BY <1>1 DEF CheckoutsIn, CheckoutRecords
<1>4. CheckoutsIn'
  BY <1>1, <1>2, <1>3 DEF CheckoutsIn
<1> DEFINE w == Claims(checkouts, posted)
           v == Claims(checkouts', posted + 1)
           N == 1 .. posted
           M == 1 .. posted + 1
<1>5. \A n \in N : w[n] = v[n]
  <2>1. \A n \in N : Claim(checkouts', n) = Claim(checkouts, n)
    BY <1>1 DEF Claim
  <2>2. \A n \in N : n \in 1 .. posted + 1
    BY <1>1
  <2>3. /\ \A n \in N : w[n] = Amount(Claim(checkouts, n))
        /\ \A n \in N : v[n] = Amount(Claim(checkouts', n))
    BY <2>2 DEF Claims
  <2>4. QED
    BY <2>1, <2>3
<1>6. \A n \in M : v[n] \in Int
  <2>1. ASSUME NEW n \in 1 .. posted' PROVE Claims(checkouts, posted)'[n] \in Nat
    <3>1. \A d \in Claim(checkouts', n) : d.made \in Nat
      BY <1>4 DEF Claim, CheckoutsIn, CheckoutRecords
    <3>2. QED
      BY <3>1 DEF Claims, Amount
  <2>2. QED
    BY <2>1
<1>7. v[posted + 1] = 0
  <2>1. c \in checkouts' /\ c.n \in 1 .. posted + 1
    BY <1>1
  <2>2. \A d \in checkouts' : d.n = c.n => d = c
    BY <1>3
  <2>3. QED
    BY <1>1, <2>1, <2>2, ClaimOf
<1>8. /\ N \in SUBSET M /\ N \in SUBSET N
      /\ posted + 1 \in M \ N /\ N \cup {posted + 1} = M
      /\ IsFiniteSet(M) /\ IsFiniteSet(N)
  <2>1. N \in SUBSET M /\ N \in SUBSET N
    BY <1>1
  <2>2. posted + 1 \in M \ N /\ N \cup {posted + 1} = M
    BY <1>1
  <2>3. IsFiniteSet(M) /\ IsFiniteSet(N)
    BY <1>1, FS_Interval
  <2>4. QED
    BY <2>1, <2>2, <2>3
<1>9. Unannounced = Total(w, N) /\ Unannounced' = Total(v, M)
  BY DEF Unannounced
<1>10. Unannounced \in Nat
  BY ClaimsTyped
<1> HIDE DEF w, v, N, M
<1>11. Total(v, M) = Total(v, N) + v[posted + 1]
  BY <1>6, <1>8, TotalAdd
<1>12. Total(w, N) = Total(v, N)
  BY <1>5, <1>8, TotalSame
<1>13. QED
  BY <1>4, <1>7, <1>9, <1>10, <1>11, <1>12

\* A page that is left forgets none of its checkouts (Leave).
LEMMA CheckoutsStay ==
    ASSUME CheckoutsIn, checkouts' = {[c EXCEPT !.here = FALSE] : c \in checkouts},
           UNCHANGED <<posted, announced>>
    PROVE  CheckoutsIn' /\ Unannounced' = Unannounced
<1>1. CheckoutRecords' = CheckoutRecords /\ posted \in Nat
  BY DEF CheckoutRecords, CheckoutsIn
<1>2. \A c \in CheckoutRecords :
         /\ [c EXCEPT !.here = FALSE] \in CheckoutRecords
         /\ [c EXCEPT !.here = FALSE].n = c.n
         /\ [c EXCEPT !.here = FALSE].stage = c.stage
         /\ [c EXCEPT !.here = FALSE].made = c.made
  BY DEF CheckoutRecords
<1>3. CheckoutsIn'
  <2>1. checkouts' \subseteq CheckoutRecords
    BY <1>2 DEF CheckoutsIn
  <2>2. ASSUME NEW x \in checkouts', NEW y \in checkouts', x.n = y.n PROVE x = y
    <3>1. PICK c \in checkouts : x = [c EXCEPT !.here = FALSE]
      OBVIOUS
    <3>2. PICK d \in checkouts : y = [d EXCEPT !.here = FALSE]
      OBVIOUS
    <3>3. c.n = d.n
      BY <1>2, <2>2, <3>1, <3>2 DEF CheckoutsIn
    <3>4. c = d
      BY <3>3 DEF CheckoutsIn
    <3>5. QED
      BY <3>1, <3>2, <3>4
  <2>3. QED
    BY <1>1, <2>1, <2>2 DEF CheckoutsIn
<1> DEFINE w == Claims(checkouts, posted)
           v == Claims(checkouts', posted)
           N == 1 .. posted
<1>4. ASSUME NEW n \in N PROVE w[n] = v[n]
  <2>1. CASE \E c \in checkouts : c.n = n
    <3>1. PICK c \in checkouts : c.n = n
      BY <2>1
    <3> DEFINE d == [c EXCEPT !.here = FALSE]
    <3>2. /\ c \in CheckoutRecords /\ d \in checkouts' /\ d.n = n /\ d.stage = c.stage
          /\ d.made = c.made
      BY <1>2, <3>1 DEF CheckoutsIn
    <3> HIDE DEF d
    <3>3. w[n] = IF c.stage = "stored" THEN c.made ELSE 0
      BY <1>1, <3>1, ClaimOf DEF CheckoutsIn
    <3>4. v[n] = IF d.stage = "stored" THEN d.made ELSE 0
      BY <1>1, <1>3, <3>2, ClaimOf DEF CheckoutsIn
    <3>5. QED
      BY <3>2, <3>3, <3>4
  <2>2. CASE ~ \E c \in checkouts : c.n = n
    <3>1. \A c \in checkouts : [c EXCEPT !.here = FALSE].n # n
      BY <1>2, <2>2 DEF CheckoutsIn
    <3>2. Claim(checkouts, n) = {} /\ Claim(checkouts', n) = {}
      BY <2>2, <3>1 DEF Claim
    <3>3. QED
      BY <3>2 DEF Claims
  <2>3. QED
    BY <2>1, <2>2
<1>5. Unannounced = Total(w, N) /\ Unannounced' = Total(v, N)
  BY DEF Unannounced
<1>6. IsFiniteSet(N) /\ N \in SUBSET N
  BY ClaimsTyped
<1> HIDE DEF w, v, N
<1>7. QED
  BY <1>3, <1>4, <1>5, <1>6, TotalSame
-----------------------------------------------------------------------------
(* The invariant *)

StoreInv == OrdersIn /\ PageInv /\ CheckoutsIn /\ Books /\ AnnouncedOrdersAreListed

\* What the invariant says of lengths.
LEMMA Lengths ==
    ASSUME StoreInv
    PROVE  /\ Len(History) \in Nat /\ Len(orders) \in Nat
           /\ announced \in Nat /\ posted \in Nat /\ Unannounced \in Nat
           /\ Len(History) + announced <= Len(orders)
<1>1. Len(History) \in Nat
  <2> DEFINE Q == OrderRecords
  <2>1. History \in Seq(Q)
    BY StorefrontAssumption
  <2> HIDE DEF Q
  <2>2. QED
    BY <2>1, LenProperties
<1>2. Len(orders) \in Nat
  BY Numbered DEF StoreInv
<1>3. announced \in Nat /\ posted \in Nat /\ Unannounced \in Nat
  BY ClaimsTyped DEF StoreInv, CheckoutsIn
<1>4. QED
  BY <1>1, <1>2, <1>3 DEF StoreInv, Books

\* The state at the start.
LEMMA StoreInit == Init => StoreInv
<1> SUFFICES ASSUME Init PROVE StoreInv
  OBVIOUS
<1>1. OrdersIn
  BY StorefrontAssumption DEF Init, OrdersIn
<1>2. CheckoutsIn
  BY DEF Init, CheckoutsIn
<1>3. Books
  <2>1. posted = 0 /\ announced = 0 /\ orders = History
    BY DEF Init
  <2>2. 1 .. posted = {}
    BY <2>1
  <2>3. Unannounced = 0
    BY <2>2, TotalEmpty DEF Unannounced
  <2>4. Len(orders) \in Nat
    BY <1>1, Numbered
  <2>5. QED
    BY <2>1, <2>3, <2>4 DEF Books
<1>4. PageInv
  <2>1. tab \in Tabs /\ view \in Views(tab)
    BY FirstViewTyped DEF Init
  <2>2. <<>> \in RowLists /\ Len(<<>>) = 0
    BY DEF RowLists
  <2>3. \A a \in asks : AskIn(a)
    BY <2>1, <2>2 DEF Init, AskIn, Stages
  <2>4. quantities \in [Products -> 0 .. MaxQuantity]
    BY StorefrontAssumption DEF Init, NoQuantities
  <2>5. QED
    BY <2>1, <2>2, <2>3, <2>4 DEF Init, PageInv
<1>5. AnnouncedOrdersAreListed
  BY DEF Init, AnnouncedOrdersAreListed
<1>6. QED
  BY <1>1, <1>2, <1>3, <1>4, <1>5 DEF StoreInv

\* Orders and checkouts that a step leaves alone.
LEMMA StoreStays ==
    ASSUME StoreInv, UNCHANGED <<orders, checkouts, posted, announced>>
    PROVE  OrdersIn' /\ CheckoutsIn' /\ Books'
BY DEF StoreInv, OrdersIn, CheckoutsIn, CheckoutRecords, Books, Unannounced

\* A history asked for has all the orders of that moment.
LEMMA AnswersAnnounce ==
    ASSUME StoreInv, NEW a \in asks, Serve(a) \/ FailAsk(a) \/ HearListing(a)
    PROVE  AnnouncedOrdersAreListed'
<1>1. UNCHANGED <<orders, tab>> /\ AskIn(a) /\ tab \in Tabs
  BY DEF Serve, FailAsk, HearListing, StoreInv, PageInv
<1>2. ASSUME NEW b, asks' \subseteq asks \cup {b},
             tab = "orders" /\ b.stage = "answered" /\ b.view.search = NoText
                 => b.total >= Len(History) + b.told
      PROVE  AnnouncedOrdersAreListed'
  BY <1>1, <1>2 DEF StoreInv, AnnouncedOrdersAreListed
<1>3. CASE HearListing(a)
  BY <1>1, <1>3 DEF HearListing, StoreInv, AnnouncedOrdersAreListed
<1>4. CASE FailAsk(a)
  <2> DEFINE b == [a EXCEPT !.stage = "failed"]
  <2>1. b.stage = "failed" /\ asks' \subseteq asks \cup {b}
    BY <1>1, <1>4 DEF FailAsk, AskIn
  <2> HIDE DEF b
  <2>2. QED
    BY <1>2, <2>1
<1>5. CASE Serve(a)
  <2> DEFINE list == Listed(a.view)
             b == [a EXCEPT !.stage = "answered", !.total = Len(list),
                            !.rows = Numbers(PageOf(list, a.view))]
  <2>1. b.total = Len(list) /\ b.view = a.view /\ b.told = a.told
    BY <1>1 DEF AskIn
  <2>2. asks' \subseteq asks \cup {b}
    BY <1>5 DEF Serve
  <2>3. ASSUME tab = "orders", a.view.search = NoText
        PROVE  Len(list) = Len(orders)
    <3>1. a.view \in Views(tab)
      BY <1>1 DEF AskIn
    <3>2. Matching(a.view) = 1 .. Len(orders)
      BY <2>3, Numbered DEF StoreInv, Matching, Listable, OrderMatches
    <3>3. Len(list) = Cardinality(1 .. Len(orders))
      BY <1>1, <3>1, <3>2, ListedTyped DEF StoreInv
    <3>4. Len(orders) \in Nat
      BY Lengths
    <3>5. Cardinality(1 .. Len(orders)) = Len(orders)
      BY <3>4, FS_Interval
    <3>6. QED
      BY <3>3, <3>5
  <2>4. a.told \in Nat /\ a.told <= announced
    BY <1>1 DEF AskIn
  <2> HIDE DEF b, list
  <2>5. tab = "orders" /\ b.stage = "answered" /\ b.view.search = NoText
            => b.total >= Len(History) + b.told
    BY <2>1, <2>3, <2>4, Lengths
  <2>6. QED
    BY <1>2, <2>2, <2>5
<1>6. QED
  BY <1>3, <1>4, <1>5

\* A request that was just sent is not answered.
LEMMA AsksAnnounce ==
    ASSUME AnnouncedOrdersAreListed, NEW v, asks' \subseteq asks \cup {Ask(v)},
           tab' = tab \/ asks' = {Ask(v)}
    PROVE  AnnouncedOrdersAreListed'
BY DEF AnnouncedOrdersAreListed, Ask

\* The order button (Submit).
LEMMA SubmitKeeps ==
    ASSUME StoreInv, Submit
    PROVE  StoreInv'
<1> DEFINE items == [p \in Products |-> IF p \in ToSet(rows) THEN quantities[p] ELSE 0]
           c == [n |-> posted + 1, items |-> items, entered |-> quantities,
                 here |-> TRUE, stage |-> "sent", made |-> 0]
<1>1. /\ checkouts' = checkouts \cup {c} /\ posted' = posted + 1
      /\ UNCHANGED <<orders, tab, view, rows, total, asked, asks, quantities, announced>>
  BY DEF Submit, page
<1>2. quantities \in [Products -> 0 .. MaxQuantity] /\ posted \in Nat
  BY DEF StoreInv, PageInv, CheckoutsIn
<1>3. items \in [Products -> Nat]
  BY <1>2
<1>4. c \in CheckoutRecords'
  <2>1. posted + 1 \in 1 .. posted'
    BY <1>1, <1>2
  <2> HIDE DEF items
  <2>2. QED
    BY <1>1, <1>2, <1>3, <2>1 DEF CheckoutRecords
<1>5. c.n = posted + 1 /\ c.stage = "sent"
  OBVIOUS
<1> HIDE DEF c
<1>6. CheckoutsIn' /\ Unannounced' = Unannounced
  BY <1>1, <1>4, <1>5, CheckoutBegins DEF StoreInv
<1>7. OrdersIn' /\ Books'
  BY <1>1, <1>6 DEF StoreInv, OrdersIn, Books
<1>8. PageInv'
  BY <1>1, <1>2, <1>7, Lengths, PageStays DEF StoreInv
<1>9. AnnouncedOrdersAreListed'
  BY <1>1 DEF StoreInv, AnnouncedOrdersAreListed
<1>10. QED
  BY <1>6, <1>7, <1>8, <1>9 DEF StoreInv

\* The transaction of a checkout (Store, Refuse).
LEMMA StoreKeeps ==
    ASSUME StoreInv, NEW c \in checkouts, Store(c) \/ Refuse(c)
    PROVE  StoreInv'
<1>1. UNCHANGED <<tab, view, rows, total, asked, asks, quantities, posted, announced>>
  BY DEF Store, Refuse, page
<1>2. c \in CheckoutRecords /\ c.items \in [Products -> Nat] /\ c.stage = "sent"
  BY DEF StoreInv, CheckoutsIn, CheckoutRecords, Store, Refuse
<1>3. ASSUME NEW new \in Seq(OrderRecords), Len(new) \in Nat, NEW d \in CheckoutRecords,
             orders' = orders \o new, d.n = c.n, Made(d) \in Nat, Made(d) <= Len(new),
             checkouts' = (checkouts \ {c}) \cup {d}
      PROVE  StoreInv'
  <2>1. CheckoutsIn' /\ Unannounced' = Unannounced - Made(c) + Made(d)
    BY <1>1, <1>3, CheckoutGoesOn DEF StoreInv
  <2>2. OrdersIn' /\ Len(orders') = Len(orders) + Len(new)
    <3> DEFINE Q == OrderRecords
    <3>1. orders \in Seq(Q) /\ new \in Seq(Q)
      BY DEF StoreInv, OrdersIn
    <3> HIDE DEF Q
    <3>2. orders \o new \in Seq(Q) /\ Len(orders \o new) = Len(orders) + Len(new)
      BY <3>1, ConcatProperties
    <3>3. QED
      BY <1>3, <3>2 DEF OrdersIn, Q
  <2>3. Made(c) = 0
    BY <1>2 DEF Made
  <2>4. Books'
    BY <1>1, <1>3, <2>1, <2>2, <2>3, Lengths DEF StoreInv, Books
  <2>5. PageInv'
    <3>1. Len(orders) <= Len(orders') /\ announced' \in Nat /\ announced <= announced'
      BY <1>1, <1>3, <2>2, Lengths
    <3>2. quantities' \in [Products -> 0 .. MaxQuantity]
      BY <1>1 DEF StoreInv, PageInv
    <3>3. QED
      BY <1>1, <2>2, <3>1, <3>2, Lengths, PageStays DEF StoreInv
  <2>6. AnnouncedOrdersAreListed'
    BY <1>1 DEF StoreInv, AnnouncedOrdersAreListed
  <2>7. QED
    BY <2>1, <2>2, <2>4, <2>5, <2>6 DEF StoreInv
<1>4. CASE Refuse(c)
  <2> DEFINE d == [c EXCEPT !.stage = "failed"]
  <2>1. d \in CheckoutRecords /\ d.n = c.n /\ Made(d) = 0
    BY <1>2 DEF CheckoutRecords, Made
  <2>2. checkouts' = (checkouts \ {c}) \cup {d} /\ orders' = orders
    BY <1>4 DEF Refuse
  <2> HIDE DEF d
  <2>3. orders' = orders \o <<>> /\ <<>> \in Seq(OrderRecords) /\ Len(<<>>) = 0
    <3> DEFINE Q == OrderRecords
    <3>1. orders \in Seq(Q)
      BY DEF StoreInv, OrdersIn
    <3> HIDE DEF Q
    <3>2. orders \o <<>> = orders /\ <<>> \in Seq(Q)
      BY <3>1, ConcatEmptySeq, EmptySeq
    <3>3. QED
      BY <2>2, <3>2 DEF Q
  <2> DEFINE none == <<>>
  <2>4. none \in Seq(OrderRecords) /\ orders' = orders \o none
    BY <2>3
  <2>5. Len(none) = 0 /\ Len(none) \in Nat /\ Made(d) \in Nat /\ Made(d) <= Len(none)
    BY <2>1, <2>3
  <2> HIDE DEF none
  <2>6. QED
    BY <1>3, <2>1, <2>2, <2>4, <2>5
<1>5. CASE Store(c)
  <2>1. PICK new \in NewOrders(c.items), stage \in {"stored", "failed"} :
           /\ orders' = orders \o new
           /\ checkouts' = (checkouts \ {c}) \cup
                  {[c EXCEPT !.stage = stage, !.made = Len(new)]}
    BY <1>5 DEF Store
  <2>2. new \in Seq(OrderRecords) /\ Len(new) \in Nat
    BY <1>2, Lengths, NewOrdersTyped
  <2> DEFINE d == [c EXCEPT !.stage = stage, !.made = Len(new)]
  <2>3. d \in CheckoutRecords /\ d.n = c.n /\ d.made = Len(new)
    <3> DEFINE k == Len(new)
    <3>1. k \in Nat
      BY <2>2
    <3> HIDE DEF k
    <3>2. \A e : e = [c EXCEPT !.stage = stage, !.made = k] =>
             e \in CheckoutRecords /\ e.n = c.n /\ e.made = k
      BY <1>2, <3>1 DEF CheckoutRecords
    <3>3. QED
      BY <3>2 DEF k
  <2> HIDE DEF d
  <2>4. Made(d) \in Nat /\ Made(d) <= Len(new)
    BY <2>2, <2>3 DEF Made
  <2>5. QED
    BY <1>3, <2>1, <2>2, <2>3, <2>4 DEF d
<1>6. QED
  BY <1>4, <1>5

\* The statuses of orders change and nothing else of them.
LEMMA StatusesChange ==
    ASSUME OrdersIn, UpdateStatuses
    PROVE  /\ orders' \in Seq(OrderRecords) /\ Len(orders') = Len(orders)
           /\ \A i \in DOMAIN orders : /\ orders'[i].product = orders[i].product
                                       /\ orders'[i] \in OrderRecords
<1> DEFINE Q == OrderRecords
           n == Len(orders)
<1>1. PICK ids \in SUBSET DOMAIN orders, newStatus \in Statuses :
         orders' = [i \in DOMAIN orders |->
                       IF i \in ids THEN [orders[i] EXCEPT !.status = newStatus]
                                   ELSE orders[i]]
  BY DEF UpdateStatuses
<1>2. newStatus \in Nat
  BY StorefrontAssumption
<1>3. n \in Nat /\ DOMAIN orders = 1 .. n /\ \A i \in DOMAIN orders : orders[i] \in OrderRecords
  BY Numbered
<1>4. ASSUME NEW i \in DOMAIN orders
      PROVE  orders'[i].product = orders[i].product /\ orders'[i] \in OrderRecords
  BY <1>1, <1>2, <1>3 DEF OrderRecords
<1>5. DOMAIN orders' = 1 .. n
  BY <1>1, <1>3
<1>6. \A i \in 1 .. n : orders'[i] \in Q
  BY <1>3, <1>4
<1> HIDE DEF Q, n
<1>7. orders' \in [1 .. n -> Q]
  BY <1>1, <1>5, <1>6
<1>8. orders' \in Seq(Q) /\ Len(orders') = n
  BY <1>3, <1>7
<1>9. QED
  BY <1>4, <1>8 DEF Q, n

\* What robots do (UpdateStatuses).
LEMMA UpdateStatusesKeeps ==
    ASSUME StoreInv, UpdateStatuses
    PROVE  StoreInv'
<1>1. UNCHANGED <<tab, view, rows, total, asked, asks, quantities, checkouts,
                  posted, announced>>
  BY DEF UpdateStatuses, page
<1>2. OrdersIn' /\ Len(orders') = Len(orders)
  BY StatusesChange DEF StoreInv, OrdersIn
<1>3. CheckoutsIn' /\ Books'
  BY <1>1, <1>2 DEF StoreInv, CheckoutsIn, CheckoutRecords, Books, Unannounced
<1>4. quantities' \in [Products -> 0 .. MaxQuantity]
  BY <1>1 DEF StoreInv, PageInv
<1>5. PageInv'
  BY <1>1, <1>2, <1>4, Lengths, PageStays DEF StoreInv
<1>6. AnnouncedOrdersAreListed'
  BY <1>1 DEF StoreInv, AnnouncedOrdersAreListed
<1>7. QED
  BY <1>2, <1>3, <1>5, <1>6 DEF StoreInv

\* The answer of a checkout (HearCheckout).
LEMMA HearCheckoutKeeps ==
    ASSUME StoreInv, NEW c \in checkouts, HearCheckout(c)
    PROVE  StoreInv'
<1>1. /\ checkouts' = checkouts \ {c}
      /\ UNCHANGED <<orders, tab, view, rows, total, asked, asks, posted>>
  BY DEF HearCheckout, page
<1>2. announced' = announced + Made(c) /\ Made(c) \in Nat
  <2>1. Made(c) \in Nat
    BY DEF StoreInv, CheckoutsIn, CheckoutRecords, Made
  <2>2. QED
    BY <2>1, Lengths DEF HearCheckout, Announces, Made
<1>3. announced' \in Nat /\ announced <= announced'
  BY <1>2, Lengths
<1>4. CheckoutsIn' /\ Unannounced' = Unannounced - Made(c)
  BY <1>1, <1>3, CheckoutEnds DEF StoreInv
<1>5. OrdersIn' /\ Books'
  BY <1>1, <1>2, <1>4, Lengths DEF StoreInv, OrdersIn, Books
<1>6. quantities' \in [Products -> 0 .. MaxQuantity]
  BY StorefrontAssumption DEF HearCheckout, NoQuantities, StoreInv, PageInv
<1>7. PageInv'
  BY <1>1, <1>3, <1>5, <1>6, Lengths, PageStays DEF StoreInv
<1>8. AnnouncedOrdersAreListed'
  BY <1>1 DEF StoreInv, AnnouncedOrdersAreListed
<1>9. QED
  BY <1>4, <1>5, <1>7, <1>8 DEF StoreInv

\* The invariant holds at all times: types, what requests carry, and that the orders
\* of checkouts are announced once and not before they are there.
THEOREM Invariant == Spec => []StoreInv
<1>1. StoreInv /\ [Next]_vars => StoreInv'
  <2> SUFFICES ASSUME StoreInv, [Next]_vars PROVE StoreInv'
    OBVIOUS
  <2>1. ASSUME NEW v, Fetch(v), PageInv' PROVE StoreInv'
    <3>1. UNCHANGED <<orders, checkouts, posted, announced>>
      BY <2>1 DEF Fetch, entry
    <3>2. asks' = asks \cup {Ask(v)} /\ tab' = tab
      BY <2>1 DEF Fetch
    <3>3. AnnouncedOrdersAreListed'
      BY <3>2, AsksAnnounce DEF StoreInv
    <3>4. QED
      BY <2>1, <3>1, <3>3, StoreStays DEF StoreInv
  <2>2. CASE Search \/ TurnPage \/ Resize \/ Sort
    <3>1. PageInv'
      BY <2>2, Lengths, ViewsChange DEF StoreInv
    <3>2. \E v : Fetch(v)
      BY <2>2 DEF Search, TurnPage, Resize, Sort
    <3>3. QED
      BY <2>1, <3>1, <3>2
  <2>3. CASE Leave
    <3> DEFINE t == CHOOSE x \in Tabs : x # tab
    <3>1. PICK x \in Tabs : Open(x)
      <4>1. t \in Tabs
        BY DEF Tabs
      <4>2. Open(t)
        BY <2>3 DEF Leave
      <4> HIDE DEF t
      <4>3. QED
        BY <4>1, <4>2
    <3>2. /\ checkouts' = {[c EXCEPT !.here = FALSE] : c \in checkouts}
          /\ UNCHANGED <<orders, posted, announced>>
      BY <2>3 DEF Leave
    <3>3. CheckoutsIn' /\ Unannounced' = Unannounced
      BY <3>2, CheckoutsStay DEF StoreInv
    <3>4. OrdersIn' /\ Books'
      BY <3>2, <3>3 DEF StoreInv, OrdersIn, Books
    <3>5. PageInv'
      BY <3>1, <3>2, Lengths, OpenKeepsPage DEF StoreInv
    <3>6. asks' = {Ask(FirstView(x))}
      BY <3>1 DEF Open
    <3>7. AnnouncedOrdersAreListed'
      BY <3>6, AsksAnnounce DEF StoreInv
    <3>8. QED
      BY <3>3, <3>4, <3>5, <3>7 DEF StoreInv
  <2>4. CASE ChangeQuantity
    <3>1. UNCHANGED <<orders, tab, asks, checkouts, posted, announced>>
      BY <2>4 DEF ChangeQuantity, page
    <3>2. PageInv'
      BY <2>4, TypingKeepsPage DEF StoreInv
    <3>3. AnnouncedOrdersAreListed'
      BY <3>1 DEF StoreInv, AnnouncedOrdersAreListed
    <3>4. QED
      BY <3>1, <3>2, <3>3, StoreStays DEF StoreInv
  <2>5. CASE Submit
    BY <2>5, SubmitKeeps
  <2>6. ASSUME NEW a \in asks, Serve(a) \/ FailAsk(a) \/ HearListing(a) PROVE StoreInv'
    <3>1. UNCHANGED <<orders, checkouts, posted, announced>>
      BY <2>6 DEF Serve, FailAsk, HearListing, entry
    <3>2. PageInv' /\ AnnouncedOrdersAreListed'
      BY <2>6, AnswersKeepPage, AnswersAnnounce DEF StoreInv
    <3>3. QED
      BY <3>1, <3>2, StoreStays DEF StoreInv
  <2>7. ASSUME NEW c \in checkouts, Store(c) \/ Refuse(c) \/ HearCheckout(c)
        PROVE  StoreInv'
    BY <2>7, StoreKeeps, HearCheckoutKeeps
  <2>8. CASE UNCHANGED vars
    <3>1. UNCHANGED <<orders, tab, view, rows, total, asked, asks, quantities,
                      checkouts, posted, announced>>
      BY <2>8 DEF vars
    <3>2. quantities' \in [Products -> 0 .. MaxQuantity]
      BY <3>1 DEF StoreInv, PageInv
    <3>3. OrdersIn' /\ CheckoutsIn' /\ Books'
      BY <3>1, StoreStays
    <3>4. PageInv'
      BY <3>1, <3>2, <3>3, Lengths, PageStays DEF StoreInv
    <3>5. AnnouncedOrdersAreListed'
      BY <3>1 DEF StoreInv, AnnouncedOrdersAreListed
    <3>6. QED
      BY <3>3, <3>4, <3>5 DEF StoreInv
  <2>9. CASE UpdateStatuses
    BY <2>9, UpdateStatusesKeeps
  <2>10. QED
    BY <2>2, <2>3, <2>4, <2>5, <2>6, <2>7, <2>8, <2>9 DEF Next
<1>2. QED
  BY <1>1, StoreInit, PTL DEF Spec

\* The variables of the tab keep their types; in particular no more orders are
\* announced than there are.
THEOREM TypeCorrect == Spec => []TypeOK
<1>1. StoreInv => TypeOK
  <2> SUFFICES ASSUME StoreInv PROVE TypeOK
    OBVIOUS
  <2>1. tab \in Tabs /\ view \in Views(tab)
    BY DEF StoreInv, PageInv
  <2>2. /\ view.search \in Texts \cup {NoText} /\ view.type \in {"partial", "prefix"}
        /\ view.page \in Nat \ {0} /\ view.size \in Sizes
        /\ view.field \in IF tab = "product" THEN ProductFields ELSE OrderFields
        /\ view.order \in {"asc", "desc"}
    BY <2>1 DEF Views
  <2>3. ToSet(rows) \subseteq Listable
    <3>1. rows \in Seq(Listable)
      BY DEF StoreInv, PageInv, RowLists
    <3> HIDE DEF Listable
    <3>2. QED
      BY <3>1, LenProperties, ElementOfSeq DEF ToSet
  <2>4. Len(rows) <= total /\ quantities \in [Products -> 0 .. MaxQuantity]
    BY DEF StoreInv, PageInv
  <2>5. announced <= Len(orders)
    BY Lengths
  <2>6. QED
    BY <2>1, <2>2, <2>3, <2>4, <2>5 DEF TypeOK, Listable
<1>2. QED
  BY <1>1, Invariant, PTL

\* Whoever was told that an order was sent finds it in the history, whatever else was
\* ordered, lost or asked for meanwhile (handleSubmit, the fetch of orders/page.tsx).
THEOREM AnnouncedTheorem == Spec => []AnnouncedOrdersAreListed
<1>1. StoreInv => AnnouncedOrdersAreListed
  BY DEF StoreInv
<1>2. QED
  BY <1>1, Invariant, PTL
-----------------------------------------------------------------------------
(* Whole lists *)

\* The list that is open has the rows that match its search, in the order asked for.
LEMMA ListIsExact ==
    ASSUME OrdersIn, tab \in Tabs, NEW v \in Views(tab)
    PROVE  LET list == Listed(v)
               all == {Table[i] : i \in Matching(v)}
           IN  /\ ToSet(list) = all
               /\ Len(list) = Cardinality(all)
               /\ DOMAIN list = 1 .. Len(list)
               /\ \A k, m \in DOMAIN list : k < m =>
                     \/ Precedes(v, list[k], list[m])
                     \/ /\ ~Precedes(v, list[m], list[k])
                        /\ Number(list[k]) < Number(list[m])
<1> DEFINE list == Listed(v)
           n == Cardinality(Matching(v))
           number(k) == Place(Table, Matching(v), v, k)
           all == {Table[i] : i \in Matching(v)}
<1>1. /\ n \in Nat /\ list = [k \in 1 .. n |-> Table[number(k)]]
      /\ \A k \in 1 .. n : number(k) \in Matching(v)
      /\ \A i \in Matching(v) : \E k \in 1 .. n : number(k) = i
      /\ \A k, m \in 1 .. n : k < m =>
            \/ Precedes(v, list[k], list[m])
            \/ ~Precedes(v, list[m], list[k]) /\ number(k) < number(m)
  BY ListedIsSorted, SortingTheorem
<1>2. /\ IsFiniteSet(Matching(v)) /\ Matching(v) \subseteq Listable
      /\ \A i \in Matching(v) : Number(Table[i]) = i
  BY ListedIsSorted, TableRows, FS_Subset
<1> HIDE DEF number, list
<1>3. DOMAIN list = 1 .. n /\ Len(list) = n
  BY <1>1
<1>4. ToSet(list) = all
  BY <1>1, <1>3 DEF ToSet
<1>5. n = Cardinality(all)
  <2> DEFINE f == [i \in Matching(v) |-> Table[i]]
  <2>1. f \in Surjection(Matching(v), all)
    BY DEF Surjection
  <2>2. f \in Injection(Matching(v), all)
    BY <1>2 DEF Injection, IsInjective
  <2>3. QED
    BY <1>2, <2>1, <2>2, FS_Surjection
<1>6. \A k \in 1 .. n : Number(list[k]) = number(k)
  BY <1>1, <1>2
<1>7. \A k, m \in DOMAIN list : k < m =>
          \/ Precedes(v, list[k], list[m])
          \/ ~Precedes(v, list[m], list[k]) /\ Number(list[k]) < Number(list[m])
  <2> HIDE DEF n
  <2>1. QED
    BY <1>1, <1>3, <1>6
<1>8. DOMAIN list = 1 .. Len(list) /\ Len(list) = Cardinality(all)
  <2> HIDE DEF n, all
  <2>1. QED
    BY <1>3, <1>5
<1> HIDE DEF all
<1>9. QED
  BY <1>4, <1>7, <1>8 DEF list, all

\* The pages of both lists, put together, are the matching rows, each once and in
\* order, for any catalogue, history, search, sort model and page size.
THEOREM PagesTheorem == Spec => []PagesPartitionTheList
<1>1. StoreInv => PagesPartitionTheList
  <2> SUFFICES ASSUME StoreInv PROVE PagesPartitionTheList
    OBVIOUS
  <2> DEFINE list == Listed(view)
             pages == [p \in 1 .. PageCount(Len(list), view.size) |->
                          PageOf(list, [view EXCEPT !.page = p])]
             all == IF tab = "product"
                    THEN {r \in ToSet(ProductRows) : ProductMatches(view, r)}
                    ELSE {r \in ToSet(OrderRows(orders)) : OrderMatches(view, r)}
  <2>1. OrdersIn /\ tab \in Tabs /\ view \in Views(tab)
    BY DEF StoreInv, PageInv
  <2>2. list \in Seq(Lines)
    BY <2>1, ListedTyped
  <2>3. all = {Table[i] : i \in Matching(view)}
    <3>1. CASE tab = "product"
      <4>1. DOMAIN ProductRows = Products
        BY DEF ProductRows
      <4>2. QED
        BY <3>1, <4>1 DEF Matching, Table, Listable, ToSet
    <3>2. CASE tab # "product"
      <4>1. DOMAIN OrderRows(orders) = DOMAIN orders
        BY DEF OrderRows
      <4>2. QED
        BY <3>2, <4>1 DEF Matching, Table, Listable, ToSet
    <3>3. QED
      BY <3>1, <3>2
  <2>4. view.size \in Nat \ {0}
    BY <2>1, StorefrontAssumption DEF Views
  <2>5. pages = [p \in 1 .. PageCount(Len(list), view.size) |->
                    PageOf(list, At(p, view.size))]
    <3>1. \A p : PageOf(list, [view EXCEPT !.page = p]) = PageOf(list, At(p, view.size))
      BY <2>1 DEF Views, PageOf, Offset, At
    <3> HIDE DEF list
    <3>2. QED
      BY <3>1
  <2>6. FlattenSeq(pages) = list
    <3> HIDE DEF list, pages
    <3>1. QED
      BY <2>2, <2>4, <2>5, PagesMakeTheList
  <2> HIDE DEF all, pages
  <2>7. /\ ToSet(list) = all
        /\ Len(list) = Cardinality(all)
        /\ \A k, m \in DOMAIN list : k < m =>
              \/ Precedes(view, list[k], list[m])
              \/ /\ ~Precedes(view, list[m], list[k])
                 /\ Number(list[k]) < Number(list[m])
    BY <2>1, <2>3, ListIsExact
  <2>8. QED
    BY <2>6, <2>7 DEF PagesPartitionTheList, pages, all
<1>2. QED
  BY <1>1, Invariant, PTL
-----------------------------------------------------------------------------
(* Turning the pages of a history that grows, while statuses change *)

Kept(os, v) == {i \in DOMAIN os : OrderMatches(v, OrderRows(os)[i])}
RankOf(os, v, i) == Rank(OrderRows(os), Kept(os, v), v, i)
HistoryLines(os) == {OrderRows(os)[i] : i \in DOMAIN os}

\* The list of any history, and the order at each place of it.
LEMMA HistoryIsSorted ==
    ASSUME NEW os, os \in Seq(OrderRecords), NEW v \in Views("orders")
    PROVE  LET list == ListOrders(os, v)
               n == Cardinality(Kept(os, v))
           IN  /\ Comparable(OrderRows(os), Kept(os, v), v)
               /\ list \in Seq(HistoryLines(os)) /\ Len(list) = n /\ n \in Nat
               /\ \A i \in Kept(os, v) : /\ RankOf(os, v, i) \in 1 .. n
                                         /\ list[RankOf(os, v, i)].order_id = i
               /\ \A k \in 1 .. n : list[k].order_id \in Kept(os, v)
<1> DEFINE K == Kept(os, v)
           T == OrderRows(os)
           n == Cardinality(K)
           number(k) == Place(T, K, v, k)
           list == ListOrders(os, v)
<1>1. Len(os) \in Nat /\ DOMAIN os = 1 .. Len(os) /\ K \subseteq DOMAIN os
  BY HistoryRows DEF Kept
<1>2. IsFiniteSet(DOMAIN os)
  BY <1>1, FS_Interval
<1>3. \A i \in K : i \in Nat /\ T[i].order_id = i /\ T[i][v.field] \in Int
  BY <1>1, HistoryRows
<1>4. Comparable(T, K, v)
  BY <1>1, <1>2, <1>3, FS_Subset DEF Comparable
<1>5. list = Sorted(T, K, v)
  BY DEF ListOrders, Kept
<1>6. /\ n \in Nat /\ list = [k \in 1 .. n |-> T[number(k)]]
      /\ \A k \in 1 .. n : number(k) \in K
      /\ \A i \in K : Rank(T, K, v, i) \in 1 .. n /\ number(Rank(T, K, v, i)) = i
  BY <1>4, <1>5, SortingTheorem
<1> HIDE DEF number, list, K
<1>7. list \in [1 .. n -> HistoryLines(os)]
  BY <1>1, <1>6 DEF HistoryLines
<1>8. list \in Seq(HistoryLines(os)) /\ Len(list) = n
  BY <1>6, <1>7
<1>9. \A k \in 1 .. n : list[k].order_id \in K
  BY <1>3, <1>6
<1>10. \A i \in K : list[Rank(T, K, v, i)].order_id = i
  BY <1>3, <1>6
<1>11. QED
  BY <1>4, <1>6, <1>8, <1>9, <1>10 DEF list, K, RankOf

\* An order is among the numbers of the page that holds its place.
LEMMA OrderOnPage ==
    ASSUME tab = "orders", NEW S, NEW list \in Seq(S), NEW size \in Nat \ {0},
           NEW k \in 1 .. Len(list), NEW p \in Nat \ {0}, Holds(list, At(p, size), k)
    PROVE  list[k].order_id \in ToSet(Numbers(PageOf(list, At(p, size))))
<1> DEFINE part == PageOf(list, At(p, size))
           j == k - Offset(At(p, size))
<1>1. j \in DOMAIN part /\ part[j] = list[k]
  BY PageOfList DEF Holds
<1> HIDE DEF part, j
<1>2. DOMAIN Numbers(part) = DOMAIN part /\ Numbers(part)[j] = list[k].order_id
  BY <1>1 DEF Numbers, Number
<1>3. QED
  BY <1>1, <1>2 DEF ToSet, part

\* A history that has all the old orders, with their products and with the values that
\* they are sorted by.
Continues(os, more, v) ==
    /\ os \in Seq(OrderRecords) /\ more \in Seq(OrderRecords)
    /\ Len(os) <= Len(more)
    /\ \A i \in DOMAIN os : /\ more[i].product = os[i].product
                            /\ OrderRows(more)[i][v.field] = OrderRows(os)[i][v.field]

\* However much is added to a history, an order of the old list is on one of its
\* first p pages or on a later page of the new list.
LEMMA TurnedPage ==
    ASSUME tab = "orders", NEW v \in Views("orders"),
           NEW os, NEW more, Continues(os, more, v),
           NEW p \in Nat, NEW e \in ToSet(Numbers(ListOrders(os, v)))
    PROVE  LET old == ListOrders(os, v)
               new == ListOrders(more, v)
           IN  \/ \E q \in 1 .. p :
                     e \in ToSet(Numbers(PageOf(old, At(q, v.size))))
               \/ \E q \in p + 1 .. PageCount(Len(new), v.size) :
                     e \in ToSet(Numbers(PageOf(new, At(q, v.size))))
<1> DEFINE old == ListOrders(os, v)
           new == ListOrders(more, v)
           size == v.size
           k == RankOf(os, v, e)
           m == RankOf(more, v, e)
<1>0. os \in Seq(OrderRecords) /\ more \in Seq(OrderRecords)
  BY DEF Continues
<1>1. size \in Nat \ {0}
  BY StorefrontAssumption DEF Views
<1>2. /\ old \in Seq(HistoryLines(os)) /\ new \in Seq(HistoryLines(more))
      /\ Len(old) = Cardinality(Kept(os, v)) /\ Len(old) \in Nat
      /\ Len(new) = Cardinality(Kept(more, v)) /\ Len(new) \in Nat
      /\ \A i \in Kept(os, v) : RankOf(os, v, i) \in 1 .. Len(old)
                                /\ old[RankOf(os, v, i)].order_id = i
      /\ \A i \in Kept(more, v) : RankOf(more, v, i) \in 1 .. Len(new)
                                  /\ new[RankOf(more, v, i)].order_id = i
      /\ \A i \in 1 .. Len(old) : old[i].order_id \in Kept(os, v)
  BY <1>0, HistoryIsSorted
<1>3. e \in Kept(os, v)
  <2>1. \A s : tab = "orders" => Numbers(s) = [i \in DOMAIN s |-> s[i].order_id]
    BY DEF Numbers, Number
  <2> HIDE DEF old
  <2>2. DOMAIN old = 1 .. Len(old)
    BY <1>2
  <2>3. PICK i \in 1 .. Len(old) : e = old[i].order_id
    BY <2>1, <2>2 DEF ToSet, old
  <2>4. QED
    BY <1>2, <2>3
<1>4. /\ Kept(os, v) \subseteq Kept(more, v)
      /\ \A i \in Kept(os, v) : OrderRows(more)[i][v.field] = OrderRows(os)[i][v.field]
  <2>1. \A i \in DOMAIN os : i \in DOMAIN more /\ more[i].product = os[i].product
    BY <1>0, HistoryRows DEF Continues
  <2>2. \A i \in DOMAIN os :
            OrderRows(more)[i].product_name = OrderRows(os)[i].product_name
    BY <2>1 DEF OrderRows
  <2>3. \A i \in DOMAIN os : OrderMatches(v, OrderRows(os)[i])
                               => OrderMatches(v, OrderRows(more)[i])
    BY <2>2 DEF OrderMatches
  <2>4. QED
    BY <2>1, <2>3 DEF Kept, Continues
<1>5. k <= m
  <2>1. Comparable(OrderRows(os), Kept(os, v), v) /\ IsFiniteSet(Kept(more, v))
    BY <1>0, HistoryIsSorted DEF Comparable
  <2>2. QED
    BY <1>3, <1>4, <2>1, RankGrows DEF RankOf
<1>6. e \in Kept(more, v)
  BY <1>3, <1>4
<1>7. /\ k \in 1 .. Len(old) /\ old[k].order_id = e
      /\ m \in 1 .. Len(new) /\ new[m].order_id = e
  BY <1>2, <1>3, <1>6
<1> HIDE DEF old, new, k, m, size
<1>8. PICK q1 \in 1 .. PageCount(Len(old), size) : Holds(old, At(q1, size), k)
  BY <1>1, <1>2, <1>7, OnAPage
<1>9. PICK q2 \in 1 .. PageCount(Len(new), size) : Holds(new, At(q2, size), m)
  BY <1>1, <1>2, <1>7, OnAPage
<1>10. q1 \in Nat \ {0} /\ q2 \in Nat \ {0}
  OBVIOUS
<1>11. q1 <= q2
  BY <1>1, <1>2, <1>5, <1>7, <1>8, <1>9, <1>10, LaterPage
<1>12. /\ e \in ToSet(Numbers(PageOf(old, At(q1, size))))
       /\ e \in ToSet(Numbers(PageOf(new, At(q2, size))))
  BY <1>1, <1>2, <1>7, <1>8, <1>9, <1>10, OrderOnPage
<1>13. CASE q1 <= p
  <2>1. q1 \in 1 .. p
    BY <1>10, <1>13
  <2>2. QED
    BY <1>12, <2>1 DEF old, size
<1>14. CASE q1 > p
  <2>1. q2 \in p + 1 .. PageCount(Len(new), size)
    BY <1>9, <1>10, <1>11, <1>14
  <2>2. QED
    BY <1>12, <2>1 DEF new, size
<1>15. QED
  BY <1>10, <1>13, <1>14

\* The grid offers a number of pages.
LEMMA PageCountTyped ==
    ASSUME NEW n \in Nat, NEW size \in Nat \ {0}
    PROVE  PageCount(n, size) \in Nat
<1>1. n + size - 1 \in Nat
  OBVIOUS
<1>2. QED
  BY <1>1, Quotient DEF PageCount

\* A user who turns the pages of the history one by one while checkouts commit, and
\* robots change statuses that it is not sorted by, sees every order of the list it
\* had, for any history, sort model and page size.
THEOREM TurningTheorem == Spec => TurningPagesMissesNothing
<1> DEFINE Turned ==
        /\ tab = "orders"
        /\ \A i \in DOMAIN orders :
               OrderRows(orders')[i][view.field] = OrderRows(orders)[i][view.field]
        =>  LET old == ListOrders(orders, view)
                new == ListOrders(orders', view)
                Seen(list, pages) ==
                    UNION {ToSet(Numbers(PageOf(list, [view EXCEPT !.page = p]))) : p \in pages}
            IN  \A p \in 1 .. PageCount(Len(old), view.size) :
                    ToSet(Numbers(old)) \subseteq
                        Seen(old, 1 .. p)
                        \cup Seen(new, p + 1 .. PageCount(Len(new), view.size))
<1>1. ASSUME StoreInv, Next PROVE UNCHANGED orders \/ Turned
  <2>1. CASE ~UpdateStatuses /\ \A c \in checkouts : ~Store(c)
    BY <1>1, <2>1 DEF Next, Leave, Search, TurnPage, Resize, Sort, Fetch,
        ChangeQuantity, Submit, Serve, FailAsk, HearListing, Refuse, HearCheckout
  <2>2. ASSUME OrdersIn', Len(orders) <= Len(orders'), tab = "orders",
               \A i \in DOMAIN orders :
                  /\ orders'[i].product = orders[i].product
                  /\ OrderRows(orders')[i][view.field] = OrderRows(orders)[i][view.field]
        PROVE  Turned
    <3>4. Continues(orders, orders', view)
      BY <1>1, <2>2 DEF Continues, StoreInv, OrdersIn
    <3>5. view \in Views("orders")
      BY <1>1, <2>2 DEF StoreInv, PageInv
    <3>6. \A list, p : PageOf(list, [view EXCEPT !.page = p]) = PageOf(list, At(p, view.size))
      BY <3>5 DEF Views, PageOf, Offset, At
    <3> DEFINE old == ListOrders(orders, view)
               new == ListOrders(orders', view)
               Seen(list, pages) ==
                   UNION {ToSet(Numbers(PageOf(list, [view EXCEPT !.page = p]))) : p \in pages}
    <3>7. ASSUME NEW p \in Nat, NEW e \in ToSet(Numbers(old))
          PROVE  \/ \E q \in 1 .. p :
                       e \in ToSet(Numbers(PageOf(old, At(q, view.size))))
                 \/ \E q \in p + 1 .. PageCount(Len(new), view.size) :
                       e \in ToSet(Numbers(PageOf(new, At(q, view.size))))
      BY <2>2, <3>4, <3>5, TurnedPage
    <3> HIDE DEF old, new
    <3>8. \A p \in 1 .. PageCount(Len(old), view.size) : p \in Nat
      <4>1. Len(old) \in Nat /\ view.size \in Nat \ {0}
        <5>1. Len(old) \in Nat
          BY <3>4, <3>5, HistoryIsSorted DEF old, Continues
        <5>2. view.size \in Nat \ {0}
          BY <3>5, StorefrontAssumption DEF Views
        <5>3. QED
          BY <5>1, <5>2
      <4>2. QED
        BY <4>1, PageCountTyped
    <3>9. ASSUME NEW p \in 1 .. PageCount(Len(old), view.size)
          PROVE  ToSet(Numbers(old)) \subseteq
                     Seen(old, 1 .. p)
                     \cup Seen(new, p + 1 .. PageCount(Len(new), view.size))
      <4>1. p \in Nat
        BY <3>8
      <4>2. QED
        BY <3>6, <3>7, <4>1
    <3> HIDE DEF Seen
    <3>10. \A p \in 1 .. PageCount(Len(old), view.size) :
              ToSet(Numbers(old)) \subseteq
                  Seen(old, 1 .. p)
                  \cup Seen(new, p + 1 .. PageCount(Len(new), view.size))
      BY <3>9
    <3>11. QED
      BY <3>10 DEF old, new, Seen
  <2> HIDE DEF Turned
  <2>3. ASSUME NEW c \in checkouts, Store(c)
        PROVE  /\ OrdersIn' /\ Len(orders) <= Len(orders')
               /\ \A i \in DOMAIN orders : orders'[i].product = orders[i].product
    <3>1. c.items \in [Products -> Nat]
      BY <1>1 DEF StoreInv, CheckoutsIn, CheckoutRecords
    <3>2. PICK extra \in NewOrders(c.items) : orders' = orders \o extra
      BY <2>3 DEF Store
    <3> DEFINE Q == OrderRecords
    <3>3. orders \in Seq(Q) /\ extra \in Seq(Q)
      BY <1>1, <3>1, Lengths, NewOrdersTyped DEF StoreInv, OrdersIn
    <3> HIDE DEF Q
    <3>4. /\ orders \o extra \in Seq(Q)
          /\ Len(orders \o extra) = Len(orders) + Len(extra)
          /\ \A i \in 1 .. Len(orders) : (orders \o extra)[i] = orders[i]
          /\ Len(orders) \in Nat /\ Len(extra) \in Nat /\ DOMAIN orders = 1 .. Len(orders)
      BY <3>3, ConcatProperties, LenProperties
    <3>5. QED
      BY <3>2, <3>4 DEF Q, OrdersIn
  <2>4. ASSUME UpdateStatuses
        PROVE  /\ OrdersIn' /\ Len(orders) <= Len(orders')
               /\ \A i \in DOMAIN orders : orders'[i].product = orders[i].product
    BY <1>1, <2>4, Lengths, StatusesChange DEF StoreInv, OrdersIn
  <2>5. ASSUME OrdersIn', Len(orders) <= Len(orders'),
               \A i \in DOMAIN orders : orders'[i].product = orders[i].product
        PROVE  Turned
    <3>1. CASE /\ tab = "orders"
               /\ \A i \in DOMAIN orders :
                      OrderRows(orders')[i][view.field] = OrderRows(orders)[i][view.field]
      BY <2>2, <2>5, <3>1
    <3>2. CASE ~(/\ tab = "orders"
                 /\ \A i \in DOMAIN orders :
                       OrderRows(orders')[i][view.field] = OrderRows(orders)[i][view.field])
      BY <3>2 DEF Turned
    <3>3. QED
      BY <3>1, <3>2
  <2>6. QED
    BY <2>1, <2>3, <2>4, <2>5
<1>2. StoreInv /\ [Next]_vars => [Turned]_orders
  BY <1>1 DEF vars
<1>3. TurningPagesMissesNothing <=> [][Turned]_orders
  BY DEF TurningPagesMissesNothing
<1> HIDE DEF Turned
<1>4. QED
  BY <1>2, <1>3, Invariant, PTL DEF Spec
=============================================================================

------------------------------ MODULE Storefront ------------------------------
(***************************************************************************)
(* One browser tab of one user: the product page, where quantities are     *)
(* typed and ordered, and the order history page.  Each keeps a view and   *)
(* asks the backend for its listing whenever the view changes; nothing     *)
(* orders the answers of the requests that are under way at the same time. *)
(*                                                                         *)
(* The backend's part of a request is one step here: a listing is one      *)
(* SELECT and what is computed from it, and a checkout is one transaction, *)
(* all or nothing (module OrderDispatch).  Robots change the status of     *)
(* orders meanwhile, each UPDATE in one step.  The orders are in the order *)
(* of their numbers, which they are given at the INSERT: a user's          *)
(* checkouts are taken to commit one after the other.                      *)
(***************************************************************************)
EXTENDS Listing

CONSTANTS
    History,      \* the orders the user starts with
    Sizes,        \* the page sizes that the grid offers
    DefaultSize,
    Sorting,      \* the fields that each page is sorted by
    Statuses,     \* the statuses that robots set: 1 completed, 2 delivering
    MaxQuantity,  \* bound on a quantity
    MaxAsks,      \* bound: listing requests of a behaviour
    MaxCheckouts  \* bound: checkouts of a behaviour

Tabs == {"product", "orders"}

OrderRecords == [product : Products, status : Nat, created : Nat, arrived : Nat]

ASSUME StorefrontAssumption ==
    /\ History \in Seq(OrderRecords)
    /\ DefaultSize \in Sizes /\ Sizes \subseteq Nat \ {0}
    /\ Sorting["product"] \subseteq ProductFields
    /\ Sorting["orders"] \subseteq OrderFields
    /\ Statuses \subseteq {1, 2}
    /\ MaxQuantity \in Nat /\ MaxAsks \in Nat /\ MaxCheckouts \in Nat

VARIABLES
    orders,     \* the user's committed orders, by order_id
    tab,        \* the page that is open
    view,       \* its search, type, page, page size and sort model
    rows,       \* the numbers of the products or orders it shows
    total,      \* totalCount
    loading,    \* isLoading
    asks,       \* its listing requests that it has not heard of
    quantities, \* the quantities typed; a field left empty or set to 0 is 0
    checkouts,  \* the checkouts that have not been heard of
    posted,     \* how many checkouts were posted
    \* history; asked also bounds a behaviour
    asked,      \* how many listings were asked for
    shown,      \* the request whose answer was heard last
    announced   \* how many orders were announced to the user

entry == <<quantities, checkouts, posted>>
page == <<tab, view, rows, total, loading, asks, asked, shown>>
vars == <<orders, tab, view, rows, total, loading, asks, quantities, checkouts,
          posted, asked, shown, announced>>

NoQuantities == [p \in Products |-> 0]
NoAsk == [n |-> 0, view |-> {}]

FirstView(t) ==
    [search |-> NoText, type |-> "partial", page |-> 1, size |-> DefaultSize,
     field |-> IF t = "product" THEN "product_id" ELSE "order_id",
     order |-> IF t = "product" THEN "asc" ELSE "desc"]

\* The list of which the page asked for a part.
Listed(v) == IF tab = "product" THEN ListProducts(v) ELSE ListOrders(orders, v)

Number(row) == IF tab = "product" THEN row.product_id ELSE row.order_id

Numbers(list) == [i \in DOMAIN list |-> Number(list[i])]

\* The order items of a checkout, and the orders it makes in some order of
\* the products, since the backend goes through a map.
Ordered(items) == {p \in Products : items[p] > 0}

NewOrders(items) ==
    {FlattenSeq([i \in DOMAIN s |-> [u \in 1..items[s[i]] |->
        [product |-> s[i], status |-> 3, arrived |-> 0,
         created |-> Len(orders) + 1]]]) : s \in SetToSeqs(Ordered(items))}
-----------------------------------------------------------------------------
\* A request that carries the view, as the effect of the page sends it.
Ask(v) ==
    [n |-> asked + 1, view |-> v, told |-> announced,
     stage |-> "sent", rows |-> <<>>, total |-> 0]

\* A page that opens has no state of its own but what it asks for; a page
\* that is left loses its state and hears nothing any more.
Open(t) ==
    /\ tab' = t
    /\ view' = FirstView(t)
    /\ rows' = <<>>
    /\ total' = 0
    /\ loading' = TRUE
    /\ asks' = {Ask(FirstView(t))}
    /\ asked' = asked + 1
    /\ shown' = NoAsk
    /\ quantities' = NoQuantities

Init ==
    /\ orders = History
    /\ announced = 0
    /\ posted = 0
    /\ checkouts = {}
    /\ tab \in Tabs
    /\ view = FirstView(tab)
    /\ rows = <<>>
    /\ total = 0
    /\ loading = TRUE
    /\ asks = {[n |-> 1, view |-> view, told |-> 0, stage |-> "sent",
                rows |-> <<>>, total |-> 0]}
    /\ asked = 1
    /\ shown = NoAsk
    /\ quantities = NoQuantities

\* router.push to the other page.
Leave ==
    /\ asked < MaxAsks
    /\ Open(CHOOSE t \in Tabs : t # tab)
    /\ checkouts' = {[c EXCEPT !.here = FALSE] : c \in checkouts}
    /\ UNCHANGED <<orders, posted, announced>>

\* The state of the page changes and its effect fetches the listing.
Fetch(v) ==
    /\ asked < MaxAsks
    /\ view' = v
    /\ loading' = TRUE
    /\ asks' = asks \cup {Ask(v)}
    /\ asked' = asked + 1
    /\ UNCHANGED <<orders, tab, rows, total, shown, entry, announced>>

\* The search form; a reset is the partial search for nothing.  A search for
\* what is already shown changes no state.
Search ==
    /\ ~loading
    /\ \E text \in Texts \cup {NoText}, type \in {"partial", "prefix"} :
          LET v == [view EXCEPT !.search = text, !.type = type, !.page = 1]
          IN  /\ tab = "product" => type = "partial"
              /\ v # view
              /\ Fetch(v)

\* Bug: the page takes the grid's page numbers, which start at 0, for its own.
TurnPageFromZero ==
    \E p \in 0 .. PageCount(total, view.size) - 1 :
        /\ p # view.page
        /\ Fetch([view EXCEPT !.page = p])

\* The grid offers the pages of the last total.  It is usable while loading.
TurnPage ==
    \E p \in 0 .. PageCount(total, view.size) - 1 :
        /\ p # view.page - 1
        /\ Fetch([view EXCEPT !.page = p + 1])

Resize ==
    \E size \in Sizes \ {view.size} :
        Fetch([view EXCEPT !.size = size, !.page = 1])

\* Bug: the effect does not depend on the sort model.
SortSilently ==
    \E field \in Sorting[tab], order \in {"asc", "desc"} :
        /\ <<field, order>> # <<view.field, view.order>>
        /\ view' = [view EXCEPT !.field = field, !.order = order]
        /\ UNCHANGED <<orders, tab, rows, total, loading, asks, asked, shown,
                       entry, announced>>

\* A click on a column header; the page number stays.
Sort ==
    \E field \in Sorting[tab], order \in {"asc", "desc"} :
        /\ <<field, order>> # <<view.field, view.order>>
        /\ Fetch([view EXCEPT !.field = field, !.order = order])

\* The backend's answer, made of the orders committed at that moment.
Serve(a) ==
    /\ a.stage = "sent"
    /\ LET list == Listed(a.view)
           answer == [a EXCEPT !.stage = "answered", !.total = Len(list),
                               !.rows = Numbers(PageOf(list, a.view))]
       IN  asks' = (asks \ {a}) \cup {answer}
    /\ UNCHANGED <<orders, tab, view, rows, total, loading, asked, shown,
                   entry, announced>>

\* A timeout, an error of MySQL or of the network.
FailAsk(a) ==
    /\ a.stage = "sent"
    /\ asks' = (asks \ {a}) \cup {[a EXCEPT !.stage = "failed"]}
    /\ UNCHANGED <<orders, tab, view, rows, total, loading, asked, shown,
                   entry, announced>>

\* Bug: only a listing that succeeded ends the loading.
HearListingWithoutFinally(a) ==
    /\ a.stage \in {"answered", "failed"}
    /\ rows' = IF a.stage = "answered" THEN a.rows ELSE <<>>
    /\ total' = IF a.stage = "answered" THEN a.total ELSE total
    /\ loading' = (loading /\ a.stage = "failed")
    /\ asks' = asks \ {a}
    /\ shown' = [n |-> a.n, view |-> a.view]
    /\ UNCHANGED <<orders, tab, view, asked, entry, announced>>

\* then, catch and finally of the fetch: whichever answer comes is shown, and
\* the loading ends although other requests may be under way.
HearListing(a) ==
    /\ a.stage \in {"answered", "failed"}
    /\ rows' = IF a.stage = "answered" THEN a.rows ELSE <<>>
    /\ total' = IF a.stage = "answered" THEN a.total ELSE total
    /\ loading' = FALSE
    /\ asks' = asks \ {a}
    /\ shown' = [n |-> a.n, view |-> a.view]
    /\ UNCHANGED <<orders, tab, view, asked, entry, announced>>

\* A quantity is typed into a row of the product list.
ChangeQuantity ==
    /\ tab = "product" /\ ~loading
    /\ \E p \in ToSet(rows), q \in 0..MaxQuantity :
          /\ q # quantities[p]
          /\ quantities' = [quantities EXCEPT ![p] = q]
    /\ UNCHANGED <<orders, page, checkouts, posted, announced>>

\* handleSubmit orders what is typed in the rows that are shown.  It may be
\* pressed again before the answer.  entered is history.
Submit ==
    /\ tab = "product" /\ ~loading
    /\ posted < MaxCheckouts
    /\ LET items == [p \in Products |->
                        IF p \in ToSet(rows) THEN quantities[p] ELSE 0]
       IN  /\ Ordered(items) # {}
           /\ checkouts' = checkouts \cup
                  {[n |-> posted + 1, items |-> items, entered |-> quantities,
                    here |-> TRUE, stage |-> "sent", made |-> 0]}
    /\ posted' = posted + 1
    /\ UNCHANGED <<orders, page, quantities, announced>>

\* The checkout commits; its answer may be lost.
Store(c) ==
    /\ c.stage = "sent"
    /\ \E new \in NewOrders(c.items), stage \in {"stored", "failed"} :
          /\ orders' = orders \o new
          /\ checkouts' = (checkouts \ {c}) \cup
                 {[c EXCEPT !.stage = stage, !.made = Len(new)]}
    /\ UNCHANGED <<page, quantities, posted, announced>>

Refuse(c) ==
    /\ c.stage = "sent"
    /\ checkouts' = (checkouts \ {c}) \cup {[c EXCEPT !.stage = "failed"]}
    /\ UNCHANGED <<orders, page, quantities, posted, announced>>

\* A plan takes orders, or a robot reports one; ids are those that change.
UpdateStatuses ==
    /\ \E newStatus \in Statuses :
       \E ids \in SUBSET {i \in DOMAIN orders : orders[i].status # newStatus} :
          /\ ids # {}
          /\ orders' = [i \in DOMAIN orders |->
                           IF i \in ids THEN [orders[i] EXCEPT !.status = newStatus]
                                       ELSE orders[i]]
    /\ UNCHANGED <<page, quantities, checkouts, posted, announced>>

\* Does the page say that the order was sent?
Announces(c) == c.stage = "stored"

\* Bug: the page does not await the answer.
HearCheckoutEarly(c) ==
    /\ quantities' = IF c.here THEN NoQuantities ELSE quantities
    /\ announced' = announced +
           Cardinality({x \in Products \X (1..MaxQuantity) : x[2] <= c.items[x[1]]})
    /\ checkouts' = checkouts \ {c}
    /\ UNCHANGED <<orders, page, posted>>

\* An alert, and every quantity is cleared if the order was sent and the page
\* is still there.
HearCheckout(c) ==
    /\ c.stage \in {"stored", "failed"}
    /\ quantities' = IF Announces(c) /\ c.here THEN NoQuantities ELSE quantities
    /\ announced' = IF Announces(c) THEN announced + c.made ELSE announced
    /\ checkouts' = checkouts \ {c}
    /\ UNCHANGED <<orders, page, posted>>
-----------------------------------------------------------------------------
Next ==
    \/ Leave
    \/ Search \/ TurnPage \/ Resize \/ Sort
    \/ ChangeQuantity \/ Submit
    \/ \E a \in asks : Serve(a) \/ FailAsk(a) \/ HearListing(a)
    \/ \E c \in checkouts : Store(c) \/ Refuse(c) \/ HearCheckout(c)
    \/ UpdateStatuses

Spec == Init /\ [][Next]_vars

\* A listing that the backend does not answer fails: WithTimeout ends that of
\* the orders, nginx gives up on any.  And the browser runs its callbacks.
FairSpec == Spec /\ WF_vars(\E a \in asks : FailAsk(a) \/ HearListing(a))
-----------------------------------------------------------------------------
\* Types of the variables.
TypeOK ==
    /\ tab \in Tabs
    /\ view.search \in Texts \cup {NoText}
    /\ view.type \in {"partial", "prefix"}
    /\ view.page \in Nat \ {0}
    /\ view.size \in Sizes
    /\ view.field \in IF tab = "product" THEN ProductFields ELSE OrderFields
    /\ view.order \in {"asc", "desc"}
    /\ ToSet(rows) \subseteq IF tab = "product" THEN Products ELSE DOMAIN orders
    /\ Len(rows) <= total
    /\ quantities \in [Products -> 0..MaxQuantity]
    /\ announced <= Len(orders)

\* When the request heard last is the one sent last, it asked for the view that
\* the page has: every change of search, page, size or sort model asks again (the
\* dependencies of useEffect).  Only an answer that overtakes a later one leaves
\* other rows there.
LatestAnswerFitsTheView ==
    shown.n = asked => shown.view = view

\* The pages of the list that is open, put one after the other, hold each of
\* the products or orders that match the search once, in the order asked for,
\* those that it does not tell apart in the order of their numbers (ListOrders
\* and ListProducts).
PagesPartitionTheList ==
    LET list == Listed(view)
        pages == [p \in 1..PageCount(Len(list), view.size) |->
                     PageOf(list, [view EXCEPT !.page = p])]
        whole == FlattenSeq(pages)
        all == IF tab = "product"
               THEN {r \in ToSet(ProductRows) : ProductMatches(view, r)}
               ELSE {r \in ToSet(OrderRows(orders)) : OrderMatches(view, r)}
    IN  /\ ToSet(whole) = all
        /\ Len(whole) = Cardinality(all)
        /\ \A i, j \in DOMAIN whole : i < j =>
               \/ Precedes(view, whole[i], whole[j])
               \/ /\ ~Precedes(view, whole[j], whole[i])
                  /\ Number(whole[i]) < Number(whole[j])

\* A user who turns the pages of the history one by one sees every order of the
\* old list, although a checkout adds orders to it meanwhile or robots change
\* statuses that it is not sorted by: the offsets of the remaining pages may show
\* an order again, never skip one (ListOrders).
TurningPagesMissesNothing ==
    [][/\ tab = "orders"
       /\ \A i \in DOMAIN orders :
              OrderRows(orders')[i][view.field] = OrderRows(orders)[i][view.field]
       => LET old == ListOrders(orders, view)
              new == ListOrders(orders', view)
              Seen(list, pages) ==
                  UNION {ToSet(Numbers(PageOf(list, [view EXCEPT !.page = p]))) : p \in pages}
          IN  \A p \in 1 .. PageCount(Len(old), view.size) :
                  ToSet(Numbers(old)) \subseteq
                      Seen(old, 1 .. p)
                      \cup Seen(new, p + 1 .. PageCount(Len(new), view.size))]_orders

\* A user who was told that an order was sent finds it in every history that
\* is asked for afterwards: handleSubmit awaits the answer, which follows the
\* commit, and the history page fetches when it is opened.
AnnouncedOrdersAreListed ==
    \A a \in asks :
        /\ tab = "orders" /\ a.stage = "answered" /\ a.view.search = NoText
        => a.total >= Len(History) + a.told

\* The search form, the quantities and the order button are usable again after
\* every fetch, one that failed included (finally).
LoadingEnds == loading ~> ~loading

\* 01_Service.md: with quantities entered in the product page, the order button
\* registers the request.  So a checkout that the page is about to announce has
\* all the quantities that were entered when the button was pressed.
SentOrdersHoldAllThatWasEntered ==
    \A c \in checkouts : Announces(c) => c.items = c.entered
=============================================================================

-------------------------------- MODULE Listing --------------------------------
(***************************************************************************)
(* The two listings of the shop: the product list, which MySQL sorts, and  *)
(* the order history of a user, which the backend filters, sorts and cuts  *)
(* into pages in memory.                                                   *)
(*                                                                         *)
(* A view is what a page asks for: a search text and its type, a page      *)
(* number and size, a sort field and its direction.  Texts stand for the   *)
(* sets of names they match, and names for their places in the order of    *)
(* names.  The frontend names every part of a view, so the defaults of the *)
(* handlers are left out.                                                  *)
(***************************************************************************)
EXTENDS Integers, Sequences, FiniteSets, SequencesExt

CONSTANTS
    Catalogue,  \* the products by product_id: records with name, value, weight
    Texts,      \* the texts a user may search for
    NoText,     \* the empty text
    Found,      \* the names a text matches, as "partial" or as "prefix"
    Mentioned   \* the products with a text in their name or description

ASSUME ListingAssumption ==
    /\ Catalogue \in Seq([name : Nat, value : Nat, weight : Nat])
    /\ NoText \notin Texts
    /\ \A t \in Texts : Found[t]["prefix"] \subseteq Found[t]["partial"]
    /\ \A t \in Texts : Mentioned[t] \subseteq DOMAIN Catalogue

Products == DOMAIN Catalogue

ProductFields == {"product_id", "name", "value", "weight"}
OrderFields == {"order_id", "product_name", "shipped_status", "created_at",
                "arrived_at"}
-----------------------------------------------------------------------------
\* The comparison of the sort functions.  An order that never arrived has the
\* arrived_at 0: like the code, it comes below every order that did arrive.
Precedes(view, a, b) ==
    IF view.order = "desc" THEN a[view.field] > b[view.field]
                           ELSE a[view.field] < b[view.field]

\* Elements that the comparison does not tell apart keep their order.
Ahead(list, view, j, i) ==
    \/ Precedes(view, list[j], list[i])
    \/ j <= i /\ ~Precedes(view, list[i], list[j])

\* The place of an element among the elements whose numbers are kept.
Rank(list, kept, view, i) == Cardinality({j \in kept : Ahead(list, view, j, i)})

\* A stable sort of the elements that are kept.
Sorted(list, kept, view) ==
    [k \in 1 .. Cardinality(kept) |->
        list[CHOOSE i \in kept : Rank(list, kept, view, i) = k]]

\* The rows of the products table as the SELECT of ListProducts returns them.
ProductRows == [p \in Products |->
    [product_id |-> p, name |-> Catalogue[p].name,
     value |-> Catalogue[p].value, weight |-> Catalogue[p].weight]]

ProductMatches(view, row) ==
    \/ view.search = NoText
    \/ row.product_id \in Mentioned[view.search]

\* ORDER BY a field, then by product_id, which is the order of the table.
ListProducts(view) ==
    Sorted(ProductRows, {p \in Products : ProductMatches(view, ProductRows[p])}, view)

\* The rows of a user's orders with the names of their products.
OrderRows(orders) == [i \in DOMAIN orders |->
    [order_id |-> i, product_name |-> Catalogue[orders[i].product].name,
     shipped_status |-> orders[i].status, created_at |-> orders[i].created,
     arrived_at |-> orders[i].arrived]]

OrderMatches(view, row) ==
    \/ view.search = NoText
    \/ row.product_name \in Found[view.search][view.type]

\* Bug: the orders come by an index on their status before they are sorted, so
\* those that the sort does not tell apart are in the order of their statuses.
ListOrdersByStatus(orders, view) ==
    LET list == OrderRows(orders)
        kept == {i \in DOMAIN orders : OrderMatches(view, list[i])}
        scan == Sorted(list, kept, [field |-> "shipped_status", order |-> "asc"])
    IN  Sorted(scan, DOMAIN scan, view)

ListOrders(orders, view) ==
    LET list == OrderRows(orders)
    IN  Sorted(list, {i \in DOMAIN orders : OrderMatches(view, list[i])}, view)

\* Bug: the offset forgets that pages count from 1.
OffsetFromZero(view) == view.page * view.size

Offset(view) == (view.page - 1) * view.size

\* The page of a list that a view asks for.
PageOf(list, view) ==
    LET end == Offset(view) + view.size
    IN  SubSeq(list, Offset(view) + 1, IF end > Len(list) THEN Len(list) ELSE end)

\* The pages that the grid offers for a total, at least one.
PageCount(total, size) == IF total = 0 THEN 1 ELSE (total + size - 1) \div size
=============================================================================

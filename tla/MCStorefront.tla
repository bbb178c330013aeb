----------------------------- MODULE MCStorefront -----------------------------
(***************************************************************************)
(* Small instances of Storefront: three products of two names and a        *)
(* history of two or three orders.                                         *)
(***************************************************************************)
EXTENDS Storefront

\* Products 1 and 3 have the same name.
SmallCatalogue == << [name |-> 2, value |-> 5, weight |-> 1],
                     [name |-> 1, value |-> 7, weight |-> 1],
                     [name |-> 2, value |-> 5, weight |-> 2] >>

\* A text that begins the first name and is inside both.
FoundNames == [t \in Texts |-> [partial |-> {1, 2}, prefix |-> {1}]]
MentioningProducts == [t \in Texts |-> {1, 3}]

\* The order of the names of the states: completed, delivering, shipping.
SmallHistory == << [product |-> 2, status |-> 1, created |-> 1, arrived |-> 2],
                   [product |-> 1, status |-> 3, created |-> 1, arrived |-> 0] >>

FewFields == [product |-> {"value"}, orders |-> {"arrived_at"}]
=============================================================================

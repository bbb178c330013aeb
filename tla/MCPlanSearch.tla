----------------------------- MODULE MCPlanSearch -----------------------------
(***************************************************************************)
(* Small listings for PlanSearch: up to three orders with every            *)
(* combination of weights and values, and longer ones of alike orders.     *)
(***************************************************************************)
EXTENDS PlanSearch

Rows(n, weights, values) ==
    {[i \in 1 .. n |-> [order_id |-> i, weight |-> w[i], value |-> v[i]]] :
       w \in [1 .. n -> weights], v \in [1 .. n -> values]}

ShortListings == UNION {Rows(n, 0 .. 2, 0 .. 2) : n \in 0 .. 2}
                 \cup Rows(3, 1 .. 2, 0 .. 2)

\* Enough calls for append to fill, outgrow and refill its arrays.
LongListings == Rows(4, {1, 2}, {1})

MCListings == ShortListings \cup LongListings

MCCapacities == {-1, 0, 2, 3}
=============================================================================

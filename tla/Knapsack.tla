------------------------------- MODULE Knapsack -------------------------------
(***************************************************************************)
(* What selectOrdersForDelivery (service/robot.go) promises, without the   *)
(* search: the sets of orders that a delivery plan may hold.  Module       *)
(* PlanSearch models the search itself and is checked against this one.    *)
(***************************************************************************)
EXTENDS Integers, FiniteSets, FiniteSetsExt

\* The sum of w over the orders of a set.
Total(w, plan) == MapThenSumSet(LAMBDA o : w[o], plan)

\* A robot can carry a plan whose weight does not exceed its capacity.
Carriable(plan, weight, capacity) == Total(weight, plan) <= capacity

\* The plans the search may return for a set of shipping orders that the
\* database lists in no particular order.  The value is the best one a robot
\* can carry.  The search tries to leave an order out before it takes it, and
\* replaces its best plan only by a strictly better one: an order that adds no
\* value is never taken, and among the plans of the best value each is the
\* answer for some order of the rows.  A negative capacity prunes the root.
BestPlans(orders, weight, value, capacity) ==
    LET carriable == {p \in SUBSET orders : Carriable(p, weight, capacity)}
        better(p, q) == Total(value, p) > Total(value, q)
    IN  IF capacity < 0 THEN {{}}
        ELSE {p \in carriable : /\ \A q \in carriable : ~ better(q, p)
                                /\ \A o \in p : value[o] > 0}
=============================================================================

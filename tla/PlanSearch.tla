------------------------------ MODULE PlanSearch ------------------------------
(***************************************************************************)
(* selectOrdersForDelivery (service/robot.go): the depth-first search for  *)
(* the plan of the best value, call by call.  Go slices are modelled by    *)
(* what append does to them: a slice is a length and a backing array, and  *)
(* append writes into the array when it has room, so that the slices of    *)
(* several calls share one array.  The context ends at any time.           *)
(***************************************************************************)
EXTENDS Integers, Sequences, SequencesExt, Knapsack

CONSTANTS
    Listings,       \* the rows GetShippingOrders may return, in their order
    Capacities,     \* the capacities a robot may send
    Slacks,         \* how many elements append may allocate beyond those it needs
    CheckEvery      \* the search looks at its context every so many steps

ASSUME SearchAssumption ==
    /\ Listings \subseteq Seq([order_id : Nat, weight : Nat, value : Nat])
    \* order_id is the primary key of the orders table
    /\ \A list \in Listings : \A i, j \in DOMAIN list :
          list[i].order_id = list[j].order_id => i = j
    /\ Capacities \subseteq Int
    /\ Slacks \subseteq Nat /\ Slacks # {}
    /\ CheckEvery \in Nat \ {0}

VARIABLES
    orders, robotCapacity,  \* the arguments
    calls,                  \* the dfs calls under way, the innermost last
    arrays,                 \* the backing arrays allocated so far
    bestValue, bestSet,     \* the best plan so far
    steps,                  \* steps counted so far
    ctx,                    \* "live" or "done"
    result,                 \* "none", "plan" or "canceled"
    late                    \* history: steps counted since the context ended

input == <<orders, robotCapacity>>
vars == <<orders, robotCapacity, calls, arrays, bestValue, bestSet,
          steps, ctx, result, late>>

----------------------------------------------------------------------------
(* Slices *)

Nil == [array |-> 0, len |-> 0]

Content(slice) == IF slice = Nil THEN <<>>
                  ELSE SubSeq(arrays[slice.array], 1, slice.len)

HasRoom(slice) == slice # Nil /\ slice.len < Len(arrays[slice.array])

\* The slice append(slice, order) returns, and the arrays after it.
Appended(slice) == [array |-> IF HasRoom(slice) THEN slice.array
                              ELSE Len(arrays) + 1,
                    len |-> slice.len + 1]

\* A new array has slack elements to spare; the language leaves open how many.
ArraysAfter(slice, order, slack) ==
    IF HasRoom(slice)
      THEN [arrays EXCEPT ![slice.array][slice.len + 1] = order]
      ELSE Append(arrays, Content(slice) \o <<order>> \o [i \in 1 .. slack |-> 0])

----------------------------------------------------------------------------

Call(i, weight, value, set) ==
    [i |-> i, weight |-> weight, value |-> value, set |-> set, left |-> FALSE]

Init ==
    /\ orders \in Listings
    /\ robotCapacity \in Capacities
    /\ calls = <<Call(1, 0, 0, Nil)>>
    /\ arrays = <<>>
    /\ bestValue = 0
    /\ bestSet = Nil
    /\ steps = 0
    /\ ctx = "live"
    /\ result = "none"
    /\ late = 0

\* The innermost call, and what is left when it returns false: the caller
\* goes on where it stands, and the return of the outermost call ends the search.
Top == Last(calls)

Return == /\ calls' = Front(calls)
          /\ result' = IF Len(calls) = 1 THEN "plan" ELSE "none"

\* Bug: the limit is one step off, an order of the exact capacity is pruned.
PruneExact ==
    /\ calls # <<>>
    /\ ~ Top.left
    /\ Top.weight >= robotCapacity
    /\ Return
    /\ UNCHANGED <<input, arrays, bestValue, bestSet, steps, ctx, late>>

\* Too heavy: the call returns without counting a step.
Prune ==
    /\ calls # <<>>
    /\ ~ Top.left
    /\ Top.weight > robotCapacity
    /\ Return
    /\ UNCHANGED <<input, arrays, bestValue, bestSet, steps, ctx, late>>

CountStep == /\ calls # <<>>
             /\ ~ Top.left
             /\ Top.weight <= robotCapacity
             /\ steps' = steps + 1
             /\ late' = IF ctx = "done" THEN late + 1 ELSE late

\* Bug: a step that looks at the context does not look at every multiple.
CancelledOnce == ctx = "done" /\ steps + 1 = CheckEvery

Cancelled == ctx = "done" /\ (steps + 1) % CheckEvery = 0

\* Every call returns true.
Cancel ==
    /\ CountStep
    /\ Cancelled
    /\ calls' = <<>>
    /\ result' = "canceled"
    /\ UNCHANGED <<input, arrays, bestValue, bestSet, ctx>>

\* Bug: the end of the list is noticed one call too late, and the call before it
\* indexes past the list and panics.
LeafLate ==
    /\ CountStep
    /\ ~ Cancelled
    /\ Top.i > Len(orders) + 1
    /\ Return
    /\ UNCHANGED <<input, arrays, bestValue, bestSet, ctx>>

\* A complete choice; the best one is copied into an array of its own.
Leaf ==
    /\ CountStep
    /\ ~ Cancelled
    /\ Top.i > Len(orders)
    /\ Return
    /\ IF Top.value > bestValue
         THEN /\ bestValue' = Top.value
              /\ bestSet' = [array |-> Len(arrays) + 1, len |-> Top.set.len]
              /\ arrays' = Append(arrays, Content(Top.set))
         ELSE UNCHANGED <<bestValue, bestSet, arrays>>
    /\ UNCHANGED <<input, ctx>>

\* The order is left out first.
LeaveOut ==
    /\ CountStep
    /\ ~ Cancelled
    /\ Top.i <= Len(orders)
    /\ calls' = Append([calls EXCEPT ![Len(calls)].left = TRUE],
                       Call(Top.i + 1, Top.weight, Top.value, Top.set))
    /\ UNCHANGED <<input, arrays, bestValue, bestSet, ctx, result>>

\* Bug: the branch that takes an order reuses the slice without its length.
TakeInPlace ==
    /\ calls # <<>>
    /\ Top.left
    /\ LET order == orders[Top.i]
           set == IF Top.set = Nil THEN Nil ELSE [Top.set EXCEPT !.len = @ - 1]
       IN  /\ \E slack \in Slacks :
                arrays' = ArraysAfter(set, order.order_id, slack)
           /\ calls' = Append(Front(calls),
                              Call(Top.i + 1, Top.weight + order.weight,
                                   Top.value + order.value, Appended(set)))
    /\ UNCHANGED <<input, bestValue, bestSet, steps, ctx, result, late>>

\* Bug: an order that was taken is offered again.
TakeAgain ==
    /\ calls # <<>>
    /\ Top.left
    /\ LET order == orders[Top.i]
       IN  /\ \E slack \in Slacks :
                arrays' = ArraysAfter(Top.set, order.order_id, slack)
           /\ calls' = Append(Front(calls),
                              Call(Top.i, Top.weight + order.weight,
                                   Top.value + order.value, Appended(Top.set)))
    /\ UNCHANGED <<input, bestValue, bestSet, steps, ctx, result, late>>

\* Then it is taken; the call's own return value is that of this call.
Take ==
    /\ calls # <<>>
    /\ Top.left
    /\ LET order == orders[Top.i]
       IN  /\ \E slack \in Slacks :
                arrays' = ArraysAfter(Top.set, order.order_id, slack)
           /\ calls' = Append(Front(calls),
                              Call(Top.i + 1, Top.weight + order.weight,
                                   Top.value + order.value, Appended(Top.set)))
    /\ UNCHANGED <<input, bestValue, bestSet, steps, ctx, result, late>>

EndContext ==
    /\ ctx = "live"
    /\ result = "none"
    /\ ctx' = "done"
    /\ UNCHANGED <<input, calls, arrays, bestValue, bestSet, steps, result, late>>

Search == Prune \/ Cancel \/ Leaf \/ LeaveOut \/ Take

Next == Prune \/ Cancel \/ Leaf \/ LeaveOut \/ Take \/ EndContext

Spec == Init /\ [][Next]_vars /\ WF_vars(Search)

----------------------------------------------------------------------------

Ids == {orders[i].order_id : i \in DOMAIN orders}
Row(o) == CHOOSE row \in ToSet(orders) : row.order_id = o
WeightOf == [o \in Ids |-> Row(o).weight]
ValueOf == [o \in Ids |-> Row(o).value]

TypeOK ==
    /\ arrays \in Seq(Seq(Nat))
    /\ calls \in Seq([i : 1 .. Len(orders) + 1, weight : Nat, value : Nat,
                      set : [array : 0 .. Len(arrays), len : 0 .. Len(orders)],
                      left : BOOLEAN])
    /\ bestSet \in [array : 0 .. Len(arrays), len : 0 .. Len(orders)]
    /\ bestValue \in Nat /\ steps \in Nat /\ late \in Nat
    /\ ctx \in {"live", "done"}
    /\ result \in {"none", "plan", "canceled"}

\* A search that is not canceled returns one of the plans of Knapsack, each
\* order once, with the value it says, even if its context has ended.
PlanIsBest ==
    result = "plan" =>
      LET plan == Content(bestSet)
      IN  /\ IsInjective(plan)
          /\ ToSet(plan) \in BestPlans(Ids, WeightOf, ValueOf, robotCapacity)
          /\ bestValue = Total(ValueOf, ToSet(plan))

\* The slice of every call under way holds the orders that call chose,
\* although append overwrites the elements of arrays that other calls use.
SlicesHoldTheirChoice ==
    \A k \in DOMAIN calls :
      LET set == ToSet(Content(calls[k].set))
      IN  /\ set \subseteq {orders[i].order_id : i \in 1 .. calls[k].i - 1}
          /\ calls[k].weight = Total(WeightOf, set)
          /\ calls[k].value = Total(ValueOf, set)

\* A search whose context ended takes at most CheckEvery more steps.
CancelsInTime == late <= CheckEvery

\* The search ends.
SearchEnds == <>(result # "none")
=============================================================================

------------------------------ MODULE OrderBoard ------------------------------
(***************************************************************************)
(* What the delivery side of the StoreLink backend promises, without       *)
(* requests, transactions, locks or timeouts: a board of orders.  A        *)
(* checkout publishes a batch of orders.  A planner looks at the board once *)
(* and later claims, in one step, some of the orders that were waiting when *)
(* it looked.  An order that was claimed can be completed.                  *)
(*                                                                         *)
(* Exclusive says whether an order is still waiting when it is claimed.    *)
(* OrderDispatch implements the board with Exclusive = FALSE whatever its  *)
(* clients do, and with Exclusive = TRUE when one robot waits for every    *)
(* answer and no request times out.                                        *)
(***************************************************************************)
EXTENDS Integers

CONSTANTS Order,        \* the order numbers
          Planner,      \* the planners, each of which looks and claims once
          Exclusive     \* may an order be claimed by one planner only?

VARIABLES board,        \* what the board says of each order
          view,         \* the waiting orders each planner saw
          spent         \* the planners that claimed

vars == <<board, view, spent>>

State == {"none", "shipping", "delivering", "completed"}
Waiting == {o \in Order : board[o] = "shipping"}

Init == /\ board \in [Order -> {"none", "shipping"}]
        /\ view = [p \in Planner |-> {}]
        /\ spent = {}

Publish == \E batch \in SUBSET {o \in Order : board[o] = "none"} :
             /\ board' = [o \in Order |-> IF o \in batch THEN "shipping"
                                          ELSE board[o]]
             /\ UNCHANGED <<view, spent>>

Look(p) == /\ p \notin spent
           /\ view' = [view EXCEPT ![p] = Waiting]
           /\ UNCHANGED <<board, spent>>

Claim(p) == /\ p \notin spent
            /\ \E plan \in SUBSET view[p] :
                 /\ Exclusive => plan \subseteq Waiting
                 /\ board' = [o \in Order |-> IF o \in plan THEN "delivering"
                                              ELSE board[o]]
            /\ spent' = spent \cup {p}
            /\ UNCHANGED view

Complete(o) == /\ board[o] \in {"delivering", "completed"}
               /\ board' = [board EXCEPT ![o] = "completed"]
               /\ UNCHANGED <<view, spent>>

Next == \/ Publish
        \/ \E p \in Planner : Look(p) \/ Claim(p)
        \/ \E o \in Order : Complete(o)

Spec == Init /\ [][Next]_vars
=============================================================================

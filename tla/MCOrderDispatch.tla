---------------------------- MODULE MCOrderDispatch ----------------------------
(***************************************************************************)
(* Small instances of OrderDispatch.  Two products that fit a robot one at *)
(* a time or together, one too heavy or worthless depending on the run,    *)
(* and one a shopper may name although the table does not have it.         *)
(***************************************************************************)
EXTENDS OrderDispatch, TLC

CONSTANTS pen, desk, ghost  \* products

MCProducts == {pen, desk, ghost}
MCCatalogue == {pen, desk}
MCWeight == pen :> 1 @@ desk :> 2
MCValue == pen :> 1 @@ desk :> 1

Item(p, n) == [product |-> p, quantity |-> n]

\* One order at a time.
OnePen == {<<Item(pen, 1)>>}

\* An order the database must refuse after it took the first.
GhostBasket == {<<Item(pen, 1), Item(ghost, 1)>>}

\* Repeated, empty, negative and unknown items.
OddBaskets == {<<>>,
               <<Item(pen, 2), Item(desk, 1)>>,
               <<Item(pen, 2), Item(pen, 1), Item(desk, -1)>>,
               <<Item(desk, 1), Item(ghost, 1)>>}
\* Robots, and requests of a kind, are interchangeable.
Symmetry == Permutations(Robots) \cup Permutations(PlanReq)
            \cup Permutations(ReportReq) \cup Permutations(CreateReq)
=============================================================================

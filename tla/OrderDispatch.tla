----------------------------- MODULE OrderDispatch -----------------------------
(***************************************************************************)
(* Orders of the StoreLink backend: shoppers check out (CreateOrders),     *)
(* delivery robots ask for a plan (GenerateDeliveryPlan) and report each    *)
(* delivered order (UpdateOrderStatus).                                    *)
(*                                                                         *)
(* Every HTTP request runs in goroutines of its own.  A robot request runs *)
(* its database work in a second goroutine under WithTimeout: the handler  *)
(* answers when the work ends or when the context does, whichever it sees  *)
(* first.  A request slot is used once, so that the number of slots bounds *)
(* the number of requests of a behaviour.                                  *)
(*                                                                         *)
(* The database is MySQL (InnoDB, REPEATABLE READ): the SELECT of a plan   *)
(* reads a snapshot and takes no lock, an UPDATE sees and locks the latest *)
(* committed rows, and what a transaction wrote is visible once it         *)
(* commits.  Any statement may fail; the connection does not break between *)
(* a COMMIT and its acknowledgement.                                       *)
(*                                                                         *)
(* The clients are those of the repository: the robot scenario of the      *)
(* benchmark and shoppers that check out a basket.                         *)
(***************************************************************************)
EXTENDS Integers, FiniteSets, Sequences, Knapsack

CONSTANTS
    PlanReq,        \* slots for GET /robot/delivery-plan
    ReportReq,      \* slots for PATCH /robot/orders/status
    CreateReq,      \* slots for POST /product/post
    NoReq,          \* no request: the robot awaits nothing
    Robots,         \* the clients that run the robot scenario
    Impatient,      \* requests whose context may end before the answer
    Products,       \* product numbers a shopper may send
    Catalogue,      \* those the products table has
    Weight, Value,  \* columns of the products table
    Capacity,       \* the capacity the robots send
    Baskets,        \* the item lists shoppers send
    MaxOrder,       \* bound: the last order number
    Seeded          \* the orders the restored database holds

Requests == PlanReq \cup ReportReq \cup CreateReq
TimedReq == PlanReq \cup ReportReq
Order == 1 .. MaxOrder

ASSUME RequestAssumption ==
    /\ PlanReq \cap ReportReq = {}
    /\ PlanReq \cap CreateReq = {}
    /\ ReportReq \cap CreateReq = {}
    /\ NoReq \notin Requests
    /\ Impatient \subseteq Requests

ASSUME DataAssumption ==
    /\ MaxOrder \in Nat
    /\ Seeded \in 0 .. MaxOrder
    /\ Catalogue \subseteq Products
    /\ Weight \in [Catalogue -> Nat]
    /\ Value \in [Catalogue -> Nat]
    /\ Capacity \in Int
    /\ Baskets \subseteq Seq([product : Products, quantity : Int])

VARIABLES
    \* the orders table
    status,     \* shipped_status of every committed row
    product,    \* product_id of the rows ever inserted, by order number
    \* each request on the server
    ctx,        \* its context: "live" or "done"
    work,       \* where the goroutine that does the database work stands
    answer,     \* what the handler wrote
    seen,       \* a plan: the rows GetShippingOrders returned
    rows,       \* the orders it writes: the plan, the report's order, the inserts
    want,       \* a checkout: units to insert of each product
    \* the robots
    awaits,     \* the request a robot waits for
    load,       \* the orders of its plan it has not yet reported
    \* history, read by no action
    before      \* a plan: the plans committed when it took its snapshot

database == <<status, product>>
server == <<ctx, work, answer, seen, rows, want, before>>
robots == <<awaits, load>>
vars == <<status, product, ctx, work, answer, seen, rows, want,
          awaits, load, before>>

Status == {"none", "shipping", "delivering", "completed"}

Work == {"idle",        \* not received yet
         "begin",       \* in BeginTxx
         "read",        \* in GetShippingOrders
         "select",      \* in selectOrdersForDelivery
         "update",      \* in UpdateStatuses, inside the transaction
         "insert",      \* in the loop over Create
         "commit",      \* the transaction's function returned nil
         "committing",  \* COMMIT sent, the context can no longer stop it
         "exec",        \* in UpdateStatuses, outside a transaction
         "abandoned",   \* the goroutine gave the statement up, MySQL has not
         "done", "failed"}

----------------------------------------------------------------------------
(* Reading the state *)

\* Bug: the query of a plan loses its WHERE clause.
EveryStatus == {o \in Order : status[o] # "none"}

Shipping == {o \in Order : status[o] = "shipping"}

Committed == {q \in PlanReq : work[q] = "done"}

\* The rows a transaction updated and has neither committed nor rolled back.
Locked == UNION {rows[q] : q \in {p \in PlanReq :
                                    work[p] \in {"commit", "committing"}}}

\* itemsToProcess: what the loop over the items of a checkout leaves in its
\* map, the last positive quantity of each product (0 for one not in the map).
IsLast(items, p, i) ==
    LET positive == {j \in DOMAIN items : /\ items[j].product = p
                                          /\ items[j].quantity > 0}
    IN  /\ \A j \in positive : j <= i
        /\ i # 0 => i \in positive

ItemsToProcess(items) ==
    {[p \in Products |-> IF last[p] = 0 THEN 0 ELSE items[last[p]].quantity] :
       last \in {l \in [Products -> 0 .. Len(items)] :
                   \A p \in Products : IsLast(items, p, l[p])}}

\* The rows of product p that checkout q inserted, and those it still has to.
Inserted(q, p) == {o \in rows[q] : product[o] = p}
Missing(q, p) == want[q][p] - Cardinality(Inserted(q, p))

Init ==
    /\ status = [o \in Order |-> IF o <= Seeded THEN "shipping" ELSE "none"]
    /\ product \in [1 .. Seeded -> Catalogue]
    /\ ctx = [q \in Requests |-> "live"]
    /\ work = [q \in Requests |-> "idle"]
    /\ answer = [q \in Requests |-> "none"]
    /\ seen = [q \in PlanReq |-> {}]
    /\ rows = [q \in Requests |-> {}]
    /\ want = [q \in CreateReq |-> [p \in Products |-> 0]]
    /\ awaits = [r \in Robots |-> NoReq]
    /\ load = [r \in Robots |-> {}]
    /\ before = [q \in PlanReq |-> {}]

----------------------------------------------------------------------------
(* A request reaches its handler *)

Receive(q, step) == /\ answer[q] = "none"
                    /\ answer' = [answer EXCEPT ![q] = "waiting"]
                    /\ work' = [work EXCEPT ![q] = step]

\* Bug: the scenario does not wait for the answer of its last plan.
StartPlanEarly(r, q) ==
    /\ load[r] = {}
    /\ Receive(q, "begin")
    /\ awaits' = [awaits EXCEPT ![r] = q]
    /\ UNCHANGED <<status, product, ctx, seen, rows, want, load, before>>

\* The robot scenario starts over: it asks for a plan.
StartPlan(r, q) ==
    /\ awaits[r] = NoReq
    /\ load[r] = {}
    /\ Receive(q, "begin")
    /\ awaits' = [awaits EXCEPT ![r] = q]
    /\ UNCHANGED <<status, product, ctx, seen, rows, want, load, before>>

\* It reports the next order of its plan as completed.
StartReport(r, q) ==
    /\ awaits[r] = NoReq
    /\ \E o \in load[r] : rows' = [rows EXCEPT ![q] = {o}]
    /\ Receive(q, "exec")
    /\ awaits' = [awaits EXCEPT ![r] = q]
    /\ UNCHANGED <<status, product, ctx, seen, want, load, before>>

\* A shopper checks out.
StartCreate(q) ==
    /\ Receive(q, "begin")
    /\ \E items \in Baskets : \E map \in ItemsToProcess(items) :
         want' = [want EXCEPT ![q] = map]
    /\ UNCHANGED <<status, product, ctx, seen, rows, awaits, load, before>>

----------------------------------------------------------------------------
(* The goroutine that does the database work *)

Step(q, from, to) == /\ work[q] = from
                     /\ work' = [work EXCEPT ![q] = to]

BeginTx(q) ==
    /\ ctx[q] = "live"
    /\ Step(q, "begin", IF q \in PlanReq THEN "read"
                        ELSE IF \E p \in Products : want[q][p] > 0 THEN "insert"
                        ELSE "commit")
    /\ UNCHANGED <<database, robots, ctx, answer, seen, rows, want, before>>

GetShippingOrders(q) ==
    /\ ctx[q] = "live"
    /\ Step(q, "read", "select")
    /\ seen' = [seen EXCEPT ![q] = Shipping]
    /\ before' = [before EXCEPT ![q] = Committed]
    /\ UNCHANGED <<database, robots, ctx, answer, rows, want>>

\* The search looks at its context every 16384 steps only, so that it may end
\* with a plan after the context did.
SelectOrders(q) ==
    \E plan \in BestPlans(seen[q], [o \in seen[q] |-> Weight[product[o]]],
                          [o \in seen[q] |-> Value[product[o]]], Capacity) :
      /\ Step(q, "select", IF plan = {} THEN "commit" ELSE "update")
      /\ rows' = [rows EXCEPT ![q] = plan]
      /\ UNCHANGED <<database, robots, ctx, answer, seen, want, before>>

\* Bug: the UPDATE runs on the store of the service, outside the transaction.
UpdateOutsideTx(q) ==
    /\ ctx[q] = "live"
    /\ Step(q, "update", "commit")
    /\ status' = [o \in Order |-> IF o \in rows[q] THEN "delivering" ELSE status[o]]
    /\ UNCHANGED <<product, robots, ctx, answer, seen, rows, want, before>>

\* The UPDATE asks for no particular old status.
UpdateStatuses(q) ==
    /\ ctx[q] = "live"
    /\ rows[q] \cap Locked = {}
    /\ Step(q, "update", "commit")
    /\ UNCHANGED <<database, robots, ctx, answer, seen, rows, want, before>>

\* Bug: the INSERT runs on the store of the service, outside the transaction.
InsertOutsideTx(q) ==
    LET left == {p \in Products : Missing(q, p) > 0}
        o == Len(product) + 1
    IN  /\ o \in Order
        /\ \E p \in left \cap Catalogue :
             /\ Step(q, "insert", IF left = {p} /\ Missing(q, p) = 1
                                  THEN "commit" ELSE "insert")
             /\ product' = Append(product, p)
        /\ rows' = [rows EXCEPT ![q] = @ \cup {o}]
        /\ status' = [status EXCEPT ![o] = "shipping"]
        /\ UNCHANGED <<robots, ctx, answer, seen, want, before>>

\* One unit of one product: the loop ends a product before it starts another,
\* and visits the products in the order of a Go map.
InsertOrder(q) ==
    LET left == {p \in Products : Missing(q, p) > 0}
        o == Len(product) + 1
    IN  /\ ctx[q] = "live"
        /\ o \in Order
        /\ \E p \in left \cap Catalogue :
             /\ \A r \in left \ {p} : Inserted(q, r) = {}
             /\ Step(q, "insert", IF left = {p} /\ Missing(q, p) = 1
                                  THEN "commit" ELSE "insert")
             /\ product' = Append(product, p)
        /\ rows' = [rows EXCEPT ![q] = @ \cup {o}]
        /\ UNCHANGED <<status, robots, ctx, answer, seen, want, before>>

\* tx.Commit looks at the context once more, then cannot be stopped.
SendCommit(q) ==
    /\ ctx[q] = "live"
    /\ Step(q, "commit", "committing")
    /\ UNCHANGED <<database, robots, ctx, answer, seen, rows, want, before>>

\* Bug: the status is spelt as in the API definition's enum.
WrittenComplete(q) == "complete"

Written(q) == IF q \in CreateReq THEN "shipping" ELSE "delivering"

Commit(q) ==
    /\ Step(q, "committing", "done")
    /\ status' = [o \in Order |-> IF o \in rows[q] THEN Written(q) ELSE status[o]]
    /\ UNCHANGED <<product, robots, ctx, answer, seen, rows, want, before>>

\* A statement fails, or finds the context done: the transaction rolls back
\* (its inserted numbers are not used again).  The search fails only by
\* finding its context done.
Rollback(q) ==
    /\ \/ work[q] \in {"begin", "read", "update", "insert", "commit", "committing"}
       \/ work[q] = "select" /\ ctx[q] = "done"
    /\ work' = [work EXCEPT ![q] = "failed"]
    /\ UNCHANGED <<database, robots, ctx, answer, seen, rows, want, before>>

\* UpdateStatuses outside a transaction commits by itself.
ExecUpdate(q) ==
    /\ rows[q] \cap Locked = {}
    /\ \/ ctx[q] = "live" /\ Step(q, "exec", "done")
       \/ Step(q, "abandoned", "failed")
    /\ status' = [o \in Order |-> IF o \in rows[q] THEN "completed" ELSE status[o]]
    /\ UNCHANGED <<product, robots, ctx, answer, seen, rows, want, before>>

\* Bug: the channel of WithTimeout has no buffer: a goroutine whose handler gave
\* up never gets rid of its error.
FailUpdateUnheard(q) ==
    /\ \/ answer[q] = "waiting" /\ Step(q, "exec", "failed")
       \/ answer[q] = "waiting" /\ ctx[q] = "done" /\ Step(q, "exec", "abandoned")
       \/ Step(q, "abandoned", "failed")
    /\ UNCHANGED <<database, robots, ctx, answer, seen, rows, want, before>>

\* The UPDATE fails; or the context ends while MySQL runs it, and the
\* goroutine returns without knowing what becomes of it.
FailUpdate(q) ==
    /\ \/ Step(q, "exec", "failed")
       \/ ctx[q] = "done" /\ Step(q, "exec", "abandoned")
       \/ Step(q, "abandoned", "failed")
    /\ UNCHANGED <<database, robots, ctx, answer, seen, rows, want, before>>

----------------------------------------------------------------------------
(* The handler and the context *)

\* The timeout of WithTimeout, or the server noticing that the client left.
EndContext(q) ==
    /\ q \in Impatient
    /\ answer[q] = "waiting"
    /\ ctx[q] = "live"
    /\ ctx' = [ctx EXCEPT ![q] = "done"]
    /\ UNCHANGED <<database, robots, work, answer, seen, rows, want, before>>

\* Bug: GenerateDeliveryPlan returns its plan whatever the transaction returned.
ReplyUnchecked(q) ==
    /\ answer[q] = "waiting"
    /\ work[q] \in {"done", "failed", "abandoned"}
    /\ answer' = [answer EXCEPT ![q] = "ok"]
    /\ ctx' = [ctx EXCEPT ![q] = "done"]
    /\ UNCHANGED <<database, robots, work, seen, rows, want, before>>

\* The handler hears from the goroutine; its return ends the context.
Reply(q) ==
    /\ answer[q] = "waiting"
    /\ work[q] \in {"done", "failed", "abandoned"}
    /\ answer' = [answer EXCEPT ![q] = IF work[q] = "done" THEN "ok" ELSE "error"]
    /\ ctx' = [ctx EXCEPT ![q] = "done"]
    /\ UNCHANGED <<database, robots, work, seen, rows, want, before>>

\* Bug: WithTimeout waits for the goroutine after its context ended.
ReplyAfterWork(q) ==
    /\ answer[q] = "waiting"
    /\ ctx[q] = "done"
    /\ work[q] \in {"done", "failed", "abandoned"}
    /\ answer' = [answer EXCEPT ![q] = "error"]
    /\ UNCHANGED <<database, robots, ctx, work, seen, rows, want, before>>

\* WithTimeout hears from the context, wherever the goroutine is.
ReplyTimeout(q) ==
    /\ answer[q] = "waiting"
    /\ ctx[q] = "done"
    /\ answer' = [answer EXCEPT ![q] = "error"]
    /\ UNCHANGED <<database, robots, ctx, work, seen, rows, want, before>>

----------------------------------------------------------------------------
(* The robot scenario hears the answer *)

\* Orders of a plan are reported one after the other; the first error ends
\* the iteration and leaves the others unreported.
Hear(r) ==
    \E q \in TimedReq :
      /\ awaits[r] = q
      /\ answer[q] \in {"ok", "error"}
      /\ awaits' = [awaits EXCEPT ![r] = NoReq]
      /\ load' = [load EXCEPT ![r] = IF answer[q] = "error" THEN {}
                                     ELSE IF q \in PlanReq THEN rows[q]
                                     ELSE @ \ rows[q]]
      /\ UNCHANGED <<database, server>>

\* The HTTP client of the robot times out before the server does.
GiveUp(r) ==
    /\ awaits[r] \in Impatient
    /\ answer[awaits[r]] = "waiting"
    /\ awaits' = [awaits EXCEPT ![r] = NoReq]
    /\ load' = [load EXCEPT ![r] = {}]
    /\ UNCHANGED <<database, server>>

----------------------------------------------------------------------------

PlanStep(q) == \/ GetShippingOrders(q)
               \/ SelectOrders(q)
               \/ UpdateStatuses(q)

TxStep(q) == BeginTx(q) \/ SendCommit(q) \/ Commit(q)

Next ==
    \/ \E q \in PlanReq :
         \/ \E r \in Robots : StartPlan(r, q)
         \/ PlanStep(q)
    \/ \E q \in CreateReq : StartCreate(q) \/ InsertOrder(q)
    \/ \E q \in PlanReq \cup CreateReq : TxStep(q) \/ Rollback(q)
    \/ \E q \in ReportReq :
         \/ \E r \in Robots : StartReport(r, q)
         \/ ExecUpdate(q)
         \/ FailUpdate(q)
    \/ \E q \in Requests : EndContext(q) \/ Reply(q)
    \/ \E q \in TimedReq : ReplyTimeout(q)
    \/ \E r \in Robots : Hear(r) \/ GiveUp(r)

Spec == Init /\ [][Next]_vars

\* The handlers run.
HandlerFairness == \A q \in Requests : WF_vars(Reply(q))

FairSpec == Spec /\ HandlerFairness

\* The timer of WithTimeout fires and its select is run.  Nothing is assumed
\* of the goroutine that does the work: MySQL may never answer it.
TimerFairness ==
    \A q \in TimedReq : WF_vars(EndContext(q)) /\ WF_vars(ReplyTimeout(q))

\* MySQL answers every statement, and refuses those it must refuse.
Refused(q) == \/ ctx[q] = "done"
              \/ work[q] = "insert" /\ \A p \in Catalogue : Missing(q, p) = 0

DatabaseFairness ==
    /\ \A q \in PlanReq : WF_vars(PlanStep(q))
    /\ \A q \in CreateReq : WF_vars(InsertOrder(q))
    /\ \A q \in PlanReq \cup CreateReq :
         WF_vars(TxStep(q)) /\ WF_vars(Refused(q) /\ Rollback(q))
    /\ \A q \in ReportReq : WF_vars(ExecUpdate(q)) /\ WF_vars(FailUpdate(q))

----------------------------------------------------------------------------
(* Safety *)

TypeOK ==
    /\ status \in [Order -> Status]
    /\ product \in Seq(Catalogue)
    /\ Len(product) \in Seeded .. MaxOrder
    /\ ctx \in [Requests -> {"live", "done"}]
    /\ work \in [Requests -> Work]
    /\ answer \in [Requests -> {"none", "waiting", "ok", "error"}]
    /\ seen \in [PlanReq -> SUBSET Order]
    /\ rows \in [Requests -> SUBSET Order]
    /\ want \in [CreateReq -> [Products -> Nat]]
    /\ awaits \in [Robots -> TimedReq \cup {NoReq}]
    /\ load \in [Robots -> SUBSET Order]
    /\ before \in [PlanReq -> SUBSET PlanReq]

\* Two committed plans hold the same order only if each took its snapshot
\* before the other committed: a plan asked for after another one committed
\* never holds an order of it, however both are reported, retried or timed out.
PlansShareOnlyWhenOverlapping ==
    \A p, q \in Committed :
      p \in before[q] => rows[p] \cap rows[q] = {}

\* A row left 'shipping' exactly when some plan that holds it committed, and
\* robots carry such orders only: no order is delivered that no plan handed
\* out, and a rolled back or half-done plan leaves nothing behind.
DeliveryIsTraceable ==
    /\ \A o \in Order : status[o] \in {"delivering", "completed"}
                          <=> \E q \in Committed : o \in rows[q]
    /\ \A r \in Robots : \A o \in load[r] : \E q \in Committed : o \in rows[q]

\* A checkout shows all of its orders or none of them, at any time; it is
\* answered with success only if it shows exactly the units asked for, and with
\* an error only if it shows none.
CheckoutIsAllOrNothing ==
    \A q \in CreateReq :
      LET visible == {o \in rows[q] : status[o] # "none"}
      IN  /\ visible \in {{}, rows[q]}
          /\ work[q] # "done" => visible = {}
          /\ work[q] = "done" => \A p \in Products : Missing(q, p) = 0
          /\ answer[q] = "ok" => visible = rows[q] /\ work[q] = "done"
          /\ answer[q] = "error" => visible = {}

\* The orders table and the plans implement the board of OrderBoard.
Board == INSTANCE OrderBoard WITH
             Planner <- PlanReq, Exclusive <- FALSE,
             board <- status, view <- seen, spent <- Committed
BoardSpec == Board!Spec

\* One robot that waits for every answer, and no timeout: the board on which
\* nobody claims an order that is no longer waiting.
ExclusiveBoard == INSTANCE OrderBoard WITH
                      Planner <- PlanReq, Exclusive <- TRUE,
                      board <- status, view <- seen, spent <- Committed
ExclusiveBoardSpec == ExclusiveBoard!Spec

----------------------------------------------------------------------------
(* Liveness *)

\* WithTimeout answers every robot request, even one whose goroutine hangs.
RobotsAreAnswered ==
    TimerFairness =>
      \A q \in TimedReq : answer[q] = "waiting" ~> answer[q] \in {"ok", "error"}

\* As long as MySQL answers, no request holds its goroutine for ever, whoever
\* gave it up meanwhile: transactions release their rows, and nobody waits for
\* a row that is never released.
GoroutinesEnd ==
    DatabaseFairness =>
      \A q \in Requests :
        work[q] # "idle" ~> work[q] \in {"done", "failed"}

----------------------------------------------------------------------------
(* What the repository says and the code does not do *)

\* robot.js: a plan takes its orders from 'shipping' to 'delivering'.
OnlyShippingBecomesDelivering ==
    [][\A o \in Order : status'[o] = "delivering"
                           => status[o] \in {"shipping", "delivering"}]_vars

\* The handler answers "Failed to create delivery plan": no such plan exists.
FailedPlanChangesNothing ==
    \A q \in PlanReq : answer[q] = "error" => q \notin Committed
=============================================================================

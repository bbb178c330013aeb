-------------------------- MODULE OrderDispatch_proofs --------------------------
(***************************************************************************)
(* Proofs about OrderDispatch, for any sets of requests, robots, products   *)
(* and baskets: type correctness, the safety invariants of plans and of     *)
(* checkouts, and that the orders table implements the board of OrderBoard. *)
(***************************************************************************)
EXTENDS OrderDispatch, SequenceTheorems, FiniteSetTheorems, TLAPS

----------------------------------------------------------------------------
(* Operators the actions are built from *)

\* A plan holds orders of the listing it was made from and no others.
LEMMA PlansAreListed ==
    ASSUME NEW orders, NEW w, NEW v, NEW c,
           NEW plan \in BestPlans(orders, w, v, c)
    PROVE  plan \subseteq orders
  BY DEF BestPlans

\* What the item loop leaves in its map is a number of units per product.
LEMMA MapsCountUnits ==
    ASSUME NEW items \in Baskets, NEW map \in ItemsToProcess(items)
    PROVE  map \in [Products -> Nat]
  <1>1. items \in Seq([product : Products, quantity : Int])
    BY DataAssumption
  <1>2. PICK last \in [Products -> 0 .. Len(items)] :
          /\ \A p \in Products : IsLast(items, p, last[p])
          /\ map = [p \in Products |-> IF last[p] = 0 THEN 0
                                       ELSE items[last[p]].quantity]
    BY DEF ItemsToProcess
  <1>3. ASSUME NEW p \in Products, last[p] # 0
        PROVE  items[last[p]].quantity \in Nat
    <2>1. last[p] \in DOMAIN items /\ items[last[p]].quantity > 0
      BY <1>2, <1>3 DEF IsLast
    <2>2. items[last[p]] \in [product : Products, quantity : Int]
      <3> DEFINE Item == [product : Products, quantity : Int]
      <3>1. items \in Seq(Item)
        BY <1>1
      <3> HIDE DEF Item
      <3>2. last[p] \in 1 .. Len(items)
        BY <2>1, <3>1
      <3>3. items[last[p]] \in Item
        BY <3>1, <3>2, ElementOfSeq
      <3>4. QED
        BY <3>3 DEF Item
    <2>3. QED
      BY <2>1, <2>2
  <1>4. QED
    BY <1>2, <1>3

\* The rows of a plan are a plan of its listing.
LEMMA SelectedRows ==
    ASSUME NEW q \in PlanReq, SelectOrders(q)
    PROVE  \E plan \in SUBSET seen[q] :
             /\ rows' = [rows EXCEPT ![q] = plan]
             /\ Step(q, "select", IF plan = {} THEN "commit" ELSE "update")
             /\ UNCHANGED <<database, robots, ctx, answer, seen, want, before>>
  BY PlansAreListed DEF SelectOrders

----------------------------------------------------------------------------
(* Type correctness *)

\* The restored database and the idle requests have the types of TypeOK.
LEMMA TypeInit == Init => TypeOK
  <1> SUFFICES ASSUME Init PROVE TypeOK
    OBVIOUS
  <1>1. product \in Seq(Catalogue) /\ Len(product) \in Seeded .. MaxOrder
    BY DataAssumption DEF Init
  <1>2. QED
    BY <1>1 DEF Init, TypeOK, Status, Work, TimedReq

\* Every action keeps the types, one step of the proof per action.
LEMMA TypeStep == TypeOK /\ [Next]_vars => TypeOK'
  <1> SUFFICES ASSUME TypeOK, [Next]_vars PROVE TypeOK'
    OBVIOUS
  <1> USE DEF TypeOK, Work, Requests, TimedReq
  <1>1. ASSUME NEW q \in PlanReq, NEW r \in Robots, StartPlan(r, q) PROVE TypeOK'
    BY <1>1 DEF StartPlan, Receive
  <1>2. ASSUME NEW q \in ReportReq, NEW r \in Robots, StartReport(r, q) PROVE TypeOK'
    <2>1. PICK o \in load[r] : rows' = [rows EXCEPT ![q] = {o}]
      BY <1>2 DEF StartReport
    <2>2. {o} \in SUBSET Order
      BY <1>2, <2>1
    <2>3. QED
      BY <1>2, <2>1, <2>2 DEF StartReport, Receive
  <1>3. ASSUME NEW q \in CreateReq, StartCreate(q) PROVE TypeOK'
    BY <1>3, MapsCountUnits DEF StartCreate, Receive
  <1>4. ASSUME NEW q \in PlanReq \cup CreateReq, BeginTx(q) PROVE TypeOK'
    BY <1>4 DEF BeginTx, Step, database, robots
  <1>5. ASSUME NEW q \in PlanReq, GetShippingOrders(q) PROVE TypeOK'
    BY <1>5 DEF GetShippingOrders, Step, database, robots, Shipping, Committed
  <1>6. ASSUME NEW q \in PlanReq, SelectOrders(q) PROVE TypeOK'
    <2>1. PICK plan \in SUBSET seen[q] :
             /\ rows' = [rows EXCEPT ![q] = plan]
             /\ Step(q, "select", IF plan = {} THEN "commit" ELSE "update")
             /\ UNCHANGED <<database, robots, ctx, answer, seen, want, before>>
      BY <1>6, SelectedRows
    <2>2. QED
      BY <2>1 DEF Step, database, robots
  <1>7. ASSUME NEW q \in PlanReq, UpdateStatuses(q) PROVE TypeOK'
    BY <1>7 DEF UpdateStatuses, Step, database, robots
  <1>8. ASSUME NEW q \in CreateReq, InsertOrder(q) PROVE TypeOK'
    <2>1. PICK p \in Catalogue : product' = Append(product, p)
      BY <1>8 DEF InsertOrder
    <2>2. product' \in Seq(Catalogue) /\ Len(product') = Len(product) + 1
      BY <2>1, AppendProperties
    <2>3. Len(product') \in Seeded .. MaxOrder
      BY <1>8, <2>2, DataAssumption DEF InsertOrder, Order
    <2>4. work' \in [Requests -> Work]
      BY <1>8 DEF InsertOrder, Step
    <2>5. rows' \in [Requests -> SUBSET Order]
      BY <1>8 DEF InsertOrder
    <2>6. QED
      BY <1>8, <2>2, <2>3, <2>4, <2>5 DEF InsertOrder, robots
  <1>9. ASSUME NEW q \in PlanReq \cup CreateReq, SendCommit(q) PROVE TypeOK'
    BY <1>9 DEF SendCommit, Step, database, robots
  <1>10. ASSUME NEW q \in PlanReq \cup CreateReq, Commit(q) PROVE TypeOK'
    BY <1>10 DEF Commit, Step, Written, Status, robots
  <1>11. ASSUME NEW q \in PlanReq \cup CreateReq, Rollback(q) PROVE TypeOK'
    BY <1>11 DEF Rollback, database, robots
  <1>12. ASSUME NEW q \in ReportReq, ExecUpdate(q) PROVE TypeOK'
    BY <1>12 DEF ExecUpdate, Step, Status, robots
  <1>13. ASSUME NEW q \in ReportReq, FailUpdate(q) PROVE TypeOK'
    BY <1>13 DEF FailUpdate, Step, database, robots
  <1>14. ASSUME NEW q \in Requests, EndContext(q) PROVE TypeOK'
    BY <1>14 DEF EndContext, database, robots
  <1>15. ASSUME NEW q \in Requests, Reply(q) PROVE TypeOK'
    BY <1>15 DEF Reply, database, robots
  <1>16. ASSUME NEW q \in TimedReq, ReplyTimeout(q) PROVE TypeOK'
    BY <1>16 DEF ReplyTimeout, database, robots
  <1>17. ASSUME NEW r \in Robots, Hear(r) PROVE TypeOK'
    <2>1. PICK q \in TimedReq :
            load' = [load EXCEPT ![r] = IF answer[q] = "error" THEN {}
                                        ELSE IF q \in PlanReq THEN rows[q]
                                        ELSE @ \ rows[q]]
      BY <1>17 DEF Hear
    <2>2. load' \in [Robots -> SUBSET Order]
      BY <2>1
    <2>3. QED
      BY <1>17, <2>2 DEF Hear, database, server
  <1>18. ASSUME NEW r \in Robots, GiveUp(r) PROVE TypeOK'
    BY <1>18 DEF GiveUp, database, server
  <1>19. CASE UNCHANGED vars
    BY <1>19 DEF vars
  <1>20. QED
    BY <1>1, <1>2, <1>3, <1>4, <1>5, <1>6, <1>7, <1>8, <1>9, <1>10, <1>11,
       <1>12, <1>13, <1>14, <1>15, <1>16, <1>17, <1>18, <1>19
       DEF Next, PlanStep, TxStep

\* Every variable keeps its type, whatever the clients and the database do.
THEOREM TypeCorrect == Spec => []TypeOK
  BY TypeInit, TypeStep, PTL DEF Spec

----------------------------------------------------------------------------
(* The inductive invariant *)

\* A request nobody sent has done no work, one that succeeded has done it all.
AnswersFollowWork ==
    \A q \in Requests : /\ answer[q] = "none" => work[q] = "idle"
                        /\ answer[q] = "ok" => work[q] = "done"

\* A plan holds rows of its snapshot, and those rows still exist.
PlansComeFromSnapshots ==
    \A q \in PlanReq :
      /\ rows[q] \subseteq seen[q]
      /\ work[q] \in {"idle", "begin", "read", "select"} => rows[q] = {}
      /\ \A o \in seen[q] : status[o] # "none"

\* The snapshot of a plan has no order of a plan committed before it.
SnapshotsSkipCommitted ==
    \A p, q \in PlanReq :
      p \in before[q] => p \in Committed /\ rows[p] \cap seen[q] = {}

\* The orders of a committed plan never wait again.
CommittedOrdersLeft ==
    \A q \in Committed : \A o \in rows[q] : status[o] \in {"delivering", "completed"}

\* An order that left, is carried or is being reported is in a committed plan.
Claimed(o) == \E q \in Committed : o \in rows[q]

LeavingOrdersAreClaimed ==
    /\ \A o \in Order : status[o] \in {"delivering", "completed"} => Claimed(o)
    /\ \A r \in Robots : \A o \in load[r] : Claimed(o)
    /\ \A q \in ReportReq : \A o \in rows[q] : Claimed(o)

\* The rows of a checkout that has not committed are its own and are invisible.
DraftsAreHidden ==
    /\ \A o \in Order : o > Len(product) => status[o] = "none"
    /\ \A c \in CreateReq : \A o \in rows[c] : o <= Len(product)
    /\ \A c, d \in CreateReq : c # d => rows[c] \cap rows[d] = {}
    /\ \A c \in CreateReq : work[c] # "done" => \A o \in rows[c] : status[o] = "none"

IInv == /\ TypeOK
        /\ AnswersFollowWork
        /\ PlansComeFromSnapshots
        /\ SnapshotsSkipCommitted
        /\ CommittedOrdersLeft
        /\ LeavingOrdersAreClaimed
        /\ DraftsAreHidden

\* Nothing is committed, carried or half done in the beginning.
LEMMA IInvInit == Init => IInv
  <1> SUFFICES ASSUME Init PROVE IInv
    OBVIOUS
  <1>1. TypeOK
    BY TypeInit
  <1>2. Len(product) = Seeded
    BY DataAssumption DEF Init
  <1>3. Committed = {}
    BY DEF Init, Committed, Requests
  <1>4. DraftsAreHidden
    BY <1>2, DataAssumption DEF Init, DraftsAreHidden, Requests, Order
  <1>5. LeavingOrdersAreClaimed
    BY DEF Init, LeavingOrdersAreClaimed, Requests
  <1>6. QED
    BY <1>1, <1>3, <1>4, <1>5
       DEF Init, IInv, AnswersFollowWork, PlansComeFromSnapshots,
           SnapshotsSkipCommitted, CommittedOrdersLeft, Requests

\* The answers, for every action at once: few actions touch them.
LEMMA AnswersStep == IInv /\ Next => AnswersFollowWork'
  <1> SUFFICES ASSUME IInv, Next PROVE AnswersFollowWork'
    OBVIOUS
  <1> USE DEF IInv, TypeOK, AnswersFollowWork, Requests, TimedReq
  <1>1. ASSUME NEW q \in Requests, NEW step, Receive(q, step)
        PROVE  AnswersFollowWork'
    BY <1>1 DEF Receive
  <1>2. ASSUME NEW q \in Requests, NEW from, NEW to, from \notin {"idle", "done"},
               Step(q, from, to), UNCHANGED answer
        PROVE  AnswersFollowWork'
    BY <1>2 DEF Step
  <1>3. ASSUME NEW q \in Requests, Rollback(q) PROVE AnswersFollowWork'
    BY <1>3 DEF Rollback
  <1>4. ASSUME NEW q \in Requests, Reply(q) \/ ReplyTimeout(q)
        PROVE  AnswersFollowWork'
    BY <1>4 DEF Reply, ReplyTimeout
  <1>5. ASSUME UNCHANGED <<answer, work>> PROVE AnswersFollowWork'
    BY <1>5
  <1>6. ASSUME NEW r \in Robots, NEW q \in Requests,
               StartPlan(r, q) \/ StartReport(r, q) \/ StartCreate(q)
        PROVE  AnswersFollowWork'
    BY <1>1, <1>6 DEF StartPlan, StartReport, StartCreate
  <1>7. ASSUME NEW q \in CreateReq, StartCreate(q) PROVE AnswersFollowWork'
    BY <1>1, <1>7 DEF StartCreate
  <1>8. ASSUME NEW q \in PlanReq, PlanStep(q) PROVE AnswersFollowWork'
    BY <1>2, <1>8 DEF PlanStep, GetShippingOrders, SelectOrders, UpdateStatuses
  <1>9. ASSUME NEW q \in CreateReq, InsertOrder(q) PROVE AnswersFollowWork'
    BY <1>2, <1>9 DEF InsertOrder
  <1>10. ASSUME NEW q \in PlanReq \cup CreateReq, TxStep(q) PROVE AnswersFollowWork'
    BY <1>2, <1>10 DEF TxStep, BeginTx, SendCommit, Commit
  <1>11. ASSUME NEW q \in ReportReq, ExecUpdate(q) \/ FailUpdate(q)
         PROVE  AnswersFollowWork'
    BY <1>2, <1>11 DEF ExecUpdate, FailUpdate
  <1>12. ASSUME NEW q \in Requests, EndContext(q) PROVE AnswersFollowWork'
    BY <1>5, <1>12 DEF EndContext
  <1>13. ASSUME NEW r \in Robots, Hear(r) \/ GiveUp(r) PROVE AnswersFollowWork'
    BY <1>5, <1>13 DEF Hear, GiveUp, server
  <1>14. QED
    BY <1>3, <1>4, <1>6, <1>7, <1>8, <1>9, <1>10, <1>11, <1>12, <1>13 DEF Next

Early == {"idle", "begin", "read", "select"}

Rest == /\ PlansComeFromSnapshots
        /\ SnapshotsSkipCommitted
        /\ CommittedOrdersLeft
        /\ LeavingOrdersAreClaimed
        /\ DraftsAreHidden

\* A step that writes no order, takes no snapshot and commits nothing.
LEMMA QuietStep ==
    ASSUME IInv, UNCHANGED <<status, product, seen, rows, before>>,
           \A r \in Robots : load'[r] \subseteq load[r],
           \A q \in PlanReq \cup CreateReq : work'[q] = "done" <=> work[q] = "done",
           \A q \in PlanReq : work'[q] \in Early => work[q] \in Early
    PROVE  Rest'
  <1> USE DEF IInv
  <1>1. Committed' = Committed
    BY DEF Committed
  <1>2. PlansComeFromSnapshots'
    BY DEF PlansComeFromSnapshots, Early
  <1>3. SnapshotsSkipCommitted'
    BY <1>1 DEF SnapshotsSkipCommitted
  <1>4. CommittedOrdersLeft'
    BY <1>1 DEF CommittedOrdersLeft
  <1>5. LeavingOrdersAreClaimed'
    BY <1>1 DEF LeavingOrdersAreClaimed, Claimed
  <1>6. DraftsAreHidden'
    BY DEF DraftsAreHidden
  <1>7. QED
    BY <1>2, <1>3, <1>4, <1>5, <1>6 DEF Rest

\* A robot reports an order it carries: a committed plan holds that order.
LEMMA StartReportStep ==
    ASSUME IInv, NEW r \in Robots, NEW q \in ReportReq, StartReport(r, q)
    PROVE  Rest'
  <1> USE DEF IInv, TypeOK, Requests, TimedReq
  <1>1. PICK o \in load[r] : rows' = [rows EXCEPT ![q] = {o}]
    BY DEF StartReport
  <1>2. /\ UNCHANGED <<status, product, seen, load, before>>
        /\ work' = [work EXCEPT ![q] = "exec"]
    BY DEF StartReport, Receive
  <1>3. q \notin PlanReq \cup CreateReq
    BY RequestAssumption
  <1>4. \A x \in PlanReq \cup CreateReq : rows'[x] = rows[x] /\ work'[x] = work[x]
    BY <1>1, <1>2, <1>3
  <1>5. Committed' = Committed
    BY <1>4 DEF Committed
  <1>6. \A x \in Order : Claimed(x)' <=> Claimed(x)
    BY <1>4, <1>5 DEF Claimed, Committed
  <1>7. LeavingOrdersAreClaimed'
    <2>1. \A x \in rows'[q] : Claimed(x)'
      BY <1>1, <1>6 DEF LeavingOrdersAreClaimed
    <2>2. \A y \in ReportReq \ {q} : \A x \in rows'[y] : Claimed(x)'
      BY <1>1, <1>6 DEF LeavingOrdersAreClaimed
    <2>3. QED
      BY <1>2, <1>6, <2>1, <2>2 DEF LeavingOrdersAreClaimed
  <1>8. PlansComeFromSnapshots'
    BY <1>2, <1>4 DEF PlansComeFromSnapshots
  <1>9. SnapshotsSkipCommitted'
    BY <1>2, <1>4, <1>5 DEF SnapshotsSkipCommitted
  <1>10. CommittedOrdersLeft'
    BY <1>2, <1>4, <1>5 DEF CommittedOrdersLeft, Committed
  <1>11. DraftsAreHidden'
    BY <1>2, <1>4 DEF DraftsAreHidden
  <1>12. QED
    BY <1>7, <1>8, <1>9, <1>10, <1>11 DEF Rest

\* A plan takes its snapshot: it sees no order of a plan committed before.
LEMMA GetShippingOrdersStep ==
    ASSUME IInv, NEW q \in PlanReq, GetShippingOrders(q)
    PROVE  Rest'
  <1> USE DEF IInv, TypeOK, Requests
  <1>1. /\ UNCHANGED <<status, product, rows, load>>
        /\ work[q] = "read" /\ work' = [work EXCEPT ![q] = "select"]
        /\ seen' = [seen EXCEPT ![q] = Shipping]
        /\ before' = [before EXCEPT ![q] = Committed]
    BY DEF GetShippingOrders, Step, database, robots
  <1>2. Committed' = Committed
    BY <1>1 DEF Committed
  <1>3. rows[q] = {}
    BY <1>1 DEF PlansComeFromSnapshots
  <1>4. PlansComeFromSnapshots'
    BY <1>1, <1>3 DEF PlansComeFromSnapshots, Shipping
  <1>5. SnapshotsSkipCommitted'
    <2> SUFFICES ASSUME NEW p \in PlanReq, NEW y \in PlanReq, p \in before'[y]
                 PROVE  p \in Committed /\ rows[p] \cap seen'[y] = {}
      BY <1>1, <1>2 DEF SnapshotsSkipCommitted
    <2>1. CASE y = q
      BY <1>1, <2>1 DEF CommittedOrdersLeft, Shipping
    <2>2. CASE y # q
      BY <1>1, <2>2 DEF SnapshotsSkipCommitted
    <2>3. QED
      BY <2>1, <2>2
  <1>6. CommittedOrdersLeft'
    BY <1>1, <1>2 DEF CommittedOrdersLeft
  <1>7. LeavingOrdersAreClaimed'
    BY <1>1, <1>2 DEF LeavingOrdersAreClaimed, Claimed
  <1>8. DraftsAreHidden'
    BY <1>1, RequestAssumption DEF DraftsAreHidden
  <1>9. QED
    BY <1>4, <1>5, <1>6, <1>7, <1>8 DEF Rest

\* A plan picks rows of its own snapshot.
LEMMA SelectOrdersStep ==
    ASSUME IInv, NEW q \in PlanReq, SelectOrders(q)
    PROVE  Rest'
  <1> USE DEF IInv, TypeOK, Requests
  <1>1. PICK plan \in SUBSET seen[q] :
          /\ rows' = [rows EXCEPT ![q] = plan]
          /\ Step(q, "select", IF plan = {} THEN "commit" ELSE "update")
          /\ UNCHANGED <<status, product, load, seen, before>>
    BY SelectedRows DEF database, robots
  <1>2. /\ work[q] = "select"
        /\ work' = [work EXCEPT ![q] = IF plan = {} THEN "commit" ELSE "update"]
    BY <1>1 DEF Step
  <1>3. Committed' = Committed /\ q \notin Committed
    BY <1>2 DEF Committed
  <1>4. \A p \in Committed : rows'[p] = rows[p]
    BY <1>1, <1>3 DEF Committed
  <1>5. PlansComeFromSnapshots'
    BY <1>1, <1>2 DEF PlansComeFromSnapshots
  <1>6. SnapshotsSkipCommitted'
    BY <1>1, <1>3, <1>4 DEF SnapshotsSkipCommitted
  <1>7. CommittedOrdersLeft'
    BY <1>1, <1>3, <1>4 DEF CommittedOrdersLeft
  <1>8. \A o \in Order : Claimed(o)' <=> Claimed(o)
    BY <1>3, <1>4 DEF Claimed
  <1>9. LeavingOrdersAreClaimed'
    <2>1. \A y \in ReportReq : rows'[y] = rows[y]
      BY <1>1, RequestAssumption
    <2>2. QED
      BY <1>1, <1>8, <2>1 DEF LeavingOrdersAreClaimed
  <1>10. DraftsAreHidden'
    <2>1. \A c \in CreateReq : rows'[c] = rows[c] /\ work'[c] = work[c]
      BY <1>1, <1>2, RequestAssumption
    <2>2. QED
      BY <1>1, <2>1 DEF DraftsAreHidden
  <1>11. QED
    BY <1>5, <1>6, <1>7, <1>9, <1>10 DEF Rest

\* A checkout inserts a row under a number that nothing has used.
LEMMA InsertOrderStep ==
    ASSUME IInv, NEW q \in CreateReq, InsertOrder(q)
    PROVE  Rest'
  <1> USE DEF IInv, TypeOK, Requests
  <1> DEFINE o == Len(product) + 1
  <1>1. /\ UNCHANGED <<status, load, seen, before>>
        /\ o \in Order
        /\ rows' = [rows EXCEPT ![q] = @ \cup {o}]
    BY DEF InsertOrder, robots
  <1>2. /\ work[q] = "insert"
        /\ \A y \in Requests \ {q} : work'[y] = work[y]
        /\ work'[q] # "done"
    BY DEF InsertOrder, Step
  <1>3. Len(product') = o
    <2>1. PICK p \in Catalogue : product' = Append(product, p)
      BY DEF InsertOrder
    <2>2. QED
      BY <2>1, AppendProperties
  <1>4. \A y \in PlanReq \cup ReportReq : rows'[y] = rows[y] /\ work'[y] = work[y]
    BY <1>1, <1>2, RequestAssumption
  <1>5. Committed' = Committed
    BY <1>4 DEF Committed
  <1>6. PlansComeFromSnapshots'
    BY <1>1, <1>4 DEF PlansComeFromSnapshots
  <1>7. SnapshotsSkipCommitted'
    BY <1>1, <1>4, <1>5 DEF SnapshotsSkipCommitted
  <1>8. CommittedOrdersLeft'
    BY <1>1, <1>4, <1>5 DEF CommittedOrdersLeft, Committed
  <1>9. \A x \in Order : Claimed(x)' <=> Claimed(x)
    BY <1>4, <1>5 DEF Claimed, Committed
  <1>10. LeavingOrdersAreClaimed'
    BY <1>1, <1>4, <1>9 DEF LeavingOrdersAreClaimed
  <1>11. DraftsAreHidden'
    <2>1. o \in Nat /\ o > Len(product) /\ status[o] = "none"
      BY <1>1 DEF DraftsAreHidden, Order
    <2>2. \A c \in CreateReq : \A x \in rows[c] : x \in Nat /\ x <= Len(product) /\ x # o
      BY <2>1 DEF DraftsAreHidden, Order
    <2>3. \A x \in Order : x > Len(product') => status'[x] = "none"
      BY <1>1, <1>3, <2>1 DEF DraftsAreHidden, Order
    <2>4. \A c \in CreateReq : \A x \in rows'[c] : x <= Len(product')
      BY <1>1, <1>3, <2>1, <2>2
    <2>5. \A c, d \in CreateReq : c # d => rows'[c] \cap rows'[d] = {}
      <3> SUFFICES ASSUME NEW c \in CreateReq, NEW d \in CreateReq, c # d
                   PROVE  rows'[c] \cap rows'[d] = {}
        OBVIOUS
      <3>1. rows[c] \cap rows[d] = {}
        BY DEF DraftsAreHidden
      <3>2. o \notin rows[c] /\ o \notin rows[d]
        BY <2>2
      <3>3. QED
        BY <1>1, <3>1, <3>2
    <2>6. \A c \in CreateReq : work'[c] # "done" => \A x \in rows'[c] : status'[x] = "none"
      <3> SUFFICES ASSUME NEW c \in CreateReq, work'[c] # "done", NEW x \in rows'[c]
                   PROVE  status[x] = "none"
        BY <1>1
      <3>1. work[c] # "done"
        BY <1>2
      <3>2. x \in rows[c] \/ x = o
        BY <1>1
      <3>3. QED
        BY <2>1, <3>1, <3>2 DEF DraftsAreHidden
    <2>7. QED
      BY <2>3, <2>4, <2>5, <2>6 DEF DraftsAreHidden
  <1>12. QED
    BY <1>6, <1>7, <1>8, <1>10, <1>11 DEF Rest

\* A plan commits: its orders exist, and the plans committed before its
\* snapshot hold none of them.
LEMMA CommitPlanStep ==
    ASSUME IInv, NEW q \in PlanReq, Commit(q)
    PROVE  Rest'
  <1> USE DEF IInv, TypeOK, Requests
  <1>1. /\ UNCHANGED <<product, rows, load, seen, before>>
        /\ work[q] = "committing" /\ work' = [work EXCEPT ![q] = "done"]
        /\ status' = [o \in Order |-> IF o \in rows[q] THEN "delivering" ELSE status[o]]
    BY RequestAssumption DEF Commit, Step, Written, robots
  <1>2. Committed' = Committed \cup {q}
    BY <1>1 DEF Committed
  <1>3. PlansComeFromSnapshots'
    BY <1>1 DEF PlansComeFromSnapshots
  <1>4. SnapshotsSkipCommitted'
    BY <1>1, <1>2 DEF SnapshotsSkipCommitted
  <1>5. CommittedOrdersLeft'
    <2> SUFFICES ASSUME NEW p \in Committed \cup {q}, NEW o \in rows[p]
                 PROVE  status'[o] \in {"delivering", "completed"}
      BY <1>1, <1>2 DEF CommittedOrdersLeft
    <2>1. o \in Order
      BY DEF Committed
    <2>2. CASE o \in rows[q]
      BY <1>1, <2>1, <2>2
    <2>3. CASE o \notin rows[q]
      BY <1>1, <2>1, <2>3 DEF CommittedOrdersLeft
    <2>4. QED
      BY <2>2, <2>3
  <1>6. \A o \in Order : Claimed(o)' <=> Claimed(o) \/ o \in rows[q]
    BY <1>1, <1>2 DEF Claimed
  <1>7. LeavingOrdersAreClaimed'
    BY <1>1, <1>6 DEF LeavingOrdersAreClaimed
  <1>8. DraftsAreHidden'
    <2>1. \A o \in rows[q] : o <= Len(product) /\ status[o] # "none"
      BY DEF DraftsAreHidden, PlansComeFromSnapshots, Order
    <2>2. \A o \in Order : status[o] = "none" => status'[o] = "none"
      BY <1>1, <2>1
    <2>3. \A c \in CreateReq : work'[c] = work[c]
      BY <1>1, RequestAssumption
    <2>4. QED
      BY <1>1, <2>2, <2>3 DEF DraftsAreHidden
  <1>9. QED
    BY <1>3, <1>4, <1>5, <1>7, <1>8 DEF Rest

\* A checkout commits: no plan and no robot knew of its orders.
LEMMA CommitCheckoutStep ==
    ASSUME IInv, NEW q \in CreateReq, Commit(q)
    PROVE  Rest'
  <1> USE DEF IInv, TypeOK, Requests
  <1>1. /\ UNCHANGED <<product, rows, load, seen, before>>
        /\ work[q] = "committing" /\ work' = [work EXCEPT ![q] = "done"]
        /\ status' = [o \in Order |-> IF o \in rows[q] THEN "shipping" ELSE status[o]]
    BY DEF Commit, Step, Written, robots
  <1>2. Committed' = Committed
    BY <1>1, RequestAssumption DEF Committed
  <1>3. \A o \in rows[q] : status[o] = "none"
    BY <1>1 DEF DraftsAreHidden
  <1>4. PlansComeFromSnapshots'
    BY <1>1, RequestAssumption DEF PlansComeFromSnapshots
  <1>5. SnapshotsSkipCommitted'
    BY <1>1, <1>2 DEF SnapshotsSkipCommitted
  <1>6. CommittedOrdersLeft'
    BY <1>1, <1>2, <1>3 DEF CommittedOrdersLeft, Committed
  <1>7. LeavingOrdersAreClaimed'
    BY <1>1, <1>2 DEF LeavingOrdersAreClaimed, Claimed
  <1>8. DraftsAreHidden'
    <2>1. \A o \in Order : o > Len(product) => status'[o] = "none"
      BY <1>1 DEF DraftsAreHidden, Order
    <2>2. ASSUME NEW c \in CreateReq, work'[c] # "done", NEW o \in rows[c]
          PROVE  status'[o] = "none"
      <3>1. c # q /\ work[c] # "done"
        BY <1>1, <2>2
      <3>2. o \notin rows[q] /\ status[o] = "none"
        BY <3>1 DEF DraftsAreHidden
      <3>3. QED
        BY <1>1, <3>2
    <2>3. QED
      BY <1>1, <2>1, <2>2 DEF DraftsAreHidden
  <1>9. QED
    BY <1>4, <1>5, <1>6, <1>7, <1>8 DEF Rest

\* A report completes an order of a committed plan.
LEMMA ExecUpdateStep ==
    ASSUME IInv, NEW q \in ReportReq, ExecUpdate(q)
    PROVE  Rest'
  <1> USE DEF IInv, TypeOK, Requests
  <1>1. /\ UNCHANGED <<product, rows, load, seen, before>>
        /\ \A y \in Requests \ {q} : work'[y] = work[y]
        /\ status' = [o \in Order |-> IF o \in rows[q] THEN "completed" ELSE status[o]]
    BY DEF ExecUpdate, Step, robots
  <1>2. \A y \in PlanReq \cup CreateReq : work'[y] = work[y]
    BY <1>1, RequestAssumption
  <1>3. Committed' = Committed
    BY <1>2 DEF Committed
  <1>4. \A o \in rows[q] : Claimed(o) /\ status[o] \in {"delivering", "completed"}
    BY DEF LeavingOrdersAreClaimed, CommittedOrdersLeft, Claimed
  <1>5. PlansComeFromSnapshots'
    BY <1>1, <1>2 DEF PlansComeFromSnapshots
  <1>6. SnapshotsSkipCommitted'
    BY <1>1, <1>3 DEF SnapshotsSkipCommitted
  <1>7. CommittedOrdersLeft'
    BY <1>1, <1>3 DEF CommittedOrdersLeft, Committed
  <1>8. \A o \in Order : Claimed(o)' <=> Claimed(o)
    BY <1>1, <1>3 DEF Claimed
  <1>9. LeavingOrdersAreClaimed'
    BY <1>1, <1>4, <1>8 DEF LeavingOrdersAreClaimed
  <1>10. DraftsAreHidden'
    <2>1. \A o \in Order : status[o] = "none" => status'[o] = "none"
      BY <1>1, <1>4
    <2>2. QED
      BY <1>1, <1>2, <2>1 DEF DraftsAreHidden
  <1>11. QED
    BY <1>5, <1>6, <1>7, <1>9, <1>10 DEF Rest

\* A robot hears that its plan exists.
LEMMA HearStep ==
    ASSUME IInv, NEW r \in Robots, Hear(r)
    PROVE  Rest'
  <1> USE DEF IInv, TypeOK, Requests
  <1>1. /\ UNCHANGED <<status, product, work, rows, seen, before>>
        /\ \A x \in Robots \ {r} : load'[x] = load[x]
    BY DEF Hear, database, server
  <1>2. \A o \in load'[r] : o \in load[r] \/ Claimed(o)
    <2>1. PICK q \in TimedReq :
            /\ answer[q] \in {"ok", "error"}
            /\ load' = [load EXCEPT ![r] = IF answer[q] = "error" THEN {}
                                           ELSE IF q \in PlanReq THEN rows[q]
                                           ELSE @ \ rows[q]]
      BY DEF Hear
    <2>2. CASE answer[q] = "ok" /\ q \in PlanReq
      <3>1. q \in Committed
        BY <2>2 DEF AnswersFollowWork, Committed
      <3>2. QED
        BY <2>1, <2>2, <3>1 DEF Claimed
    <2>3. CASE ~ (answer[q] = "ok" /\ q \in PlanReq)
      BY <2>1, <2>3
    <2>4. QED
      BY <2>2, <2>3
  <1>3. Committed' = Committed
    BY <1>1 DEF Committed
  <1>4. \A o \in Order : Claimed(o)' <=> Claimed(o)
    BY <1>1, <1>3 DEF Claimed
  <1>5. LeavingOrdersAreClaimed'
    <2>1. \A x \in Robots : \A o \in load'[x] : o \in Order /\ Claimed(o)
      BY <1>1, <1>2 DEF LeavingOrdersAreClaimed, Claimed, Committed
    <2>2. QED
      BY <1>1, <1>4, <2>1 DEF LeavingOrdersAreClaimed
  <1>6. QED
    BY <1>1, <1>3, <1>5 DEF Rest, PlansComeFromSnapshots, SnapshotsSkipCommitted,
       CommittedOrdersLeft, DraftsAreHidden

\* Every action keeps the invariant: the answers first, then the rest by the
\* lemmas above; all the other actions are quiet.
LEMMA IInvStep == IInv /\ [Next]_vars => IInv'
  <1> SUFFICES ASSUME IInv, [Next]_vars PROVE IInv'
    OBVIOUS
  <1> USE DEF Requests, TimedReq
  <1>1. TypeOK'
    BY TypeStep DEF IInv
  <1>2. CASE UNCHANGED vars
    <2>1. Committed' = Committed
      BY <1>2 DEF vars, Committed
    <2>2. QED
      BY <1>1, <1>2, <2>1
         DEF IInv, vars, AnswersFollowWork, PlansComeFromSnapshots,
             SnapshotsSkipCommitted, CommittedOrdersLeft,
             LeavingOrdersAreClaimed, Claimed, DraftsAreHidden
  <1>3. CASE Next
    <2>1. AnswersFollowWork'
      BY <1>3, AnswersStep
    <2>2. SUFFICES Rest'
      BY <1>1, <2>1 DEF IInv, Rest
    <2> USE RequestAssumption DEF IInv, TypeOK, Early
    <2>3. ASSUME NEW q \in PlanReq, NEW r \in Robots, StartPlan(r, q) PROVE Rest'
      <3>1. work[q] = "idle"
        BY <2>3 DEF StartPlan, Receive, AnswersFollowWork
      <3>2. QED
        BY <2>3, <3>1, QuietStep DEF StartPlan, Receive
    <2>4. ASSUME NEW q \in CreateReq, StartCreate(q) PROVE Rest'
      <3>1. work[q] = "idle"
        BY <2>4 DEF StartCreate, Receive, AnswersFollowWork
      <3>2. QED
        BY <2>4, <3>1, QuietStep DEF StartCreate, Receive
    <2>5. ASSUME NEW q \in PlanReq \cup CreateReq, BeginTx(q) PROVE Rest'
      BY <2>5, QuietStep DEF BeginTx, Step, database, robots
    <2>6. ASSUME NEW q \in PlanReq, UpdateStatuses(q) PROVE Rest'
      BY <2>6, QuietStep DEF UpdateStatuses, Step, database, robots
    <2>7. ASSUME NEW q \in PlanReq \cup CreateReq, SendCommit(q) PROVE Rest'
      BY <2>7, QuietStep DEF SendCommit, Step, database, robots
    <2>8. ASSUME NEW q \in PlanReq \cup CreateReq, Rollback(q) PROVE Rest'
      BY <2>8, QuietStep DEF Rollback, database, robots
    <2>9. ASSUME NEW q \in ReportReq, FailUpdate(q) PROVE Rest'
      BY <2>9, QuietStep DEF FailUpdate, Step, database, robots
    <2>10. ASSUME NEW q \in Requests, EndContext(q) \/ Reply(q) PROVE Rest'
      BY <2>10, QuietStep DEF EndContext, Reply, database, robots
    <2>11. ASSUME NEW q \in TimedReq, ReplyTimeout(q) PROVE Rest'
      BY <2>11, QuietStep DEF ReplyTimeout, database, robots
    <2>12. ASSUME NEW r \in Robots, GiveUp(r) PROVE Rest'
      BY <2>12, QuietStep DEF GiveUp, database, server
    <2>13. QED
      BY <1>3, <2>3, <2>4, <2>5, <2>6, <2>7, <2>8, <2>9, <2>10, <2>11, <2>12,
         StartReportStep, GetShippingOrdersStep, SelectOrdersStep, InsertOrderStep,
         CommitPlanStep, CommitCheckoutStep, ExecUpdateStep, HearStep
         DEF Next, PlanStep, TxStep
  <1>4. QED
    BY <1>2, <1>3

\* The inductive invariant holds in every state of the backend.
THEOREM Inductive == Spec => []IInv
  BY IInvInit, IInvStep, PTL DEF Spec

----------------------------------------------------------------------------
(* The safety invariants *)

\* Two plans share an order only when they overlap: the snapshot of the later
\* one skips what the earlier one committed.
THEOREM OverlapTheorem == Spec => []PlansShareOnlyWhenOverlapping
  <1>1. IInv => PlansShareOnlyWhenOverlapping
    BY DEF IInv, SnapshotsSkipCommitted, PlansComeFromSnapshots,
           PlansShareOnlyWhenOverlapping, Committed
  <1>2. QED
    BY <1>1, Inductive, PTL

\* Orders leave 'shipping' by committed plans and no other way.
THEOREM TraceabilityTheorem == Spec => []DeliveryIsTraceable
  <1>1. IInv => DeliveryIsTraceable
    BY DEF IInv, CommittedOrdersLeft, LeavingOrdersAreClaimed, Claimed,
           DeliveryIsTraceable
  <1>2. QED
    BY <1>1, Inductive, PTL

----------------------------------------------------------------------------
(* Checkouts *)

\* The rows that a checkout inserted are units of its map, all of them when it is
\* ready to commit; once it did they are orders for ever.  Only a checkout that
\* failed is answered with an error.
CheckoutOK(c) ==
    /\ work[c] \in {"idle", "begin"} => rows[c] = {}
    /\ work[c] = "insert" => \A p \in Products : Missing(c, p) >= 0
    /\ work[c] \in {"commit", "committing", "done"} => \A p \in Products : Missing(c, p) = 0
    /\ work[c] = "done" => \A o \in rows[c] : status[o] # "none"
    /\ answer[c] = "error" => work[c] \notin {"idle", "begin", "insert", "commit", "committing", "done"}

CheckoutsOK == \A c \in CreateReq : CheckoutOK(c)

\* How many units of a product a checkout inserted is a number.
LEMMA InsertedFinite ==
    ASSUME TypeOK, NEW c \in CreateReq, NEW p \in Products
    PROVE  /\ IsFiniteSet(Inserted(c, p)) /\ Cardinality(Inserted(c, p)) \in Nat
           /\ Missing(c, p) = want[c][p] - Cardinality(Inserted(c, p))
           /\ want[c][p] \in Nat /\ Missing(c, p) \in Int
  <1>1. Inserted(c, p) \in SUBSET Order
    BY DEF Inserted, TypeOK, Requests
  <1>2. IsFiniteSet(Order)
    BY DataAssumption, FS_Interval DEF Order
  <1>3. IsFiniteSet(Inserted(c, p)) /\ Cardinality(Inserted(c, p)) \in Nat
    BY <1>1, <1>2, FS_Subset, FS_CardinalityType
  <1>4. want[c][p] \in Nat
    BY DEF TypeOK
  <1>5. QED
    BY <1>3, <1>4 DEF Missing

\* A row keeps its product, and an order does not become invisible.
RowsStay ==
    /\ \A o \in 1 .. Len(product) : product'[o] = product[o]
    /\ \A o \in Order : status[o] # "none" => status'[o] # "none"

\* Every step leaves the rows, and a step that adds none the products too.
LEMMA RowsStayStep == IInv /\ Next => RowsStay
  <1> SUFFICES ASSUME IInv, Next PROVE RowsStay
    OBVIOUS
  <1> USE DEF IInv, TypeOK, RowsStay, Requests, TimedReq
  <1>1. ASSUME UNCHANGED <<status, product>> PROVE RowsStay
    BY <1>1
  <1>2. ASSUME NEW q \in PlanReq \cup CreateReq, Commit(q) PROVE RowsStay
    BY <1>2 DEF Commit, Written
  <1>3. ASSUME NEW q \in ReportReq, ExecUpdate(q) PROVE RowsStay
    BY <1>3 DEF ExecUpdate
  <1>4. ASSUME NEW q \in CreateReq, InsertOrder(q) PROVE RowsStay
    <2>1. PICK p \in Catalogue : product' = Append(product, p)
      BY <1>4 DEF InsertOrder
    <2>2. status' = status
      BY <1>4 DEF InsertOrder
    <2>3. QED
      BY <2>1, <2>2, AppendProperties
  <1>5. ASSUME NEW q \in PlanReq, PlanStep(q) PROVE RowsStay
    BY <1>1, <1>5 DEF PlanStep, GetShippingOrders, SelectOrders, UpdateStatuses, database
  <1>6. ASSUME NEW q \in PlanReq \cup CreateReq, BeginTx(q) \/ SendCommit(q) \/ Rollback(q)
        PROVE  RowsStay
    BY <1>1, <1>6 DEF BeginTx, SendCommit, Rollback, database
  <1>7. ASSUME NEW q \in Requests, EndContext(q) \/ Reply(q) \/ ReplyTimeout(q) \/ FailUpdate(q)
        PROVE  RowsStay
    BY <1>1, <1>7 DEF EndContext, Reply, ReplyTimeout, FailUpdate, database
  <1>8. ASSUME NEW r \in Robots, Hear(r) \/ GiveUp(r) PROVE RowsStay
    BY <1>1, <1>8 DEF Hear, GiveUp, database
  <1>9. ASSUME NEW r \in Robots, NEW q \in Requests, StartPlan(r, q) \/ StartReport(r, q)
        PROVE  RowsStay
    BY <1>1, <1>9 DEF StartPlan, StartReport
  <1>10. ASSUME NEW q \in CreateReq, StartCreate(q) PROVE RowsStay
    BY <1>1, <1>10 DEF StartCreate
  <1>11. QED
    BY <1>2, <1>3, <1>4, <1>5, <1>6, <1>7, <1>8, <1>9, <1>10 DEF Next, TxStep

\* What a checkout inserted stays inserted.
LEMMA InsertedStays ==
    ASSUME IInv, RowsStay, NEW c \in CreateReq, rows'[c] = rows[c], want'[c] = want[c],
           NEW p \in Products
    PROVE  Inserted(c, p)' = Inserted(c, p) /\ Missing(c, p)' = Missing(c, p)
  <1>1. \A o \in rows[c] : o \in 1 .. Len(product)
    BY DEF IInv, TypeOK, Requests, DraftsAreHidden, Order
  <1>2. Inserted(c, p)' = Inserted(c, p)
    BY <1>1 DEF Inserted, RowsStay
  <1>3. QED
    BY <1>2 DEF Missing

\* A checkout that a step leaves alone, or ends.
LEMMA CheckoutStays ==
    ASSUME IInv, CheckoutsOK, RowsStay, NEW c \in CreateReq,
           rows'[c] = rows[c], want'[c] = want[c],
           work'[c] \in {work[c], "failed"},
           answer'[c] = "error" => answer[c] = "error" \/ work'[c] \in {"failed", "abandoned"}
    PROVE  CheckoutOK(c)'
  <1>1. \A p \in Products : Missing(c, p)' = Missing(c, p)
    BY InsertedStays
  <1>2. \A o \in rows[c] : o \in Order
    BY DEF IInv, TypeOK, Requests
  <1>3. CheckoutOK(c)
    BY DEF CheckoutsOK
  <1>4. QED
    BY <1>1, <1>2, <1>3 DEF CheckoutOK, RowsStay

\* BEGIN: a map without units is ready to commit.
LEMMA BeginCheckout ==
    ASSUME IInv, CheckoutsOK, RowsStay, NEW c \in CreateReq, BeginTx(c)
    PROVE  CheckoutOK(c)'
  <1> DEFINE empty == ~ \E p \in Products : want[c][p] > 0
  <1>1. /\ work[c] = "begin" /\ work'[c] = IF empty THEN "commit" ELSE "insert"
        /\ rows' = rows /\ want' = want /\ answer' = answer
    BY RequestAssumption DEF BeginTx, Step, IInv, TypeOK, Requests
  <1>2. rows[c] = {} /\ answer[c] # "error"
    BY <1>1 DEF CheckoutsOK, CheckoutOK
  <1>3. ASSUME NEW p \in Products PROVE Missing(c, p)' = want[c][p] /\ want[c][p] \in Nat
    <2>1. Inserted(c, p) = {}
      BY <1>2 DEF Inserted
    <2>2. Cardinality(Inserted(c, p)) = 0
      BY <2>1, FS_EmptySet
    <2>3. Missing(c, p) = want[c][p] /\ want[c][p] \in Nat
      BY <2>2, InsertedFinite DEF IInv
    <2>4. QED
      BY <1>1, <2>3, InsertedStays
  <1>4. empty => \A p \in Products : want[c][p] = 0
    BY <1>3
  <1> HIDE DEF empty
  <1>5. QED
    BY <1>1, <1>2, <1>3, <1>4 DEF CheckoutOK

\* An INSERT adds one unit of a product that is missing; after the last one nothing
\* is.
LEMMA InsertCheckout ==
    ASSUME IInv, CheckoutsOK, RowsStay, NEW c \in CreateReq, InsertOrder(c)
    PROVE  CheckoutOK(c)'
  <1> DEFINE left == {p \in Products : Missing(c, p) > 0}
             o == Len(product) + 1
  <1>1. PICK p \in left \cap Catalogue :
          /\ work'[c] = IF left = {p} /\ Missing(c, p) = 1 THEN "commit" ELSE "insert"
          /\ product' = Append(product, p)
    BY DEF InsertOrder, Step, IInv, TypeOK, Requests
  <1>2. /\ work[c] = "insert" /\ rows'[c] = rows[c] \cup {o} /\ want' = want
        /\ answer' = answer
    BY DEF InsertOrder, Step, IInv, TypeOK, Requests
  <1>3. answer[c] # "error" /\ \A x \in Products : Missing(c, x) >= 0
    BY <1>2 DEF CheckoutsOK, CheckoutOK
  <1>4. \A x \in rows[c] : x \in 1 .. Len(product)
    BY DEF IInv, TypeOK, Requests, DraftsAreHidden, Order
  <1>5. /\ product'[o] = p /\ o \notin rows[c]
        /\ \A x \in rows[c] : product'[x] = product[x]
    BY <1>1, <1>4, AppendProperties DEF IInv, TypeOK
  <1> HIDE DEF left, o
  <1>6. Missing(c, p)' = Missing(c, p) - 1 /\ p \in Products
    <2>1. p \in Products
      BY <1>1 DEF left
    <2>2. Inserted(c, p)' = Inserted(c, p) \cup {o} /\ o \notin Inserted(c, p)
      BY <1>2, <1>5 DEF Inserted
    <2>3. Cardinality(Inserted(c, p) \cup {o}) = Cardinality(Inserted(c, p)) + 1
      BY <2>1, <2>2, InsertedFinite, FS_AddElement DEF IInv
    <2>4. Missing(c, p)' = want[c][p] - (Cardinality(Inserted(c, p)) + 1)
      BY <1>2, <2>2, <2>3 DEF Missing
    <2>5. /\ Cardinality(Inserted(c, p)) \in Nat /\ want[c][p] \in Nat
          /\ Missing(c, p) = want[c][p] - Cardinality(Inserted(c, p))
      BY <2>1, InsertedFinite DEF IInv
    <2>6. QED
      BY <2>1, <2>4, <2>5
  <1>7. ASSUME NEW x \in Products, x # p PROVE Missing(c, x)' = Missing(c, x)
    <2>1. Inserted(c, x)' = Inserted(c, x)
      BY <1>2, <1>5, <1>7 DEF Inserted
    <2>2. QED
      BY <1>2, <2>1 DEF Missing
  <1>8. \A x \in Products : Missing(c, x) \in Int
    BY InsertedFinite DEF IInv
  <1>9. \A x \in Products : Missing(c, x)' >= 0
    <2>1. Missing(c, p) > 0
      BY <1>1 DEF left
    <2>2. QED
      BY <1>3, <1>6, <1>7, <1>8, <2>1
  <1>10. ASSUME left = {p}, Missing(c, p) = 1, NEW x \in Products PROVE Missing(c, x)' = 0
    <2>1. CASE x = p
      BY <1>6, <1>10, <2>1
    <2>2. CASE x # p
      <3>1. x \notin left
        BY <1>10, <2>2
      <3>2. ~(Missing(c, x) > 0)
        BY <3>1 DEF left
      <3>3. QED
        BY <1>3, <1>7, <1>8, <2>2, <3>2
    <2>3. QED
      BY <2>1, <2>2
  <1>11. QED
    BY <1>1, <1>2, <1>3, <1>9, <1>10 DEF CheckoutOK


\* Whatever step is taken, by a checkout or by somebody else.
LEMMA CheckoutStep == IInv /\ CheckoutsOK /\ [Next]_vars => CheckoutsOK'
  <1> SUFFICES ASSUME IInv, CheckoutsOK, [Next]_vars, NEW c \in CreateReq
               PROVE  CheckoutOK(c)'
    BY DEF CheckoutsOK
  <1>1. CASE UNCHANGED vars
    BY <1>1 DEF vars, CheckoutsOK, CheckoutOK, Missing, Inserted
  <1> SUFFICES ASSUME Next PROVE CheckoutOK(c)'
    BY <1>1
  <1>2. RowsStay
    BY RowsStayStep
  <1>3. CheckoutOK(c)
    BY DEF CheckoutsOK
  <1> USE RequestAssumption DEF IInv, TypeOK, Requests, TimedReq
  <1>4. ASSUME rows'[c] = rows[c], want'[c] = want[c], work'[c] = work[c],
               answer'[c] = answer[c]
        PROVE  CheckoutOK(c)'
    BY <1>2, <1>4, CheckoutStays
  <1>5. ASSUME NEW q \in PlanReq, NEW r \in Robots, StartPlan(r, q) PROVE CheckoutOK(c)'
    BY <1>4, <1>5 DEF StartPlan, Receive
  <1>6. ASSUME NEW q \in PlanReq, PlanStep(q) PROVE CheckoutOK(c)'
    <2>1. CASE GetShippingOrders(q) \/ UpdateStatuses(q)
      BY <1>4, <2>1 DEF GetShippingOrders, UpdateStatuses, Step
    <2>2. CASE SelectOrders(q)
      <3>1. rows'[c] = rows[c] /\ work'[c] = work[c] /\ UNCHANGED <<want, answer>>
        BY <2>2, SelectedRows DEF Step
      <3>2. QED
        BY <1>4, <3>1
    <2>3. QED
      BY <1>6, <2>1, <2>2 DEF PlanStep
  <1>7. ASSUME NEW q \in ReportReq, NEW r \in Robots, StartReport(r, q)
        PROVE  CheckoutOK(c)'
    <2>1. PICK o \in load[r] : rows' = [rows EXCEPT ![q] = {o}]
      BY <1>7 DEF StartReport
    <2>2. QED
      BY <1>4, <1>7, <2>1 DEF StartReport, Receive
  <1>8. ASSUME NEW q \in ReportReq, ExecUpdate(q) \/ FailUpdate(q) PROVE CheckoutOK(c)'
    BY <1>4, <1>8 DEF ExecUpdate, FailUpdate, Step
  <1>9. ASSUME NEW q \in TimedReq, ReplyTimeout(q) PROVE CheckoutOK(c)'
    BY <1>4, <1>9 DEF ReplyTimeout
  <1>10. ASSUME NEW r \in Robots, Hear(r) \/ GiveUp(r) PROVE CheckoutOK(c)'
    BY <1>4, <1>10 DEF Hear, GiveUp, server
  <1>11. ASSUME NEW q \in Requests, EndContext(q) PROVE CheckoutOK(c)'
    BY <1>4, <1>11 DEF EndContext
  <1>12. ASSUME NEW q \in CreateReq, StartCreate(q) PROVE CheckoutOK(c)'
    <2>1. CASE q = c
      <3>1. work[c] = "idle" /\ work'[c] = "begin" /\ rows' = rows
            /\ answer'[c] = "waiting"
        BY <1>12, <2>1 DEF StartCreate, Receive, AnswersFollowWork
      <3>2. QED
        BY <1>3, <3>1 DEF CheckoutOK
    <2>2. CASE q # c
      <3>1. PICK map : want' = [want EXCEPT ![q] = map]
        BY <1>12 DEF StartCreate
      <3>2. QED
        BY <1>4, <1>12, <2>2, <3>1 DEF StartCreate, Receive
    <2>3. QED
      BY <2>1, <2>2
  <1>13. ASSUME NEW q \in CreateReq, InsertOrder(q) PROVE CheckoutOK(c)'
    <2>1. CASE q = c
      BY <1>2, <1>13, <2>1, InsertCheckout
    <2>2. CASE q # c
      BY <1>4, <1>13, <2>2 DEF InsertOrder, Step
    <2>3. QED
      BY <2>1, <2>2
  <1>14. ASSUME NEW q \in PlanReq \cup CreateReq, q # c, TxStep(q) \/ Rollback(q)
         PROVE  CheckoutOK(c)'
    BY <1>4, <1>14 DEF TxStep, BeginTx, SendCommit, Commit, Rollback, Step
  <1>15. CASE BeginTx(c)
    BY <1>2, <1>15, BeginCheckout
  <1>16. CASE SendCommit(c)
    <2>1. /\ work[c] = "commit" /\ work'[c] = "committing" /\ UNCHANGED <<rows, want, answer>>
      BY <1>16 DEF SendCommit, Step
    <2>2. \A p \in Products : Missing(c, p)' = Missing(c, p)
      BY <1>2, <2>1, InsertedStays
    <2>3. QED
      BY <1>3, <2>1, <2>2 DEF CheckoutOK
  <1>17. CASE Commit(c)
    <2>1. /\ work[c] = "committing" /\ work'[c] = "done" /\ UNCHANGED <<rows, want, answer>>
          /\ status' = [o \in Order |-> IF o \in rows[c] THEN "shipping" ELSE status[o]]
      BY <1>17 DEF Commit, Step, Written
    <2>2. \A p \in Products : Missing(c, p)' = Missing(c, p)
      BY <1>2, <2>1, InsertedStays
    <2>3. \A o \in rows[c] : status'[o] = "shipping"
      BY <2>1
    <2>4. QED
      BY <1>3, <2>1, <2>2, <2>3 DEF CheckoutOK
  <1>18. CASE Rollback(c)
    BY <1>2, <1>18, CheckoutStays DEF Rollback
  <1>19. ASSUME NEW q \in Requests, Reply(q) PROVE CheckoutOK(c)'
    <2>1. UNCHANGED <<rows, want, work>>
      BY <1>19 DEF Reply
    <2>2. answer'[c] = "error" => answer[c] = "error" \/ work[c] \in {"failed", "abandoned"}
      BY <1>19 DEF Reply
    <2>3. QED
      BY <1>2, <2>1, <2>2, CheckoutStays
  <1>20. QED
    BY <1>5, <1>6, <1>7, <1>8, <1>9, <1>10, <1>11, <1>12, <1>13, <1>14, <1>15, <1>16,
       <1>17, <1>18, <1>19 DEF Next, TxStep

\* CreateOrders: a checkout shows all of its units or none, and is answered so.
THEOREM CheckoutTheorem == Spec => []CheckoutIsAllOrNothing
  <1>1. Init => CheckoutsOK
    BY DEF Init, CheckoutsOK, CheckoutOK, Requests
  <1>2. IInv /\ CheckoutsOK => CheckoutIsAllOrNothing
    <2> SUFFICES ASSUME IInv, CheckoutsOK, NEW q \in CreateReq
                 PROVE  LET visible == {o \in rows[q] : status[o] # "none"}
                        IN  /\ visible \in {{}, rows[q]}
                            /\ work[q] # "done" => visible = {}
                            /\ work[q] = "done" => \A p \in Products : Missing(q, p) = 0
                            /\ answer[q] = "ok" => visible = rows[q] /\ work[q] = "done"
                            /\ answer[q] = "error" => visible = {}
      BY DEF CheckoutIsAllOrNothing
    <2>1. CheckoutOK(q)
      BY DEF CheckoutsOK
    <2>2. work[q] # "done" => \A o \in rows[q] : status[o] = "none"
      BY DEF IInv, DraftsAreHidden
    <2>3. answer[q] = "ok" => work[q] = "done"
      BY DEF IInv, AnswersFollowWork, Requests
    <2>4. QED
      BY <2>1, <2>2, <2>3 DEF CheckoutOK
  <1>3. QED
    BY <1>1, <1>2, Inductive, CheckoutStep, PTL DEF Spec

----------------------------------------------------------------------------
(* The orders table implements the board *)

OneOrderPerReport ==
    \A q \in ReportReq : work[q] # "idle" => \E o \in Order : rows[q] = {o}

\* A report names one order, and keeps naming it.
LEMMA ReportsStep == TypeOK /\ OneOrderPerReport /\ [Next]_vars => OneOrderPerReport'
  <1> SUFFICES ASSUME TypeOK, OneOrderPerReport, [Next]_vars
               PROVE  OneOrderPerReport'
    OBVIOUS
  <1> USE RequestAssumption DEF TypeOK, OneOrderPerReport, Requests, TimedReq
  <1>1. ASSUME NEW q \in ReportReq, NEW r \in Robots, StartReport(r, q)
        PROVE  OneOrderPerReport'
    <2>1. PICK o \in load[r] : rows' = [rows EXCEPT ![q] = {o}]
      BY <1>1 DEF StartReport
    <2>2. QED
      BY <1>1, <2>1 DEF StartReport, Receive
  <1>2. ASSUME NEW q \in ReportReq, ExecUpdate(q) \/ FailUpdate(q)
        PROVE  OneOrderPerReport'
    BY <1>2 DEF ExecUpdate, FailUpdate, Step
  <1>3. ASSUME \A q \in ReportReq : work'[q] = work[q] /\ rows'[q] = rows[q]
        PROVE  OneOrderPerReport'
    BY <1>3
  <1>4. ASSUME NEW q \in PlanReq, NEW r \in Robots, StartPlan(r, q)
        PROVE  OneOrderPerReport'
    BY <1>3, <1>4 DEF StartPlan, Receive
  <1>5. ASSUME NEW q \in PlanReq, PlanStep(q) PROVE OneOrderPerReport'
    <2>1. CASE GetShippingOrders(q) \/ UpdateStatuses(q)
      BY <1>3, <2>1 DEF GetShippingOrders, UpdateStatuses, Step
    <2>2. CASE SelectOrders(q)
      <3>1. \A y \in ReportReq : work'[y] = work[y] /\ rows'[y] = rows[y]
        BY <2>2, SelectedRows DEF Step
      <3>2. QED
        BY <1>3, <3>1
    <2>3. QED
      BY <1>5, <2>1, <2>2 DEF PlanStep
  <1>6. ASSUME NEW q \in CreateReq, StartCreate(q) \/ InsertOrder(q)
        PROVE  OneOrderPerReport'
    BY <1>3, <1>6 DEF StartCreate, Receive, InsertOrder, Step
  <1>7. ASSUME NEW q \in PlanReq \cup CreateReq, TxStep(q) \/ Rollback(q)
        PROVE  OneOrderPerReport'
    BY <1>3, <1>7 DEF TxStep, BeginTx, SendCommit, Commit, Rollback, Step
  <1>8. ASSUME UNCHANGED <<work, rows>> PROVE OneOrderPerReport'
    BY <1>8
  <1>9. ASSUME NEW q \in Requests, EndContext(q) \/ Reply(q) \/ ReplyTimeout(q)
        PROVE  OneOrderPerReport'
    BY <1>8, <1>9 DEF EndContext, Reply, ReplyTimeout
  <1>10. ASSUME NEW r \in Robots, Hear(r) \/ GiveUp(r) PROVE OneOrderPerReport'
    BY <1>8, <1>10 DEF Hear, GiveUp, server
  <1>11. CASE UNCHANGED vars
    BY <1>8, <1>11 DEF vars
  <1>12. QED
    BY <1>1, <1>2, <1>4, <1>5, <1>6, <1>7, <1>9, <1>10, <1>11 DEF Next

\* updateOrderStatus of the robot scenario reports one order per request.
LEMMA OneOrder == Spec => []OneOrderPerReport
  <1>1. Init => OneOrderPerReport
    BY DEF Init, OneOrderPerReport, Requests, TimedReq
  <1>2. QED
    BY <1>1, ReportsStep, TypeCorrect, PTL DEF Spec

\* The restored database is a board that nobody has looked at.
LEMMA BoardInit == Init => Board!Init
  <1> SUFFICES ASSUME Init PROVE Board!Init
    OBVIOUS
  <1>1. Committed = {}
    BY DEF Init, Committed, Requests
  <1>2. QED
    BY <1>1 DEF Init, Board!Init

\* Every step of the backend is a step of the board, or none.
LEMMA BoardStep ==
    IInv /\ OneOrderPerReport /\ [Next]_vars => [Board!Next]_(Board!vars)
  <1> SUFFICES ASSUME IInv, OneOrderPerReport, [Next]_vars
               PROVE  Board!Next \/ UNCHANGED Board!vars
    OBVIOUS
  <1> USE RequestAssumption DEF IInv, TypeOK, Requests, TimedReq
  <1>1. ASSUME UNCHANGED <<status, seen>>,
               \A q \in PlanReq : work'[q] = "done" <=> work[q] = "done"
        PROVE  UNCHANGED Board!vars
    BY <1>1 DEF Board!vars, Committed
  <1>2. ASSUME NEW q \in PlanReq, GetShippingOrders(q) PROVE Board!Next
    <2>1. Board!Look(q)
      BY <1>2 DEF GetShippingOrders, Step, database, Shipping, Committed,
         Board!Look, Board!Waiting
    <2>2. QED
      BY <2>1 DEF Board!Next
  <1>3. ASSUME NEW q \in PlanReq, Commit(q) PROVE Board!Next
    <2>1. /\ work[q] = "committing" /\ work' = [work EXCEPT ![q] = "done"]
          /\ UNCHANGED seen
          /\ status' = [o \in Order |-> IF o \in rows[q] THEN "delivering"
                                       ELSE status[o]]
      BY <1>3 DEF Commit, Step, Written
    <2>2. q \notin Committed /\ Committed' = Committed \cup {q}
      BY <2>1 DEF Committed
    <2>3. rows[q] \in SUBSET seen[q]
      BY DEF PlansComeFromSnapshots
    <2>4. Board!Claim(q)
      BY <2>1, <2>2, <2>3 DEF Board!Claim
    <2>5. QED
      BY <2>4 DEF Board!Next
  <1>4. ASSUME NEW q \in CreateReq, Commit(q) PROVE Board!Next
    <2>1. /\ work[q] = "committing" /\ work' = [work EXCEPT ![q] = "done"]
          /\ UNCHANGED seen
          /\ status' = [o \in Order |-> IF o \in rows[q] THEN "shipping"
                                       ELSE status[o]]
      BY <1>4 DEF Commit, Step, Written
    <2>2. Committed' = Committed
      BY <2>1 DEF Committed
    <2>3. rows[q] \in SUBSET {o \in Order : status[o] = "none"}
      BY <2>1 DEF DraftsAreHidden
    <2>4. Board!Publish
      BY <2>1, <2>2, <2>3 DEF Board!Publish
    <2>5. QED
      BY <2>4 DEF Board!Next
  <1>5. ASSUME NEW q \in ReportReq, ExecUpdate(q) PROVE Board!Next
    <2>1. work[q] # "idle"
      BY <1>5 DEF ExecUpdate, Step
    <2>2. PICK o \in Order : rows[q] = {o}
      BY <2>1 DEF OneOrderPerReport
    <2>3. status[o] \in {"delivering", "completed"}
      BY <2>2 DEF LeavingOrdersAreClaimed, CommittedOrdersLeft, Claimed
    <2>4. status' = [status EXCEPT ![o] = "completed"]
      BY <1>5, <2>2 DEF ExecUpdate
    <2>5. UNCHANGED seen /\ Committed' = Committed
      BY <1>5 DEF ExecUpdate, Step, Committed
    <2>6. Board!Complete(o)
      BY <2>3, <2>4, <2>5 DEF Board!Complete
    <2>7. QED
      BY <2>6 DEF Board!Next
  <1>6. ASSUME NEW q \in PlanReq, NEW r \in Robots, StartPlan(r, q)
        PROVE  UNCHANGED Board!vars
    <2>1. work[q] = "idle"
      BY <1>6 DEF StartPlan, Receive, AnswersFollowWork
    <2>2. QED
      BY <1>1, <1>6, <2>1 DEF StartPlan, Receive
  <1>7. ASSUME NEW q \in PlanReq, SelectOrders(q) \/ UpdateStatuses(q)
        PROVE  UNCHANGED Board!vars
    BY <1>1, <1>7 DEF SelectOrders, UpdateStatuses, Step, database
  <1>8. ASSUME NEW q \in CreateReq, StartCreate(q) \/ InsertOrder(q)
        PROVE  UNCHANGED Board!vars
    BY <1>1, <1>8 DEF StartCreate, Receive, InsertOrder, Step
  <1>9. ASSUME NEW q \in PlanReq \cup CreateReq,
               BeginTx(q) \/ SendCommit(q) \/ Rollback(q)
        PROVE  UNCHANGED Board!vars
    BY <1>1, <1>9 DEF BeginTx, SendCommit, Rollback, Step, database
  <1>10. ASSUME NEW q \in ReportReq, NEW r \in Robots, StartReport(r, q)
         PROVE  UNCHANGED Board!vars
    BY <1>1, <1>10 DEF StartReport, Receive
  <1>11. ASSUME NEW q \in ReportReq, FailUpdate(q) PROVE UNCHANGED Board!vars
    BY <1>1, <1>11 DEF FailUpdate, Step, database
  <1>12. ASSUME NEW q \in Requests, EndContext(q) \/ Reply(q) \/ ReplyTimeout(q)
         PROVE  UNCHANGED Board!vars
    BY <1>1, <1>12 DEF EndContext, Reply, ReplyTimeout, database
  <1>13. ASSUME NEW r \in Robots, Hear(r) \/ GiveUp(r) PROVE UNCHANGED Board!vars
    BY <1>1, <1>13 DEF Hear, GiveUp, database, server
  <1>14. CASE UNCHANGED vars
    BY <1>1, <1>14 DEF vars
  <1>15. QED
    BY <1>2, <1>3, <1>4, <1>5, <1>6, <1>7, <1>8, <1>9, <1>10, <1>11, <1>12,
       <1>13, <1>14 DEF Next, PlanStep, TxStep

\* The orders table and the plans implement the board of OrderBoard.
THEOREM Refinement == Spec => BoardSpec
  BY BoardInit, BoardStep, Inductive, OneOrder, PTL DEF Spec, BoardSpec, Board!Spec

----------------------------------------------------------------------------
(* One robot that waits: the exclusive board *)

\* One robot is at work, and none of its requests times out.
Alone(r) == Robots = {r} /\ Impatient \cap TimedReq = {}

\* A request of the robot that is not answered is the one it waits for, an answered
\* one has ended, and what an unanswered plan saw is still waiting.
OneAtATime(r) ==
    \A q \in TimedReq :
      /\ answer[q] = "waiting" => awaits[r] = q /\ ctx[q] = "live"
      /\ answer[q] \in {"ok", "error"} => work[q] \in {"done", "failed"}
      /\ answer[q] = "none" => ctx[q] = "live"
      /\ work[q] # "abandoned"
      /\ work[q] \in {"select", "update", "commit", "committing"} /\ q \in PlanReq =>
            seen[q] \subseteq Shipping

\* A plan or a report that is under way is the only one.
LEMMA UnderWay ==
    ASSUME NEW r, IInv, OneAtATime(r), NEW q \in TimedReq,
           work[q] \notin {"idle", "done", "failed"}
    PROVE  answer[q] = "waiting" /\ awaits[r] = q
  BY DEF IInv, TypeOK, AnswersFollowWork, OneAtATime, TimedReq, Requests

\* Robots and their requests, step by step.
LEMMA OneAtATimeStep ==
    ASSUME NEW r, Alone(r)
    PROVE  IInv /\ OneAtATime(r) /\ [Next]_vars => OneAtATime(r)'
  <1> SUFFICES ASSUME IInv, OneAtATime(r), [Next]_vars PROVE OneAtATime(r)'
    OBVIOUS
  <1>1. CASE UNCHANGED vars
    BY <1>1 DEF vars, OneAtATime, Shipping
  <1> SUFFICES ASSUME Next PROVE OneAtATime(r)'
    BY <1>1
  <1>2. \A x \in Robots : x = r
    BY DEF Alone
  <1>3. \A q \in TimedReq : q \notin Impatient
    BY DEF Alone
  <1>u. \A q \in TimedReq : work[q] \notin {"idle", "done", "failed"} => awaits[r] = q
    BY UnderWay
  <1> USE RequestAssumption DEF IInv, TypeOK, Requests, TimedReq, OneAtATime, Shipping
  <1>4. ASSUME NEW q \in TimedReq, awaits[r] = NoReq, answer[q] = "none",
               answer' = [answer EXCEPT ![q] = "waiting"],
               awaits' = [awaits EXCEPT ![r] = q],
               work' \in {[work EXCEPT ![q] = "begin"], [work EXCEPT ![q] = "exec"]},
               UNCHANGED <<ctx, seen, status>>, r \in Robots
        PROVE  OneAtATime(r)'
    <2>1. \A x \in TimedReq : answer[x] # "waiting"
      BY <1>4
    <2>2. QED
      BY <1>4, <2>1
  <1>5. ASSUME NEW q \in PlanReq, NEW x \in Robots, StartPlan(x, q) PROVE OneAtATime(r)'
    BY <1>2, <1>4, <1>5 DEF StartPlan, Receive
  <1>6. ASSUME NEW q \in ReportReq, NEW x \in Robots, StartReport(x, q)
        PROVE  OneAtATime(r)'
    BY <1>2, <1>4, <1>6 DEF StartReport, Receive
  <1>7. ASSUME NEW q \in Requests, NEW to, to # "abandoned",
               work[q] \notin {"done", "failed"},
               q \in PlanReq => to \notin {"select", "update", "commit", "committing"}
                                \/ work[q] \in {"select", "update", "commit"},
               work' = [work EXCEPT ![q] = to],
               UNCHANGED <<status, ctx, answer, seen, awaits>>
        PROVE  OneAtATime(r)'
    BY <1>7
  <1>8. ASSUME NEW q \in PlanReq, GetShippingOrders(q) PROVE OneAtATime(r)'
    BY <1>8 DEF GetShippingOrders, Step, database, robots
  <1>9. ASSUME NEW q \in PlanReq, SelectOrders(q) PROVE OneAtATime(r)'
    <2>1. PICK plan \in SUBSET seen[q] :
             /\ Step(q, "select", IF plan = {} THEN "commit" ELSE "update")
             /\ UNCHANGED <<database, robots, ctx, answer, seen>>
      BY <1>9, SelectedRows
    <2>2. QED
      BY <1>7, <2>1 DEF Step, database, robots
  <1>10. ASSUME NEW q \in PlanReq, UpdateStatuses(q) PROVE OneAtATime(r)'
    BY <1>7, <1>10 DEF UpdateStatuses, Step, database, robots
  <1>11. ASSUME NEW q \in PlanReq \cup CreateReq, BeginTx(q) PROVE OneAtATime(r)'
    BY <1>7, <1>11 DEF BeginTx, Step, database, robots
  <1>12. ASSUME NEW q \in PlanReq \cup CreateReq, SendCommit(q) PROVE OneAtATime(r)'
    BY <1>7, <1>12 DEF SendCommit, Step, database, robots
  <1>13. ASSUME NEW q \in PlanReq \cup CreateReq, Rollback(q) PROVE OneAtATime(r)'
    BY <1>7, <1>13 DEF Rollback, database, robots
  \* A plan commits: no other is under way.
  <1>14. ASSUME NEW q \in PlanReq, Commit(q) PROVE OneAtATime(r)'
    <2>1. /\ work[q] = "committing" /\ work' = [work EXCEPT ![q] = "done"]
          /\ UNCHANGED <<ctx, answer, seen, awaits>>
      BY <1>14 DEF Commit, Step, robots
    <2>2. ASSUME NEW x \in TimedReq, work[x] \notin {"idle", "done", "failed"}
          PROVE  x = q
      <3>1. awaits[r] = x
        BY <1>u, <2>2
      <3>2. q \in TimedReq /\ work[q] \notin {"idle", "done", "failed"}
        BY <2>1
      <3>3. awaits[r] = q
        BY <1>u, <3>2
      <3> QED
        BY <3>1, <3>3
    <2>3. QED
      BY <2>1, <2>2
  \* A checkout commits: nothing that waits stops waiting.
  <1>15. ASSUME NEW q \in CreateReq, Commit(q) PROVE OneAtATime(r)'
    <2>1. /\ work' = [work EXCEPT ![q] = "done"] /\ UNCHANGED <<ctx, answer, seen, awaits>>
          /\ status' = [o \in Order |-> IF o \in rows[q] THEN "shipping" ELSE status[o]]
      BY <1>15 DEF Commit, Step, Written, robots
    <2>2. Shipping \subseteq Shipping'
      BY <2>1
    <2>3. \A x \in TimedReq : work'[x] = work[x]
      BY <2>1
    <2>4. QED
      BY <2>1, <2>2, <2>3
  \* A report is completed: no plan is under way.
  <1>16. ASSUME NEW q \in ReportReq, ExecUpdate(q) PROVE OneAtATime(r)'
    <2>1. /\ work[q] = "exec" /\ work' = [work EXCEPT ![q] = "done"]
          /\ UNCHANGED <<ctx, answer, seen, awaits>>
      BY <1>16 DEF ExecUpdate, Step, robots
    <2>2. ASSUME NEW x \in TimedReq, work[x] \notin {"idle", "done", "failed"}
          PROVE  x = q
      <3>1. awaits[r] = x
        BY <1>u, <2>2
      <3>2. q \in TimedReq /\ work[q] \notin {"idle", "done", "failed"}
        BY <2>1
      <3>3. awaits[r] = q
        BY <1>u, <3>2
      <3> QED
        BY <3>1, <3>3
    <2>3. QED
      BY <2>1, <2>2
  <1>17. ASSUME NEW q \in ReportReq, FailUpdate(q) PROVE OneAtATime(r)'
    <2>1. work[q] = "exec" => ctx[q] = "live"
      BY UnderWay
    <2>2. QED
      BY <1>7, <1>17, <2>1 DEF FailUpdate, Step, database, robots
  <1>18. ASSUME NEW q \in Requests, EndContext(q) PROVE OneAtATime(r)'
    BY <1>3, <1>18 DEF EndContext, database, robots
  <1>19. ASSUME NEW q \in Requests, Reply(q) PROVE OneAtATime(r)'
    BY <1>19 DEF Reply, database, robots
  <1>20. ASSUME NEW q \in TimedReq, ReplyTimeout(q) PROVE OneAtATime(r)'
    BY <1>20 DEF ReplyTimeout
  <1>21. ASSUME NEW x \in Robots, Hear(x) PROVE OneAtATime(r)'
    <2>1. PICK q \in TimedReq : awaits[r] = q /\ answer[q] \in {"ok", "error"}
      BY <1>2, <1>21 DEF Hear
    <2>2. \A y \in TimedReq : answer[y] # "waiting"
      BY <2>1
    <2>3. QED
      BY <1>21, <2>2 DEF Hear, database, server
  <1>22. ASSUME NEW x \in Robots, GiveUp(x) PROVE OneAtATime(r)'
    BY <1>3, <1>22 DEF GiveUp
  <1>23. ASSUME NEW q \in CreateReq, StartCreate(q) \/ InsertOrder(q)
         PROVE  OneAtATime(r)'
    <2>1. /\ UNCHANGED <<status, ctx, seen, awaits>>
          /\ \A x \in TimedReq : work'[x] = work[x] /\ answer'[x] = answer[x]
      BY <1>23 DEF StartCreate, Receive, InsertOrder, Step, robots
    <2>2. QED
      BY <2>1
  <1>24. QED
    BY <1>5, <1>6, <1>8, <1>9, <1>10, <1>11, <1>12, <1>13, <1>14, <1>15, <1>16, <1>17,
       <1>18, <1>19, <1>20, <1>21, <1>22, <1>23 DEF Next, PlanStep, TxStep

\* Only the COMMIT of a plan makes it a committed one.
LEMMA OnlyCommitCommits ==
    IInv /\ Next /\ (\A q \in PlanReq : ~ Commit(q)) => Committed' = Committed
  <1> SUFFICES ASSUME IInv, Next, \A q \in PlanReq : ~ Commit(q) PROVE Committed' = Committed
    OBVIOUS
  <1> USE RequestAssumption DEF IInv, TypeOK, Requests, TimedReq, Committed
  <1>1. ASSUME NEW q \in Requests, NEW from, NEW to, Step(q, from, to),
               q \notin PlanReq \/ (from # "done" /\ to # "done")
        PROVE  Committed' = Committed
    BY <1>1 DEF Step
  <1>2. ASSUME NEW q \in Requests, NEW step, Receive(q, step), step # "done"
        PROVE  Committed' = Committed
    <2>1. work[q] = "idle"
      BY <1>2 DEF Receive, AnswersFollowWork
    <2>2. QED
      BY <1>2, <2>1 DEF Receive
  <1>3. ASSUME NEW q \in PlanReq, NEW r \in Robots, StartPlan(r, q)
        PROVE  Committed' = Committed
    BY <1>2, <1>3 DEF StartPlan
  <1>4. ASSUME NEW q \in ReportReq, NEW r \in Robots, StartReport(r, q)
        PROVE  Committed' = Committed
    BY <1>2, <1>4 DEF StartReport
  <1>5. ASSUME NEW q \in CreateReq, StartCreate(q) PROVE Committed' = Committed
    BY <1>2, <1>5 DEF StartCreate
  <1>6. ASSUME NEW q \in PlanReq, PlanStep(q) PROVE Committed' = Committed
    BY <1>1, <1>6 DEF PlanStep, GetShippingOrders, SelectOrders, UpdateStatuses
  <1>7. ASSUME NEW q \in CreateReq, InsertOrder(q) PROVE Committed' = Committed
    BY <1>1, <1>7 DEF InsertOrder
  <1>8. ASSUME NEW q \in PlanReq \cup CreateReq, BeginTx(q) \/ SendCommit(q)
        PROVE  Committed' = Committed
    BY <1>1, <1>8 DEF BeginTx, SendCommit
  <1>9. ASSUME NEW q \in CreateReq, Commit(q) PROVE Committed' = Committed
    BY <1>1, <1>9 DEF Commit
  <1>10. ASSUME NEW q \in PlanReq \cup CreateReq, Rollback(q) PROVE Committed' = Committed
    BY <1>10 DEF Rollback
  <1>11. ASSUME NEW q \in ReportReq, ExecUpdate(q) \/ FailUpdate(q)
         PROVE  Committed' = Committed
    BY <1>1, <1>11 DEF ExecUpdate, FailUpdate
  <1>12. ASSUME NEW q \in Requests, EndContext(q) \/ Reply(q) \/ ReplyTimeout(q)
         PROVE  Committed' = Committed
    BY <1>12 DEF EndContext, Reply, ReplyTimeout
  <1>13. ASSUME NEW r \in Robots, Hear(r) \/ GiveUp(r) PROVE Committed' = Committed
    BY <1>13 DEF Hear, GiveUp, server
  <1>14. QED
    BY <1>3, <1>4, <1>5, <1>6, <1>7, <1>8, <1>9, <1>10, <1>11, <1>12, <1>13
       DEF Next, TxStep

\* A step of the board that is no claim is a step of the exclusive board.
LEMMA ExclusiveStep ==
    ASSUME NEW r, Alone(r)
    PROVE  IInv /\ OneOrderPerReport /\ OneAtATime(r) /\ [Next]_vars
              => [ExclusiveBoard!Next]_(ExclusiveBoard!vars)
  <1> SUFFICES ASSUME IInv, OneOrderPerReport, OneAtATime(r), [Next]_vars
               PROVE  ExclusiveBoard!Next \/ UNCHANGED ExclusiveBoard!vars
    OBVIOUS
  <1>1. ASSUME NEW q \in PlanReq, Commit(q) PROVE ExclusiveBoard!Next
    <2>1. /\ work[q] = "committing" /\ work' = [work EXCEPT ![q] = "done"]
          /\ UNCHANGED seen
          /\ status' = [o \in Order |-> IF o \in rows[q] THEN "delivering"
                                       ELSE status[o]]
      BY <1>1, RequestAssumption DEF Commit, Step, Written
    <2>2. q \notin Committed /\ Committed' = Committed \cup {q}
      BY <2>1 DEF Committed, IInv, TypeOK, Requests
    <2>3. rows[q] \in SUBSET seen[q] /\ seen[q] \subseteq ExclusiveBoard!Waiting
      BY <2>1 DEF IInv, PlansComeFromSnapshots, OneAtATime, TimedReq, Shipping,
         ExclusiveBoard!Waiting
    <2>4. ExclusiveBoard!Claim(q)
      BY <2>1, <2>2, <2>3 DEF ExclusiveBoard!Claim
    <2>5. QED
      BY <2>4 DEF ExclusiveBoard!Next
  <1>2. ASSUME \A q \in PlanReq : ~ Commit(q)
        PROVE  ExclusiveBoard!Next \/ UNCHANGED ExclusiveBoard!vars
    <2>1. Committed' = Committed
      <3>1. UNCHANGED vars => Committed' = Committed
        BY DEF vars, Committed
      <3>2. QED
        BY <1>2, <3>1, OnlyCommitCommits
    <2>2. Board!Next \/ UNCHANGED Board!vars
      BY BoardStep
    <2>3. \A q \in PlanReq : ~ Board!Claim(q)
      BY <2>1 DEF Board!Claim
    <2>4. QED
      BY <2>2, <2>3 DEF Board!Next, Board!vars, Board!Publish, Board!Look, Board!Waiting,
         Board!Complete, ExclusiveBoard!Next, ExclusiveBoard!vars, ExclusiveBoard!Publish,
         ExclusiveBoard!Look, ExclusiveBoard!Waiting, ExclusiveBoard!Complete
  <1>3. QED
    BY <1>1, <1>2

\* With one robot and no timeout, orders are claimed only while they wait, whatever
\* the shoppers do: robot.js says that a plan takes its orders from 'shipping'.
THEOREM ExclusiveRefinement ==
    ASSUME NEW r, Alone(r)
    PROVE  Spec => ExclusiveBoardSpec
  <1>1. Init => OneAtATime(r)
    BY DEF Init, OneAtATime, Requests, TimedReq
  <1>2. Init => ExclusiveBoard!Init
    <2> SUFFICES ASSUME Init PROVE ExclusiveBoard!Init
      OBVIOUS
    <2>1. Committed = {}
      BY DEF Init, Committed, Requests
    <2>2. QED
      BY <2>1 DEF Init, ExclusiveBoard!Init
  <1>3. IInv /\ OneAtATime(r) /\ [Next]_vars => OneAtATime(r)'
    BY OneAtATimeStep
  <1>4. IInv /\ OneOrderPerReport /\ OneAtATime(r) /\ [Next]_vars
              => [ExclusiveBoard!Next]_(ExclusiveBoard!vars)
    BY ExclusiveStep
  <1>5. QED
    BY <1>1, <1>2, <1>3, <1>4, Inductive, OneOrder, PTL
       DEF Spec, ExclusiveBoardSpec, ExclusiveBoard!Spec
=============================================================================

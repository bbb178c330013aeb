# Verification of the StoreLink backend, its robot client and the benchmark worker

This directory holds TLA+ models of the repository, checked with TLC, and proofs about
them checked with TLAPS. The code is the reference: every modelled definition is
mapped to the lines it stands for in `PROJECT.json` ("map").

## 1. The system

StoreLink is a shop. A Next.js frontend and a k6 benchmark talk to a Go backend over
MySQL; delivery robots ask the backend for plans and report deliveries; a separate
benchmark worker takes load test requests from an Azure queue, runs k6 against a team's VM
and registers the score.

| Part | State it keeps | Operations | Interacts with |
|---|---|---|---|
| Delivery planning and reports (`service/robot.go`, `handler/robot.go`) | none of its own; rows of `orders` | `GenerateDeliveryPlan`, `UpdateOrderStatus` | transactions, timeouts, plan search |
| Plan search (`selectOrdersForDelivery`) | the recursion's slices, best plan, step counter | one recursive function | polls its context every 16384 steps |
| Transactions (`repository/store.go`) | one InnoDB transaction | `ExecTx` | every multi-statement write |
| Timeouts (`service/utils/timeout.go`) | a context and a goroutine per call | `WithTimeout` | plans, reports, login, order listing; not checkouts |
| Checkout (`service/product.go`, `handler/product.go`) | rows of `orders` | `CreateOrders` | transactions |
| Order history (`repository/order.go` `ListOrders`) | none | list, filter, sort, page in memory | one query per order |
| Product list, images | none | list, page, read a file | |
| Login, sessions (`service/auth.go`, `middleware/auth.go`) | `user_sessions` | login, check a cookie; a session is never deleted | `WithTimeout` |
| Connection pool (`db/db.go`) | up to 25 connections | | MySQL is configured for 10 |
| Frontend pages (`webapp/frontend/src/app`) | rows, total, page, sort, quantities | fetch effects, checkout | login cookie |
| Robot scenario (`benchmarker/worker/scenarios/robot.js`) | the plan it carries out | ask, report order by order | the robot API |
| User journeys (`userJourney.js`), score (`calcScore.go`) | counters | | |
| Benchmark worker (`benchmarker/worker`) | one message at a time; a row per request in an Azure table | poll, mark, check duplicates, lock, test, post, release, delete, dead letter | Azure queue and table, k6, the intermediate server (not in the repository) |
| Operator scripts (`run.sh`, `restore_and_migration.sh`, `get_test_status.sh`) | database contents, stamp files | restore, migrate, e2e, request a test, poll | worker's table through the intermediate server |
| E2E stamp reporter (`webapp/e2e/tests/_stampReporter.ts`) | a flag per file | record, write stamps | Playwright retries |
| Telemetry | none the program reads | | |

Behaviours that are hard to test, and the properties that matter:

* **Plans overlap.** Two plans read snapshots before either updates. Which orders may two
  committed plans share? (`PlansShareOnlyWhenOverlapping`)
* **Answers and effects part.** A timeout or a lost client races the COMMIT; MySQL goes on with a
  statement its goroutine gave up. Every order that left `shipping` must still be traceable
  to a committed plan (`DeliveryIsTraceable`).
* **Partial checkouts.** One INSERT of several fails, or the client leaves between two
  (`CheckoutIsAllOrNothing`).
* **Hanging work.** Handlers must answer although their goroutine hangs (`RobotsAreAnswered`);
  goroutines must end if the database does answer (`GoroutinesEnd`).
* **Shared arrays.** The search passes `append(curSet, order)` to a sibling call
  (`SlicesHoldTheirChoice`, `PlanIsBest`).
* **One pool for everything.** Transactions keep a connection between statements while others wait
  for one, statements are given up half-way, and MySQL refuses dials: no connection may be lost
  (`ConnectionsComeBack`), nobody may wait for nothing (`WaitsEnd`).
* **Logins that time out, expire, are left or answered out of order** (`ServedAsLoggedIn`), and a score
  that counts what was done only (`ScoreIsEarned`).
* **Answers out of order, quantities on several pages.** A list page may have several requests
  under way while its grid stays usable (`LatestAnswerFitsTheView`, `LoadingEnds`); the pages of a
  list must leave nothing out (`PagesPartitionTheList`); what was announced must be in the
  history (`AnnouncedOrdersAreListed`), and a list that changes while its pages are turned must skip
  nothing (`TurningPagesMissesNothing`).
* **Redelivery, crashes and failing calls of the worker** (`OneTestPerTeam`, `FinishedIsScored`,
  `NoRequestIsLost`, `RequestsSettle`).

`PROJECT.json` ("hazards") lists each with its line.

## 2. Modules

| Module | Models | Kind |
|---|---|---|
| `Knapsack` | what the plan search promises | operators |
| `Knapsack_proofs` | facts about the sums of `Knapsack` | proofs |
| `PlanSearch` | the plan search, call by call, with Go's slices | state machine, checked against `Knapsack` |
| `PlanSearch_proofs` | theorems about `PlanSearch` | proofs |
| `OrderBoard` | what the delivery side promises: publish, look, claim, complete | abstract specification |
| `OrderDispatch` | robots, handlers, `WithTimeout`, transactions and the `orders` table; uses `Knapsack`, implements `OrderBoard` | the core model |
| `OrderDispatch_proofs` | theorems about `OrderDispatch` | proofs |
| `BenchWorker` | the benchmark worker, its queue and its table, with faults and crashes | state machine |
| `BenchWorker_proofs` | theorems about `BenchWorker` | proofs |
| `Listing` | search, stable sort and pages of both lists | operators |
| `Storefront` | a browser tab with the product page and the order history, over `Listing` | state machine |
| `Listing_proofs` | theorems about `Listing`: sorting and pages | proofs |
| `Storefront_proofs` | theorems about `Storefront` | proofs |
| `Backend` | the session check, the statements of every endpoint and the connection pool they share | state machine |
| `LoadTest` | composes `Backend` with its clients: virtual users, the k6 robot and their score, browsers that log in and out | state machine |
| `Backend_proofs` | what every step of the server keeps: places, pool, sessions, orders | proofs |
| `LoadTest_proofs` | theorems about `LoadTest` | proofs |
| `MC...` | the instances TLC checks | instances |

Operators commented `Bug:` are faulty versions of the definition after them. They belong to no
specification; each shows that a property notices a plausible bug (`PROJECT.json`, "mutants").

### OrderDispatch

The slots of `PlanReq`, `ReportReq` and `CreateReq` are HTTP requests, each used once. A slot has

* `work`, where its goroutine stands. A plan goes through `begin` (BeginTxx), `read`
  (`GetShippingOrders`), `select` (`selectOrdersForDelivery`), `update` (`UpdateStatuses`),
  `commit` (the function given to `ExecTx` returned nil) and `committing`; a checkout through
  `begin`, `insert` once per unit, `commit`, `committing`; a report through `exec`. A statement
  that is given up while MySQL runs it is `abandoned`, and may still take effect (`ExecUpdate`).
* `ctx`, its context. `EndContext` is the timer of `WithTimeout` or the disconnection of the client;
  requests outside `Impatient` see neither.
* `answer`, what the handler wrote. `Reply` hears the goroutine, `ReplyTimeout` the context:
  `WithTimeout` may pick either when both are there. A checkout has no `ReplyTimeout`.
* `seen`, `rows`, `want`: the snapshot, the orders written, the units still to insert.

`status` is what is committed; `Locked` are the rows of open transactions. Robots follow
`robot.js`: a plan, then a report per order, and nothing more after the first error (`Hear`,
`GiveUp`). `before` is history: the plans that were committed when a plan took its snapshot.

Assumptions about MySQL: InnoDB at REPEATABLE READ, so the one SELECT of a plan reads a snapshot
without locks and an UPDATE acts on the latest committed rows and locks them until the
transaction ends; a multi-row UPDATE takes its locks in one step (rows are locked in primary
key order, so plans cannot deadlock among themselves); the connection does not break between
COMMIT and its acknowledgement; an order number that a rolled back checkout used is not used
again. Any statement may fail at any time (`Rollback`, `FailUpdate`).

Left out: users, timestamps, the texts of answers, requests refused before they reach the service
(bad JSON, a missing capacity), reports with a status other than `completed` (robots send none).

### PlanSearch

One action per way a `dfs` call goes on: too heavy (`Prune`), context done (`Cancel`), complete
(`Leaf`), without the next order (`LeaveOut`), with it (`Take`). A slice is an array number and
a length; `append` writes in place when the array has room (`HasRoom`), otherwise it allocates
with `slack` elements to spare, which each `append` chooses from `Slacks` for itself: any growth policy of
the Go runtime is an instance. `CheckEvery` stands for 16384.

### BenchWorker

A worker's `pc` follows `processMessage`: `mark`, `check` (one row per page), `lock`, `test`,
`post`, `release`, `delete`, or `dlq`, `fail`, `delete` after a failure. The queue redelivers
a hidden message (`Reappear`); during its processing that is the fault `lapse`. Each call may fail
with a fault of its own kind; the answer of a `Dequeue` may be lost with its receipt
(`LoseDequeue`); a worker may crash in the middle of a message (`Crash`) or be told to stop between two
(`Stop`), and is `down` until its container is restarted and `initializeClients` succeeds (`Boot`; compose says
`restart: always`). `MaxFaults` bounds the faults and `mishaps` remembers those that the properties make exceptions for. External parts, modelled
from how the worker uses them: the queue's delivery, the clock, the server that takes requests.

### Listing and Storefront

`view` is what a page asks for; every change of it sends a request (`Fetch`), which the backend
serves from the orders committed at that moment (`Serve`) or which fails (`FailAsk`), and which the
page hears at last (`HearListing`) in any order. Searching, typing and ordering wait for
`loading` to end; pages and sorting do not, and the first answer ends it whatever else is under way.
`Leave` drops all state of a page. `quantities` outlives a change of the view; `Submit` orders what
is on the rows shown; `HearCheckout` announces the result and clears `quantities`.

A checkout is one step here: that its transaction is all or nothing is what `dispatch_one_robot`
checks (`CheckoutIsAllOrNothing`). A listing is one step because it is one SELECT, followed by reads of
products, which never change. The SELECT of the orders has no ORDER BY; MySQL reads them by
`user_id` or by primary key and so by `order_id` in both cases. Texts and names stand for the
sets they match and for their order. An order that never arrived has `arrived_at` 0. Robots change
statuses at any time (`UpdateStatuses`; `Statuses` bounds what they set).
Orders are numbered in the order of their commits; in the code the number is given at the INSERT, so that of two
checkouts of one user that overlap the first to commit may have the greater numbers. Left out: the defaults of the
handlers, since the pages name every part of a view.

### Backend and LoadTest

A request is a number. `Statements` lists what each endpoint asks of MySQL, the session check first where
`UserAuthMiddleware` guards the route; `at[r]` is the statement its goroutine is at. A loop of similar
statements (the queries of a history, the inserts of a checkout) is one, named `read`, `names` or
`write`. `Execute` is a statement that succeeds, `Fail` one that MySQL answers with an error: the handler
answers, and an open transaction is rolled back (`ExecTx`). `EndContext` is the timer of `WithTimeout`
or a client that leaves; `Cancel` is the goroutine's part of it, later: its connection is kept if no statement
was under way and closed otherwise, and an INSERT may have taken effect.

`conn[r]` and `tx` are the connections a request has for a single statement and for a transaction. The pool is
modelled from database/sql, which is external: `Take`, `Dial`, `GiveBack`, `Open` (the background opener)
and `OpenMore` (`maybeOpenNewConnections`). `Drop` is MySQL noticing a closed connection, which counts
against `max_connections` until then.

The data is left to the other modules: of the orders there is only whose are committed (`orders`) and which a
plan took (`planned`). A plan's statement `select` is its snapshot, from which `Select` chooses some of the orders that wait
(`chosen`; which ones the search prefers is left to `PlanSearch`); without any the plan writes nothing. Two plans may choose the same
orders.

In `LoadTest` a virtual user sends the requests of its `Script` one after the other with the cookie of its login, and
counts an iteration after the last answer if all were good (`HearAnswer`); `FinalScores` is what the runner
makes of the counters. A browser sends what it likes, several requests at a time, takes the cookie of
whichever login is answered last, and may delete it (`Logout`; the row of the session stays).

Left out: counters of failures, which nothing reads; the robot's API key, which the robots have; the
k6 stages, since a test may end after any iteration and the properties hold at all times.

## 3. What TLC checks

| Run | Shows | Bounds |
|---|---|---|
| `dispatch_overlap` | types, overlap, traceability, refinement of the board when any request may time out or fail anywhere | 2 robots, 2 plans, 2 reports, 2 orders: the least with two overlapping plans and a late report of each |
| `dispatch_one_robot` | one robot, no timeouts of its requests: no order is planned twice (the strict board); two concurrent checkouts are all or nothing | 2 plans, 1 report, 2 checkouts of up to 3 items each (repeated, empty, negative, unknown), 5 order numbers |
| `dispatch_answers` | every robot request is answered although its work may hang; every goroutine ends if MySQL answers | 1 robot that may give up, 2 plans, 1 report, all of which may time out, 1 checkout refused midway |
| `dispatch_regression` | **violated**: a completed order becomes delivering again | 2 robots, no timeout, no failure |
| `dispatch_failed_plan` | **violated**: a plan answered with an error exists | 1 plan |
| `search` | the search returns a best plan, its slices hold their calls' choices, it stops in time and ends | up to 3 rows of weight and value 0 to 2, 4 alike rows; capacities -1, 0, 2, 3; 0 or 1 element to spare at each `append`, and so Go's capacities 1, 2, 4 among others |
| `worker_faults` | exclusion, scores and losses under any two faults, restarts and lost deliveries included | 2 workers, 3 requests of a team, one not JSON |
| `worker_settle` | every request ends through one survivable fault | 2 teams with one request each |
| `worker_standoff` | **violated**: a request whose row says running is tested or ends; two of a team skip each other instead | 1 worker, 2 requests, 1 crash |
| `storefront` | pages, sorting and search are exact; the last request is for the current view; announced orders are listed; turning pages misses nothing while the list grows and robots complete orders; loading ends | 3 products of 2 names, 2 orders and a checkout, 3 listing requests, the default sort and one other field a page, page sizes 1 and 2, orders completed at any time |
| `backend` | sessions, connections and score with any statement failing | 3 requests of 2 virtual users (one per journey), 1 robot and 1 browser, 2 users (symmetric), one request that may be given up; a pool of 2, of which it keeps 1 idle, and 2 connections of MySQL |
| `page_lost_quantities` | **violated**: quantities entered on another page are announced as ordered | as `storefront`, page size 1, no robots |

The interesting cases need few participants: every property about plans speaks of pairs of plans,
every property about the worker of one request or a pair, and
those about list pages of a request that a second one overtakes while a third may open another page. The order numbers, products and baskets
suffice for a plan of two orders, a plan that must leave one out, and a checkout that fails after
its first insert. `CHECK_DEADLOCK FALSE` is set because behaviours end when the request slots are used
up, the search has returned, or every message is deleted.

In `backend` two requests in transactions and a third that
waits are the least where goroutines could wait for each other, and the limit of MySQL is met once a closed
connection is still counted. Its three requests
are enough for the points of both user journeys. A point of the robot needs at least four (a login, a checkout, a plan and a
report), too many with all these faults: that it was earned is left to the proof (`ScoreWasEarned`).

**Fairness.** `HandlerFairness` of the dispatch: handlers are scheduled (`Reply`). Its two liveness
properties each assume one thing more. `RobotsAreAnswered` assumes `TimerFairness`: the timer of `WithTimeout`
fires and its `select` is scheduled; nothing is assumed of the database. `GoroutinesEnd` assumes `DatabaseFairness`:
MySQL executes each statement and refuses those it must (`Refused`: a done context, an insert of
an unknown product); timers may fire or not. It assumes nothing of robots, who may stop. `FairSpec` of the worker:
containers are restarted, the poll loop runs, each call returns, a hidden message becomes visible.
`PlanSearch`: the search runs. `backend` checks safety only; that nobody waits in vain is the invariant
`WaitsEnd`.
`FairSpec` of the storefront: a listing that is not served fails in the
end (`WithTimeout`, or nginx, which gives up on any proxied request), and callbacks run.
All are weak; none forces a request, a submission, a timeout of a working search or a fault.

### Disagreements between code and texts

* `dispatch_regression`: `UpdateStatuses` asks for no old status. Robot A and robot B plan the
  same order, A completes it, B's plan commits: the order is `delivering` again and is delivered
  twice. The comment in `robot.js` describes the change as shipping to delivering.
* `dispatch_failed_plan`: "Failed to create delivery plan" is answered for a plan that exists.
  Its orders stay `delivering`; no robot ever hears of them.
* `worker_standoff`: the worker marks a message `running` before it looks for duplicates, even
  one it already finished. If it died between `releaseLock` and `DeleteMessage` and the team has
  asked again, both requests are marked on each delivery, and each is skipped because of the other.
  Each row says `running` again and again, for which the polling script prints that the load test is running
(`get_test_status.sh:36`), while no worker tests either (`RunningIsTested`). It ends when the queue drops the messages,
after its time to live, which is left out.
* `page_lost_quantities`: `handleSubmit` takes the quantities of the products on the page that
  is shown and clears all of them. What was entered before the user turned the page is
  neither ordered nor kept, and the page announces success.

Not runs, but texts the code departs from: the history is searched by product name only, though its
field says name or status; the API description names the sort field `status`, which the
backend takes for `order_id`; a history without a match is `null` instead of an array.

Not runs, but exceptions written into the properties: a redelivery during a test (visibility 300
seconds, a test of up to 300) starts a second test of the same VM, since a request does not count as
its own duplicate; a failed mark followed by a failed delete breaks the exclusion; the error of
`releaseLock` is dropped and leaves the row running for an hour. Checkouts, product
listings and session checks run without a timeout although `02_Regulation.md` says all requests have one.

Smaller things met while modelling: the session check answers 401 "Invalid session" for any error of MySQL, and
the login page says that name or password are wrong for any error; nginx gives up on a request after 60
seconds, before the 120 of `WithTimeout`; `robot.js` counts an empty plan as two failures, since `fail`
throws inside its own `try`; `DEQUEUE_BATCH_SIZE` is read and never used; logging out deletes the cookie and
leaves the session valid for its 24 hours.

## 4. What is proved

`OrderDispatch_proofs` holds for any finite or infinite sets of requests, robots and products, any
baskets, catalogue, capacity and number of orders, from `RequestAssumption` (the kinds of
requests are disjoint) and `DataAssumption` (types of the constants) alone.

* `TypeCorrect`: `Spec => []TypeOK`.
* `Inductive`: `Spec => []IInv`.
* `OverlapTheorem`: `Spec => []PlansShareOnlyWhenOverlapping`.
* `TraceabilityTheorem`: `Spec => []DeliveryIsTraceable`.
* `CheckoutTheorem`: `Spec => []CheckoutIsAllOrNothing`.
* `Refinement`: `Spec => BoardSpec`, the abstract board without exclusion.
* `ExclusiveRefinement`: `Spec => ExclusiveBoardSpec`, the strict board on which no order is planned twice, for one
  robot whose own requests do not time out (`Alone`); checkouts may time out and anything may fail.

`PlansShareOnlyWhenOverlapping` is not inductive: it speaks of committed plans only, and says
nothing of the plan that is about to commit. The strengthening is that a snapshot has no order of a
plan committed before it (`SnapshotsSkipCommitted`) and a plan's rows come from its snapshot
(`PlansComeFromSnapshots`). When a snapshot is taken, it has only `shipping` orders, and the
orders of a committed plan are never `shipping` again (`CommittedOrdersLeft`). That in turn must
survive commits of checkouts, which do write `shipping`: their rows are invisible drafts that no
snapshot and no plan knows (`DraftsAreHidden`); and commits of reports, which are for orders some
committed plan holds (`LeavingOrdersAreClaimed`, by way of what robots carry, which needs
`AnswersFollowWork`: a robot that hears success hears of committed work). Each action has a lemma
where it disturbs several conjuncts; all others go through `QuietStep`. The refinement uses the
same invariant and that a report names one order (`OneOrder`).

`CheckoutIsAllOrNothing` is about what a checkout shows; the invariant behind it (`CheckoutsOK`) is about what it
has done: of each product the orders it inserted and the units it has still to insert make up its basket, until
nothing is missing at the commit. The exclusive board needs that a snapshot is still `shipping` when its plan commits.
Nothing but a plan or a report takes an order out of `shipping`, and `OneAtATime` says that while one request of the
robot is unanswered no other of its requests is at work.

`PlanSearch_proofs` holds for any set of listings and capacities and any number of elements that each `append` allocates to spare, from `SearchAssumption`: weights and values are
natural numbers and no two rows of a listing have one `order_id` (its primary key).

* `PlansAreBest`: `Spec => []PlanIsBest`, so the search returns an optimal plan for every list of orders.
* `ChoicesAreHeld`: `Spec => []SlicesHoldTheirChoice`; `StopsInTime`: `Spec => []CancelsInTime`; `TypeCorrect`.

The recursion is a stack of calls, so that its induction is over steps. `Stack` says of each call what its slice holds and
what it sums up to, and of a call that waits for its inner call that the two agree on all orders before its own, which is why
an `append` in place to a shared array spoils nothing (`NestedIn`). `Apart` keeps the array of the best plan away from
all calls: `copy` makes a new one. `Explored` is the argument for the optimum: a choice that can be carried and is worth
more than the best plan is still to be decided by some call on the stack (`Undecided`); a pruned call has none of them,
because weights are not negative and a larger choice weighs no less.

`Knapsack_proofs` gives the sums that needs (`TotalAdd`, `TotalGrows`). `Total` takes the elements of a set in an order of its own,
so that it can be unfolded at any other element (`TotalWithout`) only by induction over finite sets. The induction
theorems of the library cannot be used, because they take a predicate; `SubsetInduction` takes the set of subsets for
which something holds instead, and follows from the least element of a well-founded order. That the recursive function
exists is proved in the same way (`SumsAgree`, `SumsExist`).

`LoadTest_proofs` and `Backend_proofs` hold for any clients, users, virtual users and browsers, any number of requests, any
bounds of the pool and of MySQL, from `BackendAssumption`, `QuestionAssumption` (no request is the mark of a slot not used)
and `LoadTestAssumption`.

* `TypeCorrect`; `PoolIsKept`: `Spec => []ConnectionsComeBack`; `NobodyWaitsForNothing`: `Spec => []WaitsEnd`.
* `ServedAsTheOneWhoLoggedIn`: `Spec => []ServedAsLoggedIn`.
* `ScoreWasEarned`: `Spec => []ScoreIsEarned`.

`Backend_proofs` shows what every step of the server keeps whatever its clients do (`ServerInv`): a goroutine has the kind of
connection that its statement needs (`Places`), and, by counting, no more than `MaxOpen` connections are open, one is
being opened for everybody who waits unless all are, and nobody waits beside an idle one (`PoolInv`). Of the many
steps `LoadTest_proofs` needs only what they may do to sessions, orders and answers (`Progress`): a session row never
changes its user, an answer is given once, and a handler takes its user from the session that its cookie names.
`CookieInv` then says that every cookie, in a browser, in a request or under way in an answer, was `Earned` by a login of that client
that was answered with success. `JourneyInv` ties a virtual user to the one answer it waits for, and `ScoreInv` counts: the score
and the robots that have a plan but have not counted it yet (`Planning`) are no more than the good answers heard.

`Listing_proofs` holds for lists of any length, any page size and any sort model whose field is an integer in every row.

* `SortingTheorem`: what `Sorted` returns has each kept element once, in order, and is stable. The place of an element is its
  `Rank`, the number of elements ahead of it; `Ahead` is a strict order of the kept elements whatever the field and the
  direction (`AheadOrders`), so the ranks differ, and an injection of n elements into 1 to n reaches every place
  (`RanksAreThePlaces`).
* `PagingTheorem`: each position of a list is on exactly one page, with its element, and that page is one the grid offers.
* `PagesMakeTheList`: the pages put one after the other are the list. `FlattenSeq` is recursive; `FlattenUnfolds` gets one step
  of it from the existence of its function (`ChainsExist`), by `CountingUp`, an induction stated for a set of numbers.

`Storefront_proofs` holds for any catalogue, history, page sizes and number of requests and checkouts, from
`ListingAssumption` and `StorefrontAssumption` (the rows of the two tables have the types of their columns).

* `LatestAnswerTheorem`: `Spec => []LatestAnswerFitsTheView`. The property speaks of the answer heard
  last; the invariant adds that the request sent last, while it is under way, carries the view
  of the page, and that no request has a number from the future.
* `TypeCorrect`: `Spec => []TypeOK`. That no more orders are announced than there are needs `Books`: the orders of the history,
  the announced ones and those that checkouts under way have committed but not announced (`Unannounced`, a sum over
  the checkouts by their numbers) are no more than the orders. Each step of a checkout changes one term
  of the sum (`TotalChange` of `Knapsack_proofs`).
* `AnnouncedTheorem`: `Spec => []AnnouncedOrdersAreListed`. A listing that is served sees all orders, and so, by `Books`, all
  that had been announced when it was sent.
* `PagesTheorem`: `Spec => []PagesPartitionTheList`, from `SortingTheorem` and `PagesMakeTheList`.
* `TurningTheorem`: `Spec => TurningPagesMissesNothing`. Orders that are added never move an order to an earlier place
  (`RankGrows`), nor does a status that the list is not sorted by; hence none moves to an earlier page (`LaterPage`), although
  new orders may be sorted before it. Sorted by the status itself, a list may lose an order to a page already seen, and
  the theorem says nothing of that step.

`BenchWorker_proofs` holds for any number of workers, requests and faults, any assignment of requests to teams
and either server, from `WorkerAssumption`.

* `TypeCorrect`: `Spec => []TypeOK`, with `Carrying`: a worker has a message exactly while it processes one.
* `ScoreBeforeFinish`: `Spec => []FinishedIsScored`, and `RequestsAreKept`: `Spec => []NoRequestIsLost`. Neither is
  inductive: they speak of rows and of the queue, and the worker that is about to write or delete knows
  only that it got that far. `Custody` says what each place of `processMessage` has seen to: a score
  before `release`, a copy before `fail`, one of the two before `delete`.
* `TestsExclude`: `Spec => []OneTestPerTeam`. Two workers that test a team have each read all rows of the
  team, at different times. The strengthening `Exclusion` says that from its mark on a request stays in
  progress (`Bidding`), so that nobody's reading steps over it (`Passed`), and that of two bidders of a
  team one at most is past the other: the one that marks later still has the other's row to read. It
  needs that no two workers hold one message, which is why a redelivery during a test breaks it.

Only model-checked is liveness, which is out of the prover's reach: `RobotsAreAnswered`, `GoroutinesEnd`, `SearchEnds`,
`RequestsSettle` and `LoadingEnds`. Every invariant and action property of the passing runs is a theorem.

## 5. Not modelled

Telemetry, page layout, password hashing, the types of `model.go` and Docker files keep no state that matters
here or are pure input and output; an image is a file that is found or not. The operator scripts
(`run.sh`, `restore_and_migration.sh`, `get_test_status.sh`) run one after the other for one operator; of
their meeting with the worker, `worker_standoff` shows what the polling script sees. The end-to-end tests
and their stamp reporter test the pages and write files. The intermediate server is not in the repository.

## 6. Plan

1. Done: all modules above, with the theorems of section 4.
2. Done: theorems for `Listing` and the rest of `Storefront`.
3. Safety parts of the liveness properties that could be stated as invariants and proved, for instance that somebody can always
   take the next step of a request that is not answered.

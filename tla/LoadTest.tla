-------------------------------- MODULE LoadTest --------------------------------
(***************************************************************************)
(* The clients of the backend: the virtual users and the robot of a k6     *)
(* load test, whose completed iterations make the score, and browsers that *)
(* log in, look around, order and log out.                                 *)
(*                                                                         *)
(* A virtual user or a robot sends one request after the other and begins  *)
(* again after the last or after one that failed.  Requests of a journey   *)
(* that differ in their parameters only are one here.  The counters of     *)
(* failures are left out: nothing reads them.                              *)
(***************************************************************************)
EXTENDS Backend

CONSTANTS
    Browsers,   \* the clients that are browsers
    Pages,      \* what they ask for besides images: "product", "order", "history"
    Script      \* the journey of every other client

UserJourney == <<"login", "product", "order">>
UserJourney2 == <<"login", "history">>
RobotScenario == <<"plan", "status">>

VirtualUsers == Clients \ Browsers

ASSUME LoadTestAssumption ==
    /\ Browsers \subseteq Clients
    /\ Pages \subseteq {"product", "order", "history"}
    /\ Script \in [VirtualUsers -> {UserJourney, UserJourney2, RobotScenario}]

VARIABLES
    cookie,     \* the session_id of each client, or 0
    awaits,     \* the requests whose answers it has not heard
    step,       \* where a virtual user is in its script
    counts      \* the counters of success

clientVars == <<cookie, awaits, step, counts>>
vars == <<req, at, ctx, uid, made, chosen, answer, conn, tx, idle, opening, left,
          sessions, orders, planned, cookie, awaits, step, counts>>

Metrics == {"bench_uj_success_count", "bench_robot_success_count"}

Counter(c) == IF Script[c] = RobotScenario THEN "bench_robot_success_count"
              ELSE "bench_uj_success_count"

Init ==
    /\ ServerInit
    /\ cookie = [c \in Clients |-> 0]
    /\ awaits = [c \in Clients |-> {}]
    /\ step = [c \in VirtualUsers |-> 1]
    /\ counts = [m \in Metrics |-> 0]

Send(c, q) ==
    /\ \E r \in Requests : Receive(r, q) /\ awaits' = [awaits EXCEPT ![c] = @ \cup {r}]
    /\ UNCHANGED <<cookie, step, counts>>

Asks(c, kind) == [client |-> c, kind |-> kind, cookie |-> cookie[c],
                  user |-> Nobody, right |-> FALSE, path |-> "none"]

LogsIn(c, user, right) == [Asks(c, "login") EXCEPT !.user = user, !.right = right]

Proceed(c) ==
    /\ awaits[c] = {}
    /\ LET kind == Script[c][step[c]]
       IN  IF kind = "login" THEN \E u \in Users : Send(c, LogsIn(c, u, TRUE))
           ELSE Send(c, Asks(c, kind))

\* The cookie that an answer sets, if it is that of a login.
Cookie(c, r) == IF req[r].kind = "login" /\ answer[r] = "ok" THEN made[r] ELSE cookie[c]

\* Bug: the status of the last answer is not checked.
PassedWithoutLastCheck(c, r) == answer[r] = "ok" \/ step[c] = Len(Script[c])

\* A plan without orders fails the robot's iteration.
Passed(c, r) == answer[r] = "ok"

HearAnswer(c) ==
    /\ \E r \in awaits[c] :
         /\ answer[r] # "none"
         /\ awaits' = [awaits EXCEPT ![c] = @ \ {r}]
         /\ cookie' = [cookie EXCEPT ![c] = Cookie(c, r)]
         /\ LET last == step[c] = Len(Script[c])
            IN  /\ step' = [step EXCEPT ![c] = IF last \/ ~Passed(c, r) THEN 1 ELSE @ + 1]
                /\ counts' = IF last /\ Passed(c, r)
                             THEN [counts EXCEPT ![Counter(c)] = @ + 1] ELSE counts
    /\ UNCHANGED serverVars

\* handleSummary writes the counters that were ever touched.
Summary == {m \in Metrics : counts[m] > 0}

\* What the summary says of a counter; 0 if it does not have it.
Get(m) == IF m \in Summary THEN counts[m] ELSE 0

ComputeFinalScoreFromK6 ==
    Get("bench_uj_success_count") + Get("bench_robot_success_count")

\* What the runner prints for the worker: 0 if it cannot read the summary.
FinalScores == {0, ComputeFinalScoreFromK6}

-----------------------------------------------------------------------------
(* A browser: its pages send what they like, with the cookie it has *)

\* The button stays usable while a login is under way.
SignIn(b) ==
    \E u \in Users, right \in BOOLEAN : Send(b, LogsIn(b, u, right))

Visit(b) ==
    \/ \E kind \in Pages : Send(b, Asks(b, kind))
    \/ \E f \in Files \cup {"missing"} : Send(b, [Asks(b, "image") EXCEPT !.path = f])

\* The browser takes the cookie of an answer whatever page is open by then.
Load(b) ==
    /\ \E r \in awaits[b] :
         /\ answer[r] # "none"
         /\ awaits' = [awaits EXCEPT ![b] = @ \ {r}]
         /\ cookie' = [cookie EXCEPT ![b] = Cookie(b, r)]
    /\ UNCHANGED <<serverVars, step, counts>>

\* clearCookieAction; the row of the session stays.
Logout(b) ==
    /\ cookie[b] # 0
    /\ cookie' = [cookie EXCEPT ![b] = 0]
    /\ UNCHANGED <<serverVars, awaits, step, counts>>

Browse(b) == SignIn(b) \/ Visit(b) \/ Load(b) \/ Logout(b)
-----------------------------------------------------------------------------
Next ==
    \/ ServerNext /\ UNCHANGED clientVars
    \/ \E c \in VirtualUsers : Proceed(c) \/ HearAnswer(c)
    \/ \E b \in Browsers : Browse(b)

Spec == Init /\ [][Next]_vars
-----------------------------------------------------------------------------
Sent == {r \in Requests : req[r] # NoRequest}

\* Types of the variables.
TypeOK ==
    /\ \A r \in Sent : req[r].client \in Clients /\ req[r].kind \in Kinds
    /\ \A r \in Requests : at[r] # 0 => r \in Sent /\ at[r] \in DOMAIN Statements[req[r].kind]
    /\ ctx \in [Requests -> {"live", "done"}]
    /\ uid \in [Requests -> Users \cup {Nobody}]
    /\ made \in [Requests -> 0 .. Len(sessions)]
    /\ chosen \in [Requests -> SUBSET orders]
    /\ answer \in [Requests -> {"none", "ok", "empty", "refused", "error"}]
    /\ conn \in [Requests -> {"none", "waiting", "dialing", "held"}]
    /\ idle \in 0 .. MaxIdle /\ opening \in Nat /\ left \in Nat
    /\ sessions \in Seq([user : Users, live : BOOLEAN])
    /\ planned \subseteq orders /\ orders \subseteq Sent /\ tx \subseteq Sent
    /\ cookie \in [Clients -> 0 .. Len(sessions)]
    /\ awaits \in [Clients -> SUBSET Sent]
    /\ counts \in [Metrics -> Nat]

\* A handler works for the user that its own client logged in as, by a login
\* with the right password that was answered with success: a login that timed
\* out grants nothing although its session exists, and neither expiry, logout
\* nor answers out of order give a browser the session of somebody else.
ServedAsLoggedIn ==
    \A r \in Requests : uid[r] # Nobody =>
        \E l \in Sent :
            /\ req[l].kind = "login" /\ req[l].right /\ answer[l] = "ok"
            /\ req[l].client = req[r].client /\ req[l].user = uid[r]

\* The pool keeps its bound although goroutines and the background opener dial
\* at once, and a goroutine that ended has no connection left, whichever of
\* its statements failed or was given up (ExecTx).
ConnectionsComeBack ==
    /\ NumOpen(conn, tx) <= MaxOpen
    /\ \A r \in Requests : at[r] = 0 => conn[r] = "none" /\ r \notin tx

\* A point of the score stands for an order that is committed, a history that
\* was listed, or a plan whose orders are taken: no point for an answer that was
\* an error, whatever timed out, was refused or had no connection.
ScoreIsEarned ==
    \A score \in FinalScores : score <=
        Cardinality({r \in orders : req[r].client \in VirtualUsers})
        + Cardinality({r \in Sent : /\ answer[r] = "ok"
                                    /\ \/ req[r].kind = "history"
                                       \/ /\ req[r].kind = "plan" /\ chosen[r] # {}
                                          /\ chosen[r] \subseteq planned})

\* Nobody waits for nothing: whoever waits for a connection, it is being opened
\* or somebody holds one who needs no other, so that no goroutines wait for each
\* other's, and none is forgotten when a connection is closed or refused.
WaitsEnd ==
    Having(conn, "waiting") # {} =>
        /\ idle = 0
        /\ \/ opening > 0
           \/ \E r \in Requests : conn[r] = "dialing" \/ Connected(r)
=============================================================================

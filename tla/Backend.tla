-------------------------------- MODULE Backend --------------------------------
(***************************************************************************)
(* A request on its way through the Go backend: the router and the session *)
(* check in front of the handlers, the statements that a handler sends to  *)
(* MySQL, and the connections they need.                                   *)
(*                                                                         *)
(* Of the data there are the sessions, and the orders as far as a plan     *)
(* finds some or none; module OrderDispatch has the rest.  A statement     *)
(* stands for a loop over similar ones.  A goroutine that WithTimeout gave *)
(* up goes on until it notices that its context is done.                   *)
(*                                                                         *)
(* The pool is that of database/sql: a goroutine takes an idle connection, *)
(* dials one while fewer than MaxOpen are open, or waits until another     *)
(* goroutine gives one back or one is opened in the background.  A         *)
(* connection whose statement was given up is closed; MySQL counts it      *)
(* until it notices.                                                       *)
(***************************************************************************)
EXTENDS Integers, Sequences, FiniteSets

CONSTANTS
    Clients,
    Users,           \* the rows of the users table
    Nobody,          \* no user
    Files,           \* the paths of images
    NoRequest,       \* what was not sent
    MaxRequests,     \* bound: requests of a behaviour
    Impatient,       \* those whose context may end before the answer
    MaxOpen,         \* SetMaxOpenConns
    MaxIdle,         \* SetMaxIdleConns
    MaxConnections   \* max_connections of MySQL

ASSUME BackendAssumption ==
    /\ Nobody \notin Users
    /\ MaxRequests \in Nat /\ Impatient \subseteq 1 .. MaxRequests
    /\ MaxOpen \in Nat \ {0} /\ MaxIdle \in Nat /\ MaxConnections \in Nat \ {0}

Requests == 1 .. MaxRequests

\* The statements of each endpoint; those behind UserAuthMiddleware begin with
\* the lookup of the session.
Statements ==
    [login   |-> <<"find", "create">>,
     product |-> <<"session", "read">>,
     image   |-> <<"session">>,
     order   |-> <<"session", "begin", "write", "commit">>,
     history |-> <<"session", "read", "names">>,
     plan    |-> <<"begin", "select", "write", "commit">>,
     status  |-> <<"exec">>]

Kinds == DOMAIN Statements
NeedsSession(k) == Statements[k][1] = "session"

\* What a client sends: the session_id of its cookie or 0, the name and the
\* password (right or not) of a login, the path of an image.
Question == [client : Clients, kind : Kinds, cookie : Nat, user : Users \cup {Nobody},
             right : BOOLEAN, path : Files \cup {"none", "missing"}]

ASSUME QuestionAssumption == NoRequest \notin Question

VARIABLES
    \* each request
    req,        \* what its client sent
    at,         \* the number of the statement its goroutine is at, or 0
    ctx,        \* its context: "live" or "done"
    uid,        \* the userID in its context
    made,       \* the session that a login created, or 0
    chosen,     \* the requests whose orders a plan chose
    answer,     \* "none", "ok", "empty", "refused" or "error"
    \* connections
    conn,       \* each request's: "none", "waiting", "dialing" or "held"
    tx,         \* the requests whose transaction has one
    idle,       \* free ones
    opening,    \* those being opened in the background
    left,       \* those that MySQL does not know to be closed
    \* tables
    sessions,   \* the rows of user_sessions by their ID: [user, live]
    orders,     \* the requests whose orders are committed
    planned     \* those whose orders a plan took

request == <<req, at, ctx, uid, made, chosen, answer>>
pool == <<conn, tx, idle, opening>>
tables == <<sessions, orders, planned>>
serverVars == <<req, at, ctx, uid, made, chosen, answer, conn, tx, idle, opening, left,
                sessions, orders, planned>>

ServerInit ==
    /\ req = [r \in Requests |-> NoRequest]
    /\ at = [r \in Requests |-> 0]
    /\ ctx = [r \in Requests |-> "live"]
    /\ uid = [r \in Requests |-> Nobody]
    /\ made = [r \in Requests |-> 0]
    /\ chosen = [r \in Requests |-> {}]
    /\ answer = [r \in Requests |-> "none"]
    /\ conn = [r \in Requests |-> "none"]
    /\ tx = {} /\ idle = 0 /\ opening = 0 /\ left = 0
    /\ sessions = <<>> /\ orders = {} /\ planned = {}

Statement(r) == Statements[req[r].kind][at[r]]
-----------------------------------------------------------------------------
(* The pool: c and t are conn and tx without the connection let go of *)

Having(c, state) == {r \in Requests : c[r] = state}

InUse(c, t) == Cardinality(Having(c, "held")) + Cardinality(t)

NumOpen(c, t) == idle + opening + InUse(c, t) + Cardinality(Having(c, "dialing"))

\* What MySQL compares with its limit.
Established == idle + InUse(conn, tx) + left

\* A connection that is free now goes to somebody who waits for one.
GiveBack(c) ==
    \/ /\ \E w \in Having(c, "waiting") : conn' = [c EXCEPT ![w] = "held"]
       /\ UNCHANGED idle
    \/ /\ Having(c, "waiting") = {}
       /\ conn' = c
       /\ idle' = IF idle < MaxIdle THEN idle + 1 ELSE idle

\* maybeOpenNewConnections, after n background openings failed.
OpenMore(c, t, n) ==
    LET waiting == Cardinality(Having(c, "waiting"))
        room == MaxOpen - (NumOpen(c, t) - n)
    IN  opening' = (opening - n) + (IF waiting < room THEN waiting ELSE room)

Close(c, t) == conn' = c /\ tx' = t /\ OpenMore(c, t, 0) /\ UNCHANGED idle
-----------------------------------------------------------------------------
(* A request *)

\* Bug: a transaction's statements go through the service's store, not txStore.
TakesTwoConnections(s) == s # "commit"

\* A transaction has the connection of its BEGIN to the end.
TakesConnection(s) == s \notin {"select", "write", "commit"}

\* The router hands the request to its middleware: no cookie, no lookup.
Receive(r, q) ==
    /\ req[r] = NoRequest
    /\ \A x \in 1 .. r - 1 : req[x] # NoRequest
    /\ req' = [req EXCEPT ![r] = q]
    /\ IF NeedsSession(q.kind) /\ q.cookie = 0
       THEN answer' = [answer EXCEPT ![r] = "refused"] /\ UNCHANGED at
       ELSE at' = [at EXCEPT ![r] = 1] /\ UNCHANGED answer
    /\ UNCHANGED <<ctx, uid, made, chosen, pool, left, tables>>

\* The handler answers unless it already did.
End(r, a) ==
    /\ at' = [at EXCEPT ![r] = 0]
    /\ answer' = [answer EXCEPT ![r] = IF @ = "none" THEN a ELSE @]

GoOn(r) ==
    IF at[r] = Len(Statements[req[r].kind]) THEN End(r, "ok")
    ELSE at' = [at EXCEPT ![r] = @ + 1] /\ UNCHANGED answer

\* What an error of MySQL becomes: the session check takes any for a session
\* that does not exist.
ErrorAt(r) == IF Statement(r) = "session" THEN "refused" ELSE "error"

\* The file of a path, if it has one: a path that is empty, absolute or leads
\* upwards has none.  Reading it may fail.
GetImage(path) == IF path \in Files THEN {"ok", "error"} ELSE {"error"}

Take(r) ==
    /\ at[r] # 0 /\ ctx[r] = "live" /\ conn[r] = "none"
    /\ TakesConnection(Statement(r))
    /\ IF idle > 0
       THEN conn' = [conn EXCEPT ![r] = "held"] /\ idle' = idle - 1
       ELSE /\ conn' = [conn EXCEPT ![r] = IF NumOpen(conn, tx) < MaxOpen
                                           THEN "dialing" ELSE "waiting"]
            /\ UNCHANGED idle
    /\ UNCHANGED <<request, tx, opening, left, tables>>

Dial(r) ==
    /\ conn[r] = "dialing"
    /\ IF Established < MaxConnections
       THEN /\ conn' = [conn EXCEPT ![r] = "held"]
            /\ UNCHANGED <<at, answer, tx, idle, opening>>
       ELSE /\ Close([conn EXCEPT ![r] = "none"], tx)
            /\ End(r, ErrorAt(r))
    /\ UNCHANGED <<req, ctx, uid, made, chosen, left, tables>>

\* The background opener; MySQL's refusal goes to somebody who waits.
Open ==
    /\ opening > 0
    /\ IF Established < MaxConnections
       THEN GiveBack(conn) /\ opening' = opening - 1 /\ UNCHANGED <<at, answer>>
       ELSE /\ UNCHANGED idle
            /\ \/ \E w \in Having(conn, "waiting") :
                     /\ conn' = [conn EXCEPT ![w] = "none"]
                     /\ OpenMore([conn EXCEPT ![w] = "none"], tx, 1)
                     /\ End(w, ErrorAt(w))
               \/ /\ Having(conn, "waiting") = {}
                  /\ opening' = opening - 1
                  /\ UNCHANGED <<conn, at, answer>>
    /\ UNCHANGED <<req, ctx, uid, made, chosen, tx, left, tables>>

\* MySQL notices that a connection is closed.
Drop == left > 0 /\ left' = left - 1 /\ UNCHANGED <<request, pool, tables>>

\* Does the goroutine have the connection for its statement?
Connected(r) ==
    /\ at[r] # 0
    /\ IF TakesConnection(Statement(r)) THEN conn[r] = "held" ELSE r \in tx

\* Bug: the password is not compared.
AnyPassword(r) == TRUE

PasswordMatches(r) == req[r].right

FindByUserName(name) == name \in Users

Find(r) ==
    /\ IF FindByUserName(req[r].user) /\ PasswordMatches(r) THEN GoOn(r)
       ELSE End(r, "refused")
    /\ UNCHANGED <<uid, made, chosen, tables>>

\* Bug: the error of the INSERT is dropped, and the session handed out is no row.
CreateSessionUnstored(r) ==
    /\ made' = [made EXCEPT ![r] = Len(sessions) + 1]
    /\ GoOn(r)
    /\ UNCHANGED <<uid, chosen, tables>>

CreateSession(r) ==
    /\ sessions' = Append(sessions, [user |-> req[r].user, live |-> TRUE])
    /\ made' = [made EXCEPT ![r] = Len(sessions) + 1]
    /\ GoOn(r)
    /\ UNCHANGED <<uid, chosen, orders, planned>>

\* The users of a session ID: none if it expired or never was.
FindUserBySessionID(id) ==
    {sessions[i].user : i \in {i \in DOMAIN sessions : i = id /\ sessions[i].live}}

CheckSession(r) ==
    /\ IF FindUserBySessionID(req[r].cookie) = {}
       THEN End(r, "refused") /\ UNCHANGED uid
       ELSE /\ \E u \in FindUserBySessionID(req[r].cookie) : uid' = [uid EXCEPT ![r] = u]
            /\ IF req[r].kind = "image"
               THEN \E a \in GetImage(req[r].path) : End(r, a)
               ELSE GoOn(r)
    /\ UNCHANGED <<made, chosen, tables>>

\* A plan chooses among the orders that wait when it reads them, and updates
\* those it chose; which ones are the best is left to PlanSearch.
Select(r) ==
    /\ \E plan \in SUBSET (orders \ planned) :
         /\ chosen' = [chosen EXCEPT ![r] = plan]
         /\ at' = [at EXCEPT ![r] = IF plan = {} THEN @ + 2 ELSE @ + 1]
    /\ UNCHANGED <<uid, made, answer, tables>>

Commit(r) ==
    /\ IF req[r].kind = "order"
       THEN orders' = orders \cup {r} /\ UNCHANGED planned /\ End(r, "ok")
       ELSE /\ planned' = planned \cup chosen[r] /\ UNCHANGED orders
            /\ End(r, IF chosen[r] = {} THEN "empty" ELSE "ok")
    /\ UNCHANGED <<uid, made, chosen, sessions>>

Effect(r) ==
    CASE Statement(r) = "find" -> Find(r)
      [] Statement(r) = "create" -> CreateSession(r)
      [] Statement(r) = "session" -> CheckSession(r)
      [] Statement(r) = "select" -> Select(r)
      [] Statement(r) = "commit" -> Commit(r)
      [] OTHER -> GoOn(r) /\ UNCHANGED <<uid, made, chosen, tables>>

\* A statement succeeds.
Execute(r) ==
    /\ Connected(r)
    /\ Effect(r)
    /\ CASE Statement(r) = "begin" -> /\ conn' = [conn EXCEPT ![r] = "none"]
                                      /\ tx' = tx \cup {r}
                                      /\ UNCHANGED idle
         [] Statement(r) = "commit" -> GiveBack(conn) /\ tx' = tx \ {r}
         [] OTHER -> /\ UNCHANGED tx
                     /\ IF conn[r] = "held" THEN GiveBack([conn EXCEPT ![r] = "none"])
                        ELSE UNCHANGED <<conn, idle>>
    /\ UNCHANGED <<req, ctx, opening, left>>

\* Bug: ExecTx loses its deferred Rollback, and the connection comes back only
\* when database/sql sees the end of the request's context.
FailWithoutRollback(r) ==
    \/ /\ Connected(r)
       /\ End(r, ErrorAt(r))
       /\ IF r \in tx THEN UNCHANGED <<conn, tx, idle>>
          ELSE GiveBack([conn EXCEPT ![r] = "none"]) /\ UNCHANGED tx
       /\ UNCHANGED <<req, ctx, uid, made, chosen, opening, left, tables>>
    \/ /\ at[r] = 0 /\ r \in tx
       /\ GiveBack(conn) /\ tx' = tx \ {r}
       /\ UNCHANGED <<request, opening, left, tables>>

\* Bug: GenerateDeliveryPlan returns its plan whatever the transaction returned.
FailUnnoticed(r) ==
    /\ Connected(r)
    /\ End(r, IF chosen[r] # {} THEN "ok" ELSE ErrorAt(r))
    /\ GiveBack([conn EXCEPT ![r] = "none"])
    /\ tx' = tx \ {r}
    /\ UNCHANGED <<req, ctx, uid, made, chosen, opening, left, tables>>

\* MySQL answers with an error; a transaction is rolled back.
Fail(r) ==
    /\ Connected(r)
    /\ End(r, ErrorAt(r))
    /\ GiveBack([conn EXCEPT ![r] = "none"])
    /\ tx' = tx \ {r}
    /\ UNCHANGED <<req, ctx, uid, made, chosen, opening, left, tables>>

\* The timer of WithTimeout, or the client goes: it hears no more of the request.
EndContext(r) ==
    /\ r \in Impatient
    /\ at[r] # 0 /\ answer[r] = "none"
    /\ ctx' = [ctx EXCEPT ![r] = "done"]
    /\ answer' = [answer EXCEPT ![r] = "error"]
    /\ UNCHANGED <<req, at, uid, made, chosen, pool, left, tables>>

\* The goroutine notices: between two statements, when its connection is as
\* good as before; in the middle of one, or of a dial, when the connection is
\* closed, and an INSERT may still take effect; or while it waits.
Cancel(r) ==
    /\ at[r] # 0 /\ ctx[r] = "done"
    /\ at' = [at EXCEPT ![r] = 0]
    /\ LET c == [conn EXCEPT ![r] = "none"]
           inUse == conn[r] = "held" \/ r \in tx
       IN  \/ /\ inUse
              /\ GiveBack(c) /\ tx' = tx \ {r}
              /\ UNCHANGED <<opening, left, sessions>>
           \/ /\ inUse \/ conn[r] = "dialing"
              /\ Close(c, tx \ {r})
              /\ left' = left + 1
              /\ sessions' \in
                   {sessions} \cup
                   IF Statement(r) = "create" /\ inUse
                   THEN {Append(sessions, [user |-> req[r].user, live |-> TRUE])}
                   ELSE {}
           \/ /\ ~inUse /\ conn[r] # "dialing"
              /\ conn' = c
              /\ UNCHANGED <<tx, idle, opening, left, sessions>>
    /\ UNCHANGED <<req, ctx, uid, made, chosen, answer, orders, planned>>

\* 24 hours after a login.
Expire(id) ==
    /\ sessions[id].live
    /\ sessions' = [sessions EXCEPT ![id].live = FALSE]
    /\ UNCHANGED <<request, pool, left, orders, planned>>

Step(r) == Take(r) \/ Dial(r) \/ Execute(r) \/ Fail(r) \/ Cancel(r)

ServerNext ==
    \/ \E r \in Requests : Step(r) \/ EndContext(r)
    \/ \E id \in DOMAIN sessions : Expire(id)
    \/ Open \/ Drop
=============================================================================

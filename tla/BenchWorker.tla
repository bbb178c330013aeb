------------------------------ MODULE BenchWorker ------------------------------
(***************************************************************************)
(* The load-test workers of the benchmarker: each polls one Azure storage  *)
(* queue, keeps the status of every request in a table that doubles as a   *)
(* lock per team, runs k6 against the team's VM, registers the score and   *)
(* deletes the message.                                                    *)
(*                                                                         *)
(* The queue delivers a message again when its visibility timeout runs out *)
(* before it is deleted, and only the pop receipt of the last delivery     *)
(* deletes it.  Every call to a service may fail and a worker may crash;   *)
(* a constant bounds how many such faults a behaviour has, another says    *)
(* which kinds.  The queue's limit of seven days on a message is left out. *)
(***************************************************************************)
EXTENDS Integers, FiniteSets

CONSTANTS
    Workers,
    Messages,   \* the load test requests; a message carries one LoadTestID
    Malformed,  \* the messages that are not JSON
    Team,       \* the team of each message
    NoMessage,
    Refuses,    \* does the server refuse a team that has a request in progress?
    Faults,     \* the kinds of faults that may happen
    MaxFaults   \* bound: how many happen in a behaviour

FaultKinds == {"dequeue", "stop", "mark", "check", "lock", "test", "score", "lostAck", "dlq",
               "fail", "release", "delete", "crash", "lapse", "hour"}

\* A test that outlives its mark, or a copy that is not made.
Stretching == {"mark", "lapse", "hour"}
Grave == Stretching \cup {"dlq"}

ASSUME WorkerAssumption ==
    /\ Malformed \subseteq Messages
    /\ NoMessage \notin Messages
    /\ Refuses \in BOOLEAN
    /\ Faults \subseteq FaultKinds
    /\ MaxFaults \in Nat

VARIABLES
    queue,      \* each message: "absent", "visible", "hidden" or "deleted"
    holder,     \* the worker with the last pop receipt of a message
    row,        \* the Status of each request in the table
    recent,     \* the requests whose UpdatedAt is less than an hour old
    scores,     \* registrations of each request's score, two meaning several
    dlq,        \* the requests copied to the dead letter queue
    pc,         \* where each worker stands
    msg,        \* the message it processes
    unread,     \* the rows its duplicate check has not read yet
    faults,     \* faults that may still happen
    \* history, read by no action
    mishaps     \* the kinds of Grave faults that happened

table == <<row, recent>>
outside == <<scores, dlq>>
chance == <<faults, mishaps>>
vars == <<queue, holder, row, recent, scores, dlq, pc, msg, unread, faults, mishaps>>

Pc == {"down", "poll", "discard", "mark", "check", "lock", "test", "post", "release",
       "dlq", "fail", "delete"}

TypeOK ==
    /\ queue \in [Messages -> {"absent", "visible", "hidden", "deleted"}]
    /\ holder \in [Messages -> Workers \cup {NoMessage}]
    /\ row \in [Messages -> {"none", "waiting", "running", "finished", "failed"}]
    /\ recent \subseteq Messages
    /\ scores \in [Messages -> 0 .. 2]
    /\ dlq \subseteq Messages
    /\ pc \in [Workers -> Pc]
    /\ msg \in [Workers -> Messages \cup {NoMessage}]
    /\ unread \in [Workers -> SUBSET Messages]
    /\ faults \in 0 .. MaxFaults
    /\ mishaps \subseteq Grave

Init ==
    /\ queue = [m \in Messages |-> "absent"]
    /\ holder = [m \in Messages |-> NoMessage]
    /\ row = [m \in Messages |-> "none"]
    /\ recent = {}
    /\ scores = [m \in Messages |-> 0]
    /\ dlq = {}
    /\ pc = [w \in Workers |-> "poll"]
    /\ msg = [w \in Workers |-> NoMessage]
    /\ unread = [w \in Workers |-> {}]
    /\ faults = MaxFaults
    /\ mishaps = {}

Fault(kind) == /\ kind \in Faults
               /\ faults > 0
               /\ faults' = faults - 1
               /\ mishaps' = mishaps \cup ({kind} \cap Grave)
NoFault == UNCHANGED chance

At(w, from) == pc[w] = from
Goto(w, to) == pc' = [pc EXCEPT ![w] = to]

\* Bug: a request takes its own row for another one.
TeamMatesAndSelf(m) == {x \in Messages : Team[x] = Team[m]}

TeamMates(m) == {x \in Messages \ {m} : Team[x] = Team[m]}

\* What the duplicate check filters for.
InProgress(m) == m \in recent /\ row[m] \in {"waiting", "running"}

----------------------------------------------------------------------------
(* The server that takes the requests, the queue and the clock *)

\* The team asks for a load test.
Submit(m) ==
    /\ queue[m] = "absent"
    /\ Refuses => \A x \in TeamMates(m) : ~ InProgress(x)
    /\ queue' = [queue EXCEPT ![m] = "visible"]
    /\ IF m \in Malformed THEN UNCHANGED table
       ELSE row' = [row EXCEPT ![m] = "waiting"] /\ recent' = recent \cup {m}
    /\ UNCHANGED <<holder, outside, pc, msg, unread, chance>>

\* The visibility timeout of 300 seconds, either after the worker gave the
\* message up or while it still works on it.
Reappear(m) ==
    /\ queue[m] = "hidden"
    /\ IF \E w \in Workers : msg[w] = m THEN Fault("lapse") ELSE NoFault
    /\ queue' = [queue EXCEPT ![m] = "visible"]
    /\ UNCHANGED <<holder, table, outside, pc, msg, unread>>

\* An hour without an update of the row.
HourPasses(m) ==
    /\ InProgress(m)
    /\ Fault("hour")
    /\ recent' = recent \ {m}
    /\ UNCHANGED <<queue, holder, row, outside, pc, msg, unread>>

----------------------------------------------------------------------------
(* A worker *)

Return(w) == Goto(w, "poll") /\ msg' = [msg EXCEPT ![w] = NoMessage]

Dequeue(w) ==
    /\ At(w, "poll")
    /\ \E m \in Messages :
         /\ queue[m] = "visible"
         /\ queue' = [queue EXCEPT ![m] = "hidden"]
         /\ holder' = [holder EXCEPT ![m] = w]
         /\ msg' = [msg EXCEPT ![w] = m]
         /\ Goto(w, IF m \in Malformed THEN "discard" ELSE "mark")
    /\ UNCHANGED <<table, outside, unread, chance>>

\* The answer of the queue is lost: the message is hidden, its receipt too.
LoseDequeue(w) ==
    /\ At(w, "poll")
    /\ \E m \in Messages :
         /\ queue[m] = "visible"
         /\ queue' = [queue EXCEPT ![m] = "hidden"]
         /\ holder' = [holder EXCEPT ![m] = NoMessage]
    /\ Fault("dequeue")
    /\ UNCHANGED <<table, outside, pc, msg, unread>>

SetRow(m, status) == /\ row' = [row EXCEPT ![m] = status]
                     /\ recent' = recent \cup {m}

\* A status written to the table; an error is logged and goes no further.
Write(w, status, kind, next) ==
    /\ Goto(w, next)
    /\ \/ NoFault /\ SetRow(msg[w], status)
       \/ Fault(kind) /\ UNCHANGED table

\* Bug: the request is not marked before the duplicate check.
MarkNothing(w) ==
    /\ At(w, "mark")
    /\ Goto(w, "check")
    /\ unread' = [unread EXCEPT ![w] = TeamMates(msg[w])]
    /\ UNCHANGED <<queue, holder, table, outside, msg, chance>>

\* An error is a warning only.
MarkRunning(w) ==
    /\ At(w, "mark")
    /\ Write(w, "running", "mark", "check")
    /\ unread' = [unread EXCEPT ![w] = TeamMates(msg[w])]
    /\ UNCHANGED <<queue, holder, outside, msg>>

\* The rows of the team come page by page, one row each.  The worker skips the
\* message, which stays in the queue, when it meets another request's row.
CheckDuplicate(w) ==
    /\ At(w, "check")
    /\ \/ /\ \E x \in unread[w] :
               IF InProgress(x) THEN Return(w) /\ UNCHANGED unread
               ELSE /\ unread' = [unread EXCEPT ![w] = @ \ {x}]
                    /\ UNCHANGED <<pc, msg>>
          /\ NoFault
       \/ unread[w] = {} /\ Goto(w, "lock") /\ NoFault /\ UNCHANGED <<msg, unread>>
       \/ Fault("check") /\ Return(w) /\ UNCHANGED unread
    /\ UNCHANGED <<queue, holder, table, outside>>

AcquireLock(w) ==
    /\ At(w, "lock")
    /\ \/ NoFault /\ SetRow(msg[w], "running") /\ Goto(w, "test") /\ UNCHANGED msg
       \/ Fault("lock") /\ Return(w) /\ UNCHANGED table
    /\ UNCHANGED <<queue, holder, outside, unread>>

\* Bug: a failed test is marked without a copy in the dead letter queue.
TestUnsaved(w) ==
    /\ At(w, "test")
    /\ \/ NoFault /\ Goto(w, "post")
       \/ Fault("test") /\ Goto(w, "fail")
    /\ UNCHANGED <<queue, holder, table, outside, msg, unread>>

\* k6 runs against the VM; a score that cannot be computed counts as zero.
RunLoadTest(w) ==
    /\ At(w, "test")
    /\ \/ NoFault /\ Goto(w, "post")
       \/ Fault("test") /\ Goto(w, "dlq")
    /\ UNCHANGED <<queue, holder, table, outside, msg, unread>>

\* Bug: a failed registration goes unnoticed.
PostUnchecked(w) ==
    /\ At(w, "post")
    /\ \/ NoFault /\ scores' = [scores EXCEPT ![msg[w]] = 1]
       \/ Fault("score") /\ UNCHANGED scores
    /\ Goto(w, "release")
    /\ UNCHANGED <<queue, holder, table, dlq, msg, unread>>

\* The registration fails, or its answer is lost or late.
PostScore(w) ==
    LET registered == scores' = [scores EXCEPT ![msg[w]] = IF @ = 2 THEN 2 ELSE @ + 1]
    IN  /\ At(w, "post")
        /\ \/ NoFault /\ registered /\ Goto(w, "release")
           \/ Fault("score") /\ UNCHANGED scores /\ Goto(w, "dlq")
           \/ Fault("lostAck") /\ registered /\ Goto(w, "dlq")
        /\ UNCHANGED <<queue, holder, table, dlq, msg, unread>>

\* The error of releaseLock is dropped.
ReleaseLock(w) ==
    /\ At(w, "release")
    /\ Write(w, "finished", "release", "delete")
    /\ UNCHANGED <<queue, holder, outside, msg, unread>>

\* markFailedAndDrop goes on after every error.
SendToDLQ(w) ==
    /\ At(w, "dlq")
    /\ \/ NoFault /\ dlq' = dlq \cup {msg[w]}
       \/ Fault("dlq") /\ UNCHANGED dlq
    /\ Goto(w, "fail")
    /\ UNCHANGED <<queue, holder, table, scores, msg, unread>>

\* Bug: a status the polling script does not know.
MarkError(w) ==
    /\ At(w, "fail")
    /\ Write(w, "error", "fail", "delete")
    /\ UNCHANGED <<queue, holder, outside, msg, unread>>

MarkFailed(w) ==
    /\ At(w, "fail")
    /\ Write(w, "failed", "fail", "delete")
    /\ UNCHANGED <<queue, holder, outside, msg, unread>>

\* A receipt that is not the last one is refused.
DeleteMessage(w) ==
    /\ pc[w] \in {"delete", "discard"}
    /\ \/ /\ NoFault
          /\ queue' = IF holder[msg[w]] = w THEN [queue EXCEPT ![msg[w]] = "deleted"]
                      ELSE queue
       \/ Fault("delete") /\ UNCHANGED queue
    /\ Return(w)
    /\ UNCHANGED <<holder, table, outside, unread>>

\* A signal: pollQueue looks for it between two messages.
Stop(w) ==
    /\ At(w, "poll")
    /\ Fault("stop")
    /\ Goto(w, "down")
    /\ UNCHANGED <<queue, holder, table, outside, msg, unread>>

\* The container dies in the middle of a message; k6 dies with it.
Crash(w) ==
    /\ pc[w] \notin {"down", "poll"}
    /\ Fault("crash")
    /\ Goto(w, "down") /\ msg' = [msg EXCEPT ![w] = NoMessage]
    /\ UNCHANGED <<queue, holder, table, outside, unread>>

\* The container is restarted, until initializeClients finds what it needs.
Boot(w) ==
    /\ At(w, "down")
    /\ Goto(w, "poll")
    /\ UNCHANGED <<queue, holder, table, outside, msg, unread, chance>>

Process(w) ==
    \/ MarkRunning(w) \/ CheckDuplicate(w) \/ AcquireLock(w) \/ RunLoadTest(w)
    \/ PostScore(w) \/ ReleaseLock(w) \/ SendToDLQ(w) \/ MarkFailed(w)
    \/ DeleteMessage(w)

Next ==
    \/ \E m \in Messages : Submit(m) \/ Reappear(m) \/ HourPasses(m)
    \/ \E w \in Workers : Dequeue(w) \/ LoseDequeue(w) \/ Process(w)
                          \/ Stop(w) \/ Crash(w) \/ Boot(w)

Spec == Init /\ [][Next]_vars

\* The loop of pollQueue runs for ever, k6 ends, a container is restarted, the
\* queue redelivers.
Fairness ==
    /\ \A w \in Workers : WF_vars(Boot(w)) /\ WF_vars(Dequeue(w)) /\ WF_vars(Process(w))
    /\ \A m \in Messages : WF_vars(Reappear(m))

FairSpec == Spec /\ Fairness

----------------------------------------------------------------------------

\* The VM of a team gets one load test at a time: marking the request before the
\* duplicate check makes the requests of a team exclude each other, through
\* crashes, redeliveries and failing calls.  It takes the mark: no mark that
\* failed, no redelivery during a test, no request that stays without an update
\* for an hour.
OneTestPerTeam ==
    \A v, w \in Workers :
      mishaps \cap Stretching = {} /\ v # w /\ At(v, "test") /\ At(w, "test") => Team[msg[v]] # Team[msg[w]]

\* get_test_status.sh fetches the score once it reads 'finished': by then the
\* score is registered, through every fault, redelivery and second run.
FinishedIsScored ==
    \A m \in Messages : row[m] = "finished" => scores[m] > 0

\* A request leaves the queue only with a score or a copy in the dead letter
\* queue, unless that queue itself failed: no other faults lose it.
NoRequestIsLost ==
    \A m \in Messages \ Malformed :
      queue[m] = "deleted" /\ "dlq" \notin mishaps => scores[m] > 0 \/ m \in dlq

\* A request the script polls for comes to an end.
RequestsSettle ==
    \A m \in Messages :
      row[m] \in {"waiting", "running"} ~> row[m] \in {"finished", "failed"}

\* get_test_status.sh prints that the load test is running while it reads
\* 'running': a request without a score that is marked so gets its test, or ends.
RunningIsTested ==
    \A m \in Messages :
      row[m] = "running" /\ scores[m] = 0
        ~> \/ \E w \in Workers : msg[w] = m /\ At(w, "test")
           \/ row[m] \in {"finished", "failed"}
=============================================================================

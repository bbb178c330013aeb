--------------------------- MODULE BenchWorker_proofs ---------------------------
(***************************************************************************)
(* Theorems about BenchWorker: no score is missing, no request is lost and *)
(* the requests of a team exclude each other, for any number of workers,   *)
(* requests and faults.                                                    *)
(***************************************************************************)
EXTENDS BenchWorker, TLAPS

\* A worker has a message exactly while it processes one.
Carrying ==
    \A w \in Workers :
        IF pc[w] \in {"down", "poll"} THEN msg[w] = NoMessage ELSE msg[w] \in Messages

TypeInv == TypeOK /\ Carrying

\* What a worker that is about to let go of a request has done for it.
Custody ==
    \A w \in Workers :
        /\ pc[w] = "discard" => msg[w] \in Malformed
        /\ pc[w] = "release" => scores[msg[w]] > 0
        /\ pc[w] = "fail" /\ "dlq" \notin mishaps => msg[w] \in dlq
        /\ pc[w] = "delete" /\ "dlq" \notin mishaps =>
               scores[msg[w]] > 0 \/ msg[w] \in dlq

LossInv == TypeInv /\ Custody /\ FinishedIsScored /\ NoRequestIsLost

\* A worker looks out for the request x, or is past it.
Passed(w, x) == pc[w] \in {"lock", "test"} \/ x \notin unread[w]

Bidding(w) == pc[w] \in {"check", "lock", "test"}

\* As long as nothing stretched a test: a message that is processed is hidden
\* and nobody else's, a worker that looks for duplicates shows its own request
\* in progress, and of two requests of a team one at most is past the other.
Exclusion ==
    mishaps \cap Stretching = {} =>
      \A w \in Workers :
        /\ msg[w] # NoMessage => queue[msg[w]] = "hidden"
        /\ Bidding(w) => InProgress(msg[w])
        /\ \A v \in Workers \ {w} :
             /\ msg[w] # NoMessage => msg[v] # msg[w]
             /\ Bidding(v) /\ Bidding(w) /\ Team[msg[v]] = Team[msg[w]]
                  => ~(Passed(v, msg[w]) /\ Passed(w, msg[v]))

ExclusionInv == TypeInv /\ Exclusion

USE WorkerAssumption
-----------------------------------------------------------------------------
\* A fault uses up one of the faults left; mishaps are never forgotten.
LEMMA FaultType ==
    ASSUME TypeInv, NEW kind, Fault(kind) \/ NoFault
    PROVE  /\ faults' \in 0 .. MaxFaults
           /\ mishaps' \subseteq Grave
           /\ mishaps \subseteq mishaps'
BY DEF TypeInv, TypeOK, Fault, NoFault, chance

\* The program starts well typed, every worker polling without a message.
LEMMA InitTypes == Init => TypeInv
BY DEF Init, TypeInv, TypeOK, Carrying, Pc

\* Every step of the server, the queue, the clock and the workers keeps the
\* types, and keeps a message with exactly the workers that process one.
LEMMA Types ==
    ASSUME TypeInv, [Next]_vars
    PROVE  TypeInv'
<1> USE DEF TypeInv, TypeOK, Carrying, Pc, table, outside, At, Goto
<1>1. ASSUME NEW m \in Messages, Submit(m) PROVE TypeInv'
  BY <1>1 DEF Submit, chance
<1>2. ASSUME NEW m \in Messages, Reappear(m) PROVE TypeInv'
  BY <1>2, FaultType DEF Reappear
<1>3. ASSUME NEW m \in Messages, HourPasses(m) PROVE TypeInv'
  BY <1>3, FaultType DEF HourPasses
<1>4. ASSUME NEW w \in Workers, Dequeue(w) PROVE TypeInv'
  BY <1>4 DEF Dequeue, chance
<1>5. ASSUME NEW w \in Workers, LoseDequeue(w) PROVE TypeInv'
  BY <1>5, FaultType DEF LoseDequeue
<1>6. ASSUME NEW w \in Workers, Stop(w) \/ Crash(w) PROVE TypeInv'
  BY <1>6, FaultType DEF Stop, Crash
<1>7. ASSUME NEW w \in Workers, Boot(w) PROVE TypeInv'
  BY <1>7 DEF Boot, chance
<1>8. ASSUME NEW w \in Workers, MarkRunning(w) PROVE TypeInv'
  BY <1>8, FaultType DEF MarkRunning, Write, SetRow, TeamMates
<1>9. ASSUME NEW w \in Workers, CheckDuplicate(w) PROVE TypeInv'
  BY <1>9, FaultType DEF CheckDuplicate, Return
<1>10. ASSUME NEW w \in Workers, AcquireLock(w) PROVE TypeInv'
  BY <1>10, FaultType DEF AcquireLock, SetRow, Return
<1>11. ASSUME NEW w \in Workers, RunLoadTest(w) PROVE TypeInv'
  BY <1>11, FaultType DEF RunLoadTest
<1>12. ASSUME NEW w \in Workers, PostScore(w) PROVE TypeInv'
  BY <1>12, FaultType DEF PostScore
<1>13. ASSUME NEW w \in Workers, ReleaseLock(w) PROVE TypeInv'
  BY <1>13, FaultType DEF ReleaseLock, Write, SetRow
<1>14. ASSUME NEW w \in Workers, SendToDLQ(w) PROVE TypeInv'
  BY <1>14, FaultType DEF SendToDLQ
<1>15. ASSUME NEW w \in Workers, MarkFailed(w) PROVE TypeInv'
  BY <1>15, FaultType DEF MarkFailed, Write, SetRow
<1>16. ASSUME NEW w \in Workers, DeleteMessage(w) PROVE TypeInv'
  BY <1>16, FaultType DEF DeleteMessage, Return
<1>17. CASE UNCHANGED vars
  BY <1>17 DEF vars
<1> QED
  BY <1>1, <1>2, <1>3, <1>4, <1>5, <1>6, <1>7, <1>8, <1>9, <1>10, <1>11,
     <1>12, <1>13, <1>14, <1>15, <1>16, <1>17 DEF Next, Process

\* The rows, the queue and the workers only take the values the code knows, for
\* any number of workers, requests and faults.
THEOREM TypeCorrect == Spec => []TypeOK
<1>1. TypeInv => TypeOK
  BY DEF TypeInv
<1> QED
  BY InitTypes, Types, <1>1, PTL DEF Spec
-----------------------------------------------------------------------------
\* Every step keeps what a worker owes the request it is about to let go of: a
\* score before the row says finished, a copy or a score before the deletion.
LEMMA Losses ==
    ASSUME LossInv, [Next]_vars
    PROVE  LossInv'
<1>0. TypeInv /\ TypeInv'
  BY Types DEF LossInv
<1> USE DEF LossInv, Custody, FinishedIsScored, NoRequestIsLost, TypeInv, TypeOK,
       Carrying, Pc, table, outside, chance, At, Goto, Fault, NoFault
<1>1. ASSUME NEW m \in Messages, Submit(m) PROVE LossInv'
  BY <1>1, <1>0 DEF Submit, chance
<1>2. ASSUME NEW m \in Messages, Reappear(m) PROVE LossInv'
  BY <1>2, <1>0 DEF Reappear
<1>3. ASSUME NEW m \in Messages, HourPasses(m) PROVE LossInv'
  BY <1>3, <1>0 DEF HourPasses
<1>4. ASSUME NEW w \in Workers, Dequeue(w) PROVE LossInv'
  BY <1>4, <1>0 DEF Dequeue, chance
<1>5. ASSUME NEW w \in Workers, LoseDequeue(w) PROVE LossInv'
  BY <1>5, <1>0 DEF LoseDequeue
<1>6. ASSUME NEW w \in Workers, Stop(w) \/ Crash(w) PROVE LossInv'
  BY <1>6, <1>0 DEF Stop, Crash
<1>7. ASSUME NEW w \in Workers, Boot(w) PROVE LossInv'
  BY <1>7, <1>0 DEF Boot
<1>8. ASSUME NEW w \in Workers, MarkRunning(w) PROVE LossInv'
  BY <1>8, <1>0 DEF MarkRunning, Write, SetRow, TeamMates
<1>9. ASSUME NEW w \in Workers, CheckDuplicate(w) PROVE LossInv'
  BY <1>9, <1>0 DEF CheckDuplicate, Return
<1>10. ASSUME NEW w \in Workers, AcquireLock(w) PROVE LossInv'
  BY <1>10, <1>0 DEF AcquireLock, SetRow, Return
<1>11. ASSUME NEW w \in Workers, RunLoadTest(w) PROVE LossInv'
  BY <1>11, <1>0 DEF RunLoadTest
<1>12. ASSUME NEW w \in Workers, PostScore(w) PROVE LossInv'
  BY <1>12, <1>0 DEF PostScore
<1>13. ASSUME NEW w \in Workers, ReleaseLock(w) PROVE LossInv'
  BY <1>13, <1>0 DEF ReleaseLock, Write, SetRow
<1>14. ASSUME NEW w \in Workers, SendToDLQ(w) PROVE LossInv'
  <2>1. dlq \subseteq dlq' /\ ("dlq" \notin mishaps' => msg[w] \in dlq' /\ "dlq" \notin mishaps)
    BY <1>14, <1>0 DEF SendToDLQ, Grave
  <2>2. UNCHANGED <<queue, row, scores, msg>> /\ pc' = [pc EXCEPT ![w] = "fail"]
    BY <1>14 DEF SendToDLQ
  <2>3. Custody'
    BY <1>0, <2>1, <2>2
  <2>4. FinishedIsScored' /\ NoRequestIsLost'
    BY <1>0, <2>1, <2>2
  <2> QED
    BY <1>0, <2>3, <2>4
<1>15. ASSUME NEW w \in Workers, MarkFailed(w) PROVE LossInv'
  BY <1>15, <1>0 DEF MarkFailed, Write, SetRow
<1>16. ASSUME NEW w \in Workers, DeleteMessage(w) PROVE LossInv'
  BY <1>16, <1>0 DEF DeleteMessage, Return
<1>17. CASE UNCHANGED vars
  BY <1>17 DEF vars
<1> HIDE DEF LossInv, Custody, FinishedIsScored, NoRequestIsLost, TypeInv, TypeOK,
       Carrying, Pc, table, outside, chance, At, Goto, Fault, NoFault
<1> QED
  BY <1>1, <1>2, <1>3, <1>4, <1>5, <1>6, <1>7, <1>8, <1>9, <1>10, <1>11,
     <1>12, <1>13, <1>14, <1>15, <1>16, <1>17 DEF Next, Process

\* Nothing is finished or deleted at the start.
LEMMA InitLosses == Init => LossInv
BY InitTypes DEF Init, LossInv, Custody, FinishedIsScored, NoRequestIsLost

\* The row says finished, which the script polls for, only when the score is
\* registered: through failing calls, crashes, redeliveries and second runs.
THEOREM ScoreBeforeFinish == Spec => []FinishedIsScored
<1>1. LossInv => FinishedIsScored
  BY DEF LossInv
<1> QED
  BY InitLosses, Losses, <1>1, PTL DEF Spec

\* deleteMessage takes a request from the queue only when it has a score or a
\* copy in the dead letter queue, unless that queue failed.
THEOREM RequestsAreKept == Spec => []NoRequestIsLost
<1>1. LossInv => NoRequestIsLost
  BY DEF LossInv
<1> QED
  BY InitLosses, Losses, <1>1, PTL DEF Spec
-----------------------------------------------------------------------------
\* Every step keeps the exclusion: a worker that marks its request has all other
\* rows of the team still to read, and no reading steps over the row of another
\* bidder, which is in progress from the mark to the end of the test.
LEMMA Excludes ==
    ASSUME ExclusionInv, [Next]_vars
    PROVE  ExclusionInv'
<1>0. TypeInv /\ TypeInv'
  BY Types DEF ExclusionInv
<1> USE DEF ExclusionInv, Exclusion, Bidding, Passed, InProgress, TypeInv, TypeOK,
       Carrying, Stretching, Grave, table, outside, chance, At, Goto, Fault, NoFault
<1>1. ASSUME NEW m \in Messages, Submit(m) PROVE ExclusionInv'
  BY <1>1, <1>0 DEF Submit, chance
<1>2. ASSUME NEW m \in Messages, Reappear(m) PROVE ExclusionInv'
  BY <1>2, <1>0 DEF Reappear
<1>3. ASSUME NEW m \in Messages, HourPasses(m) PROVE ExclusionInv'
  BY <1>3, <1>0 DEF HourPasses
<1>4. ASSUME NEW w \in Workers, Dequeue(w) PROVE ExclusionInv'
  BY <1>4, <1>0 DEF Dequeue, chance
<1>5. ASSUME NEW w \in Workers, LoseDequeue(w) PROVE ExclusionInv'
  BY <1>5, <1>0 DEF LoseDequeue
<1>6. ASSUME NEW w \in Workers, Stop(w) \/ Crash(w) PROVE ExclusionInv'
  BY <1>6, <1>0 DEF Stop, Crash
<1>7. ASSUME NEW w \in Workers, Boot(w) PROVE ExclusionInv'
  BY <1>7, <1>0 DEF Boot
<1>8. ASSUME NEW w \in Workers, MarkRunning(w) PROVE ExclusionInv'
  BY <1>8, <1>0 DEF MarkRunning, Write, SetRow, TeamMates
<1>9. ASSUME NEW w \in Workers, CheckDuplicate(w) PROVE ExclusionInv'
  BY <1>9, <1>0 DEF CheckDuplicate, Return
<1>10. ASSUME NEW w \in Workers, AcquireLock(w) PROVE ExclusionInv'
  BY <1>10, <1>0 DEF AcquireLock, SetRow, Return
<1>11. ASSUME NEW w \in Workers, RunLoadTest(w) PROVE ExclusionInv'
  BY <1>11, <1>0 DEF RunLoadTest
<1>12. ASSUME NEW w \in Workers, PostScore(w) PROVE ExclusionInv'
  BY <1>12, <1>0 DEF PostScore
<1>13. ASSUME NEW w \in Workers, ReleaseLock(w) PROVE ExclusionInv'
  BY <1>13, <1>0 DEF ReleaseLock, Write, SetRow
<1>14. ASSUME NEW w \in Workers, SendToDLQ(w) PROVE ExclusionInv'
  BY <1>14, <1>0 DEF SendToDLQ
<1>15. ASSUME NEW w \in Workers, MarkFailed(w) PROVE ExclusionInv'
  BY <1>15, <1>0 DEF MarkFailed, Write, SetRow
<1>16. ASSUME NEW w \in Workers, DeleteMessage(w) PROVE ExclusionInv'
  BY <1>16, <1>0 DEF DeleteMessage, Return
<1>17. CASE UNCHANGED vars
  BY <1>17 DEF vars
<1> HIDE DEF ExclusionInv, Exclusion, Bidding, Passed, InProgress, TypeInv, TypeOK,
       Carrying, Stretching, Grave, table, outside, chance, At, Goto, Fault, NoFault
<1> QED
  BY <1>1, <1>2, <1>3, <1>4, <1>5, <1>6, <1>7, <1>8, <1>9, <1>10, <1>11,
     <1>12, <1>13, <1>14, <1>15, <1>16, <1>17 DEF Next, Process

\* Two workers never load the VM of one team at a time, for any number of
\* workers, while marks are written and no test outlives its mark.
THEOREM TestsExclude == Spec => []OneTestPerTeam
<1>1. Init => ExclusionInv
  BY InitTypes DEF Init, ExclusionInv, Exclusion, Bidding
<1>2. ExclusionInv => OneTestPerTeam
  BY DEF ExclusionInv, Exclusion, OneTestPerTeam, Bidding, Passed, At
<1> QED
  BY Excludes, <1>1, <1>2, PTL DEF Spec
=============================================================================

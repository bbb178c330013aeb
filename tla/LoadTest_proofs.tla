---------------------------- MODULE LoadTest_proofs ----------------------------
(***************************************************************************)
(* What holds of the backend and its clients for every number of clients,  *)
(* requests and connections: the pool neither exceeds its bound nor        *)
(* forgets who waits, requests are served as the user that logged in, and  *)
(* every point of the score was earned.                                    *)
(***************************************************************************)
EXTENDS LoadTest, Backend_proofs

USE BackendAssumption, QuestionAssumption, LoadTestAssumption

\* The login whose answer gave client c the session id.
Earned(c, id) ==
    \E l \in Sent : /\ req[l].kind = "login" /\ req[l].right /\ req[l].client = c
                    /\ answer[l] = "ok" /\ made[l] = id

\* A client sends no session but one that an answer gave it, and hears of its own
\* requests only.
CookieInv ==
    /\ cookie \in [Clients -> 0 .. Len(sessions)]
    /\ \A c \in Clients : cookie[c] # 0 => Earned(c, cookie[c])
    /\ \A r \in Sent : req[r].cookie # 0 => Earned(req[r].client, req[r].cookie)
    /\ awaits \in [Clients -> SUBSET Requests]
    /\ \A c \in Clients : \A r \in awaits[c] : r \in Sent /\ req[r].client = c
    /\ ServedAsLoggedIn

\* A virtual user waits for at most one answer, that of its step.
JourneyInv ==
    /\ step \in [VirtualUsers -> Nat]
    /\ \A c \in VirtualUsers :
         /\ step[c] \in 1 .. Len(Script[c])
         /\ \A r \in awaits[c] : awaits[c] = {r} /\ req[r].kind = Script[c][step[c]]

\* The answers that are worth a point, heard by virtual users, ...
Heard == {r \in Sent : /\ req[r].client \in VirtualUsers /\ answer[r] = "ok"
                       /\ req[r].kind \in {"order", "history", "plan"}
                       /\ r \notin awaits[req[r].client]}

\* ... and the robots that had a plan but did not count it yet.
Planning == {c \in VirtualUsers : Script[c] = RobotScenario /\ step[c] = 2}

Score == counts["bench_uj_success_count"] + counts["bench_robot_success_count"]

ScoreInv ==
    /\ counts \in [Metrics -> Nat]
    /\ IsFiniteSet(Planning)
    /\ Score + Cardinality(Planning) <= Cardinality(Heard)

IInv == ServerInv /\ DataInv /\ CookieInv /\ JourneyInv /\ ScoreInv
-----------------------------------------------------------------------------
(* What a step leaves of the requests that were sent *)

\* An answer that is success stays, and so does the session that it gave; a user is
\* found by the session that was sent.
Keeps ==
    /\ Len(sessions) <= Len(sessions') /\ DOMAIN sessions' = 1 .. Len(sessions')
    /\ \A r \in Sent : req'[r] = req[r] /\ (uid'[r] = uid[r] \/ FindsUser(r))
    /\ \A r \in Sent : answer[r] = "ok" => answer'[r] = "ok" /\ made'[r] = made[r]
    /\ \A r \in Requests \ Sent : uid'[r] = Nobody

\* The server keeps what it answered.
LEMMA ProgressKeepsAnswers ==
    ASSUME ServerInv, DataInv, Progress
    PROVE  Keeps
<1>1. \A r \in Requests : answer[r] = "ok" => at[r] = 0
  BY DEF ServerInv, Places, Placed
<1>2. \A r \in Requests \ Sent : at[r] = 0 /\ uid[r] = Nobody
  BY DEF ServerInv, Places, Placed, DataInv, Sent
<1>3. Sent \subseteq Requests
  BY DEF Sent
<1>4. \A r \in Requests : answer[r] = "ok" => answer'[r] = "ok" /\ made'[r] = made[r]
  BY <1>1 DEF Progress, Answering, Tables, MakesSession
<1>5. \A r \in Requests : uid'[r] = uid[r] \/ FindsUser(r)
  BY DEF Progress, Tables
<1>6. \A r \in Requests \ Sent : uid'[r] = Nobody
  BY <1>2, <1>5 DEF FindsUser
<1>7. Len(sessions) <= Len(sessions') /\ DOMAIN sessions' = 1 .. Len(sessions')
  BY DEF Progress, Tables
<1> QED
  BY <1>3, <1>4, <1>5, <1>6, <1>7 DEF Keeps, Progress

\* A request that arrives is new.
LEMMA ReceiveKeepsAnswers ==
    ASSUME ServerInv, DataInv, NEW r \in Requests, NEW q \in Question, Receive(r, q)
    PROVE  /\ Keeps /\ r \notin Sent /\ Sent' = Sent \cup {r} /\ req'[r] = q
           /\ answer'[r] # "ok" /\ orders' = orders /\ sessions' = sessions
<1>1. /\ UNCHANGED <<uid, made, chosen, sessions, orders, planned>> /\ req[r] = NoRequest
      /\ req' = [req EXCEPT ![r] = q]
      /\ \/ answer' = [answer EXCEPT ![r] = "refused"] /\ at' = at
         \/ at' = [at EXCEPT ![r] = 1] /\ answer' = answer
  BY DEF Receive, tables
<1>2. /\ req \in [Requests -> Question \cup {NoRequest}] /\ answer \in [Requests -> Answers]
      /\ answer[r] = "none"
  BY <1>1 DEF ServerInv, ServerTypes, Places, Placed
<1>3. /\ \A x \in Requests \ {r} : req'[x] = req[x] /\ answer'[x] = answer[x]
      /\ req'[r] = q /\ answer'[r] # "ok"
  BY <1>1, <1>2
<1>4. r \notin Sent /\ Sent' = Sent \cup {r} /\ Sent \subseteq Requests
  BY <1>1, <1>3 DEF Sent
<1>5. Len(sessions) \in Nat /\ DOMAIN sessions = 1 .. Len(sessions)
      /\ \A x \in Requests \ Sent : uid[x] = Nobody
  BY DEF DataInv, Sent
<1> QED
  BY <1>1, <1>3, <1>4, <1>5 DEF Keeps

\* A step of the clients alone keeps everything.
LEMMA StutterKeepsAnswers ==
    ASSUME DataInv, UNCHANGED serverVars
    PROVE  Keeps
<1>1. Len(sessions) \in Nat /\ DOMAIN sessions = 1 .. Len(sessions)
      /\ \A x \in Requests \ Sent : uid[x] = Nobody
  BY DEF DataInv, Sent
<1> QED
  BY <1>1 DEF Keeps, serverVars

\* What a client earned it keeps.
LEMMA EarnedStays ==
    ASSUME Keeps, NEW c, NEW id, Earned(c, id)
    PROVE  Earned(c, id)'
<1>1. PICK l \in Sent : /\ req[l].kind = "login" /\ req[l].right /\ req[l].client = c
                        /\ answer[l] = "ok" /\ made[l] = id
  BY DEF Earned
<1>2. req'[l] = req[l] /\ answer'[l] = "ok" /\ made'[l] = made[l] /\ l \in Sent'
  BY <1>1 DEF Keeps, Sent
<1> QED
  BY <1>1, <1>2 DEF Earned

\* Who finds a user by a session is the user that logged in.
LEMMA StillServed ==
    ASSUME DataInv, CookieInv, Keeps, Sent \subseteq Requests
    PROVE  ServedAsLoggedIn'
<1> SUFFICES ASSUME NEW r \in Requests, uid'[r] # Nobody
             PROVE  \E l \in Sent' :
                       /\ req'[l].kind = "login" /\ req'[l].right /\ answer'[l] = "ok"
                       /\ req'[l].client = req'[r].client /\ req'[l].user = uid'[r]
  BY DEF ServedAsLoggedIn
<1>1. r \in Sent /\ req'[r] = req[r]
  BY DEF Keeps
<1>2. \E l \in Sent : /\ req[l].kind = "login" /\ req[l].right /\ answer[l] = "ok"
                      /\ req[l].client = req[r].client /\ req[l].user = uid'[r]
  <2>1. CASE uid'[r] = uid[r]
    BY <2>1 DEF CookieInv, ServedAsLoggedIn
  <2>2. CASE FindsUser(r)
    <3> DEFINE id == req[r].cookie
    <3>1. id \in DOMAIN sessions /\ uid'[r] = sessions[id].user
      BY <2>2 DEF FindsUser
    <3>2. id # 0
      BY <3>1 DEF DataInv
    <3>3. Earned(req[r].client, id)
      BY <1>1, <3>2 DEF CookieInv
    <3>4. PICK l \in Sent : /\ req[l].kind = "login" /\ req[l].right
                            /\ req[l].client = req[r].client
                            /\ answer[l] = "ok" /\ made[l] = id
      BY <3>3 DEF Earned
    <3>5. sessions[id].user = req[l].user
      BY <3>2, <3>4 DEF DataInv, Credentials
    <3> QED
      BY <3>1, <3>4, <3>5
  <2> QED
    BY <1>1, <2>1, <2>2 DEF Keeps
<1>3. \A l \in Sent : req'[l] = req[l] /\ l \in Sent' /\ (answer[l] = "ok" => answer'[l] = "ok")
  BY DEF Keeps, Sent
<1> QED
  BY <1>1, <1>2, <1>3

\* A client keeps its cookie, drops it, or takes one that it earned.
LEMMA CookiesKeep ==
    ASSUME DataInv, CookieInv, Keeps,
           cookie' \in [Clients -> Nat],
           \A c \in Clients : \/ cookie'[c] \in {0, cookie[c]}
                              \/ cookie'[c] <= Len(sessions) /\ Earned(c, cookie'[c]),
           \A r \in Sent' \ Sent : /\ req'[r].client \in Clients
                                   /\ req'[r].cookie = cookie[req'[r].client],
           awaits' \in [Clients -> SUBSET Requests],
           \A c \in Clients : \A r \in awaits'[c] : r \in Sent' /\ req'[r].client = c
    PROVE  CookieInv'
<1>1. \A c, id : Earned(c, id) => Earned(c, id)'
  BY EarnedStays
<1>2. cookie' \in [Clients -> 0 .. Len(sessions')]
  <2>1. ASSUME NEW c \in Clients PROVE cookie'[c] \in 0 .. Len(sessions')
    <3>1. cookie[c] \in 0 .. Len(sessions) /\ Len(sessions) \in Nat
      BY DEF CookieInv, DataInv
    <3>2. cookie'[c] \in Nat /\ cookie'[c] <= Len(sessions)
      BY <3>1
    <3>3. Len(sessions) <= Len(sessions')
      BY DEF Keeps
    <3>4. Len(sessions') \in Int
      BY <3>1 DEF Keeps
    <3> QED
      BY <3>1, <3>2, <3>3, <3>4
  <2> QED
    BY <2>1
<1>3. ASSUME NEW c \in Clients, cookie'[c] # 0 PROVE (Earned(c, cookie[c]))'
  <2>1. PICK id : id = cookie'[c]
    OBVIOUS
  <2>2. Earned(c, id)
    BY <1>3, <2>1 DEF CookieInv
  <2>3. Earned(c, id)'
    BY <1>1, <2>2
  <2> QED
    BY <2>1, <2>3 DEF Earned
<1>4. ASSUME NEW r \in Sent', req'[r].cookie # 0
      PROVE  (Earned(req[r].client, req[r].cookie))'
  <2>1. PICK c, id : c = req'[r].client /\ id = req'[r].cookie
    OBVIOUS
  <2>2. Earned(c, id)
    BY <1>4, <2>1 DEF CookieInv, Keeps
  <2>3. Earned(c, id)'
    BY <1>1, <2>2
  <2> QED
    BY <2>1, <2>3 DEF Earned
<1>5. ServedAsLoggedIn'
  BY StillServed DEF Sent
<1> QED
  BY <1>2, <1>3, <1>4, <1>5 DEF CookieInv
-----------------------------------------------------------------------------
(* The score *)

\* There are finitely many answers.
LEMMA HeardFinite ==
    /\ IsFiniteSet(Heard) /\ Cardinality(Heard) \in Nat
    /\ IsFiniteSet(Heard') /\ Cardinality(Heard') \in Nat
<1>1. Heard \subseteq Requests
  BY DEF Heard, Sent
<1>2. Heard' \subseteq Requests
  BY DEF Heard, Sent
<1> QED
  BY <1>1, <1>2, RequestsFinite, FS_Subset, FS_CardinalityType

\* An answer that was heard stays so: only new requests are waited for.
LEMMA HeardGrows ==
    ASSUME Keeps, \A c \in Clients : awaits'[c] \subseteq awaits[c] \cup (Requests \ Sent)
    PROVE  Heard \subseteq Heard' /\ Cardinality(Heard) <= Cardinality(Heard')
<1>1. ASSUME NEW r \in Heard PROVE r \in Heard'
  <2>1. /\ r \in Sent /\ req'[r] = req[r] /\ answer'[r] = "ok"
        /\ req[r].client \in VirtualUsers /\ req[r].kind \in {"order", "history", "plan"}
        /\ r \notin awaits[req[r].client]
    BY DEF Keeps, Heard
  <2>2. r \in Sent'
    BY <2>1 DEF Sent
  <2>3. req[r].client \in Clients
    BY <2>1 DEF VirtualUsers
  <2>4. r \notin awaits'[req[r].client]
    BY <2>1, <2>3
  <2> QED
    BY <2>1, <2>2, <2>4 DEF Heard
<1>2. Heard \subseteq Heard'
  BY <1>1
<1> QED
  BY <1>2, HeardFinite, FS_Subset

\* While nothing is counted, the score is still earned.
LEMMA CountsStay ==
    ASSUME ScoreInv, UNCHANGED <<counts, step>>, Cardinality(Heard) <= Cardinality(Heard')
    PROVE  ScoreInv'
<1>1. Planning' = Planning /\ Score' = Score
  BY DEF Planning, Score
<1>2. Score \in Nat /\ Cardinality(Planning) \in Nat
  BY FS_CardinalityType DEF ScoreInv, Score, Metrics
<1>3. Score + Cardinality(Planning) <= Cardinality(Heard')
  BY <1>2, HeardFinite DEF ScoreInv
<1> QED
  BY <1>1, <1>3 DEF ScoreInv

\* Requests that are not a virtual user's leave the journeys alone.
LEMMA JourneysStay ==
    ASSUME JourneyInv, CookieInv, Keeps, UNCHANGED <<step, awaits>>
    PROVE  JourneyInv'
<1> SUFFICES ASSUME NEW c \in VirtualUsers, NEW r \in awaits[c]
             PROVE  req'[r].kind = Script[c][step[c]]
  BY DEF JourneyInv
<1>1. c \in Clients
  BY DEF VirtualUsers
<1>2. r \in Sent
  BY <1>1 DEF CookieInv
<1> QED
  BY <1>2 DEF JourneyInv, Keeps

\* A step of the server.
LEMMA ServerKeeps ==
    ASSUME IInv, ServerNext, UNCHANGED clientVars
    PROVE  IInv'
<1>1. Progress /\ UNCHANGED <<cookie, awaits, step, counts>>
  BY ServerProgresses DEF IInv, clientVars
<1>2. ServerInv' /\ DataInv' /\ Keeps
  BY <1>1, ServerStepKeeps, ProgressKeeps, ProgressKeepsAnswers DEF IInv
<1>3. Sent' = Sent
  BY <1>1 DEF Progress, Sent
<1>4. CookieInv'
  <2>1. cookie' \in [Clients -> Nat]
    BY <1>1 DEF IInv, CookieInv, DataInv
  <2>2. \A c \in Clients : cookie'[c] \in {0, cookie[c]}
    BY <1>1
  <2>3. \A c \in Clients : \A r \in awaits'[c] : r \in Sent' /\ req'[r].client = c
    BY <1>1, <1>3 DEF IInv, CookieInv, Progress
  <2>4. awaits' \in [Clients -> SUBSET Requests]
    BY <1>1 DEF IInv, CookieInv
  <2> QED
    BY <1>2, <1>3, <2>1, <2>2, <2>3, <2>4, CookiesKeep DEF IInv
<1>5. JourneyInv'
  BY <1>1, <1>2, JourneysStay DEF IInv
<1>6. Cardinality(Heard) <= Cardinality(Heard')
  BY <1>1, <1>2, HeardGrows
<1>7. ScoreInv'
  BY <1>1, <1>6, CountsStay DEF IInv
<1> QED
  BY <1>2, <1>4, <1>5, <1>7 DEF IInv

\* A client sends a request; a virtual user waits for no other.
LEMMA SendKeeps ==
    ASSUME IInv, NEW c \in Clients, NEW q \in Question, q.client = c, q.cookie = cookie[c],
           c \in VirtualUsers => awaits[c] = {} /\ q.kind = Script[c][step[c]],
           Send(c, q)
    PROVE  IInv'
<1>1. PICK r \in Requests : Receive(r, q) /\ awaits' = [awaits EXCEPT ![c] = @ \cup {r}]
  BY DEF Send
<1>2. UNCHANGED <<cookie, step, counts>>
  BY DEF Send
<1>3. /\ Keeps /\ r \notin Sent /\ Sent' = Sent \cup {r} /\ req'[r] = q
      /\ answer'[r] # "ok" /\ orders' = orders /\ sessions' = sessions
  BY <1>1, ReceiveKeepsAnswers DEF IInv
<1>4. ServerInv' /\ DataInv'
  BY <1>1, ReceiveKeeps, ReceiveKeepsData DEF IInv
<1>5. awaits \in [Clients -> SUBSET Requests]
  BY DEF IInv, CookieInv
<1>6. /\ awaits' \in [Clients -> SUBSET Requests] /\ awaits'[c] = awaits[c] \cup {r}
      /\ \A d \in Clients \ {c} : awaits'[d] = awaits[d]
  BY <1>1, <1>5
<1>7. CookieInv'
  <2>1. cookie' \in [Clients -> Nat]
    BY <1>2 DEF IInv, CookieInv, DataInv
  <2>2. \A d \in Clients : cookie'[d] \in {0, cookie[d]}
    BY <1>2
  <2>3. ASSUME NEW d \in Clients, NEW x \in awaits'[d] PROVE x \in Sent' /\ req'[x].client = d
    <3>1. CASE x \in awaits[d]
      <4>1. x \in Sent /\ req[x].client = d
        BY <3>1 DEF IInv, CookieInv
      <4> QED
        BY <1>3, <4>1 DEF Keeps
    <3>2. CASE x \notin awaits[d]
      BY <1>3, <1>6, <3>2
    <3> QED
      BY <3>1, <3>2
  <2>4. \A x \in Sent' \ Sent : req'[x].client \in Clients
                                /\ req'[x].cookie = cookie[req'[x].client]
    BY <1>3
  <2> QED
    BY <1>3, <1>6, <2>1, <2>2, <2>3, <2>4, CookiesKeep DEF IInv
<1>8. JourneyInv'
  <2> SUFFICES ASSUME NEW d \in VirtualUsers, NEW x \in awaits'[d]
               PROVE  awaits'[d] = {x} /\ req'[x].kind = Script[d][step[d]]
    BY <1>2 DEF IInv, JourneyInv
  <2>1. d \in Clients
    BY DEF VirtualUsers
  <2>2. CASE d = c
    BY <1>3, <1>6, <2>2
  <2>3. CASE d # c
    <3>1. awaits'[d] = awaits[d] /\ x \in Sent
      BY <1>6, <2>1, <2>3 DEF IInv, CookieInv
    <3> QED
      BY <1>3, <3>1 DEF IInv, JourneyInv, Keeps
  <2> QED
    BY <2>2, <2>3
<1>9. Cardinality(Heard) <= Cardinality(Heard')
  <2>1. \A d \in Clients : awaits'[d] \subseteq awaits[d] \cup (Requests \ Sent)
    BY <1>3, <1>6
  <2> QED
    BY <1>3, <2>1, HeardGrows
<1>10. ScoreInv'
  BY <1>2, <1>9, CountsStay DEF IInv
<1> QED
  BY <1>4, <1>7, <1>8, <1>10 DEF IInv

\* An answer is heard, whatever becomes of the journey.
LEMMA HearKeeps ==
    ASSUME IInv, UNCHANGED serverVars, NEW c \in Clients, NEW r \in awaits[c],
           awaits' = [awaits EXCEPT ![c] = @ \ {r}],
           cookie' = [cookie EXCEPT ![c] = Cookie(c, r)]
    PROVE  /\ ServerInv' /\ DataInv' /\ CookieInv' /\ Keeps
           /\ Cardinality(Heard) <= Cardinality(Heard')
<1>1. ServerInv' /\ DataInv' /\ Keeps
  BY ServerInvStutter, DataInvStutter, StutterKeepsAnswers DEF IInv
<1>2. /\ awaits \in [Clients -> SUBSET Requests] /\ r \in Sent /\ req[r].client = c
      /\ cookie \in [Clients -> 0 .. Len(sessions)]
  BY DEF IInv, CookieInv
<1>3. Len(sessions) \in Nat /\ made[r] \in 0 .. Len(sessions)
  BY <1>2 DEF IInv, DataInv, Sent
<1>4. Cookie(c, r) \in 0 .. Len(sessions)
  BY <1>2, <1>3 DEF Cookie
<1>5. cookie'[c] = Cookie(c, r) /\ \A d \in Clients \ {c} : cookie'[d] = cookie[d]
  BY <1>2
<1>6. cookie' \in [Clients -> Nat]
  BY <1>2, <1>3, <1>4
<1>7. ASSUME NEW d \in Clients
      PROVE  \/ cookie'[d] \in {0, cookie[d]}
             \/ cookie'[d] <= Len(sessions) /\ Earned(d, cookie'[d])
  <2>1. CASE d # c \/ ~(req[r].kind = "login" /\ answer[r] = "ok")
    BY <1>5, <2>1 DEF Cookie
  <2>2. CASE d = c /\ req[r].kind = "login" /\ answer[r] = "ok" /\ made[r] # 0
    <3>1. cookie'[d] = made[r] /\ req[r].right
      BY <1>2, <1>5, <2>2 DEF Cookie, IInv, DataInv, Credentials, Sent
    <3> QED
      BY <1>2, <1>3, <2>2, <3>1 DEF Earned
  <2>3. CASE d = c /\ req[r].kind = "login" /\ answer[r] = "ok" /\ made[r] = 0
    BY <1>5, <2>3 DEF Cookie
  <2> QED
    BY <2>1, <2>2, <2>3
<1>8. Sent' = Sent /\ req' = req
  BY DEF serverVars, Sent
<1>9. awaits' \in [Clients -> SUBSET Requests] /\ \A d \in Clients : awaits'[d] \subseteq awaits[d]
  BY <1>2
<1>10. \A d \in Clients : \A x \in awaits'[d] : x \in Sent' /\ req'[x].client = d
  BY <1>8, <1>9 DEF IInv, CookieInv
<1>11. CookieInv'
  BY <1>1, <1>6, <1>7, <1>8, <1>9, <1>10, CookiesKeep DEF IInv
<1>12. Cardinality(Heard) <= Cardinality(Heard')
  BY <1>1, <1>9, HeardGrows
<1> QED
  BY <1>1, <1>11, <1>12

\* The journeys: a step is within its script; the last of a virtual user is worth a
\* point itself, the robot's is after a plan.
LEMMA Journeys ==
    ASSUME NEW c \in VirtualUsers, NEW i \in 1 .. Len(Script[c])
    PROVE  LET last == i = Len(Script[c])
           IN  /\ Len(Script[c]) \in {2, 3}
               /\ ~last => i + 1 \in 1 .. Len(Script[c])
               /\ Script[c] = RobotScenario =>
                     /\ last <=> i = 2
                     /\ ~last => i + 1 = 2
                     /\ i = 1 => Script[c][i] = "plan"
               /\ Script[c] # RobotScenario /\ last => Script[c][i] \in {"order", "history"}
<1> USE DEF UserJourney, UserJourney2, RobotScenario
<1>1. CASE Script[c] = UserJourney
  BY <1>1
<1>2. CASE Script[c] = UserJourney2
  BY <1>2
<1>3. CASE Script[c] = RobotScenario
  BY <1>3
<1> QED
  BY <1>1, <1>2, <1>3

\* The counter of a journey adds one to the score.
LEMMA Counted ==
    ASSUME ScoreInv, NEW c, counts' = [counts EXCEPT ![Counter(c)] = @ + 1]
    PROVE  counts' \in [Metrics -> Nat] /\ Score' = Score + 1
<1>1. Counter(c) \in Metrics /\ counts \in [Metrics -> Nat]
  BY DEF Counter, Metrics, ScoreInv
<1>2. counts' \in [Metrics -> Nat]
  BY <1>1
<1>3. counts'[Counter(c)] = counts[Counter(c)] + 1
      /\ \A m \in Metrics \ {Counter(c)} : counts'[m] = counts[m]
  BY <1>1
<1>4. CASE Counter(c) = "bench_uj_success_count"
  BY <1>1, <1>3, <1>4 DEF Score, Metrics
<1>5. CASE Counter(c) = "bench_robot_success_count"
  BY <1>1, <1>3, <1>5 DEF Score, Metrics
<1> QED
  BY <1>1, <1>2, <1>4, <1>5 DEF Metrics

\* A virtual user hears an answer: the point for the last step of its journey was
\* earned with this answer, or, by a robot, with the plan before.
LEMMA HearAnswerKeeps ==
    ASSUME IInv, NEW c \in VirtualUsers, HearAnswer(c)
    PROVE  IInv'
<1> DEFINE last == step[c] = Len(Script[c])
<1>1. PICK r \in awaits[c] :
         /\ awaits' = [awaits EXCEPT ![c] = @ \ {r}]
         /\ cookie' = [cookie EXCEPT ![c] = Cookie(c, r)]
         /\ step' = [step EXCEPT ![c] = IF last \/ ~Passed(c, r) THEN 1 ELSE @ + 1]
         /\ counts' = IF last /\ Passed(c, r)
                      THEN [counts EXCEPT ![Counter(c)] = @ + 1] ELSE counts
  BY DEF HearAnswer
<1>2. UNCHANGED serverVars
  BY DEF HearAnswer
<1>3. c \in Clients
  BY DEF VirtualUsers
<1>4. /\ ServerInv' /\ DataInv' /\ CookieInv' /\ Keeps
      /\ Cardinality(Heard) <= Cardinality(Heard')
  BY <1>1, <1>2, <1>3, HearKeeps
<1>5. /\ awaits \in [Clients -> SUBSET Requests] /\ r \in Sent /\ req[r].client = c
      /\ awaits[c] = {r} /\ req[r].kind = Script[c][step[c]]
      /\ step \in [VirtualUsers -> Nat] /\ step[c] \in 1 .. Len(Script[c])
  BY <1>3 DEF IInv, CookieInv, JourneyInv
<1>6. /\ awaits'[c] = {} /\ \A d \in Clients \ {c} : awaits'[d] = awaits[d]
      /\ \A d \in VirtualUsers \ {c} : step'[d] = step[d]
      /\ step'[c] = IF last \/ ~Passed(c, r) THEN 1 ELSE step[c] + 1
      /\ step' \in [VirtualUsers -> Nat]
  BY <1>1, <1>3, <1>5
<1>7. /\ Len(Script[c]) \in {2, 3}
      /\ ~last => step[c] + 1 \in 1 .. Len(Script[c])
      /\ Script[c] = RobotScenario => /\ last <=> step[c] = 2
                                      /\ ~last => step[c] + 1 = 2
                                      /\ step[c] = 1 => req[r].kind = "plan"
      /\ Script[c] # RobotScenario /\ last => req[r].kind \in {"order", "history"}
  BY <1>5, Journeys
<1> HIDE DEF last
<1>8. JourneyInv'
  <2>1. step'[c] \in 1 .. Len(Script[c])
    BY <1>6, <1>7
  <2>2. ASSUME NEW d \in VirtualUsers, NEW x \in awaits'[d]
        PROVE  awaits'[d] = {x} /\ req'[x].kind = Script[d][step'[d]]
    <3>1. d # c /\ d \in Clients
      BY <1>6, <2>2 DEF VirtualUsers
    <3>2. awaits'[d] = awaits[d] /\ step'[d] = step[d] /\ req' = req
      BY <1>2, <1>6, <3>1 DEF serverVars
    <3> QED
      BY <3>2 DEF IInv, JourneyInv
  <2>3. \A d \in VirtualUsers : step'[d] \in 1 .. Len(Script[d])
    BY <1>6, <2>1 DEF IInv, JourneyInv
  <2> QED
    BY <1>6, <2>2, <2>3 DEF JourneyInv
\* An answer worth a point is heard now and was not before.
<1>9. ASSUME answer[r] = "ok", req[r].kind \in {"order", "history", "plan"}
      PROVE  Cardinality(Heard) + 1 <= Cardinality(Heard')
  <2>1. \A d \in Clients : awaits'[d] \subseteq awaits[d] \cup (Requests \ Sent)
    BY <1>6
  <2>2. Heard \subseteq Heard'
    BY <1>4, <2>1, HeardGrows
  <2>3. r \notin Heard
    BY <1>5 DEF Heard
  <2>4. r \in Heard'
    BY <1>2, <1>5, <1>6, <1>9 DEF Heard, Sent, serverVars
  <2>5. Heard \cup {r} \subseteq Heard'
    BY <2>2, <2>4
  <2>6. Cardinality(Heard \cup {r}) = Cardinality(Heard) + 1
    BY <2>3, HeardFinite, FS_AddElement
  <2>7. Cardinality(Heard \cup {r}) <= Cardinality(Heard')
    BY <2>5, HeardFinite, FS_Subset
  <2> QED
    BY <2>6, <2>7
<1>10. /\ counts \in [Metrics -> Nat] /\ IsFiniteSet(Planning)
       /\ Score + Cardinality(Planning) <= Cardinality(Heard)
       /\ Score \in Nat /\ Cardinality(Planning) \in Nat
       /\ Cardinality(Heard) \in Nat /\ Cardinality(Heard') \in Nat
  BY HeardFinite, FS_CardinalityType DEF IInv, ScoreInv, Score, Metrics
<1>11. CASE ~(last /\ Passed(c, r))
  <2>1. counts' = counts /\ Score' = Score
    BY <1>1, <1>11 DEF Score
  <2>2. CASE Script[c] = RobotScenario /\ ~last /\ Passed(c, r)
    <3>1. step[c] = 1 /\ step'[c] = 2
      BY <1>5, <1>6, <1>7, <2>2
    <3>2. Planning' = Planning \cup {c} /\ c \notin Planning
      BY <1>6, <2>2, <3>1 DEF Planning
    <3>3. IsFiniteSet(Planning') /\ Cardinality(Planning') = Cardinality(Planning) + 1
      BY <1>10, <3>2, FS_AddElement
    <3>4. Cardinality(Heard) + 1 <= Cardinality(Heard')
      BY <1>7, <1>9, <2>2, <3>1 DEF Passed
    <3>5. Score' + Cardinality(Planning') <= Cardinality(Heard')
      BY <1>10, <2>1, <3>3, <3>4
    <3> QED
      BY <1>4, <1>8, <1>10, <2>1, <3>3, <3>5 DEF IInv, ScoreInv
  <2>3. CASE ~(Script[c] = RobotScenario /\ ~last /\ Passed(c, r))
    <3>1. Planning' \subseteq Planning
      BY <1>6, <2>3, <1>11 DEF Planning
    <3>2. IsFiniteSet(Planning') /\ Cardinality(Planning') <= Cardinality(Planning)
      BY <1>10, <3>1, FS_Subset
    <3>3. Cardinality(Planning') \in Nat
      BY <3>2, FS_CardinalityType
    <3>4. Score' + Cardinality(Planning') <= Cardinality(Heard')
      BY <1>4, <1>10, <2>1, <3>2, <3>3
    <3> QED
      BY <1>4, <1>8, <1>10, <2>1, <3>2, <3>4 DEF IInv, ScoreInv
  <2> QED
    BY <2>2, <2>3
<1>12. CASE last /\ Passed(c, r)
  <2>1. counts' = [counts EXCEPT ![Counter(c)] = @ + 1] /\ step'[c] = 1
    BY <1>1, <1>6, <1>12
  <2>2. counts' \in [Metrics -> Nat] /\ Score' = Score + 1
    BY <2>1, Counted DEF IInv
  <2>3. CASE Script[c] = RobotScenario
    <3>1. c \in Planning /\ Planning' = Planning \ {c}
      BY <1>6, <1>7, <1>12, <2>1, <2>3 DEF Planning
    <3>2. IsFiniteSet(Planning') /\ Cardinality(Planning') = Cardinality(Planning) - 1
      BY <1>10, <3>1, FS_RemoveElement
    <3>3. Score' + Cardinality(Planning') <= Cardinality(Heard')
      BY <1>4, <1>10, <2>2, <3>2
    <3> QED
      BY <1>4, <1>8, <2>2, <3>2, <3>3 DEF IInv, ScoreInv
  <2>4. CASE Script[c] # RobotScenario
    <3>1. Planning' = Planning
      BY <1>6, <2>4 DEF Planning
    <3>2. Cardinality(Heard) + 1 <= Cardinality(Heard')
      BY <1>7, <1>9, <1>12, <2>4 DEF Passed
    <3>3. Score' + Cardinality(Planning') <= Cardinality(Heard')
      BY <1>10, <2>2, <3>1, <3>2
    <3> QED
      BY <1>4, <1>8, <1>10, <2>2, <3>1, <3>3 DEF IInv, ScoreInv
  <2> QED
    BY <2>3, <2>4
<1> QED
  BY <1>11, <1>12

\* What the clients send is a question.
LEMMA Questions ==
    ASSUME CookieInv, NEW c \in Clients, NEW kind \in Kinds
    PROVE  /\ Asks(c, kind) \in Question /\ Asks(c, kind).client = c
           /\ Asks(c, kind).kind = kind /\ Asks(c, kind).cookie = cookie[c]
           /\ \A u \in Users, right \in BOOLEAN :
                LET q == LogsIn(c, u, right)
                IN  /\ q \in Question /\ q.client = c /\ q.kind = "login"
                    /\ q.cookie = cookie[c]
           /\ \A f \in Files \cup {"missing"} :
                LET q == [Asks(c, kind) EXCEPT !.path = f]
                IN  q \in Question /\ q.client = c /\ q.cookie = cookie[c]
<1>1. cookie[c] \in Nat
  <2>1. cookie[c] \in 0 .. Len(sessions)
    BY DEF CookieInv
  <2> QED
    BY <2>1
<1>2. "login" \in Kinds
  BY StatementsOf
<1> QED
  BY <1>1, <1>2 DEF Asks, LogsIn, Question

\* A browser sends what its pages ask for, hears an answer or drops its cookie.
LEMMA BrowseKeeps ==
    ASSUME IInv, NEW b \in Browsers, Browse(b)
    PROVE  IInv'
<1>1. b \in Clients /\ b \notin VirtualUsers
  BY DEF VirtualUsers
<1>2. ASSUME NEW q \in Question, q.client = b, q.cookie = cookie[b], Send(b, q)
      PROVE  IInv'
  BY <1>1, <1>2, SendKeeps
<1>3. CASE SignIn(b)
  <2>1. PICK u \in Users, right \in BOOLEAN : Send(b, LogsIn(b, u, right))
    BY <1>3 DEF SignIn
  <2>2. "login" \in Kinds
    BY StatementsOf
  <2> QED
    BY <1>1, <1>2, <2>1, <2>2, Questions DEF IInv
<1>4. CASE \E kind \in Pages : Send(b, Asks(b, kind))
  <2>1. PICK kind \in Pages : Send(b, Asks(b, kind))
    BY <1>4
  <2>2. kind \in Kinds
    BY StatementsOf
  <2> QED
    BY <1>1, <1>2, <2>1, <2>2, Questions DEF IInv
<1>5. CASE \E f \in Files \cup {"missing"} : Send(b, [Asks(b, "image") EXCEPT !.path = f])
  <2>1. PICK f \in Files \cup {"missing"} : Send(b, [Asks(b, "image") EXCEPT !.path = f])
    BY <1>5
  <2>2. "image" \in Kinds
    BY StatementsOf
  <2>3. LET q == [Asks(b, "image") EXCEPT !.path = f]
        IN  q \in Question /\ q.client = b /\ q.cookie = cookie[b]
    BY <1>1, <2>2, Questions DEF IInv
  <2> QED
    BY <1>2, <2>1, <2>3
<1>6. CASE Load(b)
  <2>1. PICK r \in awaits[b] : /\ awaits' = [awaits EXCEPT ![b] = @ \ {r}]
                               /\ cookie' = [cookie EXCEPT ![b] = Cookie(b, r)]
    BY <1>6 DEF Load
  <2>2. UNCHANGED serverVars /\ UNCHANGED <<step, counts>>
    BY <1>6 DEF Load
  <2>3. /\ ServerInv' /\ DataInv' /\ CookieInv' /\ Keeps
        /\ Cardinality(Heard) <= Cardinality(Heard')
    BY <1>1, <2>1, <2>2, HearKeeps
  <2>4. \A c \in VirtualUsers : awaits'[c] = awaits[c]
    BY <1>1, <2>1
  <2>5. JourneyInv'
    BY <2>2, <2>4 DEF IInv, JourneyInv, serverVars
  <2>6. ScoreInv'
    BY <2>2, <2>3, CountsStay DEF IInv
  <2> QED
    BY <2>3, <2>5, <2>6 DEF IInv
<1>7. CASE Logout(b)
  <2>1. cookie' = [cookie EXCEPT ![b] = 0] /\ UNCHANGED <<serverVars, awaits, step, counts>>
    BY <1>7 DEF Logout
  <2>2. ServerInv' /\ DataInv' /\ Keeps
    BY <2>1, ServerInvStutter, DataInvStutter, StutterKeepsAnswers DEF IInv
  <2>3. cookie \in [Clients -> Nat]
    BY DEF IInv, CookieInv, DataInv
  <2>4. cookie' \in [Clients -> Nat] /\ \A c \in Clients : cookie'[c] \in {0, cookie[c]}
    BY <2>1, <2>3
  <2>5. Sent' = Sent /\ awaits' = awaits /\ req' = req
    BY <2>1 DEF serverVars, Sent
  <2>6. /\ awaits' \in [Clients -> SUBSET Requests]
        /\ \A c \in Clients : \A r \in awaits'[c] : r \in Sent' /\ req'[r].client = c
    BY <2>5 DEF IInv, CookieInv
  <2>7. CookieInv'
    BY <2>2, <2>4, <2>5, <2>6, CookiesKeep DEF IInv
  <2>8. JourneyInv'
    BY <2>1, <2>2, JourneysStay DEF IInv
  <2>9. Cardinality(Heard) <= Cardinality(Heard')
    BY <2>2, <2>5, HeardGrows
  <2>10. ScoreInv'
    BY <2>1, <2>9, CountsStay DEF IInv
  <2> QED
    BY <2>2, <2>7, <2>8, <2>10 DEF IInv
<1> QED
  BY <1>3, <1>4, <1>5, <1>6, <1>7 DEF Browse, Visit
-----------------------------------------------------------------------------
(* The invariant and what follows from it *)

\* Nothing was sent at the start.
LEMMA IInvInit == Init => IInv
<1> SUFFICES ASSUME Init PROVE IInv
  OBVIOUS
<1>1. ServerInv /\ DataInv
  BY ServerInvInit, DataInvInit DEF Init
<1>2. Sent = {}
  BY DEF Init, ServerInit, Sent
<1>3. CookieInv
  <2>1. sessions = <<>> /\ uid = [r \in Requests |-> Nobody]
    BY DEF Init, ServerInit
  <2>2. cookie \in [Clients -> 0 .. Len(sessions)] /\ \A c \in Clients : cookie[c] = 0
    BY <2>1 DEF Init
  <2>3. awaits = [c \in Clients |-> {}]
    BY DEF Init
  <2> QED
    BY <1>2, <2>1, <2>2, <2>3 DEF CookieInv, ServedAsLoggedIn
<1>4. JourneyInv
  <2>1. ASSUME NEW c \in VirtualUsers PROVE 1 \in 1 .. Len(Script[c]) /\ awaits[c] = {}
    <3>1. Len(Script[c]) \in {2, 3}
      BY DEF UserJourney, UserJourney2, RobotScenario
    <3>2. c \in Clients
      BY DEF VirtualUsers
    <3>3. awaits[c] = {}
      BY <3>2 DEF Init
    <3> QED
      BY <3>1, <3>3
  <2>2. step \in [VirtualUsers -> Nat] /\ \A c \in VirtualUsers : step[c] = 1
    BY DEF Init
  <2> QED
    BY <2>1, <2>2 DEF JourneyInv
<1>5. ScoreInv
  <2>1. Planning = {}
    BY DEF Init, Planning
  <2>2. IsFiniteSet({}) /\ Cardinality({}) = 0
    BY FS_EmptySet
  <2>3. counts \in [Metrics -> Nat] /\ Score = 0
    BY DEF Init, Metrics, Score
  <2> QED
    BY <2>1, <2>2, <2>3, HeardFinite DEF ScoreInv
<1> QED
  BY <1>1, <1>3, <1>4, <1>5 DEF IInv

\* Every step of the server and of the clients keeps it.
LEMMA IInvStep == IInv /\ [Next]_vars => IInv'
<1> SUFFICES ASSUME IInv, [Next]_vars PROVE IInv'
  OBVIOUS
<1>1. CASE ServerNext /\ UNCHANGED clientVars
  BY <1>1, ServerKeeps
<1>2. ASSUME NEW c \in VirtualUsers, Proceed(c) PROVE IInv'
  <2> DEFINE kind == Script[c][step[c]]
  <2>1. awaits[c] = {} /\ c \in Clients
    BY <1>2 DEF Proceed, VirtualUsers
  <2>2. ASSUME NEW q \in Question, q.client = c, q.cookie = cookie[c], q.kind = kind, Send(c, q)
        PROVE  IInv'
    BY <2>1, <2>2, SendKeeps
  <2>3. kind \in Kinds
    <3>1. step[c] \in 1 .. Len(Script[c])
      BY DEF IInv, JourneyInv
    <3> QED
      BY <3>1, StatementsOf DEF UserJourney, UserJourney2, RobotScenario
  <2>4. CASE kind = "login"
    <3>1. PICK u \in Users : Send(c, LogsIn(c, u, TRUE))
      BY <1>2, <2>4 DEF Proceed
    <3>2. LET q == LogsIn(c, u, TRUE)
          IN  /\ q \in Question /\ q.client = c /\ q.kind = "login"
              /\ q.cookie = cookie[c]
      BY <2>1, <2>3, Questions DEF IInv
    <3> QED
      BY <2>1, <2>2, <2>4, <3>1, <3>2
  <2>5. CASE kind # "login"
    <3>1. Send(c, Asks(c, kind))
      BY <1>2, <2>5 DEF Proceed
    <3> QED
      BY <2>1, <2>2, <2>3, <3>1, Questions DEF IInv
  <2> QED
    BY <2>4, <2>5
<1>3. ASSUME NEW c \in VirtualUsers, HearAnswer(c) PROVE IInv'
  BY <1>3, HearAnswerKeeps
<1>4. ASSUME NEW b \in Browsers, Browse(b) PROVE IInv'
  BY <1>4, BrowseKeeps
<1>5. CASE UNCHANGED vars
  <2>1. UNCHANGED serverVars /\ UNCHANGED <<cookie, awaits, step, counts>>
    BY <1>5 DEF vars, serverVars
  <2> QED
    BY <2>1, ServerInvStutter, DataInvStutter
       DEF IInv, CookieInv, JourneyInv, ScoreInv, Score, Planning, Heard, Earned, Sent,
           ServedAsLoggedIn, serverVars
<1> QED
  BY <1>1, <1>2, <1>3, <1>4, <1>5 DEF Next

\* The invariant holds in every state of every behaviour.
THEOREM Invariant == Spec => []IInv
BY IInvInit, IInvStep, PTL DEF Spec

\* What the types of the variables rest on: a goroutine stands at a statement of its
\* endpoint, a session was created, a planned order is committed.
THEOREM TypeCorrect == Spec => []TypeOK
<1>1. IInv => TypeOK
  <2> SUFFICES ASSUME IInv PROVE TypeOK
    OBVIOUS
  <2>1. \A r \in Sent : req[r].client \in Clients /\ req[r].kind \in Kinds
    BY DEF IInv, ServerInv, ServerTypes, Question, Sent
  <2>2. \A r \in Requests : /\ at[r] # 0 => r \in Sent /\ at[r] \in DOMAIN Statements[req[r].kind]
                            /\ r \in tx => r \in Sent
                            /\ r \in orders => r \in Sent
    BY DEF IInv, ServerInv, Places, Placed, DataInv, Sent
  <2>3. awaits \in [Clients -> SUBSET Sent]
    BY DEF IInv, CookieInv
  <2> QED
    BY <2>1, <2>2, <2>3 DEF IInv, ServerInv, ServerTypes, Answers, Conns, ConnStates, DataInv,
       CookieInv, ScoreInv, TypeOK, Session
<1> QED
  BY <1>1, Invariant, PTL

\* Whatever timed out, failed or was refused, the pool keeps its bound and an ended
\* goroutine has given its connection back (database/sql and ExecTx).
THEOREM PoolIsKept == Spec => []ConnectionsComeBack
<1>1. IInv => ConnectionsComeBack
  BY DEF IInv, ServerInv, PoolInv, Places, Placed, ConnectionsComeBack
<1> QED
  BY <1>1, Invariant, PTL

\* Nobody waits for a connection beside a free one, nor for one that nobody is
\* opening, dialing or about to give back.
THEOREM NobodyWaitsForNothing == Spec => []WaitsEnd
<1>1. IInv => WaitsEnd
  <2> SUFFICES ASSUME IInv, Having(conn, "waiting") # {}
               PROVE  /\ idle = 0
                      /\ \/ opening > 0
                         \/ \E r \in Requests : conn[r] = "dialing" \/ Connected(r)
    BY DEF WaitsEnd
  <2>1. ServerTypes /\ idle = 0 /\ opening \in Nat /\ tx \in SUBSET Requests
    BY DEF IInv, ServerInv, PoolInv, ServerTypes
  <2>2. \A r \in Requests : conn[r] = "held" \/ r \in tx => Connected(r)
    BY DEF IInv, ServerInv, Places, Placed, Connected
  <2>3. ASSUME opening = 0, Having(conn, "held") = {}, Having(conn, "dialing") = {}, tx = {}
        PROVE  FALSE
    <3>1. Cardinality({}) = 0
      BY FS_EmptySet
    <3>2. NumOpen(conn, tx) = 0 + 0 + (0 + 0) + 0
      BY <2>1, <2>3, <3>1 DEF NumOpen, InUse
    <3>3. Count(conn, "waiting") <= 0
      BY <2>3, <3>2 DEF IInv, ServerInv, PoolInv
    <3>4. Count(conn, "waiting") = 0
      BY <3>3, CountType
    <3> QED
      BY <3>4, CountType, FS_EmptySet DEF Count
  <2>4. opening > 0 \/ Having(conn, "held") # {} \/ Having(conn, "dialing") # {} \/ tx # {}
    BY <2>1, <2>3
  <2> QED
    BY <2>1, <2>2, <2>4 DEF Having
<1> QED
  BY <1>1, Invariant, PTL

\* A handler works for the user that its own client logged in as, with the right
\* password and an answer that was success (UserAuthMiddleware).
THEOREM ServedAsTheOneWhoLoggedIn == Spec => []ServedAsLoggedIn
<1>1. IInv => ServedAsLoggedIn
  BY DEF IInv, CookieInv
<1> QED
  BY <1>1, Invariant, PTL

\* The score that the runner prints counts orders that are committed, histories that
\* were listed and plans that took orders, each at most once.
THEOREM ScoreWasEarned == Spec => []ScoreIsEarned
<1>1. IInv => ScoreIsEarned
  <2> DEFINE A == {r \in orders : req[r].client \in VirtualUsers}
             B == {r \in Sent : /\ answer[r] = "ok"
                                /\ \/ req[r].kind = "history"
                                   \/ /\ req[r].kind = "plan" /\ chosen[r] # {}
                                      /\ chosen[r] \subseteq planned}
  <2> SUFFICES ASSUME IInv PROVE ScoreIsEarned
    OBVIOUS
  <2>1. Heard \subseteq A \cup B
    BY DEF Heard, IInv, DataInv, Sent
  <2>2. A \subseteq Requests /\ B \subseteq Requests
    BY DEF IInv, DataInv, Sent
  <2> HIDE DEF A, B
  <2>3. IsFiniteSet(A) /\ IsFiniteSet(B) /\ Cardinality(A) \in Nat /\ Cardinality(B) \in Nat
    BY <2>2, RequestsFinite, FS_Subset, FS_CardinalityType
  <2>4. /\ IsFiniteSet(A \cup B)
        /\ Cardinality(A \cup B) = Cardinality(A) + Cardinality(B) - Cardinality(A \cap B)
    BY <2>3, FS_Union
  <2>5. Cardinality(A \cap B) \in Nat
    BY <2>3, FS_Intersection, FS_CardinalityType
  <2>6. Cardinality(Heard) <= Cardinality(A \cup B) /\ Cardinality(Heard) \in Nat
    BY <2>1, <2>4, FS_Subset, HeardFinite
  <2>7. Cardinality(Heard) <= Cardinality(A) + Cardinality(B)
    BY <2>3, <2>4, <2>5, <2>6
  <2>8. Score \in Nat /\ Score <= Cardinality(Heard)
    <3>1. Score \in Nat /\ Cardinality(Planning) \in Nat
      BY FS_CardinalityType DEF IInv, ScoreInv, Score, Metrics
    <3> QED
      BY <3>1, <2>6 DEF IInv, ScoreInv
  <2>9. ComputeFinalScoreFromK6 = Score
    BY DEF ComputeFinalScoreFromK6, Get, Summary, Score, IInv, ScoreInv, Metrics
  <2>10. ASSUME NEW score \in FinalScores PROVE score <= Cardinality(A) + Cardinality(B)
    <3>1. score \in {0, Score}
      BY <2>9 DEF FinalScores
    <3> QED
      BY <2>3, <2>6, <2>7, <2>8, <3>1
  <2> QED
    BY <2>10 DEF ScoreIsEarned, A, B
<1> QED
  BY <1>1, Invariant, PTL
=============================================================================

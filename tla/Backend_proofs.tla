----------------------------- MODULE Backend_proofs -----------------------------
(***************************************************************************)
(* What every step of Backend keeps, whoever sends the requests: where the *)
(* goroutine of a request stands, which connections it has, and the        *)
(* bookkeeping of the pool.                                                *)
(***************************************************************************)
EXTENDS Backend, FiniteSetTheorems, SequenceTheorems, TLAPS

Answers == {"none", "ok", "empty", "refused", "error"}
ConnStates == {"none", "waiting", "dialing", "held"}
Conns == [Requests -> ConnStates]
AllStatements == {"find", "create", "session", "read", "begin", "select", "write",
                  "commit", "names", "exec"}

ServerTypes ==
    /\ req \in [Requests -> Question \cup {NoRequest}]
    /\ at \in [Requests -> Nat]
    /\ ctx \in [Requests -> {"live", "done"}]
    /\ answer \in [Requests -> Answers]
    /\ conn \in Conns
    /\ tx \subseteq Requests
    /\ idle \in 0 .. MaxIdle /\ opening \in Nat /\ left \in Nat

\* Where a goroutine stands: at a statement of its request, unanswered unless it
\* was given up, with a connection of the kind that the statement needs.  What was
\* not sent is not answered.
Placed(r) ==
    /\ at[r] # 0 => /\ req[r] \in Question
                    /\ at[r] \in DOMAIN Statements[req[r].kind]
                    /\ answer[r] \in {"none", "error"}
    /\ conn[r] # "none" => at[r] # 0 /\ TakesConnection(Statement(r))
    /\ r \in tx <=> at[r] # 0 /\ ~TakesConnection(Statement(r))
    /\ req[r] = NoRequest => answer[r] = "none"

Places == \A r \in Requests : Placed(r)

Count(c, state) == Cardinality(Having(c, state))

\* The pool keeps its bound; unless that many connections are open, one is being
\* opened for everybody who waits; nobody waits beside an idle one.
PoolInv ==
    /\ NumOpen(conn, tx) <= MaxOpen
    /\ NumOpen(conn, tx) = MaxOpen \/ Count(conn, "waiting") <= opening
    /\ Having(conn, "waiting") # {} => idle = 0

USE BackendAssumption, QuestionAssumption
-----------------------------------------------------------------------------
(* The statements of an endpoint *)

\* The list of each endpoint's statements, one by one.
LEMMA StatementsOf ==
    /\ Kinds = {"login", "product", "image", "order", "history", "plan", "status"}
    /\ Statements["login"] = <<"find", "create">>
    /\ Statements["product"] = <<"session", "read">>
    /\ Statements["image"] = <<"session">>
    /\ Statements["order"] = <<"session", "begin", "write", "commit">>
    /\ Statements["history"] = <<"session", "read", "names">>
    /\ Statements["plan"] = <<"begin", "select", "write", "commit">>
    /\ Statements["status"] = <<"exec">>
BY DEF Kinds, Statements

\* BEGIN is followed by the statements of its transaction, which ends with COMMIT.
LEMMA StatementFacts ==
    ASSUME NEW k \in Kinds
    PROVE  LET s == Statements[k]
           IN  /\ Len(s) \in Nat \ {0}
               /\ DOMAIN s = 1 .. Len(s)
               /\ TakesConnection(s[1])
               /\ \A i \in 1 .. Len(s) :
                    /\ s[i] \in AllStatements
                    /\ s[i] \in {"begin", "select", "write"} => i < Len(s)
                    /\ s[i] = "commit" => i = Len(s)
                    /\ i < Len(s) => (~TakesConnection(s[i + 1])
                                         <=> s[i] \in {"begin", "select", "write"})
<1> USE DEF TakesConnection, AllStatements
<1>1. CASE k = "login"
  BY <1>1, StatementsOf
<1>2. CASE k = "product"
  BY <1>2, StatementsOf
<1>3. CASE k = "image"
  BY <1>3, StatementsOf
<1>4. CASE k = "order"
  BY <1>4, StatementsOf
<1>5. CASE k = "history"
  BY <1>5, StatementsOf
<1>6. CASE k = "plan"
  BY <1>6, StatementsOf
<1>7. CASE k = "status"
  BY <1>7, StatementsOf
<1> QED
  BY <1>1, <1>2, <1>3, <1>4, <1>5, <1>6, <1>7, StatementsOf

\* Only a plan reads the orders in its transaction.
LEMMA SelectPlace ==
    ASSUME NEW k \in Kinds, NEW i \in 1 .. Len(Statements[k]), Statements[k][i] = "select"
    PROVE  k = "plan" /\ i = 2
<1>1. CASE k = "login"
  BY <1>1, StatementsOf
<1>2. CASE k = "product"
  BY <1>2, StatementsOf
<1>3. CASE k = "image"
  BY <1>3, StatementsOf
<1>4. CASE k = "order"
  BY <1>4, StatementsOf
<1>5. CASE k = "history"
  BY <1>5, StatementsOf
<1>6. CASE k = "plan"
  BY <1>6, StatementsOf
<1>7. CASE k = "status"
  BY <1>7, StatementsOf
<1> QED
  BY <1>1, <1>2, <1>3, <1>4, <1>5, <1>6, <1>7, StatementsOf

-----------------------------------------------------------------------------
(* Counting connections *)

\* There are finitely many requests.
LEMMA RequestsFinite == IsFiniteSet(Requests)
BY FS_Interval DEF Requests

\* How many requests are in a state is a number.
LEMMA CountType ==
    ASSUME NEW c, NEW state
    PROVE  IsFiniteSet(Having(c, state)) /\ Count(c, state) \in Nat
<1>1. Having(c, state) \in SUBSET Requests
  BY DEF Having
<1> QED
  BY <1>1, RequestsFinite, FS_Subset, FS_CardinalityType DEF Count

\* A set of requests, such as those with a transaction, is finite.
LEMMA SubsetType ==
    ASSUME NEW t \in SUBSET Requests
    PROVE  IsFiniteSet(t) /\ Cardinality(t) \in Nat
BY RequestsFinite, FS_Subset, FS_CardinalityType

\* A request that changes its state leaves one count and joins another.
LEMMA CountMoved ==
    ASSUME NEW c \in Conns, NEW r \in Requests, NEW new \in ConnStates, c[r] # new
    PROVE  LET d == [c EXCEPT ![r] = new]
           IN  /\ Count(d, new) = Count(c, new) + 1
               /\ Count(d, c[r]) = Count(c, c[r]) - 1
               /\ \A state \in ConnStates \ {c[r], new} : Count(d, state) = Count(c, state)
<1> DEFINE d == [c EXCEPT ![r] = new]
<1>1. Count(d, new) = Count(c, new) + 1
  <2>1. Having(d, new) = Having(c, new) \cup {r} /\ r \notin Having(c, new)
    BY DEF Having, Conns
  <2> QED
    BY <2>1, CountType, FS_AddElement DEF Count
<1>2. Count(d, c[r]) = Count(c, c[r]) - 1
  <2>1. Having(d, c[r]) = Having(c, c[r]) \ {r} /\ r \in Having(c, c[r])
    BY DEF Having, Conns
  <2>2. Cardinality(Having(c, c[r]) \ {r}) = Cardinality(Having(c, c[r])) - 1
    BY <2>1, CountType, FS_RemoveElement
  <2> QED
    BY <2>1, <2>2 DEF Count
<1>3. ASSUME NEW state \in ConnStates \ {c[r], new}
      PROVE  Count(d, state) = Count(c, state)
  <2>1. Having(d, state) = Having(c, state)
    BY DEF Having, Conns
  <2> QED
    BY <2>1 DEF Count
<1> QED
  BY <1>1, <1>2, <1>3

-----------------------------------------------------------------------------
(* The pool *)

\* A connection that comes back, or was opened in the background (then there is
\* one less to open), goes to somebody who waits or becomes idle.
LEMMA GiveBackKeepsPool ==
    ASSUME ServerTypes, PoolInv, NEW c \in Conns, NEW t \in SUBSET Requests,
           GiveBack(c), tx' = t, opening' \in {opening, opening - 1} \cap Nat,
           Having(c, "waiting") = Having(conn, "waiting"),
           NumOpen(c, t) + opening' + 1 = NumOpen(conn, tx) + opening
    PROVE  conn' \in Conns /\ idle' \in 0 .. MaxIdle /\ PoolInv'
<1> USE CountType, SubsetType DEF ServerTypes
<1>1. NumOpen(conn, tx)' = idle' + opening' + (Count(conn', "held") + Cardinality(t))
                             + Count(conn', "dialing")
  BY DEF NumOpen, InUse, Count, Having
<1>2. NumOpen(c, t) = idle + opening + (Count(c, "held") + Cardinality(t))
                        + Count(c, "dialing")
  BY DEF NumOpen, InUse, Count
<1>3. Count(c, "waiting") = Count(conn, "waiting")
  BY DEF Count
<1>4. NumOpen(conn, tx) \in Int
  BY DEF NumOpen, InUse, Count
<1>5. CASE Having(c, "waiting") # {} /\ idle' = idle
             /\ \E w \in Having(c, "waiting") : conn' = [c EXCEPT ![w] = "held"]
  <2>1. PICK w \in Having(c, "waiting") : conn' = [c EXCEPT ![w] = "held"]
    BY <1>5
  <2>2. w \in Requests /\ c[w] = "waiting"
    BY DEF Having
  <2>3. /\ Count(conn', "held") = Count(c, "held") + 1
        /\ Count(conn', "dialing") = Count(c, "dialing")
        /\ Count(conn', "waiting") = Count(c, "waiting") - 1
    <3>1. LET d == [c EXCEPT ![w] = "held"]
          IN  /\ Count(d, "held") = Count(c, "held") + 1
              /\ Count(d, c[w]) = Count(c, c[w]) - 1
              /\ \A state \in ConnStates \ {c[w], "held"} : Count(d, state) = Count(c, state)
      <4>1. "held" \in ConnStates /\ c[w] # "held" /\ w \in Requests
        BY <2>2 DEF ConnStates
      <4> QED
        BY <4>1, CountMoved
    <3>2. "dialing" \in ConnStates \ {c[w], "held"}
      BY <2>2 DEF ConnStates
    <3> QED
      BY <2>1, <2>2, <3>1, <3>2
  <2>4. NumOpen(conn, tx)' = NumOpen(conn, tx)
    BY <1>1, <1>2, <1>4, <1>5, <2>3
  <2>5. idle' = 0
    BY <1>5 DEF PoolInv
  <2>6. conn' \in Conns
    BY <2>1, <2>2 DEF Conns, ConnStates
  <2>7. NumOpen(conn, tx)' = MaxOpen \/ Count(conn', "waiting") <= opening'
    BY <1>3, <2>3, <2>4 DEF PoolInv
  <2> QED
    BY <1>5, <2>4, <2>5, <2>6, <2>7 DEF PoolInv, Count
<1>6. CASE Having(c, "waiting") = {} /\ conn' = c
             /\ idle' = IF idle < MaxIdle THEN idle + 1 ELSE idle
  <2>1. Count(conn', "waiting") = 0
    BY <1>6, FS_EmptySet DEF Count
  <2>2. NumOpen(conn, tx)' <= NumOpen(conn, tx)
    BY <1>1, <1>2, <1>4, <1>6
  <2>3. idle' \in 0 .. MaxIdle
    BY <1>6
  <2>4. NumOpen(conn, tx)' <= MaxOpen
    BY <1>1, <1>2, <1>4, <1>6, <2>2 DEF PoolInv
  <2> QED
    BY <1>6, <2>1, <2>3, <2>4 DEF PoolInv, Count
<1> QED
  BY <1>5, <1>6 DEF GiveBack, Having

\* When a connection is closed, or n openings failed, as many are opened as are
\* waited for and fit.
LEMMA OpenMoreKeepsPool ==
    ASSUME ServerTypes, PoolInv, NEW c \in Conns, NEW t \in SUBSET Requests,
           NEW n \in {0, 1}, n <= opening, OpenMore(c, t, n),
           conn' = c, tx' = t, idle' = idle,
           Having(c, "waiting") \subseteq Having(conn, "waiting"),
           NumOpen(c, t) <= MaxOpen
    PROVE  opening' \in Nat /\ PoolInv'
<1> USE CountType, SubsetType DEF ServerTypes
<1> DEFINE room == MaxOpen - (NumOpen(c, t) - n)
<1>1. NumOpen(conn, tx)' = idle' + opening' + (Count(c, "held") + Cardinality(t))
                             + Count(c, "dialing")
  BY DEF NumOpen, InUse, Count, Having
<1>2. NumOpen(c, t) = idle + opening + (Count(c, "held") + Cardinality(t))
                        + Count(c, "dialing")
  BY DEF NumOpen, InUse, Count
<1>3. opening' = (opening - n) + (IF Count(c, "waiting") < room THEN Count(c, "waiting")
                                  ELSE room)
  BY DEF OpenMore, Count
<1>4. NumOpen(c, t) \in Int
  BY <1>2
<1> HIDE DEF room
<1>5. room \in Nat /\ room = MaxOpen - NumOpen(c, t) + n
  BY <1>4 DEF room
<1>6. opening' \in Nat /\ opening' - opening <= room - n
  BY <1>3, <1>5
<1>7. NumOpen(conn, tx)' = NumOpen(c, t) + (opening' - opening)
  BY <1>1, <1>2, <1>6
<1>8. NumOpen(conn, tx)' <= MaxOpen
  BY <1>4, <1>5, <1>6, <1>7
<1>9. NumOpen(conn, tx)' = MaxOpen \/ Count(c, "waiting") <= opening'
  BY <1>3, <1>4, <1>5, <1>7
<1> QED
  BY <1>6, <1>8, <1>9 DEF PoolInv, Count
-----------------------------------------------------------------------------
(* What one request changes in the counts *)

Busy == {"held", "dialing"}

\* numOpen is a number, and the sum of its parts.
LEMMA NumOpenType ==
    ASSUME ServerTypes, NEW c, NEW t \in SUBSET Requests
    PROVE  /\ NumOpen(c, t) \in Nat
           /\ NumOpen(c, t) = idle + opening + (Count(c, "held") + Cardinality(t))
                                + Count(c, "dialing")
<1>1. Count(c, "held") \in Nat /\ Count(c, "dialing") \in Nat /\ Cardinality(t) \in Nat
  BY CountType, SubsetType
<1>2. idle \in Nat /\ opening \in Nat
  BY DEF ServerTypes
<1> QED
  BY <1>1, <1>2 DEF NumOpen, InUse, Count

\* A request that comes to hold or to dial a connection adds one to numOpen, one that
\* lets go of it takes one away.
LEMMA NumOpenMoved ==
    ASSUME ServerTypes, NEW c \in Conns, NEW t \in SUBSET Requests,
           NEW r \in Requests, NEW new \in ConnStates, c[r] # new
    PROVE  LET d == [c EXCEPT ![r] = new]
           IN  /\ c[r] \notin Busy /\ new \in Busy => NumOpen(d, t) = NumOpen(c, t) + 1
               /\ c[r] \in Busy /\ new \notin Busy => NumOpen(d, t) = NumOpen(c, t) - 1
               /\ (c[r] \in Busy <=> new \in Busy) => NumOpen(d, t) = NumOpen(c, t)
<1> DEFINE d == [c EXCEPT ![r] = new]
<1>1. /\ NumOpen(c, t) = idle + opening + (Count(c, "held") + Cardinality(t))
                            + Count(c, "dialing")
      /\ NumOpen(d, t) = idle + opening + (Count(d, "held") + Cardinality(t))
                            + Count(d, "dialing")
  BY NumOpenType
<1>2. /\ Count(c, "held") \in Nat /\ Count(c, "dialing") \in Nat /\ Cardinality(t) \in Nat
      /\ Count(d, "held") \in Nat /\ Count(d, "dialing") \in Nat
      /\ idle \in Nat /\ opening \in Nat
  BY CountType, SubsetType DEF ServerTypes
<1>3. /\ Count(d, new) = Count(c, new) + 1
      /\ Count(d, c[r]) = Count(c, c[r]) - 1
      /\ \A state \in ConnStates \ {c[r], new} : Count(d, state) = Count(c, state)
  BY CountMoved
<1>4. c[r] \in ConnStates
  BY DEF Conns
<1> HIDE DEF d
<1>5. ASSUME c[r] \notin Busy, new \in Busy PROVE NumOpen(d, t) = NumOpen(c, t) + 1
  BY <1>1, <1>2, <1>3, <1>4, <1>5 DEF Busy, ConnStates
<1>6. ASSUME c[r] \in Busy, new \notin Busy PROVE NumOpen(d, t) = NumOpen(c, t) - 1
  BY <1>1, <1>2, <1>3, <1>4, <1>6 DEF Busy, ConnStates
<1>7. ASSUME c[r] \in Busy <=> new \in Busy PROVE NumOpen(d, t) = NumOpen(c, t)
  BY <1>1, <1>2, <1>3, <1>4, <1>7 DEF Busy, ConnStates
<1> QED
  BY <1>5, <1>6, <1>7 DEF d

\* So does a transaction that begins or ends.
LEMMA NumOpenTx ==
    ASSUME ServerTypes, NEW c, NEW t \in SUBSET Requests, NEW r \in Requests
    PROVE  /\ r \notin t => NumOpen(c, t \cup {r}) = NumOpen(c, t) + 1
           /\ r \in t => NumOpen(c, t \ {r}) = NumOpen(c, t) - 1
<1>1. /\ NumOpen(c, t) = idle + opening + (Count(c, "held") + Cardinality(t))
                            + Count(c, "dialing")
      /\ NumOpen(c, t \cup {r}) = idle + opening
             + (Count(c, "held") + Cardinality(t \cup {r})) + Count(c, "dialing")
      /\ NumOpen(c, t \ {r}) = idle + opening
             + (Count(c, "held") + Cardinality(t \ {r})) + Count(c, "dialing")
  BY NumOpenType
<1>2. /\ Count(c, "held") \in Nat /\ Count(c, "dialing") \in Nat /\ Cardinality(t) \in Nat
      /\ idle \in Nat /\ opening \in Nat
  BY CountType, SubsetType DEF ServerTypes
<1>3. /\ r \notin t => Cardinality(t \cup {r}) = Cardinality(t) + 1
      /\ r \in t => Cardinality(t \ {r}) = Cardinality(t) - 1
  BY SubsetType, FS_AddElement, FS_RemoveElement
<1> QED
  BY <1>1, <1>2, <1>3

\* The pool when the connections change hands and nothing is opened or idle.
LEMMA SamePool ==
    ASSUME ServerTypes, PoolInv, UNCHANGED <<idle, opening>>,
           conn' \in Conns, tx' \in SUBSET Requests,
           NumOpen(conn', tx') = NumOpen(conn, tx),
           Having(conn', "waiting") \subseteq Having(conn, "waiting")
    PROVE  PoolInv'
<1>1. NumOpen(conn, tx)' = NumOpen(conn', tx')
  BY DEF NumOpen, InUse, Having
<1>2. Count(conn', "waiting") <= Count(conn, "waiting")
  BY CountType, FS_Subset DEF Count
<1>3. Count(conn', "waiting") \in Nat /\ Count(conn, "waiting") \in Nat /\ opening \in Nat
  BY CountType DEF ServerTypes
<1> QED
  BY <1>1, <1>2, <1>3 DEF PoolInv, Count
-----------------------------------------------------------------------------
(* Where the goroutines stand *)

ServerInv == ServerTypes /\ Places /\ PoolInv

\* A goroutine that has not ended is at a statement of its endpoint.
LEMMA StatementType ==
    ASSUME NEW r \in Requests, Placed(r), at[r] # 0
    PROVE  /\ req[r].kind \in Kinds /\ at[r] \in 1 .. Len(Statements[req[r].kind])
           /\ Statement(r) = Statements[req[r].kind][at[r]]
           /\ Statement(r) \in AllStatements
<1>1. req[r].kind \in Kinds /\ at[r] \in DOMAIN Statements[req[r].kind]
  BY DEF Placed, Question
<1> QED
  BY <1>1, StatementFacts DEF Statement

\* The goroutine ends, or goes on to the statement that follows.
Advances(r) ==
    /\ at' \in [Requests -> Nat] /\ answer' \in [Requests -> Answers]
    /\ \A x \in Requests \ {r} : at'[x] = at[x] /\ answer'[x] = answer[x]
    /\ \/ at'[r] = 0 /\ Statement(r) \notin {"begin", "select", "write"}
       \/ /\ at'[r] \in DOMAIN Statements[req[r].kind] /\ answer'[r] = answer[r]
          /\ ~TakesConnection(Statements[req[r].kind][at'[r]])
                <=> Statement(r) \in {"begin", "select", "write"}

\* What the end of a handler changes.
LEMMA EndFacts ==
    ASSUME ServerTypes, NEW r \in Requests, NEW a \in Answers, End(r, a)
    PROVE  /\ at' \in [Requests -> Nat] /\ answer' \in [Requests -> Answers]
           /\ \A x \in Requests \ {r} : at'[x] = at[x] /\ answer'[x] = answer[x]
           /\ at'[r] = 0
           /\ answer'[r] = IF answer[r] = "none" THEN a ELSE answer[r]
BY DEF End, ServerTypes

\* The next statement, or the end after the last.
LEMMA GoOnFacts ==
    ASSUME ServerTypes, NEW r \in Requests, Placed(r), at[r] # 0, GoOn(r)
    PROVE  Advances(r)
<1>1. /\ req[r].kind \in Kinds /\ at[r] \in 1 .. Len(Statements[req[r].kind])
      /\ Statement(r) = Statements[req[r].kind][at[r]]
  BY StatementType
<1> DEFINE s == Statements[req[r].kind]
<1>2. /\ Len(s) \in Nat \ {0} /\ DOMAIN s = 1 .. Len(s)
      /\ s[at[r]] \in {"begin", "select", "write"} => at[r] < Len(s)
      /\ at[r] < Len(s) => (~TakesConnection(s[at[r] + 1])
                                <=> s[at[r]] \in {"begin", "select", "write"})
  BY <1>1, StatementFacts
<1> HIDE DEF s
<1>3. CASE at[r] = Len(s)
  <2>1. End(r, "ok") /\ "ok" \in Answers
    BY <1>3 DEF GoOn, Answers, s
  <2>2. Statement(r) \notin {"begin", "select", "write"}
    BY <1>1, <1>2, <1>3 DEF s
  <2> QED
    BY <2>1, <2>2, EndFacts DEF Advances
<1>4. CASE at[r] # Len(s)
  <2>1. at' = [at EXCEPT ![r] = @ + 1] /\ answer' = answer
    BY <1>4 DEF GoOn, s
  <2>2. at[r] + 1 \in DOMAIN s /\ at[r] < Len(s)
    BY <1>1, <1>2, <1>4 DEF s
  <2>3. at' \in [Requests -> Nat] /\ at'[r] = at[r] + 1
    BY <2>1 DEF ServerTypes
  <2>4. \A x \in Requests \ {r} : at'[x] = at[x]
    BY <2>1 DEF ServerTypes
  <2>5. ~TakesConnection(s[at'[r]]) <=> Statement(r) \in {"begin", "select", "write"}
    BY <1>1, <1>2, <2>2, <2>3 DEF s
  <2> QED
    BY <2>1, <2>2, <2>3, <2>4, <2>5 DEF Advances, s, ServerTypes
<1> QED
  BY <1>3, <1>4

\* A plan goes on to its update, or past it.
LEMMA SelectFacts ==
    ASSUME ServerTypes, NEW r \in Requests, Placed(r), at[r] # 0,
           Statement(r) = "select", Select(r)
    PROVE  Advances(r) /\ at'[r] \in {3, 4} /\ answer' = answer
<1>1. /\ req[r].kind \in Kinds /\ at[r] \in 1 .. Len(Statements[req[r].kind])
      /\ Statements[req[r].kind][at[r]] = "select"
  BY StatementType
<1>2. req[r].kind = "plan" /\ at[r] = 2
  BY <1>1, SelectPlace
<1>3. /\ at'[r] \in {3, 4} /\ at' \in [Requests -> Nat] /\ answer' = answer
      /\ \A x \in Requests \ {r} : at'[x] = at[x]
  BY <1>2 DEF Select, ServerTypes
<1>4. /\ at'[r] \in DOMAIN Statements[req[r].kind]
      /\ ~TakesConnection(Statements[req[r].kind][at'[r]])
  BY <1>2, <1>3, StatementsOf DEF TakesConnection
<1> QED
  BY <1>3, <1>4 DEF Advances, ServerTypes

\* The effect of a statement, whichever it is.
LEMMA EffectFacts ==
    ASSUME ServerTypes, NEW r \in Requests, Placed(r), at[r] # 0, Effect(r)
    PROVE  Advances(r)
<1>1. Statement(r) \in AllStatements
  BY StatementType
<1>2. ASSUME NEW a \in Answers, End(r, a), Statement(r) \notin {"begin", "select", "write"}
      PROVE  Advances(r)
  BY <1>2, EndFacts DEF Advances
<1>3. CASE Statement(r) = "find"
  BY <1>2, <1>3, GoOnFacts DEF Effect, Find, Answers
<1>4. CASE Statement(r) = "create"
  BY <1>4, GoOnFacts DEF Effect, CreateSession
<1>5. CASE Statement(r) = "session"
  BY <1>2, <1>5, GoOnFacts DEF Effect, CheckSession, GetImage, Answers
<1>6. CASE Statement(r) = "commit"
  BY <1>2, <1>6, GoOnFacts DEF Effect, Commit, Answers
<1>7. CASE Statement(r) = "select"
  BY <1>7, SelectFacts DEF Effect
<1>8. CASE Statement(r) \notin {"find", "create", "session", "select", "commit"}
  BY <1>8, GoOnFacts DEF Effect
<1> QED
  BY <1>3, <1>4, <1>5, <1>6, <1>7, <1>8

\* A request that a step leaves where it stands, or hands a connection.
Stays(x) ==
    /\ req'[x] = req[x] /\ at'[x] = at[x]
    /\ answer'[x] = answer[x] \/ (answer'[x] = "error" /\ at[x] # 0)
    /\ conn'[x] = conn[x] \/ conn[x] = "waiting"
    /\ x \in tx' <=> x \in tx

\* If one request is well placed after a step and the others stay, all are.
LEMMA OthersStay ==
    ASSUME Places, NEW r \in Requests, Placed(r)', \A x \in Requests \ {r} : Stays(x)
    PROVE  Places'
BY DEF Places, Placed, Statement, Stays

\* A request that ends gives everything back.
LEMMA EndedIsPlaced ==
    ASSUME NEW r \in Requests, at'[r] = 0, conn'[r] = "none", r \notin tx',
           req'[r] # NoRequest
    PROVE  Placed(r)'
BY DEF Placed

\* One that goes on has no connection but that of its transaction.
LEMMA AdvancedIsPlaced ==
    ASSUME NEW r \in Requests, Placed(r), at[r] # 0, Advances(r), req' = req,
           conn'[r] = "none", r \in tx' <=> Statement(r) \in {"begin", "select", "write"}
    PROVE  Placed(r)'
<1>1. CASE at'[r] = 0 /\ Statement(r) \notin {"begin", "select", "write"}
  <2>1. req'[r] # NoRequest
    BY DEF Placed
  <2> QED
    BY <1>1, <2>1, EndedIsPlaced
<1>2. CASE /\ at'[r] \in DOMAIN Statements[req[r].kind] /\ answer'[r] = answer[r]
           /\ ~TakesConnection(Statements[req[r].kind][at'[r]])
                 <=> Statement(r) \in {"begin", "select", "write"}
  <2>1. at'[r] # 0
    BY <1>2, StatementType, StatementFacts
  <2>2. req'[r] \in Question /\ answer'[r] \in {"none", "error"}
    BY <1>2 DEF Placed
  <2>3. Statement(r)' = Statements[req[r].kind][at'[r]]
    BY DEF Statement
  <2> QED
    BY <1>2, <2>1, <2>2, <2>3 DEF Placed
<1> QED
  BY <1>1, <1>2 DEF Advances

-----------------------------------------------------------------------------
(* The steps of a request *)

\* Who gets the connection that is given back.
LEMMA GiveBackFacts ==
    ASSUME NEW c \in Conns, GiveBack(c), NEW x \in Requests
    PROVE  conn'[x] = c[x] \/ (c[x] = "waiting" /\ conn'[x] = "held")
BY DEF GiveBack, Having, Conns

\* A request has one connection, of its own or of its transaction, and letting go
\* of it takes one away from numOpen.
LEMMA LetGo ==
    ASSUME ServerInv, NEW r \in Requests, conn[r] \in Busy \/ r \in tx
    PROVE  LET c == [conn EXCEPT ![r] = "none"]
               t == tx \ {r}
           IN  /\ c \in Conns /\ t \in SUBSET Requests /\ at[r] # 0
               /\ Having(c, "waiting") = Having(conn, "waiting")
               /\ NumOpen(c, t) = NumOpen(conn, tx) - 1
               /\ r \in tx => c = conn
               /\ r \notin tx => t = tx
<1> DEFINE c == [conn EXCEPT ![r] = "none"]
           t == tx \ {r}
<1>1. conn \in Conns /\ tx \in SUBSET Requests /\ "none" \in ConnStates /\ Placed(r)
  BY DEF ServerInv, ServerTypes, Places, ConnStates
<1>2. c \in Conns /\ t \in SUBSET Requests
  BY <1>1 DEF Conns
<1>3. at[r] # 0 /\ (r \in tx => conn[r] = "none")
  BY <1>1 DEF Placed, Busy
<1>4. Having(c, "waiting") = Having(conn, "waiting")
  BY <1>1, <1>3 DEF Having, Conns, Busy
<1>5. CASE r \in tx
  <2>1. c = conn
    BY <1>1, <1>3, <1>5 DEF Conns
  <2>2. NumOpen(conn, t) = NumOpen(conn, tx) - 1
    BY <1>1, <1>5, NumOpenTx DEF ServerInv
  <2> QED
    BY <1>2, <1>3, <1>4, <1>5, <2>1, <2>2
<1>6. CASE r \notin tx
  <2>1. t = tx /\ conn[r] \in Busy /\ "none" \notin Busy /\ conn[r] # "none"
    BY <1>6 DEF Busy
  <2>2. NumOpen(c, tx) = NumOpen(conn, tx) - 1
    BY <1>1, <2>1, NumOpenMoved DEF ServerInv
  <2> QED
    BY <1>2, <1>3, <1>4, <1>6, <2>1, <2>2
<1> QED
  BY <1>5, <1>6

\* A request that is received has no connection yet.
LEMMA ReceiveKeeps ==
    ASSUME ServerInv, NEW r \in Requests, NEW q \in Question, Receive(r, q)
    PROVE  ServerInv'
<1>1. Placed(r) /\ at[r] = 0 /\ conn[r] = "none" /\ r \notin tx /\ answer[r] = "none"
  BY DEF ServerInv, Places, Placed, Receive
<1>2. /\ req' = [req EXCEPT ![r] = q] /\ UNCHANGED <<conn, tx, idle, opening, left, ctx>>
      /\ \/ answer' = [answer EXCEPT ![r] = "refused"] /\ at' = at
         \/ at' = [at EXCEPT ![r] = 1] /\ answer' = answer
  BY DEF Receive, pool
<1>3. ServerTypes'
  BY <1>2 DEF ServerInv, ServerTypes, Answers
<1>4. PoolInv'
  BY <1>2 DEF ServerInv, PoolInv, NumOpen, InUse, Having, Count
<1>5. Placed(r)'
  <2>1. q.kind \in Kinds
    BY DEF Question
  <2>2. 1 \in DOMAIN Statements[q.kind] /\ TakesConnection(Statements[q.kind][1])
    BY <2>1, StatementFacts
  <2>3. req'[r] = q /\ conn'[r] = "none" /\ r \notin tx' /\ q # NoRequest
    BY <1>1, <1>2 DEF ServerInv, ServerTypes
  <2>4. CASE at'[r] = 0
    BY <2>3, <2>4 DEF Placed
  <2>5. CASE at'[r] = 1 /\ answer'[r] = "none"
    BY <2>2, <2>3, <2>5 DEF Placed, Statement
  <2> QED
    BY <1>1, <1>2, <2>4, <2>5 DEF ServerInv, ServerTypes
<1>6. \A x \in Requests \ {r} : Stays(x)
  BY <1>2 DEF ServerInv, ServerTypes, Stays
<1> QED
  BY <1>3, <1>4, <1>5, <1>6, OthersStay DEF ServerInv

\* Whether it takes an idle connection, dials or waits, the bound is kept.
LEMMA TakeKeeps ==
    ASSUME ServerInv, NEW r \in Requests, Take(r)
    PROVE  ServerInv'
<1> DEFINE new == conn'[r]
<1>1. /\ at[r] # 0 /\ conn[r] = "none" /\ TakesConnection(Statement(r))
      /\ UNCHANGED <<req, at, ctx, answer, tx, opening, left>>
  BY DEF Take, request
<1>2. ServerTypes /\ Places /\ PoolInv /\ conn \in Conns /\ tx \in SUBSET Requests
  BY DEF ServerInv, ServerTypes
<1>3. idle \in Nat /\ opening \in Nat /\ idle <= MaxIdle
  BY <1>2 DEF ServerTypes
<1>4. CASE idle > 0 /\ conn' = [conn EXCEPT ![r] = "held"] /\ idle' = idle - 1
  <2>1. "held" \in ConnStates /\ "held" \in Busy /\ conn[r] \notin Busy /\ conn[r] # "held"
    BY <1>1 DEF ConnStates, Busy
  <2>2. NumOpen(conn', tx) = NumOpen(conn, tx) + 1
    BY <1>2, <1>4, <2>1, NumOpenMoved
  <2>3. NumOpen(conn, tx)' = NumOpen(conn', tx) - 1
    <3>1. NumOpen(conn', tx) = idle + opening + (Count(conn', "held") + Cardinality(tx))
                                 + Count(conn', "dialing")
      BY <1>2, NumOpenType
    <3>2. NumOpen(conn, tx)' = idle' + opening + (Count(conn', "held") + Cardinality(tx))
                                 + Count(conn', "dialing")
      BY <1>1 DEF NumOpen, InUse, Count, Having
    <3>3. /\ Count(conn', "held") \in Nat /\ Cardinality(tx) \in Nat
          /\ Count(conn', "dialing") \in Nat
      BY <1>2, CountType, SubsetType
    <3> QED
      BY <1>3, <1>4, <3>1, <3>2, <3>3
  <2>4. NumOpen(conn, tx)' = NumOpen(conn, tx)
    BY <1>2, <2>2, <2>3, NumOpenType
  <2>5. Having(conn', "waiting") = Having(conn, "waiting") /\ Having(conn, "waiting") = {}
    BY <1>1, <1>2, <1>4 DEF Having, Conns, PoolInv
  <2>6. PoolInv'
    BY <1>1, <1>2, <2>4, <2>5 DEF PoolInv, Count
  <2>7. conn' \in Conns /\ idle' \in 0 .. MaxIdle
    BY <1>2, <1>3, <1>4, <2>1 DEF Conns
  <2>8. ServerTypes'
    BY <1>1, <1>2, <2>7 DEF ServerTypes
  <2>9. Placed(r)' /\ \A x \in Requests \ {r} : Stays(x)
    BY <1>1, <1>2, <1>4 DEF Places, Placed, Stays, Statement, Conns
  <2> QED
    BY <1>2, <2>6, <2>8, <2>9, OthersStay DEF ServerInv
<1>5. CASE idle = 0 /\ idle' = idle /\ NumOpen(conn, tx) < MaxOpen
             /\ conn' = [conn EXCEPT ![r] = "dialing"]
  <2>1. "dialing" \in ConnStates /\ "dialing" \in Busy /\ conn[r] \notin Busy
        /\ conn[r] # "dialing"
    BY <1>1 DEF ConnStates, Busy
  <2>2. NumOpen(conn', tx) = NumOpen(conn, tx) + 1
    BY <1>2, <1>5, <2>1, NumOpenMoved
  <2>3. NumOpen(conn, tx)' = NumOpen(conn', tx)
    BY <1>1, <1>5 DEF NumOpen, InUse, Having
  <2>4. NumOpen(conn, tx)' <= MaxOpen
    BY <1>2, <1>5, <2>2, <2>3, NumOpenType
  <2>5. Having(conn', "waiting") = Having(conn, "waiting")
    BY <1>1, <1>2, <1>5 DEF Having, Conns
  <2>6. NumOpen(conn, tx) # MaxOpen
    BY <1>2, <1>5, NumOpenType
  <2>7. PoolInv'
    BY <1>1, <1>2, <1>5, <2>4, <2>5, <2>6 DEF PoolInv, Count
  <2>8. conn' \in Conns
    BY <1>2, <1>5, <2>1 DEF Conns
  <2>9. ServerTypes'
    BY <1>1, <1>2, <1>5, <2>8 DEF ServerTypes
  <2>10. Placed(r)' /\ \A x \in Requests \ {r} : Stays(x)
    BY <1>1, <1>2, <1>5 DEF Places, Placed, Stays, Statement, Conns
  <2> QED
    BY <1>2, <2>7, <2>9, <2>10, OthersStay DEF ServerInv
<1>6. CASE idle = 0 /\ idle' = idle /\ ~(NumOpen(conn, tx) < MaxOpen)
             /\ conn' = [conn EXCEPT ![r] = "waiting"]
  <2>1. "waiting" \in ConnStates /\ "waiting" \notin Busy /\ conn[r] \notin Busy
        /\ conn[r] # "waiting"
    BY <1>1 DEF ConnStates, Busy
  <2>2. NumOpen(conn', tx) = NumOpen(conn, tx)
    BY <1>2, <1>6, <2>1, NumOpenMoved
  <2>3. NumOpen(conn, tx)' = NumOpen(conn', tx)
    BY <1>1, <1>6 DEF NumOpen, InUse, Having
  <2>4. NumOpen(conn, tx)' = MaxOpen
    BY <1>2, <1>6, <2>2, <2>3, NumOpenType DEF PoolInv
  <2>5. PoolInv'
    BY <1>6, <2>4 DEF PoolInv
  <2>6. conn' \in Conns
    BY <1>2, <1>6, <2>1 DEF Conns
  <2>7. ServerTypes'
    BY <1>1, <1>2, <1>6, <2>6 DEF ServerTypes
  <2>8. Placed(r)' /\ \A x \in Requests \ {r} : Stays(x)
    BY <1>1, <1>2, <1>6 DEF Places, Placed, Stays, Statement, Conns
  <2> QED
    BY <1>2, <2>5, <2>7, <2>8, OthersStay DEF ServerInv
<1> QED
  BY <1>3, <1>4, <1>5, <1>6 DEF Take

\* A dial succeeds, or the request fails and others are opened in its place.
LEMMA DialKeeps ==
    ASSUME ServerInv, NEW r \in Requests, Dial(r)
    PROVE  ServerInv'
<1>1. /\ conn[r] = "dialing" /\ UNCHANGED <<req, ctx, left>>
      /\ ServerTypes /\ Places /\ PoolInv /\ conn \in Conns /\ tx \in SUBSET Requests
  BY DEF Dial, ServerInv, ServerTypes
<1>2. Placed(r) /\ at[r] # 0 /\ r \notin tx /\ req[r] # NoRequest
  BY <1>1 DEF Places, Placed
<1>3. CASE conn' = [conn EXCEPT ![r] = "held"] /\ UNCHANGED <<at, answer, tx, idle, opening>>
  <2>1. "held" \in ConnStates /\ "held" \in Busy /\ conn[r] \in Busy /\ conn[r] # "held"
    BY <1>1 DEF ConnStates, Busy
  <2>2. conn' \in Conns
    BY <1>1, <1>3, <2>1 DEF Conns
  <2>3. NumOpen(conn', tx) = NumOpen(conn, tx)
    BY <1>1, <1>3, <2>1, NumOpenMoved
  <2>4. Having(conn', "waiting") \subseteq Having(conn, "waiting")
    BY <1>1, <1>3 DEF Having, Conns
  <2>5. PoolInv'
    BY <1>1, <1>3, <2>2, <2>3, <2>4, SamePool
  <2>6. ServerTypes'
    BY <1>1, <1>3, <2>2 DEF ServerTypes
  <2>7. Placed(r)' /\ \A x \in Requests \ {r} : Stays(x)
    BY <1>1, <1>2, <1>3 DEF Placed, Stays, Statement, Conns
  <2> QED
    BY <1>1, <2>5, <2>6, <2>7, OthersStay DEF ServerInv
<1>4. CASE Close([conn EXCEPT ![r] = "none"], tx) /\ End(r, ErrorAt(r))
  <2> DEFINE c == [conn EXCEPT ![r] = "none"]
  <2>1. /\ c \in Conns /\ Having(c, "waiting") = Having(conn, "waiting")
        /\ NumOpen(c, tx) = NumOpen(conn, tx) - 1
    BY <1>1, <1>2, LetGo DEF Busy
  <2>2. conn' = c /\ tx' = tx /\ idle' = idle /\ OpenMore(c, tx, 0)
    BY <1>4 DEF Close
  <2> HIDE DEF c
  <2>3. NumOpen(c, tx) <= MaxOpen
    BY <1>1, <2>1, NumOpenType DEF PoolInv
  <2>4. 0 \in {0, 1} /\ 0 <= opening
    BY <1>1 DEF ServerTypes
  <2>5. opening' \in Nat /\ PoolInv'
    BY <1>1, <2>1, <2>2, <2>3, <2>4, OpenMoreKeepsPool
  <2>6. ErrorAt(r) \in Answers
    BY DEF ErrorAt, Answers
  <2>7. /\ at' \in [Requests -> Nat] /\ answer' \in [Requests -> Answers]
        /\ \A x \in Requests \ {r} : at'[x] = at[x] /\ answer'[x] = answer[x]
        /\ at'[r] = 0
    BY <1>1, <1>4, <2>6, EndFacts
  <2>8. ServerTypes'
    BY <1>1, <2>1, <2>2, <2>5, <2>7 DEF ServerTypes
  <2>9. conn'[r] = "none" /\ \A x \in Requests \ {r} : conn'[x] = conn[x]
    BY <1>1, <2>2 DEF c, Conns
  <2>10. Placed(r)'
    BY <1>1, <1>2, <2>2, <2>7, <2>9, EndedIsPlaced
  <2>11. \A x \in Requests \ {r} : Stays(x)
    BY <1>1, <2>2, <2>7, <2>9 DEF Stays
  <2> QED
    BY <1>1, <2>5, <2>8, <2>10, <2>11, OthersStay DEF ServerInv
<1> QED
  BY <1>3, <1>4 DEF Dial

\* The background opener hands over its connection or its error.
LEMMA OpenKeeps ==
    ASSUME ServerInv, Open
    PROVE  ServerInv'
<1>1. /\ opening > 0 /\ UNCHANGED <<req, ctx, tx, left>>
      /\ ServerTypes /\ Places /\ PoolInv /\ conn \in Conns /\ tx \in SUBSET Requests
      /\ opening \in Nat /\ answer \in [Requests -> Answers] /\ at \in [Requests -> Nat]
  BY DEF Open, ServerInv, ServerTypes
<1>2. CASE GiveBack(conn) /\ opening' = opening - 1 /\ UNCHANGED <<at, answer>>
  <2>1. opening' \in {opening, opening - 1} \cap Nat
    BY <1>1, <1>2
  <2>2. NumOpen(conn, tx) + opening' + 1 = NumOpen(conn, tx) + opening
    BY <1>1, <1>2, NumOpenType
  <2>3. conn' \in Conns /\ idle' \in 0 .. MaxIdle /\ PoolInv'
    BY <1>1, <1>2, <2>1, <2>2, GiveBackKeepsPool
  <2>4. ServerTypes'
    BY <1>1, <1>2, <2>1, <2>3 DEF ServerTypes
  <2>5. \A x \in Requests : Stays(x)
    BY <1>1, <1>2, GiveBackFacts DEF Stays
  <2>6. Places'
    BY <1>1, <2>5 DEF Places, Placed, Statement, Stays
  <2> QED
    BY <2>3, <2>4, <2>6 DEF ServerInv
<1>3. ASSUME NEW w \in Having(conn, "waiting"), conn' = [conn EXCEPT ![w] = "none"],
             OpenMore([conn EXCEPT ![w] = "none"], tx, 1), End(w, ErrorAt(w)), idle' = idle
      PROVE  ServerInv'
  <2> DEFINE c == [conn EXCEPT ![w] = "none"]
  <2>1. w \in Requests /\ conn[w] = "waiting" /\ "none" \in ConnStates
        /\ "none" \notin Busy /\ conn[w] \notin Busy /\ conn[w] # "none"
    BY DEF Having, Busy, ConnStates
  <2>2. Placed(w) /\ at[w] # 0 /\ w \notin tx /\ req[w] # NoRequest
    BY <1>1, <2>1 DEF Places, Placed
  <2>3. c \in Conns /\ Having(c, "waiting") \subseteq Having(conn, "waiting")
    BY <1>1, <2>1 DEF Conns, Having
  <2>4. NumOpen(c, tx) = NumOpen(conn, tx)
    BY <1>1, <2>1, NumOpenMoved
  <2>5. conn' = c /\ OpenMore(c, tx, 1) /\ NumOpen(c, tx) <= MaxOpen
    BY <1>1, <1>3, <2>4 DEF PoolInv
  <2>6. \A x \in Requests \ {w} : conn'[x] = conn[x]
    BY <1>1, <1>3
  <2>7. conn'[w] = "none"
    BY <1>1, <1>3, <2>1 DEF Conns
  <2> HIDE DEF c
  <2>8. 1 \in {0, 1} /\ 1 <= opening
    BY <1>1
  <2>9. opening' \in Nat /\ PoolInv'
    BY <1>1, <1>3, <2>3, <2>5, <2>8, OpenMoreKeepsPool
  <2>10. ErrorAt(w) \in Answers
    BY DEF ErrorAt, Answers
  <2>11. /\ at' \in [Requests -> Nat] /\ answer' \in [Requests -> Answers]
         /\ \A x \in Requests \ {w} : at'[x] = at[x] /\ answer'[x] = answer[x]
         /\ at'[w] = 0
    BY <1>1, <1>3, <2>1, <2>10, EndFacts
  <2>12. ServerTypes'
    BY <1>1, <1>3, <2>3, <2>5, <2>9, <2>11 DEF ServerTypes
  <2>13. Placed(w)'
    BY <1>1, <2>1, <2>2, <2>7, <2>11, EndedIsPlaced
  <2>14. \A x \in Requests \ {w} : Stays(x)
    BY <1>1, <2>6, <2>11 DEF Stays
  <2> QED
    BY <1>1, <2>1, <2>9, <2>12, <2>13, <2>14, OthersStay DEF ServerInv
<1>4. CASE Having(conn, "waiting") = {} /\ opening' = opening - 1
             /\ UNCHANGED <<conn, at, answer, idle>>
  <2>1. NumOpen(conn, tx)' = NumOpen(conn, tx) - 1
    <3>1. NumOpen(conn, tx) = idle + opening + (Count(conn, "held") + Cardinality(tx))
                                 + Count(conn, "dialing")
      BY <1>1, NumOpenType
    <3>2. NumOpen(conn, tx)' = idle + opening' + (Count(conn, "held") + Cardinality(tx))
                                 + Count(conn, "dialing")
      BY <1>1, <1>4 DEF NumOpen, InUse, Count, Having
    <3>3. /\ Count(conn, "held") \in Nat /\ Cardinality(tx) \in Nat
          /\ Count(conn, "dialing") \in Nat /\ idle \in Nat
      BY <1>1, CountType, SubsetType DEF ServerTypes
    <3> QED
      BY <1>1, <1>4, <3>1, <3>2, <3>3
  <2>2. Having(conn, "waiting")' = {} /\ Count(conn, "waiting")' = 0
    BY <1>4, FS_EmptySet DEF Having, Count
  <2>3. opening' \in Nat
    BY <1>1, <1>4
  <2>4. NumOpen(conn, tx)' <= MaxOpen
    BY <1>1, <2>1, NumOpenType DEF PoolInv
  <2>5. PoolInv'
    BY <2>2, <2>3, <2>4 DEF PoolInv
  <2>6. ServerTypes' /\ Places'
    BY <1>1, <1>4, <2>3 DEF ServerTypes, Places, Placed, Statement
  <2> QED
    BY <2>5, <2>6 DEF ServerInv
<1> QED
  BY <1>2, <1>3, <1>4 DEF Open

\* A statement ends, failed or done, its connection comes back, and its request
\* ends or goes on to a statement that needs none yet.
LEMMA ReleaseKeeps ==
    ASSUME ServerInv, NEW r \in Requests, conn[r] = "held" \/ r \in tx,
           GiveBack([conn EXCEPT ![r] = "none"]), tx' = tx \ {r},
           UNCHANGED <<req, ctx, opening, left>>,
           at' \in [Requests -> Nat], answer' \in [Requests -> Answers],
           \A x \in Requests \ {r} : at'[x] = at[x] /\ answer'[x] = answer[x],
           at'[r] = 0 \/ (Advances(r) /\ Statement(r) \notin {"begin", "select", "write"})
    PROVE  ServerInv'
<1> DEFINE c == [conn EXCEPT ![r] = "none"]
           t == tx \ {r}
<1>1. ServerTypes /\ Places /\ PoolInv /\ conn \in Conns /\ opening \in Nat /\ Placed(r)
  BY DEF ServerInv, ServerTypes, Places
<1>2. /\ c \in Conns /\ t \in SUBSET Requests /\ at[r] # 0
      /\ Having(c, "waiting") = Having(conn, "waiting")
      /\ NumOpen(c, t) = NumOpen(conn, tx) - 1
  BY LetGo DEF Busy
<1>3. \A x \in Requests \ {r} : c[x] = conn[x]
  BY <1>1
<1>4. c[r] = "none"
  BY <1>1 DEF Conns
<1>5. GiveBack(c) /\ tx' = t
  OBVIOUS
<1>6. conn'[r] = "none" /\ \A x \in Requests \ {r} : conn'[x] = conn[x] \/ conn[x] = "waiting"
  BY <1>2, <1>3, <1>4, <1>5, GiveBackFacts
<1>7. r \notin tx' /\ \A x \in Requests \ {r} : x \in tx' <=> x \in tx
  OBVIOUS
<1> HIDE DEF c, t
<1>8. opening' \in {opening, opening - 1} \cap Nat
  BY <1>1
<1>9. NumOpen(c, t) + opening' + 1 = NumOpen(conn, tx) + opening
  BY <1>1, <1>2, NumOpenType DEF ServerInv, ServerTypes
<1>10. conn' \in Conns /\ idle' \in 0 .. MaxIdle /\ PoolInv'
  BY <1>1, <1>2, <1>5, <1>8, <1>9, GiveBackKeepsPool
<1>11. ServerTypes'
  BY <1>1, <1>2, <1>5, <1>10 DEF ServerTypes
<1>12. Placed(r)'
  <2>1. CASE at'[r] = 0
    <3>1. req'[r] # NoRequest
      BY <1>1, <1>2 DEF Placed
    <3> QED
      BY <1>6, <1>7, <2>1, <3>1, EndedIsPlaced
  <2>2. CASE Advances(r) /\ Statement(r) \notin {"begin", "select", "write"}
    BY <1>1, <1>2, <1>6, <1>7, <2>2, AdvancedIsPlaced
  <2> QED
    BY <2>1, <2>2
<1>13. \A x \in Requests \ {r} : Stays(x)
  BY <1>6, <1>7 DEF Stays
<1> QED
  BY <1>1, <1>10, <1>11, <1>12, <1>13, OthersStay DEF ServerInv

\* BEGIN keeps its connection for the transaction, COMMIT and a statement outside
\* one give theirs back.
LEMMA ExecuteKeeps ==
    ASSUME ServerInv, NEW r \in Requests, Execute(r)
    PROVE  ServerInv'
<1>1. /\ ServerTypes /\ Places /\ PoolInv /\ conn \in Conns /\ tx \in SUBSET Requests
      /\ Placed(r) /\ at[r] # 0 /\ UNCHANGED <<req, ctx, opening, left>>
  BY DEF ServerInv, ServerTypes, Places, Execute, Connected
<1>2. Advances(r)
  BY <1>1, EffectFacts DEF Execute
<1>3. /\ at' \in [Requests -> Nat] /\ answer' \in [Requests -> Answers]
      /\ \A x \in Requests \ {r} : at'[x] = at[x] /\ answer'[x] = answer[x]
  BY <1>2 DEF Advances
<1>4. IF TakesConnection(Statement(r)) THEN conn[r] = "held" ELSE r \in tx
  BY DEF Execute, Connected
<1>5. CASE Statement(r) = "begin"
  <2>1. conn[r] = "held" /\ r \notin tx
    BY <1>1, <1>4, <1>5 DEF TakesConnection, Placed
  <2>2. conn' = [conn EXCEPT ![r] = "none"] /\ tx' = tx \cup {r} /\ idle' = idle
    BY <1>5 DEF Execute
  <2>3. /\ conn' \in Conns /\ Having(conn', "waiting") = Having(conn, "waiting")
        /\ NumOpen(conn', tx) = NumOpen(conn, tx) - 1
    <3>1. tx \ {r} = tx
      BY <2>1
    <3> QED
      BY <2>1, <2>2, <3>1, LetGo DEF Busy
  <2>4. NumOpen(conn', tx') = NumOpen(conn', tx) + 1
    BY <1>1, <2>1, <2>2, NumOpenTx
  <2>5. NumOpen(conn', tx') = NumOpen(conn, tx)
    BY <1>1, <2>3, <2>4, NumOpenType
  <2>6. tx' \in SUBSET Requests
    BY <1>1, <2>2
  <2>7. PoolInv'
    BY <1>1, <2>2, <2>3, <2>5, <2>6, SamePool
  <2>8. ServerTypes'
    BY <1>1, <1>3, <2>2, <2>3, <2>6 DEF ServerTypes
  <2>9. /\ conn'[r] = "none" /\ r \in tx' /\ req' = req
        /\ \A x \in Requests \ {r} : conn'[x] = conn[x] /\ (x \in tx' <=> x \in tx)
    BY <1>1, <2>2 DEF Conns
  <2>10. Placed(r)'
    BY <1>1, <1>2, <1>5, <2>9, AdvancedIsPlaced
  <2>11. \A x \in Requests \ {r} : Stays(x)
    BY <1>1, <1>3, <2>9 DEF Stays
  <2> QED
    BY <1>1, <2>7, <2>8, <2>10, <2>11, OthersStay DEF ServerInv
<1>6. CASE Statement(r) = "commit"
  <2>1. r \in tx /\ GiveBack(conn) /\ tx' = tx \ {r}
    BY <1>4, <1>6 DEF Execute, TakesConnection
  <2>2. [conn EXCEPT ![r] = "none"] = conn
    BY <2>1, LetGo
  <2> QED
    BY <1>1, <1>2, <1>3, <1>6, <2>1, <2>2, ReleaseKeeps
<1>7. CASE Statement(r) \notin {"begin", "commit"} /\ conn[r] = "held"
  <2>1. r \notin tx /\ Statement(r) \notin {"select", "write"}
    BY <1>1, <1>7 DEF Placed, TakesConnection
  <2>2. tx' = tx \ {r} /\ GiveBack([conn EXCEPT ![r] = "none"])
    BY <1>7, <2>1 DEF Execute
  <2> QED
    BY <1>1, <1>2, <1>3, <1>7, <2>1, <2>2, ReleaseKeeps
<1>8. CASE Statement(r) \notin {"begin", "commit"} /\ conn[r] # "held"
  <2>1. Statement(r) \in {"select", "write"} /\ r \in tx /\ conn[r] = "none"
    BY <1>1, <1>4, <1>8 DEF TakesConnection, Placed
  <2>2. UNCHANGED <<conn, tx, idle>>
    BY <1>8 DEF Execute
  <2>3. PoolInv'
    BY <1>1, <2>2 DEF PoolInv, NumOpen, InUse, Having, Count
  <2>4. ServerTypes'
    BY <1>1, <1>3, <2>2 DEF ServerTypes
  <2>5. Placed(r)'
    BY <1>1, <1>2, <2>1, <2>2, AdvancedIsPlaced
  <2>6. \A x \in Requests \ {r} : Stays(x)
    BY <1>1, <1>3, <2>2 DEF Stays
  <2> QED
    BY <1>1, <2>3, <2>4, <2>5, <2>6, OthersStay DEF ServerInv
<1> QED
  BY <1>5, <1>6, <1>7, <1>8

\* A transaction that fails is rolled back.
LEMMA FailKeeps ==
    ASSUME ServerInv, NEW r \in Requests, Fail(r)
    PROVE  ServerInv'
<1>1. ErrorAt(r) \in Answers /\ ServerTypes
  BY DEF ErrorAt, Answers, ServerInv
<1>2. /\ at' \in [Requests -> Nat] /\ answer' \in [Requests -> Answers]
      /\ \A x \in Requests \ {r} : at'[x] = at[x] /\ answer'[x] = answer[x]
      /\ at'[r] = 0
  BY <1>1, EndFacts DEF Fail
<1>3. conn[r] = "held" \/ r \in tx
  BY DEF Fail, Connected
<1> QED
  BY <1>2, <1>3, ReleaseKeeps DEF Fail

\* Whatever its goroutine was doing, it ends without a connection; one that is
\* closed makes room for others.
LEMMA CancelKeeps ==
    ASSUME ServerInv, NEW r \in Requests, Cancel(r)
    PROVE  ServerInv'
<1> DEFINE c == [conn EXCEPT ![r] = "none"]
           t == tx \ {r}
<1>1. /\ ServerTypes /\ Places /\ PoolInv /\ conn \in Conns /\ tx \in SUBSET Requests
      /\ Placed(r) /\ at[r] # 0 /\ UNCHANGED <<req, ctx, answer>> /\ left \in Nat
  BY DEF ServerInv, ServerTypes, Places, Cancel
<1>2. /\ at' \in [Requests -> Nat] /\ answer' \in [Requests -> Answers]
      /\ \A x \in Requests \ {r} : at'[x] = at[x] /\ answer'[x] = answer[x]
      /\ at'[r] = 0 /\ req[r] # NoRequest
  BY <1>1 DEF Cancel, ServerTypes, Placed
<1>3. ASSUME conn[r] = "held" \/ r \in tx, GiveBack(c), tx' = t, UNCHANGED <<opening, left>>
      PROVE  ServerInv'
  BY <1>1, <1>2, <1>3, ReleaseKeeps
<1>4. ASSUME conn[r] \in Busy \/ r \in tx, Close(c, t), left' = left + 1
      PROVE  ServerInv'
  <2>1. /\ c \in Conns /\ t \in SUBSET Requests
        /\ Having(c, "waiting") = Having(conn, "waiting")
        /\ NumOpen(c, t) = NumOpen(conn, tx) - 1
    BY <1>4, LetGo
  <2>2. conn' = c /\ tx' = t /\ idle' = idle /\ OpenMore(c, t, 0)
    BY <1>4 DEF Close
  <2>3. /\ conn'[r] = "none" /\ r \notin tx'
        /\ \A x \in Requests \ {r} : conn'[x] = conn[x] /\ (x \in tx' <=> x \in tx)
    BY <1>1, <2>2 DEF Conns
  <2> HIDE DEF c, t
  <2>4. NumOpen(c, t) <= MaxOpen
    BY <1>1, <2>1, NumOpenType DEF PoolInv
  <2>5. 0 \in {0, 1} /\ 0 <= opening
    BY <1>1 DEF ServerTypes
  <2>6. opening' \in Nat /\ PoolInv'
    BY <1>1, <2>1, <2>2, <2>4, <2>5, OpenMoreKeepsPool
  <2>7. left' \in Nat
    BY <1>1, <1>4
  <2>8. ServerTypes'
    BY <1>1, <1>2, <2>1, <2>2, <2>6, <2>7 DEF ServerTypes
  <2>9. Placed(r)'
    BY <1>1, <1>2, <2>3, EndedIsPlaced
  <2>10. \A x \in Requests \ {r} : Stays(x)
    BY <1>1, <1>2, <2>3 DEF Stays
  <2> QED
    BY <1>1, <2>6, <2>8, <2>9, <2>10, OthersStay DEF ServerInv
<1>5. ASSUME conn[r] \notin Busy, r \notin tx, conn' = c, UNCHANGED <<tx, idle, opening, left>>
      PROVE  ServerInv'
  <2>1. /\ conn' \in Conns /\ Having(conn', "waiting") \subseteq Having(conn, "waiting")
        /\ tx' \in SUBSET Requests
    BY <1>1, <1>5 DEF Conns, Having, ConnStates
  <2>2. NumOpen(conn', tx') = NumOpen(conn, tx)
    <3>1. CASE conn[r] = "none"
      <4>1. c = conn
        BY <1>1, <3>1 DEF Conns
      <4> QED
        BY <1>5, <4>1
    <3>2. CASE conn[r] # "none"
      <4>1. "none" \in ConnStates /\ "none" \notin Busy
        BY DEF ConnStates, Busy
      <4>2. NumOpen(c, tx) = NumOpen(conn, tx)
        BY <1>1, <1>5, <3>2, <4>1, NumOpenMoved
      <4> QED
        BY <1>5, <4>2
    <3> QED
      BY <3>1, <3>2
  <2>3. PoolInv'
    BY <1>1, <1>5, <2>1, <2>2, SamePool
  <2>4. ServerTypes'
    BY <1>1, <1>2, <1>5, <2>1 DEF ServerTypes
  <2>5. Placed(r)'
    BY <1>1, <1>2, <1>5, EndedIsPlaced DEF Conns
  <2>6. \A x \in Requests \ {r} : Stays(x)
    BY <1>1, <1>2, <1>5 DEF Stays, Conns
  <2> QED
    BY <1>1, <2>3, <2>4, <2>5, <2>6, OthersStay DEF ServerInv
<1>6. \/ (conn[r] = "held" \/ r \in tx) /\ GiveBack(c) /\ tx' = t /\ UNCHANGED <<opening, left>>
      \/ /\ conn[r] = "held" \/ r \in tx \/ conn[r] = "dialing"
         /\ Close(c, t) /\ left' = left + 1
      \/ /\ ~(conn[r] = "held" \/ r \in tx) /\ conn[r] # "dialing"
         /\ conn' = c /\ UNCHANGED <<tx, idle, opening, left>>
  BY DEF Cancel
<1> QED
  BY <1>3, <1>4, <1>5, <1>6 DEF Busy

\* The invariant of the server: every step keeps it.
LEMMA ServerStepKeeps ==
    ASSUME ServerInv, ServerNext
    PROVE  ServerInv'
<1>1. ASSUME NEW r \in Requests, Step(r) PROVE ServerInv'
  BY <1>1, TakeKeeps, DialKeeps, ExecuteKeeps, FailKeeps, CancelKeeps DEF Step
<1>2. ASSUME NEW r \in Requests, EndContext(r) PROVE ServerInv'
  <2>1. /\ at[r] # 0 /\ ctx' = [ctx EXCEPT ![r] = "done"]
        /\ answer' = [answer EXCEPT ![r] = "error"]
        /\ UNCHANGED <<req, at, conn, tx, idle, opening, left>>
    BY <1>2 DEF EndContext, pool
  <2>2. ServerTypes' /\ PoolInv'
    BY <2>1 DEF ServerInv, ServerTypes, Answers, PoolInv, NumOpen, InUse, Having, Count
  <2>3. \A x \in Requests : Stays(x) /\ Placed(x)
    BY <2>1 DEF Stays, ServerInv, ServerTypes, Places
  <2>4. Places'
    BY <2>3 DEF Places, Placed, Statement, Stays
  <2> QED
    BY <2>2, <2>4 DEF ServerInv
<1>3. CASE Open
  BY <1>3, OpenKeeps
<1>4. ASSUME UNCHANGED <<req, at, ctx, answer, conn, tx, idle, opening>>, left' \in Nat
      PROVE  ServerInv'
  BY <1>4 DEF ServerInv, ServerTypes, Places, Placed, Statement, PoolInv, NumOpen, InUse,
              Having, Count
<1>5. CASE Drop
  BY <1>4, <1>5 DEF Drop, ServerInv, ServerTypes, request, pool
<1>6. ASSUME NEW id \in DOMAIN sessions, Expire(id) PROVE ServerInv'
  BY <1>4, <1>6 DEF Expire, ServerInv, ServerTypes, request, pool
<1> QED
  BY <1>1, <1>2, <1>3, <1>5, <1>6 DEF ServerNext

\* It holds at the start, when no connection is open.
LEMMA ServerInvInit == ServerInit => ServerInv
<1> SUFFICES ASSUME ServerInit PROVE ServerInv
  OBVIOUS
<1>1. ServerTypes /\ conn \in Conns
  BY DEF ServerInit, ServerTypes, Answers, ConnStates, Conns
<1>2. Places
  BY DEF ServerInit, Places, Placed
<1>3. Having(conn, "held") = {} /\ Having(conn, "dialing") = {} /\ Having(conn, "waiting") = {}
  BY DEF ServerInit, Having
<1>4. Cardinality({}) = 0
  BY FS_EmptySet
<1>5. tx = {} /\ idle = 0 /\ opening = 0
  BY DEF ServerInit
<1>6. PoolInv
  <2>1. NumOpen(conn, tx) = 0 + 0 + (0 + 0) + 0
    BY <1>3, <1>4, <1>5 DEF NumOpen, InUse
  <2>2. Count(conn, "waiting") = 0
    BY <1>3, <1>4 DEF Count
  <2> QED
    BY <1>3, <1>5, <2>1, <2>2 DEF PoolInv
<1> QED
  BY <1>1, <1>2, <1>6 DEF ServerInv

\* A step of the clients alone does not touch the server.
LEMMA ServerInvStutter == ServerInv /\ UNCHANGED serverVars => ServerInv'
BY DEF ServerInv, ServerTypes, Places, Placed, Statement, PoolInv, NumOpen, InUse,
       Having, Count, serverVars
-----------------------------------------------------------------------------
(* Sessions and orders *)

Session == [user : Users, live : BOOLEAN]

\* A login that found its user creates a session of that user, with its last
\* statement.
Credentials(r) ==
    /\ at[r] # 0 /\ Statement(r) = "create" => req[r].right /\ req[r].user \in Users
    /\ made[r] # 0 => /\ at[r] = 0 /\ req[r].kind = "login" /\ req[r].right
                      /\ sessions[made[r]].user = req[r].user

DataInv ==
    /\ sessions \in Seq(Session)
    /\ uid \in [Requests -> Users \cup {Nobody}]
    /\ made \in [Requests -> 0 .. Len(sessions)]
    /\ planned \subseteq orders /\ orders \subseteq Requests
    /\ chosen \in [Requests -> SUBSET orders]
    /\ \A r \in Requests :
         /\ Credentials(r)
         /\ req[r] = NoRequest => uid[r] = Nobody /\ made[r] = 0 /\ r \notin orders
         /\ answer[r] = "ok" /\ req[r].kind = "order" => r \in orders
         /\ answer[r] = "ok" /\ req[r].kind = "plan"
               => chosen[r] # {} /\ chosen[r] \subseteq planned

\* What a step of the server may do to the sessions and the orders.
MakesSession(r) ==
    /\ at[r] # 0 /\ Statement(r) = "create" /\ at'[r] = 0
    /\ made'[r] \in DOMAIN sessions' /\ sessions'[made'[r]].user = req[r].user

FindsUser(r) ==
    /\ at[r] # 0 /\ req[r].cookie \in DOMAIN sessions
    /\ uid'[r] = sessions[req[r].cookie].user

Answering ==
    \A r \in Requests :
      /\ at[r] = 0 => at'[r] = 0
      /\ answer'[r] = answer[r] \/ (answer[r] = "none" /\ at[r] # 0)
      /\ answer'[r] = "ok" /\ answer[r] # "ok" =>
            /\ req[r].kind = "order" => r \in orders'
            /\ req[r].kind = "plan" => chosen'[r] # {} /\ chosen'[r] \subseteq planned'
      /\ at'[r] # 0 /\ Statement(r)' = "create" =>
            \/ at'[r] = at[r]
            \/ Statement(r) = "find" /\ req[r].user \in Users /\ req[r].right

Tables ==
    /\ sessions' \in Seq(Session) /\ Len(sessions) <= Len(sessions')
    /\ \A i \in DOMAIN sessions : sessions'[i].user = sessions[i].user
    /\ planned' \subseteq orders' /\ orders \subseteq orders' /\ planned \subseteq planned'
    /\ chosen' \in [Requests -> SUBSET orders']
    /\ \A r \in Requests : chosen'[r] = chosen[r] \/ at[r] # 0
    /\ \A r \in orders' \ orders : r \in Requests /\ at[r] # 0
    /\ made' \in [Requests -> Nat] /\ uid' \in [Requests -> Users \cup {Nobody}]
    /\ \A r \in Requests : /\ made'[r] = made[r] \/ MakesSession(r)
                           /\ uid'[r] = uid[r] \/ FindsUser(r)

Progress == req' = req /\ Answering /\ Tables

\* Tables that a step leaves alone.
LEMMA TablesStay ==
    ASSUME DataInv, UNCHANGED <<uid, made, chosen, sessions, orders, planned>>
    PROVE  Tables
<1>1. Len(sessions) \in Nat
  BY DEF DataInv
<1> QED
  BY <1>1 DEF DataInv, Tables

\* A goroutine that stays at its statement or ends with an error finds and makes
\* nothing.
LEMMA QuietProgress ==
    ASSUME DataInv, req' = req, UNCHANGED <<uid, made, chosen, sessions, orders, planned>>,
           \A r \in Requests :
              /\ at'[r] = at[r] \/ at'[r] = 0
              /\ \/ answer'[r] = answer[r]
                 \/ answer[r] = "none" /\ at[r] # 0 /\ answer'[r] # "ok"
    PROVE  Progress
<1>1. Answering
  BY DEF Answering, Statement
<1> QED
  BY <1>1, TablesStay DEF Progress

\* Dials, errors and idle connections are quiet.
LEMMA ErrorsAreQuiet ==
    ASSUME ServerInv, DataInv, NEW r \in Requests, at[r] # 0,
           End(r, ErrorAt(r)), req' = req, UNCHANGED <<uid, made, chosen, sessions, orders, planned>>
    PROVE  Progress
<1>1. ErrorAt(r) \in Answers \ {"ok"} /\ ServerTypes
  BY DEF ErrorAt, Answers, ServerInv
<1>2. /\ \A x \in Requests \ {r} : at'[x] = at[x] /\ answer'[x] = answer[x]
      /\ at'[r] = 0
      /\ answer'[r] = IF answer[r] = "none" THEN ErrorAt(r) ELSE answer[r]
  BY <1>1, EndFacts
<1> QED
  BY <1>1, <1>2, QuietProgress

\* A row that is appended leaves those before it.
LEMMA SessionAppended ==
    ASSUME DataInv, NEW s \in Session
    PROVE  LET new == Append(sessions, s)
           IN  /\ new \in Seq(Session) /\ Len(new) = Len(sessions) + 1
               /\ new[Len(sessions) + 1] = s /\ Len(sessions) \in Nat
               /\ \A i \in DOMAIN sessions : new[i] = sessions[i]
               /\ DOMAIN new = 1 .. Len(sessions) + 1
BY DEF DataInv

\* Where the statements that the data depend on are.
LEMMA StatementPlaces ==
    ASSUME NEW k \in Kinds, NEW i \in 1 .. Len(Statements[k])
    PROVE  /\ Statements[k][i] = "create" <=> k = "login" /\ i = 2
           /\ Statements[k][i] = "find" <=> k = "login" /\ i = 1
           /\ k = "login" => Len(Statements[k]) = 2
           /\ Statements[k][i] = "commit" <=> /\ k \in {"order", "plan"}
                                              /\ i = Len(Statements[k])
<1>1. CASE k = "login"
  BY <1>1, StatementsOf
<1>2. CASE k = "product"
  BY <1>2, StatementsOf
<1>3. CASE k = "image"
  BY <1>3, StatementsOf
<1>4. CASE k = "order"
  BY <1>4, StatementsOf
<1>5. CASE k = "history"
  BY <1>5, StatementsOf
<1>6. CASE k = "plan"
  BY <1>6, StatementsOf
<1>7. CASE k = "status"
  BY <1>7, StatementsOf
<1> QED
  BY <1>1, <1>2, <1>3, <1>4, <1>5, <1>6, <1>7, StatementsOf

\* The statement after the first of a login is its last.
LEMMA LoginStatements ==
    ASSUME NEW r \in Requests, Placed(r), at[r] # 0
    PROVE  /\ Statement(r) = "create" => at[r] = Len(Statements[req[r].kind])
           /\ Statement(r) = "commit" <=> /\ req[r].kind \in {"order", "plan"}
                                          /\ at[r] = Len(Statements[req[r].kind])
<1>1. req[r].kind \in Kinds /\ at[r] \in 1 .. Len(Statements[req[r].kind])
      /\ Statement(r) = Statements[req[r].kind][at[r]]
  BY StatementType
<1> QED
  BY <1>1, StatementPlaces

\* A statement's goroutine that goes on.
LEMMA GoOnAnswers ==
    ASSUME ServerInv, NEW r \in Requests, at[r] # 0, GoOn(r), req' = req,
           Statement(r) = "find" => req[r].user \in Users /\ req[r].right,
           Statement(r) # "commit"
    PROVE  Answering
<1>1. ServerTypes /\ Placed(r) /\ at \in [Requests -> Nat]
  BY DEF ServerInv, Places, ServerTypes
<1>2. CASE at[r] = Len(Statements[req[r].kind])
  <2>1. /\ \A x \in Requests \ {r} : at'[x] = at[x] /\ answer'[x] = answer[x]
        /\ at'[r] = 0
        /\ answer'[r] = IF answer[r] = "none" THEN "ok" ELSE answer[r]
    <3>1. "ok" \in Answers /\ End(r, "ok")
      BY <1>2 DEF Answers, GoOn
    <3> QED
      BY <1>1, <3>1, EndFacts
  <2>2. req[r].kind \notin {"order", "plan"}
    BY <1>1, <1>2, LoginStatements
  <2> QED
    BY <2>1, <2>2 DEF Answering, Statement
<1>3. CASE at[r] # Len(Statements[req[r].kind])
  <2>1. at' = [at EXCEPT ![r] = at[r] + 1] /\ answer' = answer
    BY <1>3 DEF GoOn
  <2>2. at'[r] = at[r] + 1 /\ \A x \in Requests \ {r} : at'[x] = at[x]
    BY <1>1, <2>1
  <2>3. Statement(r)' = "create" => Statement(r) = "find"
    <3>1. /\ req[r].kind \in Kinds /\ at[r] \in 1 .. Len(Statements[req[r].kind])
          /\ Statement(r) = Statements[req[r].kind][at[r]]
      BY <1>1, StatementType
    <3>2. Statement(r)' = Statements[req[r].kind][at[r] + 1]
      BY <2>2 DEF Statement
    <3>3. at[r] + 1 \in 1 .. Len(Statements[req[r].kind])
      BY <1>3, <3>1, StatementFacts
    <3>4. Statement(r)' = "create" => req[r].kind = "login" /\ at[r] + 1 = 2
      <4> DEFINE k == req[r].kind
                 i == at[r] + 1
      <4>1. k \in Kinds /\ i \in 1 .. Len(Statements[k])
        BY <3>1, <3>3
      <4>2. Statement(r)' = Statements[k][i]
        BY <3>2
      <4> HIDE DEF k, i
      <4>3. Statements[k][i] = "create" <=> k = "login" /\ i = 2
        BY <4>1, StatementPlaces
      <4> QED
        BY <4>2, <4>3 DEF k, i
    <3>5. at[r] + 1 = 2 => at[r] = 1
      BY <1>1
    <3> QED
      BY <3>1, <3>4, <3>5, StatementPlaces
  <2> QED
    BY <2>1, <2>2, <2>3 DEF Answering, Statement
<1> QED
  BY <1>2, <1>3

\* So does one that ends: it is an order's only after COMMIT.
LEMMA EndAnswers ==
    ASSUME ServerInv, NEW r \in Requests, at[r] # 0, NEW a \in Answers, End(r, a), req' = req,
           a = "ok" => /\ req[r].kind = "order" => r \in orders'
                       /\ req[r].kind = "plan"
                             => chosen'[r] # {} /\ chosen'[r] \subseteq planned'
    PROVE  Answering
<1>1. ServerTypes
  BY DEF ServerInv
<1>2. /\ \A x \in Requests \ {r} : at'[x] = at[x] /\ answer'[x] = answer[x]
      /\ at'[r] = 0
      /\ answer'[r] = IF answer[r] = "none" THEN a ELSE answer[r]
  BY <1>1, EndFacts
<1> QED
  BY <1>2 DEF Answering, Statement

\* What each statement does.
LEMMA ExecuteProgresses ==
    ASSUME ServerInv, DataInv, NEW r \in Requests, Execute(r)
    PROVE  Progress
<1>1. ServerTypes /\ Placed(r) /\ at[r] # 0 /\ req' = req /\ Effect(r)
  BY DEF ServerInv, Places, Execute, Connected
<1>2. req[r] \in Question /\ req[r].kind \in Kinds
  BY <1>1, StatementType DEF Placed
<1>3. CASE Statement(r) = "find"
  <2>1. UNCHANGED <<uid, made, chosen, sessions, orders, planned>>
    BY <1>1, <1>3 DEF Effect, Find, tables
  <2>2. \/ GoOn(r) /\ req[r].user \in Users /\ req[r].right
        \/ End(r, "refused") /\ "refused" \in Answers
    BY <1>1, <1>3 DEF Effect, Find, FindByUserName, PasswordMatches, Answers
  <2>3. Answering
    BY <1>1, <1>3, <2>2, GoOnAnswers, EndAnswers
  <2> QED
    BY <1>1, <2>1, <2>3, TablesStay DEF Progress
<1>4. CASE Statement(r) = "create"
  <2> DEFINE new == [user |-> req[r].user, live |-> TRUE]
  <2>1. /\ sessions' = Append(sessions, new)
        /\ made' = [made EXCEPT ![r] = Len(sessions) + 1] /\ GoOn(r)
        /\ UNCHANGED <<uid, chosen, orders, planned>>
    BY <1>1, <1>4 DEF Effect, CreateSession
  <2>2. new \in Session
    BY <1>1, <1>4 DEF DataInv, Credentials, Session
  <2>3. /\ sessions' \in Seq(Session) /\ Len(sessions') = Len(sessions) + 1
        /\ sessions'[Len(sessions) + 1] = new /\ Len(sessions) \in Nat
        /\ \A i \in DOMAIN sessions : sessions'[i] = sessions[i]
        /\ DOMAIN sessions' = 1 .. Len(sessions) + 1
    BY <2>1, <2>2, SessionAppended
  <2>4. Answering
    BY <1>1, <1>4, <2>1, GoOnAnswers
  <2>5. at'[r] = 0
    <3>1. End(r, "ok") /\ "ok" \in Answers
      BY <1>1, <1>4, <2>1, LoginStatements DEF GoOn, Answers
    <3> QED
      BY <1>1, <3>1, EndFacts
  <2>6. /\ made'[r] = Len(sessions) + 1 /\ \A x \in Requests \ {r} : made'[x] = made[x]
        /\ made' \in [Requests -> Nat]
    BY <2>1, <2>3 DEF DataInv
  <2>7. MakesSession(r)
    BY <1>1, <1>4, <2>3, <2>5, <2>6 DEF MakesSession
  <2>8. Tables
    BY <2>1, <2>3, <2>6, <2>7 DEF Tables, DataInv
  <2> QED
    BY <1>1, <2>4, <2>8 DEF Progress
<1>5. CASE Statement(r) = "session"
  <2>1. UNCHANGED <<made, chosen, sessions, orders, planned>>
    BY <1>1, <1>5 DEF Effect, CheckSession, tables
  <2>2. CASE /\ End(r, "refused") /\ UNCHANGED uid
    <3>1. "refused" \in Answers
      BY DEF Answers
    <3>2. Answering
      BY <1>1, <2>2, <3>1, EndAnswers
    <3> QED
      BY <1>1, <2>1, <2>2, <3>2, TablesStay DEF Progress
  <2>3. CASE /\ \E u \in FindUserBySessionID(req[r].cookie) : uid' = [uid EXCEPT ![r] = u]
             /\ IF req[r].kind = "image"
                THEN \E a \in GetImage(req[r].path) : End(r, a)
                ELSE GoOn(r)
    <3>1. PICK u \in FindUserBySessionID(req[r].cookie) : uid' = [uid EXCEPT ![r] = u]
      BY <2>3
    <3>2. req[r].cookie \in DOMAIN sessions /\ u = sessions[req[r].cookie].user
      BY DEF FindUserBySessionID
    <3>3. u \in Users
      <4>1. sessions[req[r].cookie] \in Session
        BY <3>2 DEF DataInv
      <4> QED
        BY <3>2, <4>1 DEF Session
    <3>4. /\ uid'[r] = u /\ \A x \in Requests \ {r} : uid'[x] = uid[x]
          /\ uid' \in [Requests -> Users \cup {Nobody}]
      BY <3>1, <3>3 DEF DataInv
    <3>5. FindsUser(r)
      BY <1>1, <3>2, <3>4 DEF FindsUser
    <3>6. Len(sessions) \in Nat /\ made \in [Requests -> Nat]
      BY DEF DataInv
    <3>7. Tables
      BY <2>1, <3>4, <3>5, <3>6 DEF Tables, DataInv
    <3>8. Answering
      <4>1. CASE req[r].kind = "image"
        <5>1. PICK a \in GetImage(req[r].path) : End(r, a)
          BY <2>3, <4>1
        <5>2. a \in Answers
          BY DEF GetImage, Answers
        <5> QED
          BY <1>1, <4>1, <5>1, <5>2, EndAnswers
      <4>2. CASE req[r].kind # "image"
        BY <1>1, <1>5, <2>3, <4>2, GoOnAnswers
      <4> QED
        BY <4>1, <4>2
    <3> QED
      BY <1>1, <3>7, <3>8 DEF Progress
  <2> QED
    BY <1>1, <1>5, <2>2, <2>3 DEF Effect, CheckSession
<1>6. CASE Statement(r) = "commit"
  <2>1. UNCHANGED <<uid, made, chosen, sessions>>
    BY <1>1, <1>6 DEF Effect, Commit
  <2>2. Len(sessions) \in Nat /\ made \in [Requests -> Nat]
    BY DEF DataInv
  <2>3. CASE req[r].kind = "order" /\ orders' = orders \cup {r} /\ planned' = planned
             /\ End(r, "ok")
    <3>1. "ok" \in Answers
      BY DEF Answers
    <3>2. Answering
      BY <1>1, <2>3, <3>1, EndAnswers
    <3>3. Tables
      BY <1>1, <2>1, <2>2, <2>3 DEF Tables, DataInv
    <3> QED
      BY <1>1, <3>2, <3>3 DEF Progress
  <2>4. CASE req[r].kind # "order" /\ planned' = planned \cup chosen[r] /\ orders' = orders
             /\ End(r, IF chosen[r] = {} THEN "empty" ELSE "ok")
    <3>1. (IF chosen[r] = {} THEN "empty" ELSE "ok") \in Answers
      BY DEF Answers
    <3>2. Answering
      BY <1>1, <2>1, <2>4, <3>1, EndAnswers
    <3>3. chosen[r] \subseteq orders
      BY DEF DataInv
    <3>4. Tables
      BY <1>1, <2>1, <2>2, <2>4, <3>3 DEF Tables, DataInv
    <3> QED
      BY <1>1, <3>2, <3>4 DEF Progress
  <2> QED
    BY <1>1, <1>6, <2>3, <2>4 DEF Effect, Commit
<1>7. CASE Statement(r) = "select"
  <2>1. Select(r) /\ UNCHANGED <<uid, made, sessions, orders, planned>>
    BY <1>1, <1>7 DEF Effect, Select, tables
  <2>2. PICK plan \in SUBSET (orders \ planned) : chosen' = [chosen EXCEPT ![r] = plan]
    BY <2>1 DEF Select
  <2>3. /\ chosen' \in [Requests -> SUBSET orders]
        /\ \A x \in Requests \ {r} : chosen'[x] = chosen[x]
    BY <2>2 DEF DataInv
  <2>4. Len(sessions) \in Nat /\ made \in [Requests -> Nat]
    BY DEF DataInv
  <2>5. Tables
    BY <1>1, <2>1, <2>3, <2>4 DEF Tables, DataInv
  <2>6. Advances(r) /\ at'[r] \in {3, 4} /\ answer' = answer
    BY <1>1, <1>7, <2>1, SelectFacts
  <2>7. Statement(r)' # "create"
    <3>1. req[r].kind = "plan"
      BY <1>1, <1>7, StatementType, SelectPlace
    <3> QED
      BY <1>1, <2>6, <3>1, StatementsOf DEF Statement
  <2>8. Answering
    BY <1>1, <2>6, <2>7 DEF Answering, Advances, Statement
  <2> QED
    BY <1>1, <2>5, <2>8 DEF Progress
<1>8. CASE Statement(r) \notin {"find", "create", "session", "select", "commit"}
  <2>1. GoOn(r) /\ UNCHANGED <<uid, made, chosen, sessions, orders, planned>>
    BY <1>1, <1>8 DEF Effect, tables
  <2>2. Answering
    BY <1>1, <1>8, <2>1, GoOnAnswers
  <2> QED
    BY <1>1, <2>1, <2>2, TablesStay DEF Progress
<1> QED
  BY <1>3, <1>4, <1>5, <1>6, <1>7, <1>8

\* The statement given up in its middle may be the INSERT of a session.
LEMMA CancelProgresses ==
    ASSUME ServerInv, DataInv, NEW r \in Requests, Cancel(r)
    PROVE  Progress
<1>1. /\ ServerTypes /\ Placed(r) /\ at[r] # 0
      /\ UNCHANGED <<req, uid, made, chosen, answer, orders, planned>>
  BY DEF ServerInv, Places, Cancel
<1>2. /\ at'[r] = 0 /\ \A x \in Requests \ {r} : at'[x] = at[x]
  BY <1>1 DEF Cancel, ServerTypes
<1>3. Answering
  BY <1>1, <1>2 DEF Answering, Statement
<1>4. CASE sessions' = sessions
  BY <1>1, <1>3, <1>4, TablesStay DEF Progress
<1>5. CASE /\ Statement(r) = "create"
           /\ sessions' = Append(sessions, [user |-> req[r].user, live |-> TRUE])
  <2>1. [user |-> req[r].user, live |-> TRUE] \in Session
    BY <1>1, <1>5 DEF DataInv, Credentials, Session
  <2>2. /\ sessions' \in Seq(Session) /\ Len(sessions') = Len(sessions) + 1
        /\ Len(sessions) \in Nat
        /\ \A i \in DOMAIN sessions : sessions'[i] = sessions[i]
    BY <1>5, <2>1, SessionAppended
  <2>3. Tables
    BY <1>1, <2>2 DEF Tables, DataInv
  <2> QED
    BY <1>1, <1>3, <2>3 DEF Progress
<1> QED
  BY <1>4, <1>5 DEF Cancel

\* Every step of the server makes progress of this kind.
LEMMA ServerProgresses ==
    ASSUME ServerInv, DataInv, ServerNext
    PROVE  Progress
<1>1. ServerTypes /\ at \in [Requests -> Nat] /\ answer \in [Requests -> Answers]
  BY DEF ServerInv, ServerTypes
<1>2. ASSUME UNCHANGED <<req, at, uid, made, chosen, answer, sessions, orders, planned>>
      PROVE  Progress
  BY <1>2, QuietProgress
<1>3. ASSUME NEW r \in Requests, Take(r) PROVE Progress
  BY <1>2, <1>3 DEF Take, request, tables
<1>4. ASSUME NEW r \in Requests, Dial(r) PROVE Progress
  <2>1. CASE UNCHANGED <<at, answer>>
    BY <1>2, <1>4, <2>1 DEF Dial, tables
  <2>2. CASE End(r, ErrorAt(r))
    <3>1. at[r] # 0
      BY <1>4 DEF Dial, ServerInv, Places, Placed
    <3> QED
      BY <1>4, <2>2, <3>1, ErrorsAreQuiet DEF Dial, tables
  <2> QED
    BY <1>4, <2>1, <2>2 DEF Dial
<1>5. ASSUME NEW r \in Requests, Fail(r) PROVE Progress
  <2>1. at[r] # 0 /\ End(r, ErrorAt(r)) /\ UNCHANGED <<req, uid, made, chosen, tables>>
    BY <1>5 DEF Fail, Connected
  <2> QED
    BY <2>1, ErrorsAreQuiet DEF tables
<1>6. ASSUME NEW r \in Requests, EndContext(r) PROVE Progress
  <2>1. /\ at[r] # 0 /\ answer[r] = "none" /\ answer' = [answer EXCEPT ![r] = "error"]
        /\ UNCHANGED <<req, at, uid, made, chosen, sessions, orders, planned>>
    BY <1>6 DEF EndContext, tables
  <2> QED
    BY <1>1, <2>1, QuietProgress
<1>7. CASE Open
  <2>1. CASE UNCHANGED <<at, answer>>
    BY <1>2, <1>7, <2>1 DEF Open, tables
  <2>2. ASSUME NEW w \in Having(conn, "waiting"), End(w, ErrorAt(w))
        PROVE  Progress
    <3>1. w \in Requests /\ at[w] # 0
      BY DEF Having, ServerInv, Places, Placed
    <3> QED
      BY <1>7, <2>2, <3>1, ErrorsAreQuiet DEF Open, tables
  <2> QED
    BY <1>7, <2>1, <2>2 DEF Open
<1>8. CASE Drop
  BY <1>2, <1>8 DEF Drop, request, tables
<1>9. ASSUME NEW id \in DOMAIN sessions, Expire(id) PROVE Progress
  <2>1. /\ UNCHANGED <<req, at, uid, made, chosen, answer, orders, planned>>
        /\ sessions' = [sessions EXCEPT ![id].live = FALSE]
    BY <1>9 DEF Expire, request
  <2>2. /\ sessions \in Seq(Session) /\ Len(sessions) \in Nat /\ made \in [Requests -> Nat]
        /\ DOMAIN sessions = 1 .. Len(sessions)
    BY DEF DataInv
  <2>3. sessions' = [sessions EXCEPT ![id] = [sessions[id] EXCEPT !.live = FALSE]]
    BY <2>1
  <2>4. sessions[id] \in Session
    BY <2>2
  <2>5. /\ [sessions[id] EXCEPT !.live = FALSE] \in Session
        /\ [sessions[id] EXCEPT !.live = FALSE].user = sessions[id].user
    BY <2>4 DEF Session
  <2>6. sessions' \in Seq(Session) /\ Len(sessions') = Len(sessions)
    BY <2>2, <2>3, <2>5
  <2>7. \A i \in DOMAIN sessions : sessions'[i].user = sessions[i].user
    BY <2>2, <2>3, <2>5
  <2>8. Tables
    BY <2>1, <2>2, <2>6, <2>7 DEF Tables, DataInv
  <2>9. Answering
    BY <2>1 DEF Answering, Statement
  <2> QED
    BY <2>1, <2>8, <2>9 DEF Progress
<1> QED
  BY <1>3, <1>4, <1>5, <1>6, <1>7, <1>8, <1>9, ExecuteProgresses, CancelProgresses
     DEF ServerNext, Step

\* Progress keeps the invariant of the data.
LEMMA ProgressKeeps ==
    ASSUME ServerInv, DataInv, Progress
    PROVE  DataInv'
<1>1. /\ sessions' \in Seq(Session) /\ planned' \subseteq orders' /\ req' = req
      /\ uid' \in [Requests -> Users \cup {Nobody}] /\ orders' \subseteq Requests
      /\ chosen' \in [Requests -> SUBSET orders']
  BY DEF Progress, Tables, DataInv
<1>2. /\ Len(sessions) \in Nat /\ DOMAIN sessions = 1 .. Len(sessions)
      /\ Len(sessions') \in Nat /\ DOMAIN sessions' = 1 .. Len(sessions')
      /\ Len(sessions) <= Len(sessions')
  BY <1>1 DEF DataInv, Progress, Tables
<1>3. made' \in [Requests -> 0 .. Len(sessions')]
  <2>1. ASSUME NEW r \in Requests PROVE made'[r] \in 0 .. Len(sessions')
    <3>1. CASE made'[r] = made[r]
      <4>1. made[r] \in 0 .. Len(sessions)
        BY DEF DataInv
      <4> QED
        BY <1>2, <3>1, <4>1
    <3>2. CASE MakesSession(r)
      BY <1>2, <3>2 DEF MakesSession
    <3> QED
      BY <3>1, <3>2 DEF Progress, Tables
  <2> QED
    BY <2>1 DEF Progress, Tables
<1>4. ASSUME NEW r \in Requests
      PROVE  /\ Credentials(r)'
             /\ (req[r] = NoRequest => uid[r] = Nobody /\ made[r] = 0 /\ r \notin orders)'
             /\ (answer[r] = "ok" /\ req[r].kind = "order" => r \in orders)'
             /\ (answer[r] = "ok" /\ req[r].kind = "plan"
                   => chosen[r] # {} /\ chosen[r] \subseteq planned)'
  <2>1. Placed(r) /\ Credentials(r)
    BY DEF ServerInv, Places, DataInv
  <2>2. (at[r] # 0 /\ Statement(r) = "create" => req[r].right /\ req[r].user \in Users)'
    <3> SUFFICES ASSUME at'[r] # 0, Statement(r)' = "create"
                 PROVE  req[r].right /\ req[r].user \in Users
      BY <1>1
    <3>1. \/ at'[r] = at[r]
          \/ Statement(r) = "find" /\ req[r].user \in Users /\ req[r].right
      BY DEF Progress, Answering
    <3>2. at'[r] = at[r] => Statement(r)' = Statement(r)
      BY <1>1 DEF Statement
    <3> QED
      BY <2>1, <3>1, <3>2 DEF Credentials
  <2>3. (made[r] # 0 => /\ at[r] = 0 /\ req[r].kind = "login" /\ req[r].right
                        /\ sessions[made[r]].user = req[r].user)'
    <3>1. CASE made'[r] = made[r] /\ made[r] # 0
      <4>1. made[r] \in DOMAIN sessions
        BY <1>2, <3>1 DEF DataInv
      <4>2. sessions'[made[r]].user = sessions[made[r]].user
        BY <4>1 DEF Progress, Tables
      <4>3. at'[r] = 0
        BY <2>1, <3>1 DEF Credentials, Progress, Answering
      <4> QED
        BY <1>1, <2>1, <3>1, <4>2, <4>3 DEF Credentials
    <3>2. CASE MakesSession(r)
      <4>1. req[r].kind = "login"
        BY <2>1, <3>2, StatementType, StatementPlaces DEF MakesSession
      <4> QED
        BY <1>1, <2>1, <3>2, <4>1 DEF MakesSession, Credentials
    <3> QED
      BY <3>1, <3>2 DEF Progress, Tables
  <2>4. Credentials(r)'
    BY <2>2, <2>3 DEF Credentials
  <2>5. (req[r] = NoRequest => uid[r] = Nobody /\ made[r] = 0 /\ r \notin orders)'
    <3> SUFFICES ASSUME req[r] = NoRequest
                 PROVE  uid'[r] = Nobody /\ made'[r] = 0 /\ r \notin orders'
      BY <1>1
    <3>1. at[r] = 0
      BY <2>1 DEF Placed
    <3> QED
      BY <3>1 DEF DataInv, Progress, Tables, MakesSession, FindsUser
  <2>6. (answer[r] = "ok" /\ req[r].kind = "order" => r \in orders)'
    BY <1>1 DEF DataInv, Progress, Answering, Tables
  <2>7. (answer[r] = "ok" /\ req[r].kind = "plan"
           => chosen[r] # {} /\ chosen[r] \subseteq planned)'
    <3>1. CASE answer[r] = "ok"
      <4>1. at[r] = 0
        BY <2>1, <3>1 DEF Placed
      <4>2. chosen'[r] = chosen[r] /\ planned \subseteq planned'
        BY <4>1 DEF Progress, Tables
      <4> QED
        BY <1>1, <3>1, <4>2 DEF DataInv
    <3>2. CASE answer[r] # "ok"
      BY <1>1, <3>2 DEF Progress, Answering
    <3> QED
      BY <3>1, <3>2
  <2> QED
    BY <2>4, <2>5, <2>6, <2>7
<1> QED
  BY <1>1, <1>3, <1>4 DEF DataInv

\* A request that arrives has done nothing yet.
LEMMA ReceiveKeepsData ==
    ASSUME ServerInv, DataInv, NEW r \in Requests, NEW q \in Question, Receive(r, q)
    PROVE  DataInv'
<1>1. /\ UNCHANGED <<uid, made, chosen, sessions, orders, planned>> /\ req[r] = NoRequest
      /\ req' = [req EXCEPT ![r] = q]
      /\ \/ answer' = [answer EXCEPT ![r] = "refused"] /\ at' = at
         \/ at' = [at EXCEPT ![r] = 1] /\ answer' = answer
  BY DEF Receive, tables
<1>2. /\ ServerTypes /\ Placed(r) /\ at[r] = 0 /\ answer[r] = "none"
      /\ at \in [Requests -> Nat] /\ answer \in [Requests -> Answers]
      /\ req \in [Requests -> Question \cup {NoRequest}]
  BY <1>1 DEF ServerInv, ServerTypes, Places, Placed
<1>3. \A x \in Requests \ {r} : req'[x] = req[x] /\ at'[x] = at[x] /\ answer'[x] = answer[x]
  BY <1>1, <1>2
<1>4. \A x \in Requests \ {r} : Credentials(x)'
  BY <1>1, <1>3 DEF DataInv, Credentials, Statement
<1>5. /\ req'[r] = q /\ q # NoRequest /\ at'[r] \in {0, 1}
      /\ answer'[r] \in {"none", "refused"}
  BY <1>1, <1>2
<1>6. Credentials(r)'
  <2>1. made[r] = 0
    BY <1>1 DEF DataInv
  <2>2. at'[r] = 1 => Statement(r)' # "create"
    <3>1. q.kind \in Kinds /\ 1 \in 1 .. Len(Statements[q.kind])
      <4>1. q.kind \in Kinds
        BY DEF Question
      <4> QED
        BY <4>1, StatementFacts
    <3>2. Statements[q.kind][1] # "create"
      BY <3>1, StatementPlaces
    <3> QED
      BY <1>5, <3>2 DEF Statement
  <2> QED
    BY <1>1, <1>5, <2>1, <2>2 DEF Credentials
<1>7. ASSUME NEW x \in Requests
      PROVE  /\ Credentials(x)'
             /\ (req[x] = NoRequest => uid[x] = Nobody /\ made[x] = 0 /\ x \notin orders)'
             /\ (answer[x] = "ok" /\ req[x].kind = "order" => x \in orders)'
             /\ (answer[x] = "ok" /\ req[x].kind = "plan"
                   => chosen[x] # {} /\ chosen[x] \subseteq planned)'
  BY <1>1, <1>3, <1>4, <1>5, <1>6 DEF DataInv
<1> QED
  BY <1>1, <1>7 DEF DataInv

\* At the start there is no session and no order.
LEMMA DataInvInit == ServerInit => DataInv
<1> SUFFICES ASSUME ServerInit PROVE DataInv
  OBVIOUS
<1>1. sessions = <<>> /\ orders = {} /\ planned = {} /\ made = [r \in Requests |-> 0]
      /\ chosen = [r \in Requests |-> {}]
      /\ uid = [r \in Requests |-> Nobody] /\ at = [r \in Requests |-> 0]
      /\ answer = [r \in Requests |-> "none"]
  BY DEF ServerInit
<1>2. sessions \in Seq(Session) /\ Len(sessions) = 0
  BY <1>1
<1> QED
  BY <1>1, <1>2 DEF DataInv, Credentials

\* A step of the clients alone touches none of them.
LEMMA DataInvStutter == DataInv /\ UNCHANGED serverVars => DataInv'
BY DEF DataInv, Credentials, Statement, serverVars
=============================================================================

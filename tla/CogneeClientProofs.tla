-------------------------- MODULE CogneeClientProofs --------------------------
(***************************************************************************)
(* Proofs about CogneeClient, for every number of coroutines, every set of *)
(* deployments and every bound on the sessions.                            *)
(***************************************************************************)
EXTENDS CogneeClient, FiniteSetTheorems, TLAPS

USE DEF NoSession

\* A coroutine suspended at an await of its operation is a task.
LEMMA TaskType ==
    ASSUME NEW op \in {"search", "ingest", "close"}, NEW at \in Awaiting(op),
           NEW session \in 0..MaxSessions
    PROVE  Task(op, at, session) \in Tasks
BY DEF Task, Tasks

\* An idle coroutine is a coroutine, and holds no session.
LEMMA IdleType == Idle \in Tasks /\ \A n : HoldsSession(Idle, n)
BY DEF Tasks, Idle, Task, HoldsSession

\* What an idle coroutine is.
LEMMA IdleFields == Idle.op = "none" /\ Idle.at = "idle" /\ Idle.built = FALSE
BY DEF Idle, Task

\* Who closes awaits close(), and who awaits it closes.
LEMMA OperationAt ==
    ASSUME NEW t \in Tasks
    PROVE  /\ t.built \in BOOLEAN
           /\ t.at = "close" <=> t.op = "close"
           /\ t.at = "request" => t.op = "search"
           /\ t.at \in {"add", "cognify", "embed"} => t.op = "ingest"
<1>1. CASE t = Idle
  BY <1>1, IdleFields
<1>2. CASE t # Idle
  <2>1. PICK op \in {"search", "ingest", "close"} :
               t \in [op : {op}, at : Awaiting(op), session : 0..MaxSessions,
                      built : BOOLEAN]
    BY <1>2 DEF Tasks
  <2>2. t.op = op /\ t.at \in Awaiting(op) /\ t.built \in BOOLEAN
    BY <2>1
  <2> QED BY <2>1, <2>2 DEF Awaiting
<1> QED BY <1>1, <1>2

\* A coroutine that is not suspended at the connection in the new tasks is not
\* counted; one that was is counted no longer.
LEMMA FewerConnecting ==
    ASSUME NEW f \in [Worker -> Tasks], NEW g \in [Worker -> Tasks],
           IsFiniteSet(Worker), NEW w \in Worker,
           g[w].at # "connect",
           \A v \in Worker \ {w} : g[v] = f[v]
    PROVE  LET before == {v \in Worker : f[v].at = "connect"}
               after == {v \in Worker : g[v].at = "connect"}
           IN  /\ Cardinality(after) \in Nat /\ Cardinality(before) \in Nat
               /\ Cardinality(after) <= Cardinality(before)
               /\ f[w].at = "connect" => Cardinality(after) = Cardinality(before) - 1
<1> DEFINE before == {v \in Worker : f[v].at = "connect"}
           after == {v \in Worker : g[v].at = "connect"}
<1>1. after = before \ {w}
  OBVIOUS
<1>2. IsFiniteSet(before)
  BY FS_Subset
<1>3. f[w].at = "connect" <=> w \in before
  OBVIOUS
<1> HIDE DEF before, after
<1>4. Cardinality(before) \in Nat
  BY <1>2, FS_CardinalityType
<1>5. /\ IsFiniteSet(after)
      /\ Cardinality(after) =
            IF w \in before THEN Cardinality(before) - 1 ELSE Cardinality(before)
  BY <1>1, <1>2, FS_RemoveElement
<1>6. Cardinality(after) \in Nat
  BY <1>5, FS_CardinalityType
<1> QED BY <1>3, <1>4, <1>5, <1>6 DEF before, after

\* No more coroutines connect than there are.
LEMMA ConnectingIsBounded ==
    ASSUME IsFiniteSet(Worker)
    PROVE  /\ Cardinality(Worker) \in Nat
           /\ Cardinality(Connecting) \in Nat
           /\ Cardinality(Connecting) <= Cardinality(Worker)
<1>1. Connecting \in SUBSET Worker
  BY DEF Connecting
<1>2. IsFiniteSet(Connecting) /\ Cardinality(Connecting) <= Cardinality(Worker)
  BY <1>1, FS_Subset
<1> QED BY <1>2, FS_CardinalityType

-----------------------------------------------------------------------------

\* The client starts within its invariant.
LEMMA InitInvariant ==
    ASSUME Init PROVE ClientInvariant
<1> USE ClientAssumption DEF Init
<1>1. TypeOK
  <2>1. task \in [Worker -> Tasks] /\ \A w \in Worker : HoldsSession(task[w], opened)
    BY IdleType
  <2> QED BY <2>1 DEF TypeOK, NoReply
<1>2. Connecting = {}
  BY DEF Connecting, Idle, Task
<1>3. OnlyRemoteConnects
  BY <1>2 DEF OnlyRemoteConnects
<1>4. SessionCount
  BY <1>2, FS_EmptySet, FS_CardinalityType DEF SessionCount
<1>5. NoDeadSession
  BY DEF NoDeadSession
<1>6. BuiltIsPending /\ AckTellsTheTruth
  BY DEF BuiltIsPending, AckTellsTheTruth, Idle, Task, NoReply, Acknowledgement
<1>7. CloseIsCounted
  BY IdleFields DEF CloseIsCounted
<1> QED BY <1>1, <1>3, <1>4, <1>5, <1>6, <1>7 DEF ClientInvariant

\* A step in which one coroutine moves on to a well-formed task keeps the types.
LEMMA MoveKeepsTypes ==
    ASSUME TypeOK, NEW w \in Worker, NEW t \in Tasks, HoldsSession(t, opened'),
           task' = [task EXCEPT ![w] = t],
           deployment' = deployment,
           opened' \in 0..MaxSessions, opened <= opened',
           client' \in 0..opened', live' \subseteq 1..opened',
           closes' \in {"none", "clean", "raised"},
           reply'.result \in SearchOutcome \cup Acknowledgement \cup {"nothing"}
    PROVE  /\ TypeOK'
           /\ \A v \in Worker : task'[v] = IF v = w THEN t ELSE task[v]
<1>1. /\ task' \in [Worker -> Tasks]
      /\ \A v \in Worker : task'[v] = IF v = w THEN t ELSE task[v]
  BY DEF TypeOK
<1>2. opened \in Nat /\ opened' \in Nat
  BY ClientAssumption DEF TypeOK
<1>3. \A v \in Worker : HoldsSession(task[v], opened)'
  BY <1>1, <1>2 DEF HoldsSession, TypeOK
<1>4. TypeOK'
  BY <1>1, <1>3 DEF TypeOK
<1> QED BY <1>1, <1>4

\* Sessions that stay as they are stay in their types.
LEMMA SameSessionsAreTyped ==
    ASSUME TypeOK, UNCHANGED <<deployment, client, opened, live, closes>>
    PROVE  /\ opened' \in 0..MaxSessions /\ opened <= opened'
           /\ client' \in 0..opened' /\ live' \subseteq 1..opened'
           /\ closes' \in {"none", "clean", "raised"}
BY ClientAssumption DEF TypeOK

\* While no aclose has been called, a step that opens no session and sends
\* nobody to connect keeps the count.
LEMMA CountIsKept ==
    ASSUME ClientInvariant, NEW w \in Worker, task' \in [Worker -> Tasks],
           \A v \in Worker \ {w} : task'[v] = task[v],
           task'[w].at # "connect",
           closes' = "none" => closes = "none" /\ UNCHANGED <<opened, client>>
    PROVE  SessionCount'
<1>1. SUFFICES ASSUME closes' = "none" PROVE SessionCount'
  BY DEF SessionCount
<1>2. Cardinality(Connecting') <= Cardinality(Connecting)
      /\ Cardinality(Connecting') \in Nat /\ Cardinality(Connecting) \in Nat
  BY FewerConnecting, ClientAssumption DEF Connecting, ClientInvariant, TypeOK
<1>3. opened \in Nat /\ Cardinality(Worker) \in Nat
  BY ClientAssumption, FS_CardinalityType DEF ClientInvariant, TypeOK
<1> QED BY <1>1, <1>2, <1>3 DEF SessionCount, ClientInvariant

\* An operation that ends with a true result keeps the invariant.
LEMMA EndsKeepsInvariant ==
    ASSUME ClientInvariant, NEW w \in Worker, NEW built \in BOOLEAN,
           NEW result \in SearchOutcome \cup Acknowledgement,
           result \in Acknowledgement => (result = "accepted live" <=> built),
           task[w].op # "close",
           Ends(w, result, built)
    PROVE  ClientInvariant'
<1>1. /\ TypeOK'
      /\ \A v \in Worker : task'[v] = IF v = w THEN Idle ELSE task[v]
  <2>1. TypeOK /\ UNCHANGED <<deployment, client, opened, live, closes>>
    BY DEF ClientInvariant, Ends
  <2>2. /\ opened' \in 0..MaxSessions /\ opened <= opened'
        /\ client' \in 0..opened' /\ live' \subseteq 1..opened'
        /\ closes' \in {"none", "clean", "raised"}
    BY <2>1, SameSessionsAreTyped
  <2>3. reply'.result \in SearchOutcome \cup Acknowledgement \cup {"nothing"}
    BY DEF Ends
  <2> QED BY <2>1, <2>2, <2>3, IdleType, MoveKeepsTypes DEF Ends
<1>2. Idle.at = "idle" /\ Idle.op = "none" /\ Idle.built = FALSE
  BY IdleFields
<1>3. OnlyRemoteConnects'
  BY <1>1, <1>2 DEF OnlyRemoteConnects, ClientInvariant, Ends, Connecting
<1>4. SessionCount'
  BY <1>1, <1>2, CountIsKept DEF Ends, TypeOK
<1>5. NoDeadSession'
  BY <1>1, <1>2 DEF NoDeadSession, ClientInvariant, Ends
<1>6. BuiltIsPending'
  BY <1>1, <1>2 DEF BuiltIsPending, ClientInvariant
<1>7. AckTellsTheTruth'
  BY DEF AckTellsTheTruth, Ends
<1>8. CloseIsCounted'
  BY <1>1, <1>2 DEF CloseIsCounted, ClientInvariant, Ends
<1> QED BY <1>1, <1>3, <1>4, <1>5, <1>6, <1>7, <1>8 DEF ClientInvariant

-----------------------------------------------------------------------------
(***************************************************************************)
(* One lemma per step that does not end in a result.                       *)
(***************************************************************************)

\* What a coroutine about to begin has at its first await.
LEMMA FirstAwaitType ==
    ASSUME NEW op \in {"search", "ingest"}
    PROVE  /\ FirstAwait(op) \in Awaiting(op) \ {"idle", "connect", "embed", "close"}
           /\ "connect" \in Awaiting(op)
BY DEF FirstAwait, Awaiting

\* A coroutine that begins uses the session that is there, or goes to connect
\* while there is none.
LEMMA BeginKeepsInvariant ==
    ASSUME ClientInvariant, NEW w \in Worker, NEW op \in {"search", "ingest"},
           Begin(w, op)
    PROVE  ClientInvariant'
<1> DEFINE first == deployment = "remote" /\ client = NoSession
           t == IF first THEN Task(op, "connect", NoSession)
                ELSE Task(op, FirstAwait(op), client)
<1>1. TypeOK /\ UNCHANGED <<deployment, client, opened, live, closes>>
  BY DEF ClientInvariant, Begin
<1>2. /\ task[w] = Idle
      /\ task' = [task EXCEPT ![w] = t]
      /\ reply' = NoReply
  BY DEF Begin, Suspends
<1>3. /\ t.op = op /\ t.built = FALSE
      /\ t.at = IF first THEN "connect" ELSE FirstAwait(op)
      /\ t.session = client
  BY DEF Task
<1>4. t \in Tasks
  <2>1. client \in 0..MaxSessions /\ NoSession \in 0..MaxSessions
    BY <1>1, ClientAssumption DEF TypeOK
  <2> QED BY <2>1, FirstAwaitType, TaskType
<1>5. HoldsSession(t, opened')
  <2>1. opened \in Nat /\ client \in 0..opened
    BY <1>1, ClientAssumption DEF TypeOK
  <2>2. deployment # "remote" => client = NoSession
    BY DEF ClientInvariant, OnlyRemoteConnects
  <2> QED BY <1>1, <1>3, <2>1, <2>2, FirstAwaitType DEF HoldsSession
<1> HIDE DEF t
<1>6. TypeOK' /\ \A v \in Worker : task'[v] = IF v = w THEN t ELSE task[v]
  BY <1>1, <1>2, <1>4, <1>5, SameSessionsAreTyped, MoveKeepsTypes DEF NoReply
<1>7. Idle.op = "none" /\ Idle.built = FALSE /\ Idle.at = "idle"
  BY DEF Idle, Task
<1>8. OnlyRemoteConnects'
  BY <1>1, <1>3, <1>6, FirstAwaitType DEF OnlyRemoteConnects, ClientInvariant, Connecting
<1>9. SessionCount'
  <2>1. CASE first
    <3>1. SUFFICES ASSUME closes' = "none" PROVE SessionCount'
      BY DEF SessionCount
    <3>2. client' = NoSession /\ opened' = 0
      BY <1>1, <2>1, <3>1 DEF ClientInvariant, SessionCount
    <3>3. Cardinality(Connecting') \in Nat
          /\ Cardinality(Connecting') <= Cardinality(Worker)
      <4>1. Connecting' \in SUBSET Worker
        BY DEF Connecting
      <4> QED BY <4>1, ClientAssumption, FS_Subset, FS_CardinalityType
    <3> QED BY <3>2, <3>3 DEF SessionCount
  <2>2. CASE ~first
    BY <1>1, <1>3, <1>6, <2>2, FirstAwaitType, CountIsKept DEF TypeOK
  <2> QED BY <2>1, <2>2
<1>10. NoDeadSession'
  BY <1>1, <1>2, <1>3, <1>6, <1>7 DEF NoDeadSession, ClientInvariant
<1>11. BuiltIsPending'
  BY <1>3, <1>6, FirstAwaitType DEF BuiltIsPending, ClientInvariant
<1>12. AckTellsTheTruth'
  BY <1>2 DEF AckTellsTheTruth, NoReply, Acknowledgement
<1>13. CloseIsCounted'
  BY <1>1, <1>3, <1>6 DEF CloseIsCounted, ClientInvariant
<1> QED BY <1>6, <1>8, <1>9, <1>10, <1>11, <1>12, <1>13 DEF ClientInvariant

\* The session serve() returns is the one in use, whatever was in use before;
\* one coroutine fewer is connecting.
LEMMA ConnectedKeepsInvariant ==
    ASSUME ClientInvariant, NEW w \in Worker, Connected(w)
    PROVE  ClientInvariant'
<1> DEFINE t == Task(task[w].op, FirstAwait(task[w].op), opened + 1)
<1>1. TypeOK /\ opened \in Nat /\ opened < MaxSessions
  BY ClientAssumption DEF ClientInvariant, TypeOK, Connected
<1>2. /\ task' = [task EXCEPT ![w] = t]
      /\ opened' = opened + 1 /\ client' = opened + 1
      /\ live' = live \cup {opened + 1}
      /\ reply' = NoReply
      /\ UNCHANGED <<deployment, closes>>
  BY DEF Connected, Suspends
<1>3. task[w].op \in {"search", "ingest"} /\ task[w].at = "connect"
  BY <1>1 DEF TypeOK, Tasks, Awaiting, Idle, Task, Connected
<1>4. /\ t.op = task[w].op /\ t.built = FALSE
      /\ t.at = FirstAwait(task[w].op) /\ t.session = opened + 1
  BY DEF Task
<1>5. t \in Tasks
  <2>1. opened + 1 \in 0..MaxSessions
    BY <1>1, ClientAssumption
  <2> QED BY <1>3, <2>1, FirstAwaitType, TaskType
<1>6. deployment = "remote"
  BY <1>3 DEF ClientInvariant, OnlyRemoteConnects, Connecting
<1>7. HoldsSession(t, opened')
  BY <1>1, <1>2, <1>3, <1>4, <1>6, FirstAwaitType DEF HoldsSession
<1> HIDE DEF t
<1>8. TypeOK' /\ \A v \in Worker : task'[v] = IF v = w THEN t ELSE task[v]
  <2>1. /\ opened' \in 0..MaxSessions /\ opened <= opened'
        /\ client' \in 0..opened' /\ live' \subseteq 1..opened'
    BY <1>1, <1>2, ClientAssumption DEF TypeOK
  <2>2. closes' \in {"none", "clean", "raised"} /\ deployment' = deployment
    BY <1>1, <1>2 DEF TypeOK
  <2> QED BY <1>1, <1>2, <1>5, <1>7, <2>1, <2>2, MoveKeepsTypes DEF NoReply
<1>9. OnlyRemoteConnects'
  BY <1>2, <1>6 DEF OnlyRemoteConnects
<1>10. SessionCount'
  <2>1. SUFFICES ASSUME closes' = "none" PROVE SessionCount'
    BY DEF SessionCount
  <2>2. /\ Cardinality(Connecting') = Cardinality(Connecting) - 1
        /\ Cardinality(Connecting') \in Nat /\ Cardinality(Connecting) \in Nat
    <3>1. task \in [Worker -> Tasks] /\ task' \in [Worker -> Tasks]
      BY <1>1, <1>8 DEF TypeOK
    <3>2. task'[w].at # "connect" /\ \A v \in Worker \ {w} : task'[v] = task[v]
      BY <1>3, <1>4, <1>8, FirstAwaitType
    <3>3. IsFiniteSet(Worker)
      BY ClientAssumption
    <3> QED BY <1>3, <3>1, <3>2, <3>3, FewerConnecting DEF Connecting
  <2>3. Cardinality(Worker) \in Nat
    BY ClientAssumption, FS_CardinalityType
  <2>4. opened + Cardinality(Connecting) <= Cardinality(Worker)
    BY <1>2, <2>1 DEF ClientInvariant, SessionCount
  <2>5. client' # NoSession /\ opened' + Cardinality(Connecting') <= Cardinality(Worker)
    BY <1>1, <1>2, <2>2, <2>3, <2>4
  <2> QED BY <2>5 DEF SessionCount
<1>11. NoDeadSession'
  BY <1>2 DEF NoDeadSession
<1>12. BuiltIsPending'
  BY <1>3, <1>4, <1>8, FirstAwaitType DEF BuiltIsPending, ClientInvariant
<1>13. AckTellsTheTruth'
  BY <1>2 DEF AckTellsTheTruth, NoReply, Acknowledgement
<1>14. CloseIsCounted'
  BY <1>2, <1>3, <1>4, <1>8 DEF CloseIsCounted, ClientInvariant
<1> QED BY <1>8, <1>9, <1>10, <1>11, <1>12, <1>13, <1>14 DEF ClientInvariant

\* Where an ingestion is, and where it goes on to.
LEMMA IngestTask ==
    ASSUME TypeOK, NEW w \in Worker, task[w].at \in {"add", "cognify", "embed"},
           NEW t, \/ t = [task[w] EXCEPT !.at = "cognify"]
                  \/ t = [task[w] EXCEPT !.at = "embed", !.built = TRUE]
    PROVE  /\ task[w].op = "ingest" /\ t \in Tasks /\ HoldsSession(t, opened)
           /\ t.op = "ingest" /\ t.at \in {"cognify", "embed"}
           /\ t.at = "cognify" => t.built = task[w].built
           /\ t.at = "embed" => t.built = TRUE
<1>1. task[w] \in [op : {"ingest"}, at : Awaiting("ingest"),
                   session : 0..MaxSessions, built : BOOLEAN]
  BY DEF TypeOK, Tasks, Awaiting, Idle, Task
<1>2. /\ task[w].op = "ingest"
      /\ t \in [op : {"ingest"}, at : {"cognify", "embed"},
                session : 0..MaxSessions, built : BOOLEAN]
      /\ t.session = task[w].session
      /\ t.at = "cognify" => t.built = task[w].built
      /\ t.at = "embed" => t.built = TRUE
  BY <1>1
<1>3. t \in [op : {"ingest"}, at : Awaiting("ingest"),
             session : 0..MaxSessions, built : BOOLEAN]
  BY <1>2 DEF Awaiting
<1>4. t \in Tasks
  BY <1>3 DEF Tasks
<1>5. HoldsSession(t, opened)
  BY <1>2 DEF HoldsSession, TypeOK
<1> QED BY <1>2, <1>4, <1>5

\* An ingestion that goes on to its next await keeps the invariant.
LEMMA IngestKeepsInvariant ==
    ASSUME ClientInvariant, NEW w \in Worker, Added(w) \/ Cognified(w)
    PROVE  ClientInvariant'
<1>1. TypeOK /\ BuiltIsPending
  BY DEF ClientInvariant
<1>2. task[w].at \in {"add", "cognify", "embed"}
  BY DEF Added, Cognified
<1>3. CASE Cognified(w) /\ deployment = "remote"
  <2>1. task[w].op # "close"
    BY <1>1, <1>2, IngestTask
  <2> QED BY <1>3, <2>1, EndsKeepsInvariant DEF Cognified, Acknowledgement
<1>4. CASE ~(Cognified(w) /\ deployment = "remote")
  <2>1. PICK t : /\ \/ t = [task[w] EXCEPT !.at = "cognify"]
                    \/ t = [task[w] EXCEPT !.at = "embed", !.built = TRUE]
                 /\ task' = [task EXCEPT ![w] = t]
                 /\ reply' = NoReply
                 /\ UNCHANGED <<deployment, client, opened, live, closes>>
    BY <1>4 DEF Added, Cognified, Suspends
  <2>2. /\ task[w].op = "ingest" /\ t \in Tasks /\ HoldsSession(t, opened)
        /\ t.op = "ingest" /\ t.at \in {"cognify", "embed"}
        /\ t.at = "embed" <=> t.built
    <3>1. task[w].at = "add" \/ task[w].at = "cognify"
      BY DEF Added, Cognified
    <3>2. task[w].built = FALSE
      BY <1>1, <3>1 DEF BuiltIsPending, TypeOK, Tasks, Idle, Task
    <3> QED BY <1>1, <1>2, <2>1, <3>2, IngestTask
  <2>3. HoldsSession(t, opened')
    BY <2>1, <2>2 DEF HoldsSession
  <2>4. TypeOK' /\ \A v \in Worker : task'[v] = IF v = w THEN t ELSE task[v]
    BY <1>1, <2>1, <2>2, <2>3, SameSessionsAreTyped, MoveKeepsTypes DEF NoReply
  <2>5. OnlyRemoteConnects'
    BY <2>1, <2>2, <2>4 DEF OnlyRemoteConnects, ClientInvariant, Connecting
  <2>6. SessionCount'
    BY <2>1, <2>2, <2>4, CountIsKept DEF TypeOK
  <2>7. NoDeadSession'
    BY <2>1, <2>2, <2>4 DEF NoDeadSession, ClientInvariant
  <2>8. BuiltIsPending'
    BY <1>1, <2>2, <2>4 DEF BuiltIsPending
  <2>9. AckTellsTheTruth'
    BY <2>1 DEF AckTellsTheTruth, NoReply, Acknowledgement
  <2>10. CloseIsCounted'
    BY <2>1, <2>2, <2>4 DEF CloseIsCounted, ClientInvariant
  <2> QED BY <2>4, <2>5, <2>6, <2>7, <2>8, <2>9, <2>10 DEF ClientInvariant
<1> QED BY <1>3, <1>4

\* aclose begins on the session that is there; from then on sessions are not
\* counted any more.
LEMMA BeginCloseKeepsInvariant ==
    ASSUME ClientInvariant, NEW w \in Worker, BeginClose(w)
    PROVE  ClientInvariant'
<1> DEFINE t == Task("close", "close", client)
<1>1. TypeOK /\ opened \in Nat /\ client # NoSession
  BY ClientAssumption DEF ClientInvariant, TypeOK, BeginClose
<1>2. /\ task' = [task EXCEPT ![w] = t] /\ reply' = NoReply
      /\ UNCHANGED <<deployment, client, opened, live>>
      /\ closes' \in {"clean", "raised"}
      /\ closes' = "raised" <=> closes = "raised"
  BY DEF BeginClose, Suspends
<1>3. t.op = "close" /\ t.at = "close" /\ t.session = client /\ t.built = FALSE
  BY DEF Task
<1>4. t \in Tasks
  <2>1. client \in 0..MaxSessions
    BY <1>1, ClientAssumption DEF TypeOK
  <2> QED BY <2>1, TaskType DEF Awaiting
<1>5. HoldsSession(t, opened')
  <2>1. deployment = "remote"
    BY <1>1 DEF ClientInvariant, OnlyRemoteConnects
  <2> QED BY <1>1, <1>2, <1>3, <2>1 DEF HoldsSession, TypeOK
<1> HIDE DEF t
<1>6. TypeOK' /\ \A v \in Worker : task'[v] = IF v = w THEN t ELSE task[v]
  <2>1. /\ opened' \in 0..MaxSessions /\ opened <= opened'
        /\ client' \in 0..opened' /\ live' \subseteq 1..opened'
    BY <1>1, <1>2 DEF TypeOK
  <2> QED BY <1>1, <1>2, <1>4, <1>5, <2>1, MoveKeepsTypes DEF NoReply
<1>7. OnlyRemoteConnects'
  BY <1>2, <1>3, <1>6 DEF OnlyRemoteConnects, ClientInvariant, Connecting
<1>8. SessionCount'
  BY <1>2 DEF SessionCount
<1>9. NoDeadSession'
  BY <1>3, <1>6 DEF NoDeadSession
<1>10. BuiltIsPending'
  BY <1>3, <1>6 DEF BuiltIsPending, ClientInvariant
<1>11. AckTellsTheTruth'
  BY <1>2 DEF AckTellsTheTruth, NoReply, Acknowledgement
<1>12. CloseIsCounted'
  BY <1>2 DEF CloseIsCounted
<1> QED BY <1>6, <1>7, <1>8, <1>9, <1>10, <1>11, <1>12 DEF ClientInvariant

\* aclose ends: the client forgets its session, or the call has raised.
LEMMA CloseKeepsInvariant ==
    ASSUME ClientInvariant, NEW w \in Worker, Closed(w) \/ CloseRaises(w)
    PROVE  ClientInvariant'
<1>1. TypeOK /\ opened \in Nat
  BY ClientAssumption DEF ClientInvariant, TypeOK
<1>2. /\ task' = [task EXCEPT ![w] = Idle] /\ reply' = NoReply
      /\ UNCHANGED <<deployment, opened>> /\ live' \subseteq live
      /\ client' \in {client, NoSession}
      /\ \/ client' = NoSession /\ closes' = closes
         \/ closes' = "raised"
  BY DEF Closed, CloseRaises, Suspends
<1>3. Idle.op = "none" /\ Idle.at = "idle" /\ Idle.built = FALSE
  BY DEF Idle, Task
<1>4. TypeOK' /\ \A v \in Worker : task'[v] = IF v = w THEN Idle ELSE task[v]
  <2>1. /\ opened' \in 0..MaxSessions /\ opened <= opened'
        /\ client' \in 0..opened' /\ live' \subseteq 1..opened'
    BY <1>1, <1>2 DEF TypeOK
  <2>2. closes' \in {"none", "clean", "raised"}
    BY <1>1, <1>2 DEF TypeOK
  <2> QED BY <1>1, <1>2, <2>1, <2>2, IdleType, MoveKeepsTypes DEF NoReply
<1>5. closes # "none"
  <2>1. task[w] \in Tasks /\ task[w].at = "close"
    BY <1>1 DEF TypeOK, Closed, CloseRaises
  <2>2. task[w].op = "close"
    BY <2>1, OperationAt
  <2> QED BY <2>2 DEF ClientInvariant, CloseIsCounted
<1>6. OnlyRemoteConnects'
  BY <1>2, <1>3, <1>4 DEF OnlyRemoteConnects, ClientInvariant, Connecting
<1>7. SessionCount'
  BY <1>2, <1>5 DEF SessionCount
<1>8. NoDeadSession'
  BY <1>2 DEF NoDeadSession
<1>9. BuiltIsPending'
  BY <1>3, <1>4 DEF BuiltIsPending, ClientInvariant
<1>10. AckTellsTheTruth'
  BY <1>2 DEF AckTellsTheTruth, NoReply, Acknowledgement
<1>11. CloseIsCounted'
  BY <1>2, <1>5 DEF CloseIsCounted
<1> QED BY <1>4, <1>6, <1>7, <1>8, <1>9, <1>10, <1>11 DEF ClientInvariant

-----------------------------------------------------------------------------

\* Every step of a coroutine keeps the invariant.
LEMMA StepKeepsInvariant ==
    ASSUME ClientInvariant, NEW w \in Worker, Step(w)
    PROVE  ClientInvariant'
<1>1. task[w] \in Tasks /\ (task[w].built <=> task[w].at = "embed")
  BY DEF ClientInvariant, TypeOK, BuiltIsPending
<1>2. CASE \E op \in {"search", "ingest"} : Begin(w, op)
  BY <1>2, BeginKeepsInvariant
<1>3. CASE StandIn(w)
  <2>1. task[w].op # "close"
    BY <1>3, IdleFields DEF StandIn
  <2>2. PICK result \in {"none", "accepted stub"} : Ends(w, result, FALSE)
    BY <1>3 DEF StandIn
  <2> QED BY <2>1, <2>2, EndsKeepsInvariant DEF SearchOutcome, Acknowledgement
<1>4. CASE Connected(w)
  BY <1>4, ConnectedKeepsInvariant
<1>5. CASE SearchReturns(w) \/ SearchRaises(w) \/ SearchTimesOut(w)
  <2>1. task[w].op # "close"
    BY <1>1, <1>5, OperationAt DEF SearchReturns, SearchRaises, SearchTimesOut
  <2>2. PICK result \in SearchOutcome : Ends(w, result, FALSE)
    BY <1>5 DEF SearchReturns, SearchRaises, SearchTimesOut, SearchOutcome
  <2> QED BY <2>1, <2>2, EndsKeepsInvariant DEF SearchOutcome, Acknowledgement
<1>6. CASE Added(w) \/ Cognified(w)
  BY <1>6, IngestKeepsInvariant
<1>7. CASE Embedded(w)
  <2>1. task[w].op # "close" /\ task[w].built = TRUE
    BY <1>1, <1>7, OperationAt DEF Embedded
  <2>2. Ends(w, "accepted live", TRUE)
    BY <1>7, <2>1 DEF Embedded
  <2> QED BY <2>1, <2>2, EndsKeepsInvariant DEF Acknowledgement
<1>8. CASE IngestRaises(w)
  <2>1. task[w].op # "close" /\ task[w].built = FALSE
    BY <1>1, <1>8, OperationAt DEF IngestRaises
  <2>2. Ends(w, "accepted stub", FALSE)
    BY <1>8, <2>1 DEF IngestRaises
  <2> QED BY <2>1, <2>2, EndsKeepsInvariant DEF Acknowledgement
<1>9. CASE BeginClose(w)
  BY <1>9, BeginCloseKeepsInvariant
<1>10. CASE Closed(w) \/ CloseRaises(w)
  BY <1>10, CloseKeepsInvariant
<1> QED BY <1>2, <1>3, <1>4, <1>5, <1>6, <1>7, <1>8, <1>9, <1>10 DEF Step

\* The strengthening of the client's safety properties is invariant, however
\* the operations of its coroutines interleave (cognee_client.py:86-326).
THEOREM ClientInvariantHolds == Spec => []ClientInvariant
<1>1. Init => ClientInvariant
  BY InitInvariant
<1>2. ClientInvariant /\ [Next]_vars => ClientInvariant'
  <2>1. SUFFICES ASSUME ClientInvariant, [Next]_vars PROVE ClientInvariant'
    OBVIOUS
  <2>2. CASE Next
    BY <2>1, <2>2, StepKeepsInvariant DEF Next
  <2>3. CASE UNCHANGED vars
    BY <2>1, <2>3 DEF vars, ClientInvariant, TypeOK, HoldsSession, OnlyRemoteConnects,
         SessionCount, NoDeadSession, BuiltIsPending, AckTellsTheTruth, Connecting,
         CloseIsCounted
  <2> QED BY <2>1, <2>2, <2>3
<1> QED BY <1>1, <1>2, PTL DEF Spec

\* Every variable keeps its type, and a coroutine that awaits the service holds
\* a session it gave out.
THEOREM TypeCorrect == Spec => []TypeOK
<1>1. ClientInvariant => TypeOK
  BY DEF ClientInvariant
<1> QED BY <1>1, ClientInvariantHolds, PTL

\* The service is never asked for more sessions than there are coroutines,
\* though every one of them may find no client and connect
\* (cognee_client.py:86-97).
THEOREM SessionsAreBounded == Spec => []SessionsBounded
<1>1. ClientInvariant => SessionsBounded
  <2>1. SUFFICES ASSUME ClientInvariant, closes = "none"
                 PROVE  opened <= Cardinality(Worker)
    BY DEF SessionsBounded
  <2>2. opened \in Nat /\ opened + Cardinality(Connecting) <= Cardinality(Worker)
    BY <2>1, ClientAssumption DEF ClientInvariant, SessionCount, TypeOK
  <2>3. Cardinality(Worker) \in Nat /\ Cardinality(Connecting) \in Nat
    BY ClientAssumption, ConnectingIsBounded
  <2> QED BY <2>2, <2>3
<1> QED BY <1>1, ClientInvariantHolds, PTL

\* Once no aclose is under way, the client holds no dead session
\* (cognee_client.py:99-103).
THEOREM NoSessionIsDead == Spec => []NoDeadSession
<1>1. ClientInvariant => NoDeadSession
  BY DEF ClientInvariant
<1> QED BY <1>1, ClientInvariantHolds, PTL

\* An ingestion is acknowledged as live exactly when its graph was built
\* (cognee_client.py:163-182, 282-326).
THEOREM AcksTellTheTruth == Spec => []AckTellsTheTruth
<1>1. ClientInvariant => AckTellsTheTruth
  BY DEF ClientInvariant
<1> QED BY <1>1, ClientInvariantHolds, PTL
=============================================================================

---------------------------- MODULE CogneeClient ----------------------------
(***************************************************************************)
(* The retrieval substrate as src/app/integrations/cognee_client.py wraps  *)
(* it: concurrent searches and ingestions share one client object, which   *)
(* connects to a remote service on first use, or calls the SDK in process, *)
(* or stands in with placeholders.  A step runs from one await to the      *)
(* next.  The service and the SDK are the environment: a call on them      *)
(* returns, raises, or never comes back.                                   *)
(***************************************************************************)
EXTENDS Integers, FiniteSets

CONSTANTS
    Worker,       \* coroutines that may use the client at a time
    Deployments,  \* deployments considered: where retrieval is served from
    MaxSessions   \* bound: sessions the service gives out

ASSUME ClientAssumption ==
    /\ IsFiniteSet(Worker)
    /\ Deployments \subseteq {"remote", "embedded", "unconfigured"}
    /\ MaxSessions \in Nat

VARIABLES
    deployment,  \* the settings of this process
    client,      \* _remote_client: the session in use, or NoSession
    opened,      \* sessions the service has given out, numbered from 1
    live,        \* sessions that are open at the service
    task,        \* what each coroutine is awaiting
    reply,       \* what the last step gave its caller, if it did
    closes       \* history: no aclose yet, all of them clean, or one raised

vars == <<deployment, client, opened, live, task, reply, closes>>

NoSession == 0

Session == 1..MaxSessions

\* An operation, the await it is suspended at and the session it holds.  As
\* history: has the service reported the graph of its document built.
Task(op, at, session) ==
    [op |-> op, at |-> at, session |-> session, built |-> FALSE]

Idle == Task("none", "idle", NoSession)

Awaiting(op) ==
    IF op = "search" THEN {"connect", "request"}
    ELSE IF op = "ingest" THEN {"connect", "add", "cognify", "embed"}
    ELSE {"close"}

Tasks ==
    {Idle} \cup
    UNION {[op : {op}, at : Awaiting(op), session : 0..MaxSessions, built : BOOLEAN] :
              op \in {"search", "ingest", "close"}}

\* What a search can come to for its caller, and what an ingestion can.
SearchOutcome == {"live", "capability", "failure", "none"}

Acknowledgement == {"accepted live", "accepted stub"}

NoReply == [result |-> "nothing", built |-> FALSE]

Init ==
    /\ deployment \in Deployments
    /\ client = NoSession
    /\ opened = 0
    /\ live = {}
    /\ task = [w \in Worker |-> Idle]
    /\ reply = NoReply
    /\ closes = "none"

-----------------------------------------------------------------------------

FirstAwait(op) == IF op = "search" THEN "request" ELSE "add"

\* w runs on to its next await, or is done with nothing to report.
Suspends(w, t) == task' = [task EXCEPT ![w] = t] /\ reply' = NoReply

\* The operation of w ends with a result for its caller.
Ends(w, result, built) ==
    /\ task' = [task EXCEPT ![w] = Idle]
    /\ reply' = [result |-> result, built |-> built]
    /\ UNCHANGED <<deployment, client, opened, live, closes>>

FaultyBegin(w, op) ==
    /\ task[w] = Idle
    /\ deployment # "unconfigured"
    /\ Suspends(w, Task(op, FirstAwait(op), client))
    /\ UNCHANGED <<deployment, client, opened, live, closes>>

\* _remote(), until its await: a client that is there is used, whoever made it.
Begin(w, op) ==
    /\ task[w] = Idle
    /\ deployment # "unconfigured"
    /\ Suspends(w, IF deployment = "remote" /\ client = NoSession
                   THEN Task(op, "connect", NoSession)
                   ELSE Task(op, FirstAwait(op), client))
    /\ UNCHANGED <<deployment, client, opened, live, closes>>

\* Nothing is configured: the placeholder, or an acknowledgement of nothing.
StandIn(w) ==
    /\ task[w] = Idle
    /\ deployment = "unconfigured"
    /\ \E result \in {"none", "accepted stub"} : Ends(w, result, FALSE)

FaultyConnected(w) ==
    /\ task[w].at = "connect"
    /\ opened < MaxSessions
    /\ opened' = opened + 1
    /\ live' = live \cup {opened'}
    /\ Suspends(w, Task(task[w].op, FirstAwait(task[w].op), opened'))
    /\ UNCHANGED <<deployment, client, closes>>

\* serve() returns: the session replaces whatever is there by now.
Connected(w) ==
    /\ task[w].at = "connect"
    /\ opened < MaxSessions
    /\ opened' = opened + 1
    /\ live' = live \cup {opened'}
    /\ client' = opened'
    /\ Suspends(w, Task(task[w].op, FirstAwait(task[w].op), client'))
    /\ UNCHANGED <<deployment, closes>>

\* A call can succeed in process, or on a session that is still open.
Reachable(w) == deployment = "embedded" \/ task[w].session \in live

SearchReturns(w) ==
    /\ task[w].at = "request"
    /\ Reachable(w)
    /\ Ends(w, "live", FALSE)

\* Connecting or searching raises; only two named exceptions of a search are
\* a capability gap.
SearchRaises(w) ==
    /\ task[w].op = "search"
    /\ \/ Ends(w, "failure", FALSE)
       \/ task[w].at = "request" /\ Reachable(w) /\ Ends(w, "capability", FALSE)

FaultySearchTimesOut(w) ==
    /\ task[w].at = "request"
    /\ Ends(w, "none", FALSE)

\* wait_for covers the whole search, connecting included: whatever it awaits
\* is cancelled.  A cancelled serve() is taken to open nothing.
SearchTimesOut(w) ==
    /\ task[w].op = "search"
    /\ Ends(w, "none", FALSE)

-----------------------------------------------------------------------------
(***************************************************************************)
(* Ingestion: add, cognify, and in process the triplet embeddings, each    *)
(* awaited, none of them under a timeout.                                  *)
(***************************************************************************)

Added(w) ==
    /\ task[w].at = "add"
    /\ Reachable(w)
    /\ Suspends(w, [task[w] EXCEPT !.at = "cognify"])
    /\ UNCHANGED <<deployment, client, opened, live, closes>>

\* A remote service makes its own embeddings.
Cognified(w) ==
    /\ task[w].at = "cognify"
    /\ Reachable(w)
    /\ IF deployment = "remote"
       THEN Ends(w, "accepted live", TRUE)
       ELSE /\ Suspends(w, [task[w] EXCEPT !.at = "embed", !.built = TRUE])
            /\ UNCHANGED <<deployment, client, opened, live, closes>>

FaultyEmbedded(w) ==
    /\ task[w].at = "embed"
    /\ \E ack \in Acknowledgement : Ends(w, ack, task[w].built)

\* embed_triplets never raises: a failure costs one mode, not the ingestion.
Embedded(w) ==
    /\ task[w].at = "embed"
    /\ Ends(w, "accepted live", task[w].built)

IngestRaises(w) ==
    /\ task[w].op = "ingest"
    /\ task[w].at # "embed"
    /\ Ends(w, "accepted stub", task[w].built)

-----------------------------------------------------------------------------
(***************************************************************************)
(* aclose: close the session that was there when it was called, then       *)
(* forget the one that is there when that is done.                         *)
(***************************************************************************)

BeginClose(w) ==
    /\ task[w] = Idle
    /\ client # NoSession
    /\ Suspends(w, Task("close", "close", client))
    /\ closes' = IF closes = "raised" THEN "raised" ELSE "clean"
    /\ UNCHANGED <<deployment, client, opened, live>>

Closed(w) ==
    /\ task[w].at = "close"
    /\ live' = live \ {task[w].session}
    /\ client' = NoSession
    /\ Suspends(w, Idle)
    /\ UNCHANGED <<deployment, opened, closes>>

\* close() raises, and so does aclose: the session may be open or not.
CloseRaises(w) ==
    /\ task[w].at = "close"
    /\ live' \in {live, live \ {task[w].session}}
    /\ Suspends(w, Idle)
    /\ closes' = "raised"
    /\ UNCHANGED <<deployment, client, opened>>

Step(w) ==
    \/ \E op \in {"search", "ingest"} : Begin(w, op)
    \/ StandIn(w)
    \/ Connected(w)
    \/ SearchReturns(w) \/ SearchRaises(w) \/ SearchTimesOut(w)
    \/ Added(w) \/ Cognified(w) \/ Embedded(w) \/ IngestRaises(w)
    \/ BeginClose(w) \/ Closed(w) \/ CloseRaises(w)

Next == \E w \in Worker : Step(w)

\* Timers fire; nothing is assumed of the service.
Fairness == \A w \in Worker : WF_vars(SearchTimesOut(w))

Spec == Init /\ [][Next]_vars /\ Fairness
-----------------------------------------------------------------------------
(***************************************************************************)
(* Properties.                                                             *)
(***************************************************************************)

\* A coroutine that awaits a remote service, and no other, has one of the n
\* sessions given out.
HoldsSession(t, n) ==
    IF deployment = "remote" /\ t.at \notin {"idle", "connect"}
    THEN t.session \in 1..n
    ELSE t.session = NoSession

\* Every variable has its type; a coroutine that awaits a remote service holds
\* a session the service gave out, and no other coroutine holds one.
TypeOK ==
    /\ deployment \in Deployments
    /\ opened \in 0..MaxSessions
    /\ client \in 0..opened
    /\ live \subseteq 1..opened
    /\ task \in [Worker -> Tasks]
    /\ \A w \in Worker : HoldsSession(task[w], opened)
    /\ reply.result \in SearchOutcome \cup Acknowledgement \cup {"nothing"}
    /\ closes \in {"none", "clean", "raised"}

\* However the first requests race and however many searches follow, the
\* service is never asked for more sessions than there are coroutines.
SessionsBounded == closes = "none" => opened <= Cardinality(Worker)

\* A session that is closed is in use only until the aclose that closed it
\* returns, whichever closes and connects overlap: the client never gets stuck
\* on a dead session.
NoDeadSession ==
    /\ closes # "raised"
    /\ \A w \in Worker : task[w].op # "close"
    => client \in live \cup {NoSession}

\* An ingestion is acknowledged as live if and only if the service reported
\* the graph of the document built, whatever becomes of the embeddings.
AckTellsTheTruth ==
    reply.result \in Acknowledgement =>
        (reply.result = "accepted live" <=> reply.built)

\* Every search ends, even on a service that answers nothing: what QueryLoop
\* assumes of a retrieval.
SearchesEnd ==
    \A w \in Worker : task[w].op = "search" ~> task[w].op # "search"

-----------------------------------------------------------------------------
(***************************************************************************)
(* Why the safety properties hold: an inductive strengthening of them.     *)
(***************************************************************************)

Connecting == {w \in Worker : task[w].at = "connect"}

\* Only a remote deployment has sessions.
OnlyRemoteConnects ==
    deployment # "remote" => client = NoSession /\ Connecting = {}

\* Before the first session, anyone may be connecting; after it nobody starts
\* to, so each session uses up one of those who had.
SessionCount ==
    closes = "none" =>
        /\ client = NoSession => opened = 0
        /\ opened + Cardinality(Connecting) <= Cardinality(Worker)

\* Only an ingestion that is past cognify has built its graph.
BuiltIsPending == \A w \in Worker : task[w].built <=> task[w].at = "embed"

\* Closing is not forgotten: who closes has been counted.
CloseIsCounted == \A w \in Worker : task[w].op = "close" => closes # "none"

ClientInvariant ==
    /\ TypeOK
    /\ OnlyRemoteConnects
    /\ SessionCount
    /\ NoDeadSession
    /\ BuiltIsPending
    /\ AckTellsTheTruth
    /\ CloseIsCounted
=============================================================================

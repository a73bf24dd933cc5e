---------------------------- MODULE RouterWorkflow ----------------------------
(***************************************************************************)
(* The durable pipeline of src/app/workflows/router_workflow.py: three     *)
(* activities, run one after the other by the worker of                    *)
(* src/app/workers/router_worker.py, and an answer composed from what they *)
(* returned.  The Temporal server keeps what has been completed; it        *)
(* schedules an activity again, without limit, when an attempt fails, when *)
(* it is not completed in time, or when the worker that had it is gone.    *)
(*                                                                         *)
(* The requests are the inputs of Router as well, so the properties of the *)
(* two routing stages are stated here, of every request.                   *)
(***************************************************************************)
EXTENDS Router

CONSTANTS
    Requests,        \* bound: the requests looked at
    MaxCrashes,      \* bound: times the worker dies
    SearchTimeouts,  \* bound: the settings of retrieval_timeout_s looked at
    RetrieveTimeout, \* start_to_close_timeout of retrieve_and_pack
    Predicted        \* bound: the budgets a program is taken to predict

ASSUME WorkflowAssumption ==
    /\ Requests \subseteq Request
    /\ MaxCrashes \in Nat
    /\ SearchTimeouts \subseteq Nat
    /\ RetrieveTimeout \in Nat
    /\ Predicted \subseteq Int

VARIABLES
    request,        \* the request the workflow was started with
    searchTimeout,  \* settings.retrieval_timeout_s
    step,           \* the activity the workflow awaits, or "done"
    attempt,        \* "scheduled", "running", or "lost" with the worker that had it
    worker,         \* "up" or "down"
    crashes,        \* times the worker has died
    route,          \* what route_query returned, once it has
    evidence        \* what retrieve_and_pack returned, once it has

started == <<request, searchTimeout>>

vars == <<started, step, attempt, worker, crashes, route, evidence>>

NoRoute == [mode |-> "none"]

\* What a retrieval packs to, as far as the workflow could tell: the search
\* never raises, it substitutes a placeholder.
Evidence == {"live", "empty", "placeholder"}

Init ==
    /\ request \in Requests
    /\ searchTimeout \in SearchTimeouts
    /\ step = "normalize_query"
    /\ attempt = "scheduled"
    /\ worker = "up"
    /\ crashes = 0
    /\ route = NoRoute
    /\ evidence = "none"

-----------------------------------------------------------------------------
(***************************************************************************)
(* The activities.                                                         *)
(***************************************************************************)

\* The worker polls its task queue.
Begin ==
    /\ worker = "up"
    /\ attempt = "scheduled"
    /\ step # "done"
    /\ attempt' = "running"
    /\ UNCHANGED <<started, step, worker, crashes, route, evidence>>

Running(activity) == worker = "up" /\ attempt = "running" /\ step = activity

Normalized ==
    /\ Running("normalize_query")
    /\ step' = "route_query"
    /\ attempt' = "scheduled"
    /\ UNCHANGED <<started, worker, crashes, route, evidence>>

FaultyRouteInput(req) == [req EXCEPT !.scope = {}, !.fresh = FALSE]

\* RouteInput has no place for the caller's node_sets.
RouteInput(req) == [req EXCEPT !.scope = {}]

\* A router is built for the attempt, and it is always the rules.
Routed ==
    /\ Running("route_query")
    /\ route' = RuleDecision(RouteInput(request))
    /\ step' = "retrieve_and_pack"
    /\ attempt' = "scheduled"
    /\ UNCHANGED <<started, worker, crashes, evidence>>

Packed(packs) ==
    /\ Running("retrieve_and_pack")
    /\ evidence' \in packs
    /\ step' = "answer"
    /\ attempt' = "none"
    /\ UNCHANGED <<started, worker, crashes, route>>

\* The service answers, or fails and is stood in for: what came of it is packed.
SearchReturns == Packed(Evidence)

FaultySearchTimesOut == RetrieveTimeout < searchTimeout /\ Packed({"placeholder"})

\* The search gives up on a service that is silent.
SearchTimesOut == searchTimeout < RetrieveTimeout /\ Packed({"placeholder"})

\* The workflow's own last step: the answer is accepted, whatever the evidence.
Answer ==
    /\ worker = "up"
    /\ step = "answer"
    /\ step' = "done"
    /\ UNCHANGED <<started, attempt, worker, crashes, route, evidence>>

-----------------------------------------------------------------------------
(***************************************************************************)
(* Failures.                                                               *)
(***************************************************************************)

\* The server gives up on an attempt that was lost with its worker, or on a
\* retrieval that outlasts the activity, and schedules another.
TimeOut ==
    /\ \/ attempt = "lost"
       \/ /\ attempt = "running"
          /\ step = "retrieve_and_pack"
          /\ RetrieveTimeout <= searchTimeout
    /\ attempt' = "scheduled"
    /\ UNCHANGED <<started, step, worker, crashes, route, evidence>>

Crash ==
    /\ worker = "up"
    /\ crashes < MaxCrashes
    /\ worker' = "down"
    /\ crashes' = crashes + 1
    /\ attempt' = IF attempt = "running" THEN "lost" ELSE attempt
    /\ UNCHANGED <<started, step, route, evidence>>

Restart ==
    /\ worker = "down"
    /\ worker' = "up"
    /\ UNCHANGED <<started, step, attempt, crashes, route, evidence>>

Done == step = "done" /\ UNCHANGED vars

Next ==
    \/ Begin \/ Normalized \/ Routed \/ SearchReturns \/ SearchTimesOut \/ Answer
    \/ TimeOut \/ Crash \/ Restart
    \/ Done

\* A worker that is up polls and runs what it took; the timers of the search and
\* of the server fire; a dead worker is started again.  Nothing is said of
\* crashes, nor of a service that answers.
Fairness ==
    /\ WF_vars(Begin) /\ WF_vars(Normalized \/ Routed) /\ WF_vars(Answer)
    /\ WF_vars(SearchTimesOut) /\ WF_vars(TimeOut) /\ WF_vars(Restart)

Spec == Init /\ [][Next]_vars /\ Fairness
-----------------------------------------------------------------------------
(***************************************************************************)
(* Properties of the workflow.                                             *)
(***************************************************************************)

\* Every workflow ends, whenever its worker dies and however long the service
\* keeps silent, as long as a search gives up before its activity does.
WorkflowEnds == (searchTimeout < RetrieveTimeout) ~> (step = "done")

\* A caller's demand for freshness outlives the hand-over to the activity and
\* every attempt at it: the workflow never retrieves for it under a mode that may
\* answer with undated evidence, and never forgets that it was asked for.
WorkflowStaysFresh ==
    route # NoRoute /\ request.fresh =>
        route.fresh /\ route.mode \in {"TEMPORAL", "CYPHER"}

-----------------------------------------------------------------------------
(***************************************************************************)
(* Properties of the two routing stages, for the request at hand.          *)
(***************************************************************************)

Arriving == step = "normalize_query" /\ attempt = "scheduled" /\ crashes = 0

\* One more signal pulls the decision toward its own mode or not at all: no
\* signal makes a third mode win, and one for the winner leaves it as confident
\* as it was.
SignalsPullTheirWay ==
    Arriving =>
        \A s \in Signal \ (request.said \cup request.negated) :
            LET before == RuleDecision(request)
                after == RuleDecision([request EXCEPT !.said = @ \cup {s}]) IN
            /\ after.mode \in {before.mode, s[1]}
            /\ s[1] = before.mode /\ before.confident => after.confident

\* What is decided with confidence, and so never reaches the learned stage, was
\* not settled by rounding: no other mode came within 1.0 of the winner.
ConfidenceIsAMargin ==
    Arriving /\ RuleDecision(request).confident /\ ~request.cypher /\ ~request.fresh =>
        LET winner == RuleDecision(request).mode IN
        /\ Score(request, winner) >= MinScore
        /\ \A m \in Ruled \ {winner} : Score(request, winner) >= Score(request, m) + 2

\* What of a decision the query loop looks at.
Seen(decision) ==
    [mode |-> decision.mode, budget |-> decision.budget, fresh |-> decision.fresh]

\* Whatever the rules decide and the program predicts, the query loop is handed
\* a route it was checked with; the learned stage leaves the scope alone.
RoutesFitTheLoop ==
    Arriving =>
        /\ Seen(RuleDecision(request)) \in RuleRoutes(request)
        /\ \A p \in Prediction(Predicted) :
              LET decision == LearnedDecision(request, p) IN
              /\ Seen(decision) \in LearnedRoutes(request, MinBudget..MaxBudget)
              /\ decision.scope = Scope(request)

\* Words the paraphrase cache does not tell apart anchor nothing: where no alias
\* has a stop word in it, a query of stop words only has no scope, and two queries
\* that differ in stop words, which the cache may take for one, have the same.
ScopeSurvivesParaphrase ==
    /\ Arriving
    /\ \A n \in DOMAIN IndexFile : \A alias \in Aliases(n) : alias \cap StopWords = {}
    =>  /\ request.words \subseteq StopWords => Derive(request.words) = {}
        /\ \A dropped, added \in SUBSET StopWords :
              Derive((request.words \ dropped) \cup added) = Derive(request.words)
-----------------------------------------------------------------------------
(***************************************************************************)
(* What the documents say of the workflow, and the code does not do.       *)
(***************************************************************************)

\* "A caller-supplied scope always wins.  Derivation runs only when the request
\* carries no scope" (the docstring of scoping.py): what a workflow retrieves
\* under is the scope its caller sent, where it sent one.
CallerScopeWins ==
    route # NoRoute /\ request.scope # {} => route.scope = request.scope
===============================================================================

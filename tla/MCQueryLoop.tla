----------------------------- MODULE MCQueryLoop -----------------------------
(***************************************************************************)
(* QueryLoop for model checking, with the refinement mapping to the        *)
(* contract its callers rely on.                                           *)
(***************************************************************************)
EXTENDS QueryLoop

MCDeployment(router) ==
    [stub |-> FALSE, strict |-> TRUE, onError |-> "deny", router |-> router,
     attempts |-> 6, decomposer |-> TRUE, graph |-> TRUE]

\* The default settings with the learned router, which may leave any request to
\* the rules; the evals' fixed-mode router with stub evidence allowed and checks
\* that fail open; a bare service that does not validate freshness and whose
\* checks raise.  The attempt ceiling of the code is the constant 6, which no run
\* reaches (AttemptsBounded); the bare service has 2, which no service has, only
\* so that the branch behind the loop is taken.
MCDeployments ==
    {MCDeployment("learned"),
     [MCDeployment("forced") EXCEPT !.stub = TRUE, !.onError = "proceed"],
     [MCDeployment("rules") EXCEPT
         !.strict = FALSE, !.onError = "throw", !.attempts = 2,
         !.decomposer = FALSE, !.graph = FALSE]}

ProductionOnly == {MCDeployment("rules")}

FailsOpen == deployment.onError = "proceed"

\* The evidence at hand may be answered from: there is some, and it came from
\* the live substrate or stub evidence is allowed.  A deployment that fails
\* open asks only that it looked.
Fit ==
    \/ FailsOpen /\ attempts > 0
    \/ ~FailsOpen /\ packed.items > 0 /\ ("live" \in raw \/ deployment.stub)

Contract ==
    INSTANCE AnswerContract WITH
        Bound <- LongestRun,
        phase <- IF pc \in Terminal THEN pc ELSE "working",
        spent <- attempts,
        fit <- Fit

\* The loop keeps the contract: it spends at most LongestRun retrievals,
\* answers only from fit evidence, and always comes to an end.
KeepsContract == Contract!Spec
=============================================================================

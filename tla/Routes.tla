-------------------------------- MODULE Routes --------------------------------
(***************************************************************************)
(* The retrieval modes, and which route decisions a router may hand to the *)
(* query loop.  Only the mode, the evidence budget and the freshness flag  *)
(* of a RouteDecision drive the loop; how a router arrives at them is in   *)
(* Router, whose decisions are checked to be among the ones given here.    *)
(***************************************************************************)
EXTENDS Integers

SearchMode ==
    {"CHUNKS", "RAG_COMPLETION", "TRIPLET_COMPLETION", "GRAPH_COMPLETION",
     "GRAPH_SUMMARY_COMPLETION", "CYPHER", "NATURAL_LANGUAGE", "TEMPORAL"}

\* RULES and DEFAULT_RULE: no rule names RAG_COMPLETION.
RuleBudget ==
    [m \in SearchMode \ {"RAG_COMPLETION"} |->
        IF m = "TEMPORAL" THEN 6
        ELSE IF m \in {"NATURAL_LANGUAGE", "CYPHER"} THEN 5
        ELSE IF m \in {"GRAPH_COMPLETION", "GRAPH_SUMMARY_COMPLETION"} THEN 10
        ELSE 8]

\* A freshness request is TEMPORAL unless the caller wrote Cypher.
RuleRoutes(req) ==
    {[mode |-> m, budget |-> RuleBudget[m], fresh |-> req.fresh \/ m = "TEMPORAL"] :
        m \in IF req.fresh THEN {"TEMPORAL", "CYPHER"} ELSE DOMAIN RuleBudget}

\* The learned stage may pick any mode, but never for a freshness request:
\* those, and what the rules are confident of, are routed by rule.
LearnedRoutes(req, budgets) ==
    IF req.fresh THEN RuleRoutes(req)
    ELSE RuleRoutes(req) \cup
         {[mode |-> m, budget |-> b, fresh |-> m = "TEMPORAL"] :
             m \in SearchMode, b \in budgets}

\* The fixed-mode router of the eval baselines.
ForcedRoutes(req) ==
    {[mode |-> m, budget |-> 8, fresh |-> req.fresh] : m \in SearchMode}

RoutesOf(router, req, budgets) ==
    IF router = "rules" THEN RuleRoutes(req)
    ELSE IF router = "learned" THEN LearnedRoutes(req, budgets)
    ELSE ForcedRoutes(req)
===============================================================================

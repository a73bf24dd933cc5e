------------------------------ MODULE QueryLoop ------------------------------
(***************************************************************************)
(* One pass of QueryOrchestrator.answer through the slow path              *)
(* (src/app/services/orchestrator.py): route, then retrieve - pack -       *)
(* decide until the runtime controller accepts, refuses or the attempt     *)
(* ceiling is hit; then the budget gate, synthesis, and what is remembered *)
(* of the answer.  The retrieval substrate, the sub-query decomposer, the  *)
(* sufficiency verdict, the clock and the LLM provider are the             *)
(* environment: each is a choice among everything it can return.           *)
(***************************************************************************)
EXTENDS RuntimeController, FiniteSets

CONSTANTS
    Deployments,      \* the deployments looked at
    LearnedBudgets    \* bound: budgets the learned router is let return

ASSUME LoopAssumption ==
    /\ Deployments \subseteq Deployment
    /\ LearnedBudgets \subseteq Nat

VARIABLES
    pc,          \* where answer() is
    request,     \* the caller's contract
    route,       \* the current RouteDecision
    attempted,   \* modes retrieved from
    attempts,    \* iterations of the loop spent
    retryCount,
    widened,
    decomposed,
    packed,      \* the evidence of the last retrieval, packed
    late,        \* elapsed_ms has reached the caller's max_latency_ms
    stop,        \* the stop reason, once there is one
    remembered,  \* stores this answer was written to
    raw,         \* history: what the backend returned to the last retrieval
    reruns       \* history: retrievals from a mode retrieved from before

vars == <<pc, request, route, attempted, attempts, retryCount, widened,
          decomposed, packed, late, stop, remembered, raw, reruns, deployment>>

loopVars ==
    <<request, attempted, attempts, decomposed, late, raw, reruns, deployment>>

Terminal == {"accepted", "refused", "raised"}

QueryRequest == [fresh : BOOLEAN, ceiling : BOOLEAN, capped : BOOLEAN]

SearchOutcome == {"live"} \cup DegradedKind

EmptyPack(degraded) ==
    [degraded |-> degraded, kind |-> "none", items |-> 0, big |-> FALSE,
     dated |-> FALSE, costly |-> FALSE]

-----------------------------------------------------------------------------
(***************************************************************************)
(* What a retrieval can pack to.                                           *)
(***************************************************************************)

\* The placeholder the client substitutes: one made-up item for the mode.
\* The chunk placeholder quotes the query, so it may be long or hold a date.
PlaceholderEvidence(mode, kind) ==
    {p \in PackedEvidence :
        /\ p.degraded /\ p.kind = kind /\ p.items = 1
        /\ mode = "TEMPORAL" => p.dated
        /\ mode \notin {"TEMPORAL", "CHUNKS", "RAG_COMPLETION"} => ~p.dated
        /\ mode \notin {"CHUNKS", "RAG_COMPLETION"} => ~p.big}

Search(mode, outcome) ==
    IF outcome = "live" THEN LiveEvidence ELSE PlaceholderEvidence(mode, outcome)

FaultyMergeResultsBlends(outcomes) == LiveEvidence

\* merge_results: degraded sub-results are dropped; if none is live the
\* merged result is degraded, empty and of no kind.
MergeResults(outcomes) ==
    IF "live" \in outcomes THEN LiveEvidence
    ELSE {EmptyPack(TRUE)}

-----------------------------------------------------------------------------
Init ==
    /\ pc = "retrieve"
    /\ request \in QueryRequest
    /\ deployment \in Deployments
    /\ route \in RoutesOf(deployment.router, request, LearnedBudgets)
    /\ attempted = {}
    /\ attempts = 0
    /\ retryCount = 0
    /\ widened = FALSE
    /\ decomposed = FALSE
    /\ packed = EmptyPack(FALSE)
    /\ late = FALSE
    /\ stop = "none"
    /\ remembered = {}
    /\ raw = {}
    /\ reruns = 0

\* The part of an iteration that is the same however the search is made.
Attempt ==
    /\ pc = "retrieve"
    /\ attempts < deployment.attempts
    /\ pc' = "decide"
    /\ attempts' = attempts + 1
    /\ attempted' = attempted \cup {route.mode}
    /\ reruns' = IF route.mode \in attempted THEN reruns + 1 ELSE reruns
    /\ late' \in IF request.ceiling THEN {late, TRUE} ELSE {late}
    /\ UNCHANGED <<request, route, retryCount, widened, stop, remembered,
                   deployment>>

\* A query that escalated into GRAPH_COMPLETION consults the decomposer.
ConsultsDecomposer ==
    /\ deployment.decomposer
    /\ ~decomposed
    /\ retryCount > 0
    /\ route.mode = "GRAPH_COMPLETION"

\* One search.  If the decomposer was consulted it returned fewer than two
\* sub-queries.
Retrieve ==
    /\ Attempt
    /\ \E outcome \in SearchOutcome :
          /\ packed' \in Search(route.mode, outcome)
          /\ raw' = {outcome}
    /\ UNCHANGED decomposed

\* Two to four sub-queries searched in parallel and merged.
RetrieveDecomposed ==
    /\ Attempt
    /\ ConsultsDecomposer
    /\ decomposed' = TRUE
    /\ raw' \in (SUBSET SearchOutcome) \ {{}}
    /\ packed' \in MergeResults(raw')

FailClosed(reason) ==
    /\ pc' = "refused"
    /\ stop' = reason
    /\ UNCHANGED <<route, retryCount, widened, packed, remembered,
                   loopVars>>

Accept(reason) ==
    /\ pc' = "budget"
    /\ stop' = reason
    /\ UNCHANGED <<route, retryCount, widened, packed, remembered,
                   loopVars>>

Escalate(mode) ==
    /\ pc' = "retrieve"
    /\ route' = EscalateTo(mode, route)
    /\ retryCount' = retryCount + 1
    /\ UNCHANGED <<widened, packed, stop, remembered, loopVars>>

AttemptCeiling ==
    /\ pc = "retrieve"
    /\ attempts = deployment.attempts
    /\ FailClosed("attempt_ceiling")

-----------------------------------------------------------------------------
(***************************************************************************)
(* RuntimeController.decide, one action per outcome.                       *)
(***************************************************************************)

EscalateCapabilityGap ==
    /\ pc = "decide"
    /\ IsCapabilityGap(route, packed, attempted)
    /\ Escalate(EscalationLadder(route.mode))

RefuseDegraded ==
    /\ pc = "decide"
    /\ Untrusted(packed)
    /\ ~IsCapabilityGap(route, packed, attempted)
    /\ FailClosed("degraded_retrieval")

EscalateToTemporal ==
    /\ pc = "decide"
    /\ NeedsTemporal(route, packed, attempted)
    /\ Escalate("TEMPORAL")

RefuseUndated ==
    /\ pc = "decide"
    /\ IsUndated(route, packed, attempted)
    /\ FailClosed("freshness_unverifiable")

FaultyStopAtLatencyCeiling ==
    /\ pc = "decide"
    /\ PassesFreshness(route, packed, attempted)
    /\ late
    /\ Accept("limit_latency")

StopAtLatencyCeiling ==
    /\ pc = "decide"
    /\ PassesFreshness(route, packed, attempted)
    /\ late
    /\ IF packed.items > 0
       THEN Accept("limit_latency")
       ELSE FailClosed("limit_latency")

\* The gate is the only call of the method that can raise.
CheckRaises ==
    /\ pc = "decide"
    /\ ReachesGate(route, packed, attempted, late)
    /\ \/ deployment.onError = "deny" /\ FailClosed("check_error")
       \/ deployment.onError = "proceed" /\ Accept("check_error")
       \/ /\ deployment.onError = "throw"
          /\ pc' = "raised"
          /\ UNCHANGED <<route, retryCount, widened, packed, stop, remembered,
                         loopVars>>

\* An empty set is always judged insufficient.
GateSays(verdict) ==
    /\ pc = "decide"
    /\ ReachesGate(route, packed, attempted, late)
    /\ verdict \in SufficiencyVerdict
    /\ packed.items = 0 => verdict = "insufficient"

RefuseConflict ==
    /\ GateSays("refuted")
    /\ FailClosed("evidence_conflict")

AcceptSufficient ==
    /\ \E verdict \in SufficiencyVerdict \ {"refuted"} :
          /\ GateSays(verdict)
          /\ ~IsShort(route, packed, verdict)
    /\ Accept("sufficient_evidence")

FallsShort ==
    \E verdict \in SufficiencyVerdict \ {"refuted"} :
        GateSays(verdict) /\ IsShort(route, packed, verdict)

FaultySettleFor(reason) == Accept("thin_evidence_accepted")

\* Out of options: thin evidence is an answer, no evidence is not.
SettleFor(reason) ==
    IF packed.items = 0
    THEN FailClosed(reason)
    ELSE Accept("thin_evidence_accepted")

StopAtRetryLimit ==
    /\ FallsShort
    /\ retryCount >= MaxRetries
    /\ SettleFor("max_retries")

WidenBudget ==
    /\ FallsShort
    /\ retryCount < MaxRetries
    /\ CanWiden(route, widened)
    /\ pc' = "retrieve"
    /\ widened' = TRUE
    /\ route' = Widen(route)
    /\ UNCHANGED <<retryCount, packed, stop, remembered, loopVars>>

StopAtLadderEnd ==
    /\ FallsShort
    /\ retryCount < MaxRetries
    /\ ~CanWiden(route, widened)
    /\ ~CanEscalate(route, attempted)
    /\ SettleFor("ladder_exhausted")

EscalateShortfall ==
    /\ FallsShort
    /\ retryCount < MaxRetries
    /\ ~CanWiden(route, widened)
    /\ CanEscalate(route, attempted)
    /\ Escalate(EscalationLadder(route.mode))

Decide ==
    \/ EscalateCapabilityGap \/ RefuseDegraded
    \/ EscalateToTemporal \/ RefuseUndated
    \/ StopAtLatencyCeiling
    \/ CheckRaises \/ RefuseConflict
    \/ AcceptSufficient
    \/ StopAtRetryLimit \/ WidenBudget \/ StopAtLadderEnd \/ EscalateShortfall

-----------------------------------------------------------------------------
(***************************************************************************)
(* After the loop.                                                         *)
(***************************************************************************)

\* The cost ceiling shrinks the pack; it never refuses.
BudgetGate ==
    /\ pc = "budget"
    /\ pc' = "synthesize"
    /\ packed' \in IF request.capped /\ packed.costly THEN Repacked(packed)
                   ELSE {packed}
    /\ UNCHANGED <<route, retryCount, widened, stop, remembered, loopVars>>

SynthesisFails ==
    /\ pc = "synthesize"
    /\ FailClosed("synthesis_failed")

\* A body that is JSON but no completion object is not foreseen: the method
\* raises, and so does answer().
SynthesisRaises ==
    /\ pc = "synthesize"
    /\ pc' = "raised"
    /\ UNCHANGED <<route, retryCount, widened, packed, stop, remembered, loopVars>>

FaultyStoresByRequest ==
    IF packed.degraded THEN {}
    ELSE {"exact"}
         \cup (IF request.fresh THEN {} ELSE {"paraphrase"})
         \cup (IF deployment.graph /\ route.mode = "TRIPLET_COMPLETION" THEN {"graph"} ELSE {})

FaultyStoresDegraded ==
    {"exact"} \cup (IF request.fresh \/ route.fresh THEN {} ELSE {"paraphrase"})

\* Where a finished answer is kept.
Stores ==
    IF packed.degraded THEN {}
    ELSE {"exact"}
         \cup (IF request.fresh \/ route.fresh THEN {} ELSE {"paraphrase"})
         \cup (IF deployment.graph /\ route.mode = "TRIPLET_COMPLETION" THEN {"graph"} ELSE {})

\* A completion without choices or content, and the template that stands in
\* for a provider that is not configured, are answers like any other.
Synthesize ==
    /\ pc = "synthesize"
    /\ pc' = "accepted"
    /\ remembered' = Stores
    /\ UNCHANGED <<route, retryCount, widened, packed, stop, loopVars>>

Done == pc \in Terminal /\ UNCHANGED vars

Next ==
    \/ Retrieve \/ RetrieveDecomposed \/ AttemptCeiling
    \/ Decide
    \/ BudgetGate \/ SynthesisFails \/ SynthesisRaises \/ Synthesize
    \/ Done

\* asyncio keeps running the coroutine, and every await in it is bounded:
\* retrieval and synthesis both have a timeout.
Fairness == WF_vars(Next)

Spec == Init /\ [][Next]_vars /\ Fairness
-----------------------------------------------------------------------------
(***************************************************************************)
(* Properties.                                                             *)
(***************************************************************************)

\* The loop's variables stay in their types, and the history agrees with
\* the counters.
TypeOK ==
    /\ deployment \in Deployments
    /\ pc \in {"retrieve", "decide", "budget", "synthesize"} \cup Terminal
    /\ request \in QueryRequest
    /\ route \in RouteDecision
    /\ attempted \subseteq SearchMode
    /\ attempts \in 0..deployment.attempts
    /\ retryCount \in 0..deployment.attempts
    /\ widened \in BOOLEAN /\ decomposed \in BOOLEAN /\ late \in BOOLEAN
    /\ packed \in PackedEvidence
    /\ stop \in StopReason \cup {"none"}
    /\ remembered \subseteq {"exact", "paraphrase", "graph"}
    /\ raw \subseteq SearchOutcome
    /\ reruns \in 0..deployment.attempts

\* The longest request: the routed mode, TEMPORAL, the two graph rungs of
\* the ladder, and one widened repeat.
LongestRun == 5

\* No request costs more than LongestRun retrievals, whatever the retry
\* allowance: the ladder and the attempted set bound the loop by themselves,
\* so MAX_ATTEMPTS never decides an outcome.
AttemptsBounded ==
    attempts <= LongestRun /\ (stop = "attempt_ceiling" => deployment.attempts < LongestRun)

\* A mode is never retrieved from twice, except once for the latched widening
\* of its budget, across every order of capability gaps, freshness and thin
\* evidence.
ModesNotRepeated == reruns <= 1 /\ (reruns = 1 => widened)

\* An accepted answer rests on something the live substrate returned, through
\* every escalation, merge and re-pack: placeholders never reach an answer
\* unless the deployment allows stub evidence.
AnswersRestOnLiveEvidence ==
    pc = "accepted" /\ ~deployment.stub => "live" \in raw /\ ~packed.degraded

\* No answer is accepted from an empty pack, except under the fail-open
\* policy for a check that raised.
AnswersHaveEvidence ==
    pc = "accepted" /\ deployment.onError # "proceed" => packed.items > 0

\* The caller's freshness demand is still the route's after every widening
\* and escalation, so no later check can miss it.
FreshnessIsNeverDropped == request.fresh => route.fresh

\* When the loop accepts evidence on a freshness route, TEMPORAL has been
\* tried and the pack holds a date; without a cost ceiling that is the pack
\* the answer is made from.
FreshEvidenceIsDated ==
    /\ pc \in {"budget", "synthesize", "accepted"}
    /\ pc # "budget" => ~request.capped
    /\ route.fresh /\ deployment.strict /\ packed.items > 0
    => packed.dated /\ "TEMPORAL" \in attempted

\* Nothing made of placeholders is remembered, even where stub evidence may
\* be answered from: not in the cache, not in the resident graph.
OnlyLiveEvidenceIsRemembered ==
    remembered # {} => "live" \in raw

\* An answer that a temporal retrieval had a part in never enters the
\* paraphrase namespace (the fixed-mode eval router ignores freshness rules).
TemporalAnswersAreNotParaphrased ==
    "TEMPORAL" \in attempted /\ deployment.router # "forced"
        => "paraphrase" \notin remembered

-----------------------------------------------------------------------------
(***************************************************************************)
(* Why the properties hold: an inductive strengthening of them.            *)
(***************************************************************************)

\* The rungs an escalation can lead to.
Rungs == {"TEMPORAL", "GRAPH_COMPLETION", "GRAPH_SUMMARY_COMPLETION"}

\* Every mode but the routed one was reached by an escalation.
RungsOnly ==
    \E m \in SearchMode : attempted \cup {route.mode} \subseteq Rungs \cup {m}

\* Each retrieval either met a new mode or is the latched repeat.
Accounting ==
    /\ attempts = Cardinality(attempted) + reruns
    /\ reruns <= 1
    /\ reruns = 1 => widened
    /\ retryCount <= attempts
    /\ pc = "decide" => retryCount < attempts

\* A mode about to be retrieved from is new, or is the pending repeat.
NextModeIsNew ==
    pc = "retrieve" /\ route.mode \in attempted => widened /\ reruns = 0

CurrentModeWasTried ==
    pc \in {"decide", "budget", "synthesize", "accepted"} => route.mode \in attempted

\* The degraded flag of a pack is true of what the backend returned, and
\* evidence that is not trusted gets no further than the decision.
FlagIsTrue ==
    /\ pc \in {"decide", "budget", "synthesize", "accepted"} /\ ~packed.degraded
           => "live" \in raw
    /\ pc \in {"budget", "synthesize", "accepted"} => ~Untrusted(packed)
    /\ remembered # {} => pc = "accepted" /\ ~packed.degraded

\* Nothing is accepted from an empty pack, save by the fail-open policy.
EvidenceInHand ==
    pc \in {"budget", "synthesize", "accepted"} /\ deployment.onError # "proceed"
        => packed.items > 0

\* Outside the evals a route that leads through TEMPORAL is a freshness route,
\* and what a freshness route answers is not kept as a paraphrase.
TemporalIsFresh ==
    /\ deployment.router # "forced" /\ "TEMPORAL" \in attempted \cup {route.mode}
           => route.fresh
    /\ "paraphrase" \in remembered => ~route.fresh

\* The properties above, strengthened until every step preserves them.
LoopInvariant ==
    /\ TypeOK
    /\ RungsOnly
    /\ Accounting
    /\ NextModeIsNew
    /\ CurrentModeWasTried
    /\ FlagIsTrue
    /\ EvidenceInHand
    /\ AttemptsBounded
    /\ FreshnessIsNeverDropped
    /\ FreshEvidenceIsDated
    /\ TemporalIsFresh

-----------------------------------------------------------------------------
(***************************************************************************)
(* What the documents say of the loop and the code does not do.            *)
(***************************************************************************)

\* A freshness answer is made from a pack that carries a parseable date.
FreshAnswersAreDated ==
    pc = "accepted" /\ route.fresh /\ deployment.strict => packed.dated

=============================================================================

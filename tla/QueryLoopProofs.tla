--------------------------- MODULE QueryLoopProofs ---------------------------
(***************************************************************************)
(* Proofs about QueryLoop, for every value of its constants.  The argument *)
(* is one inductive invariant, LoopInvariant.  A step of the controller    *)
(* has one of five shapes (DecideShape), so each part of the invariant is  *)
(* shown preserved by the two retrievals, the five shapes and the three    *)
(* steps after the loop rather than by every branch of the controller.     *)
(***************************************************************************)
EXTENDS MCQueryLoop, FiniteSetTheorems, TLAPS

-----------------------------------------------------------------------------
(***************************************************************************)
(* The shapes of a step.                                                   *)
(***************************************************************************)

\* A search, decomposed or not: the pack it leaves is flagged degraded unless
\* something live came back.
Retrieves ==
    /\ Attempt
    /\ packed' \in PackedEvidence
    /\ raw' \subseteq SearchOutcome
    /\ ~packed'.degraded => "live" \in raw'
    /\ decomposed' \in BOOLEAN

Reasons == StopReason \ {"attempt_ceiling"}

\* The controller or a failed synthesis ends the request.
Refuses == pc \in {"decide", "synthesize"} /\ \E r \in Reasons : FailClosed(r)

\* The controller lets evidence through that passed the trust and freshness
\* checks, and that is not empty unless a check failed open.
Accepts ==
    /\ pc = "decide"
    /\ PassesFreshness(route, packed, attempted)
    /\ deployment.onError # "proceed" => packed.items > 0
    /\ \E r \in Reasons : Accept(r)

\* The controller moves to a mode that has not been tried, to TEMPORAL only on
\* a freshness route.
Climbs ==
    /\ pc = "decide"
    /\ \E m \in Rungs \ attempted : Escalate(m) /\ (m = "TEMPORAL" => route.fresh)

\* The check or the synthesizer raises.
Raises ==
    /\ pc \in {"decide", "synthesize"}
    /\ pc' = "raised"
    /\ UNCHANGED <<route, retryCount, widened, packed, stop, remembered,
                   loopVars>>

Widens == pc = "decide" /\ WidenBudget

\* Every rung of the ladder is a mode an escalation can lead to.
LEMMA LadderLeadsToRungs ==
    ASSUME NEW mode \in SearchMode, EscalationLadder(mode) # NoMode
    PROVE  EscalationLadder(mode) \in Rungs /\ EscalationLadder(mode) # "TEMPORAL"
BY DEF EscalationLadder, NoMode, Rungs, SearchMode

\* The rungs of the ladder are retrieval modes.
LEMMA RungsAreModes == Rungs \subseteq SearchMode
BY DEF Rungs, SearchMode

\* The branches of RuntimeController.decide come down to five shapes.
LEMMA DecideShape ==
    ASSUME TypeOK, Decide
    PROVE  pc = "decide" /\ (Refuses \/ Accepts \/ Climbs \/ Widens \/ Raises)
<1> USE DEF TypeOK
<1>m. route.mode \in SearchMode /\ packed.items \in Nat
  BY ControllerAssumption DEF RouteDecision, PackedEvidence, ControllerAssumption
<1>r. {"degraded_retrieval", "freshness_unverifiable", "limit_latency",
       "check_error", "evidence_conflict", "sufficient_evidence", "max_retries",
       "ladder_exhausted", "thin_evidence_accepted"} \subseteq Reasons
  BY DEF StopReason, Reasons
<1>c. CanEscalate(route, attempted) =>
          /\ EscalationLadder(route.mode) \in Rungs \ attempted
          /\ EscalationLadder(route.mode) # "TEMPORAL"
  BY <1>m, LadderLeadsToRungs DEF CanEscalate
<1>g. ASSUME NEW v, GateSays(v)
      PROVE  pc = "decide" /\ PassesFreshness(route, packed, attempted)
  BY <1>g DEF GateSays, ReachesGate
<1>f. FallsShort => pc = "decide" /\ PassesFreshness(route, packed, attempted)
  BY <1>g DEF FallsShort
<1>s. ASSUME NEW r \in Reasons, FallsShort, SettleFor(r)
      PROVE  Refuses \/ Accepts
  BY <1>s, <1>f, <1>m, <1>r DEF SettleFor, Refuses, Accepts
<1>1. CASE EscalateCapabilityGap
  BY <1>1, <1>c DEF EscalateCapabilityGap, IsCapabilityGap, Climbs
<1>2. CASE RefuseDegraded
  BY <1>2, <1>r DEF RefuseDegraded, Refuses
<1>3. CASE EscalateToTemporal
  BY <1>3 DEF EscalateToTemporal, NeedsTemporal, Climbs, Rungs
<1>4. CASE RefuseUndated
  BY <1>4, <1>r DEF RefuseUndated, Refuses
<1>5. CASE StopAtLatencyCeiling
  BY <1>5, <1>r, <1>m DEF StopAtLatencyCeiling, Refuses, Accepts
<1>6. CASE CheckRaises
  BY <1>6, <1>r DEF CheckRaises, ReachesGate, Refuses, Accepts, Raises
<1>7. CASE RefuseConflict
  BY <1>7, <1>g, <1>r DEF RefuseConflict, Refuses
<1>8. CASE AcceptSufficient
  <2>1. pc = "decide" /\ PassesFreshness(route, packed, attempted)
    BY <1>8, <1>g DEF AcceptSufficient
  <2>2. packed.items > 0
    BY <1>8, <1>m DEF AcceptSufficient, IsShort
  <2> QED BY <1>8, <2>1, <2>2, <1>r DEF AcceptSufficient, Accepts
<1>9. CASE StopAtRetryLimit
  BY <1>9, <1>f, <1>s, <1>r DEF StopAtRetryLimit
<1>10. CASE WidenBudget
  BY <1>10, <1>f DEF WidenBudget, Widens
<1>11. CASE StopAtLadderEnd
  BY <1>11, <1>f, <1>s, <1>r DEF StopAtLadderEnd
<1>12. CASE EscalateShortfall
  BY <1>12, <1>f, <1>c DEF EscalateShortfall, Climbs
<1> QED
  BY <1>1, <1>2, <1>3, <1>4, <1>5, <1>6, <1>7, <1>8, <1>9, <1>10, <1>11, <1>12
     DEF Decide

\* A search yields packs whose degraded flag says whether anything was live.
LEMMA RetrievalShape ==
    ASSUME TypeOK, Retrieve \/ RetrieveDecomposed
    PROVE  Retrieves
<1>1. CASE Retrieve
  <2>1. PICK outcome \in SearchOutcome :
            packed' \in Search(route.mode, outcome) /\ raw' = {outcome}
    BY <1>1 DEF Retrieve
  <2>2. packed' \in PackedEvidence /\ (~packed'.degraded => outcome = "live")
    BY <2>1 DEF Search, LiveEvidence, PlaceholderEvidence
  <2> QED BY <1>1, <2>1, <2>2 DEF Retrieve, Retrieves, TypeOK
<1>2. CASE RetrieveDecomposed
  <2>1. packed' \in PackedEvidence /\ (~packed'.degraded => "live" \in raw')
    <3>1. CASE "live" \in raw'
      BY <1>2, <3>1 DEF RetrieveDecomposed, MergeResults, LiveEvidence
    <3>2. CASE "live" \notin raw'
      <4>1. packed' = EmptyPack(TRUE)
        BY <1>2, <3>2 DEF RetrieveDecomposed, MergeResults
      <4>2. packed'.degraded /\ packed' \in PackedEvidence
        BY <4>1, ControllerAssumption
           DEF EmptyPack, PackedEvidence, DegradedKind, ControllerAssumption
      <4> QED BY <4>2
    <3> QED BY <3>1, <3>2
  <2> QED BY <1>2, <2>1 DEF RetrieveDecomposed, Retrieves
<1> QED BY <1>1, <1>2

\* Every step of the specification is one of these.
LEMMA StepShape ==
    ASSUME TypeOK, [Next]_vars
    PROVE  \/ Retrieves \/ AttemptCeiling
           \/ Refuses \/ Accepts \/ Climbs \/ Widens \/ Raises
           \/ BudgetGate \/ Synthesize
           \/ UNCHANGED vars
<1>0. CASE SynthesisRaises
  BY <1>0 DEF SynthesisRaises, Raises
<1>1. CASE SynthesisFails
  BY <1>1 DEF SynthesisFails, Refuses, Reasons, StopReason
<1>2. CASE Done
  BY <1>2 DEF Done
<1> QED
  BY <1>0, <1>1, <1>2, RetrievalShape, DecideShape DEF Next

-----------------------------------------------------------------------------
(***************************************************************************)
(* Type correctness, with the counters it leans on.                        *)
(***************************************************************************)

\* The attempt ceiling is a number, whatever the deployment.
LEMMA CeilingIsNat ==
    ASSUME TypeOK
    PROVE  deployment.attempts \in Nat
<1>1. deployment \in Deployment
  BY LoopAssumption DEF TypeOK, LoopAssumption
<1> QED BY <1>1 DEF Deployment

\* Every route a router returns is a route decision.
LEMMA RoutesAreTyped ==
    ASSUME NEW req \in QueryRequest, NEW router
    PROVE  RoutesOf(router, req, LearnedBudgets) \subseteq RouteDecision
<1>1. RuleRoutes(req) \subseteq RouteDecision
  <2>1. \A m \in DOMAIN RuleBudget : m \in SearchMode /\ RuleBudget[m] \in Nat
    BY DEF RuleBudget
  <2>2. {"TEMPORAL", "CYPHER"} \subseteq DOMAIN RuleBudget
    BY DEF RuleBudget, SearchMode
  <2>3. req.fresh \in BOOLEAN
    BY DEF QueryRequest
  <2>4. ASSUME NEW m \in DOMAIN RuleBudget
        PROVE  [mode |-> m, budget |-> RuleBudget[m],
                fresh |-> req.fresh \/ m = "TEMPORAL"] \in RouteDecision
    <3>1. (req.fresh \/ m = "TEMPORAL") \in BOOLEAN
      BY <2>3
    <3> QED BY <2>1, <3>1 DEF RouteDecision
  <2> QED BY <2>2, <2>4 DEF RuleRoutes
<1>2. LearnedRoutes(req, LearnedBudgets) \subseteq RouteDecision
  <2>1. ASSUME NEW m \in SearchMode, NEW b \in LearnedBudgets
        PROVE  [mode |-> m, budget |-> b, fresh |-> m = "TEMPORAL"] \in RouteDecision
    <3>1. b \in Nat /\ (m = "TEMPORAL") \in BOOLEAN
      BY LoopAssumption DEF LoopAssumption
    <3> QED BY <3>1 DEF RouteDecision
  <2> QED BY <1>1, <2>1 DEF LearnedRoutes
<1>3. ForcedRoutes(req) \subseteq RouteDecision
  BY DEF ForcedRoutes, RouteDecision, QueryRequest
<1> QED BY <1>1, <1>2, <1>3 DEF RoutesOf

-----------------------------------------------------------------------------
(***************************************************************************)
(* Counting retrievals.                                                    *)
(***************************************************************************)

\* At most four modes can be met: the routed one and the three rungs.
LEMMA FourModes ==
    ASSUME NEW m, NEW A, A \subseteq Rungs \cup {m}
    PROVE  IsFiniteSet(A) /\ Cardinality(A) \in 0..4
<1> DEFINE B1 == {"TEMPORAL"}
           B2 == B1 \cup {"GRAPH_COMPLETION"}
           B3 == B2 \cup {"GRAPH_SUMMARY_COMPLETION"}
<1>1. IsFiniteSet(B1) /\ Cardinality(B1) = 1
  BY FS_Singleton
<1>2. IsFiniteSet(B2) /\ Cardinality(B2) = 2
  BY <1>1, FS_AddElement
<1>3. IsFiniteSet(B3) /\ Cardinality(B3) = 3
  BY <1>2, FS_AddElement
<1>4. B3 = Rungs
  BY DEF Rungs
<1>5. IsFiniteSet(Rungs \cup {m}) /\ Cardinality(Rungs \cup {m}) \in {3, 4}
  <2>1. CASE m \in Rungs
    <3>1. Rungs \cup {m} = Rungs
      BY <2>1
    <3> QED BY <3>1, <1>3, <1>4
  <2>2. CASE m \notin Rungs
    BY <2>2, <1>3, <1>4, FS_AddElement
  <2> QED BY <2>1, <2>2
<1>6. IsFiniteSet(A) /\ Cardinality(A) <= Cardinality(Rungs \cup {m})
  BY <1>5, FS_Subset
<1>7. Cardinality(A) \in Nat
  BY <1>6, FS_CardinalityType
<1> HIDE DEF B1, B2, B3
<1> QED BY <1>5, <1>6, <1>7

\* Retrieving from a mode counts it once.
LEMMA CountMode ==
    ASSUME NEW m, NEW A, NEW x, A \cup {x} \subseteq Rungs \cup {m}
    PROVE  /\ Cardinality(A) \in 0..4
           /\ x \in A => Cardinality(A \cup {x}) = Cardinality(A)
           /\ x \notin A => /\ Cardinality(A \cup {x}) = Cardinality(A) + 1
                            /\ Cardinality(A) \in 0..3
<1>1. IsFiniteSet(A) /\ Cardinality(A) \in 0..4
  BY FourModes
<1>2. Cardinality(A \cup {x}) \in 0..4
  BY FourModes
<1>3. x \in A => A \cup {x} = A
  OBVIOUS
<1>4. x \notin A => Cardinality(A \cup {x}) = Cardinality(A) + 1
  BY <1>1, FS_AddElement
<1> QED BY <1>1, <1>2, <1>3, <1>4

\* In the loop no more than LongestRun retrievals have been spent, and before
\* another there is room for it.
LEMMA RoomForAttempt ==
    ASSUME TypeOK, RungsOnly, Accounting, NextModeIsNew
    PROVE  attempts <= LongestRun /\ (pc = "retrieve" => attempts < LongestRun)
<1>1. PICK m \in SearchMode : attempted \cup {route.mode} \subseteq Rungs \cup {m}
  BY DEF RungsOnly
<1>2. /\ Cardinality(attempted) \in 0..4
      /\ route.mode \notin attempted => Cardinality(attempted) \in 0..3
  BY <1>1, CountMode
<1>3. reruns \in {0, 1} /\ attempts = Cardinality(attempted) + reruns
  BY CeilingIsNat DEF TypeOK, Accounting
<1>4. pc = "retrieve" /\ route.mode \in attempted => reruns = 0
  BY DEF NextModeIsNew
<1> QED BY <1>2, <1>3, <1>4 DEF LongestRun

-----------------------------------------------------------------------------
(***************************************************************************)
(* Every part of the invariant is preserved.                               *)
(***************************************************************************)

\* The budget gate leaves a pack that is a pack, no less trusted, no emptier.
LEMMA GateShape ==
    ASSUME TypeOK, BudgetGate
    PROVE  /\ packed' \in PackedEvidence
           /\ packed'.degraded <=> packed.degraded
           /\ packed.items > 0 => packed'.items > 0
           /\ ~request.capped => packed' = packed
<1>1. CASE request.capped /\ packed.costly
  <2>1. packed' \in Repacked(packed)
    BY <1>1 DEF BudgetGate
  <2>2. packed' = packed \/ (~packed.degraded /\ packed' \in LiveEvidence /\ packed'.items > 0)
    BY <2>1 DEF Repacked
  <2>3. ASSUME ~packed.degraded, packed' \in LiveEvidence
        PROVE  packed' \in PackedEvidence /\ ~packed'.degraded
    BY <2>3 DEF LiveEvidence
  <2> QED BY <1>1, <2>2, <2>3 DEF TypeOK
<1>2. CASE ~(request.capped /\ packed.costly)
  BY <1>2 DEF BudgetGate, TypeOK
<1> QED BY <1>1, <1>2

\* Every step keeps the types.
LEMMA TypePreserved ==
    ASSUME LoopInvariant, [Next]_vars
    PROVE  TypeOK'
<1> USE DEF loopVars
<1>1. TypeOK /\ deployment.attempts \in Nat
  BY CeilingIsNat DEF LoopInvariant
<1>2. CASE Retrieves
  <2>1. attempts \in 0..deployment.attempts /\ attempts < deployment.attempts
    BY <1>1, <1>2 DEF TypeOK, Retrieves, Attempt
  <2>2. attempts' \in 0..deployment.attempts
    BY <2>1, <1>2, <1>1 DEF Retrieves, Attempt
  <2>3. reruns' \in 0..deployment.attempts
    <3>1. reruns \in 0..deployment.attempts
      BY <1>1 DEF TypeOK
    <3>2. reruns < deployment.attempts
      <4>1. reruns <= attempts
        <5>1. PICK m \in SearchMode : attempted \cup {route.mode} \subseteq Rungs \cup {m}
          BY DEF LoopInvariant, RungsOnly
        <5>2. Cardinality(attempted) \in 0..4
          BY <5>1, CountMode
        <5> QED BY <5>2, <3>1 DEF LoopInvariant, Accounting
      <4> QED BY <4>1, <2>1, <3>1, <1>1
    <3> QED BY <3>1, <3>2, <1>2, <1>1 DEF Retrieves, Attempt
  <2>4. attempted' \subseteq SearchMode /\ late' \in BOOLEAN
    BY <1>1, <1>2 DEF TypeOK, Retrieves, Attempt, RouteDecision
  <2> QED BY <2>2, <2>3, <2>4, <1>1, <1>2 DEF TypeOK, Retrieves, Attempt
<1>3. CASE AttemptCeiling
  BY <1>3, <1>1 DEF AttemptCeiling, FailClosed, TypeOK, StopReason, Terminal
<1>4. CASE Refuses
  <2>1. PICK r \in Reasons : FailClosed(r)
    BY <1>4 DEF Refuses
  <2> QED BY <2>1, <1>1 DEF FailClosed, TypeOK, Reasons, Terminal
<1>5. CASE Accepts
  <2>1. PICK r \in Reasons : Accept(r)
    BY <1>5 DEF Accepts
  <2> QED BY <2>1, <1>1 DEF Accept, TypeOK, Reasons
<1>6. CASE Climbs
  <2>1. PICK m \in Rungs : Escalate(m)
    BY <1>6 DEF Climbs
  <2>2. m \in SearchMode
    BY RungsAreModes
  <2>3. route' \in RouteDecision
    BY <2>1, <2>2, <1>1 DEF Escalate, EscalateTo, TypeOK, RouteDecision
  <2>4. retryCount' \in 0..deployment.attempts
    BY <1>6, <2>1, <1>1 DEF Climbs, Escalate, TypeOK, LoopInvariant, Accounting
  <2> QED BY <2>1, <2>3, <2>4, <1>1 DEF Escalate, TypeOK
<1>7. CASE Widens
  <2>1. route' \in RouteDecision
    BY <1>7, <1>1, ControllerAssumption
       DEF Widens, WidenBudget, Widen, TypeOK, RouteDecision, ControllerAssumption
  <2> QED BY <2>1, <1>7, <1>1 DEF Widens, WidenBudget, TypeOK
<1>8. CASE Raises
  BY <1>8, <1>1 DEF Raises, TypeOK, Terminal
<1>9. CASE BudgetGate
  <2>1. packed' \in PackedEvidence
    BY <1>9, <1>1, GateShape
  <2> QED BY <2>1, <1>9, <1>1 DEF BudgetGate, TypeOK
<1>10. CASE Synthesize
  <2>1. remembered' \subseteq {"exact", "paraphrase", "graph"}
    BY <1>10 DEF Synthesize, Stores
  <2> QED BY <2>1, <1>10, <1>1 DEF Synthesize, TypeOK, Terminal
<1>11. CASE UNCHANGED vars
  BY <1>11, <1>1 DEF vars, TypeOK
<1> QED
  BY <1>1, <1>2, <1>3, <1>4, <1>5, <1>6, <1>7, <1>8, <1>9, <1>10, <1>11, StepShape

\* Widening and escalating leave the freshness flag alone, widening the mode.
LEMMA NextRouteShape ==
    ASSUME TypeOK
    PROVE  /\ Widens => route'.mode = route.mode /\ (route'.fresh <=> route.fresh)
           /\ \A m : Escalate(m) => route'.mode = m /\ (route'.fresh <=> route.fresh)
<1>1. ASSUME Widens
      PROVE  route'.mode = route.mode /\ (route'.fresh <=> route.fresh)
  BY <1>1 DEF Widens, WidenBudget, Widen, TypeOK, RouteDecision
<1>2. ASSUME NEW m, Escalate(m)
      PROVE  route'.mode = m /\ (route'.fresh <=> route.fresh)
  BY <1>2 DEF Escalate, EscalateTo
<1> QED BY <1>1, <1>2

\* The modes met, and the count of retrievals.
LEMMA ModesPreserved ==
    ASSUME LoopInvariant, [Next]_vars
    PROVE  /\ RungsOnly' /\ Accounting' /\ NextModeIsNew'
           /\ CurrentModeWasTried' /\ AttemptsBounded'
<1> USE DEF loopVars
<1>1. TypeOK /\ RungsOnly /\ Accounting /\ NextModeIsNew /\ CurrentModeWasTried
      /\ AttemptsBounded /\ deployment.attempts \in Nat
  BY CeilingIsNat DEF LoopInvariant
<1>2. PICK m \in SearchMode : attempted \cup {route.mode} \subseteq Rungs \cup {m}
  BY <1>1 DEF RungsOnly
<1>3. attempts <= LongestRun /\ (pc = "retrieve" => attempts < LongestRun)
  BY <1>1, RoomForAttempt
<1>n. /\ attempts \in Nat /\ retryCount \in Nat /\ reruns \in Nat
      /\ Cardinality(attempted) \in Nat
  <2>1. Cardinality(attempted) \in 0..4
    BY <1>2, CountMode
  <2> QED BY <2>1, <1>1 DEF TypeOK
\* The steps that change none of the modes: enough to look at pc and stop.
<1>k. ASSUME UNCHANGED <<attempted, attempts, reruns, retryCount, widened,
                         route, deployment>>,
             pc' = "decide" => pc = "decide",
             pc' = "retrieve" => pc = "retrieve",
             pc' \in {"budget", "synthesize", "accepted"}
                 => pc \in {"decide", "budget", "synthesize", "accepted"},
             stop' = "attempt_ceiling"
                 => stop = "attempt_ceiling" \/ deployment.attempts < LongestRun
      PROVE  /\ RungsOnly' /\ Accounting' /\ NextModeIsNew'
             /\ CurrentModeWasTried' /\ AttemptsBounded'
  BY <1>k, <1>1 DEF RungsOnly, Accounting, NextModeIsNew, CurrentModeWasTried,
                    AttemptsBounded
<1>4. CASE Retrieves
  <2>1. RungsOnly'
    BY <1>4, <1>2 DEF RungsOnly, Retrieves, Attempt
  <2>2. Accounting'
    <3>1. CASE route.mode \in attempted
      <4>1. widened /\ reruns = 0
        BY <1>4, <1>1, <3>1 DEF NextModeIsNew, Retrieves, Attempt
      <4>2. attempted' = attempted
        BY <1>4, <3>1 DEF Retrieves, Attempt
      <4>3. attempts' = attempts + 1 /\ reruns' = 1 /\ widened' /\ retryCount' = retryCount
            /\ pc' = "decide"
        BY <4>1, <3>1, <1>4 DEF Retrieves, Attempt
      <4>4. /\ attempts = Cardinality(attempted) + 0
            /\ retryCount <= attempts
        BY <4>1, <1>1 DEF Accounting
      <4> QED BY <4>2, <4>3, <4>4, <1>n DEF Accounting
    <3>2. CASE route.mode \notin attempted
      <4>1. Cardinality(attempted') = Cardinality(attempted) + 1
        BY <1>4, <1>2, <3>2, CountMode DEF Retrieves, Attempt
      <4> QED BY <4>1, <3>2, <1>4, <1>1, <1>n DEF Retrieves, Attempt, Accounting
    <3> QED BY <3>1, <3>2
  <2>3. NextModeIsNew' /\ CurrentModeWasTried'
    BY <1>4 DEF NextModeIsNew, CurrentModeWasTried, Retrieves, Attempt
  <2>4. AttemptsBounded'
    BY <1>4, <1>1, <1>3, <1>n DEF AttemptsBounded, LongestRun, Retrieves, Attempt
  <2> QED BY <2>1, <2>2, <2>3, <2>4
<1>5. CASE AttemptCeiling
  BY <1>5, <1>k, <1>3 DEF AttemptCeiling, FailClosed
<1>6. CASE Refuses
  <2>1. PICK r \in Reasons : FailClosed(r)
    BY <1>6 DEF Refuses
  <2> QED BY <2>1, <1>k DEF FailClosed, Reasons
<1>7. CASE Accepts
  <2>1. PICK r \in Reasons : Accept(r)
    BY <1>7 DEF Accepts
  <2> QED BY <1>7, <2>1, <1>k DEF Accepts, Accept, Reasons
<1>8. CASE Climbs
  <2>1. PICK r \in Rungs \ attempted : Escalate(r)
    BY <1>8 DEF Climbs
  <2>2. route'.mode = r
    BY <2>1, <1>1, NextRouteShape
  <2>3. RungsOnly'
    BY <2>1, <2>2, <1>2 DEF RungsOnly, Escalate
  <2>4. Accounting'
    BY <1>8, <2>1, <1>1, <1>n DEF Accounting, Escalate, Climbs
  <2>5. NextModeIsNew' /\ CurrentModeWasTried' /\ AttemptsBounded'
    BY <2>1, <2>2, <1>1 DEF NextModeIsNew, CurrentModeWasTried, AttemptsBounded, Escalate
  <2> QED BY <2>3, <2>4, <2>5
<1>9. CASE Widens
  <2>1. route'.mode = route.mode
    BY <1>9, <1>1, NextRouteShape
  <2>2. ~widened /\ widened' /\ reruns = 0
    BY <1>9, <1>1, <1>n DEF Widens, WidenBudget, CanWiden, Accounting
  <2>3. RungsOnly'
    BY <1>9, <2>1, <1>2 DEF RungsOnly, Widens, WidenBudget
  <2>4. Accounting' /\ NextModeIsNew' /\ CurrentModeWasTried' /\ AttemptsBounded'
    BY <1>9, <2>1, <2>2, <1>1
       DEF Accounting, NextModeIsNew, CurrentModeWasTried, AttemptsBounded, Widens,
           WidenBudget
  <2> QED BY <2>3, <2>4
<1>10. CASE Raises
  BY <1>10, <1>k DEF Raises
<1>11. CASE BudgetGate
  BY <1>11, <1>k DEF BudgetGate
<1>12. CASE Synthesize
  BY <1>12, <1>k DEF Synthesize
<1>13. CASE UNCHANGED vars
  BY <1>13, <1>k DEF vars
<1> QED
  BY <1>1, <1>4, <1>5, <1>6, <1>7, <1>8, <1>9, <1>10, <1>11, <1>12, <1>13, StepShape

\* What is known of the evidence in hand, and of what is remembered of it.
LEMMA TrustPreserved ==
    ASSUME LoopInvariant, [Next]_vars
    PROVE  FlagIsTrue' /\ EvidenceInHand'
<1> USE DEF loopVars
<1>1. TypeOK /\ FlagIsTrue /\ EvidenceInHand
  BY DEF LoopInvariant
<1>2. CASE Retrieves
  <2>1. remembered' = {}
    BY <1>1, <1>2 DEF FlagIsTrue, Retrieves, Attempt
  <2> QED BY <1>2, <2>1 DEF FlagIsTrue, EvidenceInHand, Retrieves, Attempt
<1>3. CASE AttemptCeiling
  BY <1>1, <1>3 DEF AttemptCeiling, FailClosed, FlagIsTrue, EvidenceInHand
<1>4. CASE Refuses
  BY <1>1, <1>4 DEF Refuses, FailClosed, FlagIsTrue, EvidenceInHand
<1>5. CASE Accepts
  BY <1>1, <1>5
     DEF Accepts, Accept, PassesFreshness, Untrusted, FlagIsTrue, EvidenceInHand
<1>6. CASE Climbs
  BY <1>1, <1>6 DEF Climbs, Escalate, FlagIsTrue, EvidenceInHand
<1>7. CASE Widens
  BY <1>1, <1>7 DEF Widens, WidenBudget, FlagIsTrue, EvidenceInHand
<1>8. CASE Raises
  BY <1>1, <1>8 DEF Raises, FlagIsTrue, EvidenceInHand
<1>9. CASE BudgetGate
  <2>1. /\ packed'.degraded <=> packed.degraded
        /\ packed.items > 0 => packed'.items > 0
    BY <1>1, <1>9, GateShape
  <2> QED BY <1>1, <1>9, <2>1 DEF BudgetGate, Untrusted, FlagIsTrue, EvidenceInHand
<1>10. CASE Synthesize
  <2>1. packed.degraded => remembered' = {}
    BY <1>10 DEF Synthesize, Stores
  <2> QED BY <1>1, <1>10, <2>1 DEF Synthesize, Untrusted, FlagIsTrue, EvidenceInHand
<1>11. CASE UNCHANGED vars
  BY <1>1, <1>11 DEF vars, Untrusted, FlagIsTrue, EvidenceInHand
<1> QED
  BY <1>1, <1>2, <1>3, <1>4, <1>5, <1>6, <1>7, <1>8, <1>9, <1>10, <1>11, StepShape

\* The freshness contract.
LEMMA FreshnessPreserved ==
    ASSUME LoopInvariant, [Next]_vars
    PROVE  FreshnessIsNeverDropped' /\ FreshEvidenceIsDated'
<1> USE DEF loopVars
<1>1. TypeOK /\ FreshnessIsNeverDropped /\ FreshEvidenceIsDated /\ CurrentModeWasTried
  BY DEF LoopInvariant
<1>2. CASE Retrieves
  BY <1>1, <1>2 DEF FreshnessIsNeverDropped, FreshEvidenceIsDated, Retrieves, Attempt
<1>3. CASE AttemptCeiling
  BY <1>1, <1>3
     DEF AttemptCeiling, FailClosed, FreshnessIsNeverDropped, FreshEvidenceIsDated
<1>4. CASE Refuses
  BY <1>1, <1>4 DEF Refuses, FailClosed, FreshnessIsNeverDropped, FreshEvidenceIsDated
<1>5. CASE Accepts
  <2>1. route.fresh => /\ "TEMPORAL" \in attempted
                       /\ deployment.strict /\ packed.items > 0 => packed.dated
    BY <1>1, <1>5
       DEF Accepts, PassesFreshness, NeedsTemporal, IsUndated, CurrentModeWasTried
  <2> QED
    BY <1>1, <1>5, <2>1
       DEF Accepts, Accept, FreshnessIsNeverDropped, FreshEvidenceIsDated
<1>6. CASE Climbs
  <2>1. PICK m \in Rungs : Escalate(m)
    BY <1>6 DEF Climbs
  <2>2. route'.fresh <=> route.fresh
    BY <1>1, <2>1, NextRouteShape
  <2> QED
    BY <1>1, <2>1, <2>2 DEF Escalate, FreshnessIsNeverDropped, FreshEvidenceIsDated
<1>7. CASE Widens
  <2>1. route'.fresh <=> route.fresh
    BY <1>1, <1>7, NextRouteShape
  <2> QED
    BY <1>1, <1>7, <2>1
       DEF Widens, WidenBudget, FreshnessIsNeverDropped, FreshEvidenceIsDated
<1>8. CASE Raises
  BY <1>1, <1>8 DEF Raises, FreshnessIsNeverDropped, FreshEvidenceIsDated
<1>9. CASE BudgetGate
  <2>1. ~request.capped => packed' = packed
    BY <1>1, <1>9, GateShape
  <2> QED
    BY <1>1, <1>9, <2>1 DEF BudgetGate, FreshnessIsNeverDropped, FreshEvidenceIsDated
<1>10. CASE Synthesize
  BY <1>1, <1>10 DEF Synthesize, FreshnessIsNeverDropped, FreshEvidenceIsDated
<1>11. CASE UNCHANGED vars
  BY <1>1, <1>11 DEF vars, FreshnessIsNeverDropped, FreshEvidenceIsDated
<1> QED
  BY <1>1, <1>2, <1>3, <1>4, <1>5, <1>6, <1>7, <1>8, <1>9, <1>10, <1>11, StepShape

\* The temporal mode and the paraphrase namespace stay apart.
LEMMA ParaphrasePreserved ==
    ASSUME LoopInvariant, [Next]_vars
    PROVE  TemporalIsFresh'
<1> USE DEF loopVars
<1>1. TypeOK /\ TemporalIsFresh /\ (remembered # {} => pc = "accepted")
  BY DEF LoopInvariant, FlagIsTrue
<1>2. CASE Retrieves
  BY <1>1, <1>2 DEF TemporalIsFresh, Retrieves, Attempt
<1>3. CASE AttemptCeiling
  BY <1>1, <1>3 DEF AttemptCeiling, FailClosed, TemporalIsFresh
<1>4. CASE Refuses
  BY <1>1, <1>4 DEF Refuses, FailClosed, TemporalIsFresh
<1>5. CASE Accepts
  BY <1>1, <1>5 DEF Accepts, Accept, TemporalIsFresh
<1>6. CASE Climbs
  <2>1. PICK m \in Rungs \ attempted : Escalate(m) /\ (m = "TEMPORAL" => route.fresh)
    BY <1>6 DEF Climbs
  <2>2. route'.mode = m /\ (route'.fresh <=> route.fresh)
    BY <1>1, <2>1, NextRouteShape
  <2>3. remembered = {}
    BY <1>1, <1>6 DEF Climbs
  <2> QED BY <1>1, <2>1, <2>2, <2>3 DEF Escalate, TemporalIsFresh
<1>7. CASE Widens
  <2>1. route'.mode = route.mode /\ (route'.fresh <=> route.fresh)
    BY <1>1, <1>7, NextRouteShape
  <2> QED BY <1>1, <1>7, <2>1 DEF Widens, WidenBudget, TemporalIsFresh
<1>8. CASE Raises
  BY <1>1, <1>8 DEF Raises, TemporalIsFresh
<1>9. CASE BudgetGate
  BY <1>1, <1>9 DEF BudgetGate, TemporalIsFresh
<1>10. CASE Synthesize
  <2>1. "paraphrase" \in Stores => ~route.fresh
    BY DEF Stores
  <2> QED BY <1>1, <1>10, <2>1 DEF Synthesize, TemporalIsFresh
<1>11. CASE UNCHANGED vars
  BY <1>1, <1>11 DEF vars, TemporalIsFresh
<1> QED
  BY <1>1, <1>2, <1>3, <1>4, <1>5, <1>6, <1>7, <1>8, <1>9, <1>10, <1>11, StepShape

-----------------------------------------------------------------------------
(***************************************************************************)
(* The theorems.                                                           *)
(***************************************************************************)

\* A production router marks every temporal route as a freshness route.
LEMMA TemporalRoutesAreFresh ==
    ASSUME NEW req \in QueryRequest, NEW router \in {"rules", "learned"},
           NEW r \in RoutesOf(router, req, LearnedBudgets), r.mode = "TEMPORAL"
    PROVE  r.fresh
<1>1. CASE r \in RuleRoutes(req)
  <2>1. PICK m : r = [mode |-> m, budget |-> RuleBudget[m],
                      fresh |-> req.fresh \/ m = "TEMPORAL"]
    BY <1>1 DEF RuleRoutes
  <2> QED BY <2>1
<1>2. CASE r \in {[mode |-> m, budget |-> b, fresh |-> m = "TEMPORAL"] :
                      m \in SearchMode, b \in LearnedBudgets}
  <2>1. PICK m, b : r = [mode |-> m, budget |-> b, fresh |-> m = "TEMPORAL"]
    BY <1>2
  <2> QED BY <2>1
<1> QED BY <1>1, <1>2 DEF RoutesOf, LearnedRoutes

\* Every router marks the route of a freshness request as one.
LEMMA RoutesKeepFreshness ==
    ASSUME NEW req \in QueryRequest, NEW router,
           NEW r \in RoutesOf(router, req, LearnedBudgets), req.fresh
    PROVE  r.fresh
<1>1. CASE r \in RuleRoutes(req)
  <2>1. PICK m \in {"TEMPORAL", "CYPHER"} :
            r = [mode |-> m, budget |-> RuleBudget[m],
                 fresh |-> req.fresh \/ m = "TEMPORAL"]
    BY <1>1 DEF RuleRoutes
  <2> QED BY <2>1
<1>2. CASE r \in LearnedRoutes(req, LearnedBudgets)
  BY <1>1, <1>2 DEF LearnedRoutes
<1>3. CASE r \in ForcedRoutes(req)
  BY <1>3 DEF ForcedRoutes
<1> QED BY <1>1, <1>2, <1>3 DEF RoutesOf

\* The invariant holds as the loop is entered.
LEMMA InitInvariant ==
    ASSUME Init
    PROVE  LoopInvariant
<1>1. route \in RoutesOf(deployment.router, request, LearnedBudgets)
  BY DEF Init
<1>2. request \in QueryRequest
  BY DEF Init
<1>3. route \in RouteDecision /\ (request.fresh => route.fresh)
  BY <1>1, <1>2, RoutesAreTyped, RoutesKeepFreshness
<1>4. Cardinality(attempted) = 0
  BY FS_EmptySet DEF Init
<1>5. packed \in PackedEvidence
  <2>1. packed = EmptyPack(FALSE)
    BY DEF Init
  <2> QED BY <2>1, ControllerAssumption
             DEF EmptyPack, PackedEvidence, DegradedKind, ControllerAssumption
<1>6. TypeOK
  <2>0. deployment \in Deployments /\ deployment.attempts \in Nat
    BY LoopAssumption DEF Init, LoopAssumption, Deployment
  <2>1. 0 \in 0..deployment.attempts
    BY <2>0
  <2>2. /\ attempts \in 0..deployment.attempts /\ retryCount \in 0..deployment.attempts
        /\ reruns \in 0..deployment.attempts
    BY <2>1 DEF Init
  <2>3. /\ attempted \subseteq SearchMode /\ raw \subseteq SearchOutcome
        /\ remembered \subseteq {"exact", "paraphrase", "graph"}
        /\ widened \in BOOLEAN /\ decomposed \in BOOLEAN /\ late \in BOOLEAN
    BY DEF Init
  <2>4. /\ pc \in {"retrieve", "decide", "budget", "synthesize"} \cup Terminal
        /\ stop \in StopReason \cup {"none"}
    BY DEF Init
  <2> QED BY <1>2, <1>3, <1>5, <2>0, <2>2, <2>3, <2>4 DEF TypeOK
<1>7. RungsOnly
  BY <1>3 DEF Init, RungsOnly, RouteDecision
<1>8. Accounting
  BY <1>4 DEF Init, Accounting
<1>9. /\ NextModeIsNew /\ CurrentModeWasTried /\ FlagIsTrue /\ EvidenceInHand
      /\ AttemptsBounded /\ FreshnessIsNeverDropped /\ FreshEvidenceIsDated
  BY <1>3
     DEF Init, NextModeIsNew, CurrentModeWasTried, FlagIsTrue, EvidenceInHand,
         AttemptsBounded, LongestRun, FreshnessIsNeverDropped, FreshEvidenceIsDated
<1>10. TemporalIsFresh
  <2>1. deployment.router # "forced" => deployment.router \in {"rules", "learned"}
    BY LoopAssumption DEF Init, LoopAssumption, Deployment
  <2>2. deployment.router # "forced" /\ route.mode = "TEMPORAL" => route.fresh
    BY <1>1, <1>2, <2>1, TemporalRoutesAreFresh
  <2> QED BY <2>2 DEF Init, TemporalIsFresh
<1> QED BY <1>6, <1>7, <1>8, <1>9, <1>10 DEF LoopInvariant

\* The inductive invariant of the loop: for every retry allowance, evidence
\* budget, set of routers, check-error policy and sufficiency gate.
THEOREM LoopInvariantHolds == Spec => []LoopInvariant
<1>1. Init => LoopInvariant
  BY InitInvariant
<1>2. LoopInvariant /\ [Next]_vars => LoopInvariant'
  <2> SUFFICES ASSUME LoopInvariant, [Next]_vars
               PROVE  LoopInvariant'
    OBVIOUS
  <2> QED BY TypePreserved, ModesPreserved, TrustPreserved, FreshnessPreserved,
             ParaphrasePreserved
          DEF LoopInvariant
<1> QED BY <1>1, <1>2, PTL DEF Spec

\* The loop's variables, counters included, keep their types.
THEOREM TypeCorrect == Spec => []TypeOK
<1>1. LoopInvariant => TypeOK
  BY DEF LoopInvariant
<1> QED BY <1>1, LoopInvariantHolds, PTL

\* Five retrievals end every request, whatever max_retries is set to: the
\* escalation ladder and the set of attempted modes bound the loop, and
\* MAX_ATTEMPTS, at 6, never decides an outcome.
THEOREM AttemptsAreBounded == Spec => []AttemptsBounded
<1>1. LoopInvariant => AttemptsBounded
  BY DEF LoopInvariant
<1> QED BY <1>1, LoopInvariantHolds, PTL

\* No mode is retrieved from twice, but for the one widened repeat.
THEOREM NoModeIsRepeated == Spec => []ModesNotRepeated
<1>1. LoopInvariant => ModesNotRepeated
  BY DEF LoopInvariant, Accounting, ModesNotRepeated
<1> QED BY <1>1, LoopInvariantHolds, PTL

\* No answer rests on placeholders alone unless the deployment allows it.
THEOREM AnswersAreGrounded == Spec => []AnswersRestOnLiveEvidence
<1>1. LoopInvariant => AnswersRestOnLiveEvidence
  <2> SUFFICES ASSUME LoopInvariant, pc = "accepted", ~deployment.stub
               PROVE  "live" \in raw /\ ~packed.degraded
    BY DEF AnswersRestOnLiveEvidence
  <2>1. ~packed.degraded
    BY DEF LoopInvariant, FlagIsTrue, Untrusted
  <2> QED BY <2>1 DEF LoopInvariant, FlagIsTrue
<1> QED BY <1>1, LoopInvariantHolds, PTL

\* No answer is made from an empty pack, save under the fail-open policy.
THEOREM AnswersAreNotEmpty == Spec => []AnswersHaveEvidence
<1>1. LoopInvariant => AnswersHaveEvidence
  BY DEF LoopInvariant, EvidenceInHand, AnswersHaveEvidence
<1> QED BY <1>1, LoopInvariantHolds, PTL

\* The caller's freshness contract survives every change of route.
THEOREM FreshnessSurvives == Spec => []FreshnessIsNeverDropped
<1>1. LoopInvariant => FreshnessIsNeverDropped
  BY DEF LoopInvariant
<1> QED BY <1>1, LoopInvariantHolds, PTL

\* A freshness route is answered only after TEMPORAL was tried, from evidence
\* that carries a date, unless a cost ceiling re-packed it.
THEOREM FreshAnswersWereValidated == Spec => []FreshEvidenceIsDated
<1>1. LoopInvariant => FreshEvidenceIsDated
  BY DEF LoopInvariant
<1> QED BY <1>1, LoopInvariantHolds, PTL

\* Outside the evals no answer that TEMPORAL had a part in is kept as a
\* paraphrase.
THEOREM TemporalIsNotParaphrased == Spec => []TemporalAnswersAreNotParaphrased
<1>1. LoopInvariant => TemporalAnswersAreNotParaphrased
  BY DEF LoopInvariant, TemporalIsFresh, TemporalAnswersAreNotParaphrased
<1> QED BY <1>1, LoopInvariantHolds, PTL

\* Fabricated evidence is remembered nowhere, even when it may be answered
\* from.
THEOREM OnlyLiveIsRemembered == Spec => []OnlyLiveEvidenceIsRemembered
<1>1. LoopInvariant => OnlyLiveEvidenceIsRemembered
  BY DEF LoopInvariant, FlagIsTrue, OnlyLiveEvidenceIsRemembered
<1> QED BY <1>1, LoopInvariantHolds, PTL

-----------------------------------------------------------------------------
(***************************************************************************)
(* The loop implements the contract its callers rely on.                   *)
(***************************************************************************)

\* Every step of the loop is a step of the contract or leaves it alone.
LEMMA StepKeepsContract ==
    ASSUME LoopInvariant, [Next]_vars
    PROVE  [Contract!Next]_(Contract!vars)
<1> USE DEF loopVars, Terminal, FailsOpen
<1>1. TypeOK /\ EvidenceInHand /\ FlagIsTrue
  BY DEF LoopInvariant
<1>2. CASE Retrieves
  <2>1. attempts < LongestRun
    BY <1>2, RoomForAttempt DEF LoopInvariant, Retrieves, Attempt
  <2> QED BY <1>2, <2>1 DEF Retrieves, Attempt, Fit, Contract!Next, Contract!Retrieve
<1>3. CASE AttemptCeiling
  BY <1>3 DEF AttemptCeiling, FailClosed, Fit, Contract!Next, Contract!Refuse
<1>4. CASE Refuses
  BY <1>4 DEF Refuses, FailClosed, Fit, Contract!Next, Contract!Refuse
<1>5. CASE Accepts
  BY <1>5 DEF Accepts, Accept, Fit, Contract!vars
<1>6. CASE Climbs
  BY <1>6 DEF Climbs, Escalate, Fit, Contract!vars
<1>7. CASE Widens
  BY <1>7 DEF Widens, WidenBudget, Fit, Contract!vars
<1>8. CASE Raises
  BY <1>8 DEF Raises, Fit, Contract!Next, Contract!Refuse
<1>9. CASE BudgetGate
  <2>1. ~FailsOpen => packed.items > 0 /\ packed'.items > 0
    BY <1>1, <1>9, GateShape DEF BudgetGate, EvidenceInHand
  <2> QED BY <1>9, <2>1 DEF BudgetGate, Fit, Contract!vars
<1>10. CASE Synthesize
  <2>1. ASSUME ~FailsOpen PROVE Fit
    BY <1>1, <1>10, <2>1 DEF Synthesize, EvidenceInHand, FlagIsTrue, Untrusted, Fit
  <2>2. ASSUME FailsOpen PROVE Fit
    <3>1. route.mode \in attempted /\ attempts = Cardinality(attempted) + reruns
          /\ reruns \in Nat
      BY <1>1, <1>10, CeilingIsNat
         DEF LoopInvariant, CurrentModeWasTried, Accounting, Synthesize, TypeOK
    <3>2. IsFiniteSet(attempted)
      BY FourModes DEF LoopInvariant, RungsOnly
    <3>3. Cardinality(attempted) \in Nat /\ Cardinality(attempted) # 0
      BY <3>1, <3>2, FS_CardinalityType, FS_EmptySet
    <3>4. attempts > 0
      BY <3>1, <3>3
    <3> QED BY <2>2, <3>4 DEF Fit
  <2>3. Fit
    BY <2>1, <2>2
  <2> QED BY <1>10, <2>3 DEF Synthesize, Fit, Contract!Next, Contract!Answer
<1>11. CASE UNCHANGED vars
  BY <1>11 DEF vars, Fit, Contract!vars
<1> QED
  BY <1>1, <1>2, <1>3, <1>4, <1>5, <1>6, <1>7, <1>8, <1>9, <1>10, <1>11, StepShape

\* The loop spends at most LongestRun retrievals and answers only from fit
\* evidence: the safety part of KeepsContract.
THEOREM LoopKeepsContract == Spec => Contract!Safety
<1>1. Init => Contract!Init
  <2> SUFFICES ASSUME Init PROVE Contract!Init
    OBVIOUS
  <2>1. ~(packed.items > 0) /\ ~(attempts > 0)
    BY DEF Init, EmptyPack
  <2>2. Fit = FALSE
    BY <2>1 DEF Fit
  <2>3. pc \notin Terminal /\ attempts = 0
    BY DEF Init, Terminal
  <2> QED BY <2>2, <2>3 DEF Contract!Init
<1>2. LoopInvariant /\ [Next]_vars => [Contract!Next]_(Contract!vars)
  BY StepKeepsContract
<1> QED BY <1>1, <1>2, LoopInvariantHolds, PTL DEF Spec, Contract!Safety

=============================================================================

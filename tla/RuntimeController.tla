-------------------------- MODULE RuntimeController --------------------------
(***************************************************************************)
(* The bounded, progressive fallback policy of                             *)
(* src/app/services/runtime_controller.py, as operators: the escalation    *)
(* ladder, the data the controller looks at, and one predicate per check   *)
(* of RuntimeController._decide, each of them including that the checks    *)
(* before it in the method let the evidence through.  The module that runs *)
(* the loop (QueryLoop) has one action per branch.                         *)
(*                                                                         *)
(* In this and the other modules a definition named Faulty... is never     *)
(* used by a specification: it is the definition after it with a plausible *)
(* bug, kept to show which property the bug breaks.                        *)
(*                                                                         *)
(* Packed evidence is abstracted to what the checks tell apart: whether it *)
(* is degraded and why, how many items it has, whether its tokens reach    *)
(* the thinness floor, whether an item carries a date, and whether its     *)
(* tokens exceed what the caller's cost ceiling affords.                   *)
(***************************************************************************)
EXTENDS Routes

CONSTANTS
    MaxRetries,        \* settings.max_retries
    MaxEvidenceItems,  \* settings.max_evidence_items
    MaxItems           \* bound: packs of more items are not told apart

ASSUME ControllerAssumption ==
    /\ MaxRetries \in Nat
    /\ MaxEvidenceItems \in Nat
    /\ MaxItems \in Nat

VARIABLE
    deployment         \* what the process was started with; it never changes

CheckErrorPolicy == {"throw", "deny", "proceed"}

\* The settings and collaborators that decide what a request may do.
Deployment ==
    [stub : BOOLEAN,               \* settings.allow_stub_evidence
     strict : BOOLEAN,             \* settings.strict_freshness
     onError : CheckErrorPolicy,   \* on_check_error
     router : {"rules", "learned", "forced"},
     attempts : Nat,               \* MAX_ATTEMPTS
     decomposer : BOOLEAN,         \* is a sub-query decomposer configured
     graph : BOOLEAN]              \* is the resident graph enabled

NoMode == "none"

\* The broader successor of a mode; NoMode at the end of the ladder.
EscalationLadder(mode) ==
    IF mode = "GRAPH_SUMMARY_COMPLETION" THEN NoMode
    ELSE IF mode = "GRAPH_COMPLETION" THEN "GRAPH_SUMMARY_COMPLETION"
    ELSE "GRAPH_COMPLETION"

DegradedKind == {"capability", "failure", "none"}

SufficiencyVerdict == {"sufficient", "uncertain", "insufficient", "refuted"}

StopReason ==
    {"sufficient_evidence", "thin_evidence_accepted", "degraded_retrieval",
     "freshness_unverifiable", "limit_latency", "evidence_conflict",
     "max_retries", "ladder_exhausted", "attempt_ceiling",
     "synthesis_failed", "check_error"}

RouteDecision == [mode : SearchMode, budget : Nat, fresh : BOOLEAN]

PackedEvidence ==
    [degraded : BOOLEAN, kind : DegradedKind, items : 0..MaxItems,
     big : BOOLEAN, dated : BOOLEAN, costly : BOOLEAN]

\* What the packer can make of a live retrieval.
LiveEvidence ==
    {p \in PackedEvidence :
        /\ ~p.degraded /\ p.kind = "none"
        /\ p.items = 0 => ~p.big /\ ~p.dated /\ ~p.costly}

\* Re-packing the same result against a smaller token budget, without the
\* evidentiality order: the first item is always kept, and only a single
\* item can exceed the budget.  A placeholder has only its one item.
Repacked(p) ==
    IF p.degraded THEN {p}
    ELSE {q \in LiveEvidence : q.items > 0 /\ (q.costly => q.items = 1)}

-----------------------------------------------------------------------------
(***************************************************************************)
(* The checks, in the order of the method.                                 *)
(***************************************************************************)

\* Check 1: degraded evidence is never answered from.
Untrusted(packed) == packed.degraded /\ ~deployment.stub

FaultyCanEscalateOffTheEnd(route, attempted) ==
    EscalationLadder(route.mode) \notin attempted

FaultyCanEscalateAgain(route, attempted) ==
    EscalationLadder(route.mode) # NoMode

CanEscalate(route, attempted) ==
    EscalationLadder(route.mode) \notin attempted \cup {NoMode}

IsCapabilityGap(route, packed, attempted) ==
    /\ Untrusted(packed)
    /\ packed.kind = "capability"
    /\ CanEscalate(route, attempted)

FaultyNeedsTemporalByMode(route, packed, attempted) ==
    ~Untrusted(packed) /\ route.fresh /\ route.mode # "TEMPORAL"

\* Check 2a: a freshness route must have tried the temporal mode.
NeedsTemporal(route, packed, attempted) ==
    /\ ~Untrusted(packed)
    /\ route.fresh
    /\ "TEMPORAL" \notin attempted \cup {route.mode}

FaultyIsUndatedByMode(route, packed, attempted) ==
    /\ ~Untrusted(packed) /\ route.fresh /\ route.mode = "TEMPORAL"
    /\ deployment.strict /\ packed.items > 0 /\ ~packed.dated

\* Check 2b: it has been tried, and nothing that came back carries a date.
IsUndated(route, packed, attempted) ==
    /\ ~Untrusted(packed)
    /\ route.fresh
    /\ "TEMPORAL" \in attempted \cup {route.mode}
    /\ deployment.strict
    /\ packed.items > 0
    /\ ~packed.dated

PassesFreshness(route, packed, attempted) ==
    /\ ~Untrusted(packed)
    /\ ~NeedsTemporal(route, packed, attempted)
    /\ ~IsUndated(route, packed, attempted)

\* Checks 1 to 3 passed: the sufficiency gate is asked next.
ReachesGate(route, packed, attempted, late) ==
    PassesFreshness(route, packed, attempted) /\ ~late

\* ceil(budget * MIN_EVIDENCE_RATIO), at least 1.
Threshold(budget) == IF budget = 0 THEN 1 ELSE (budget + 3) \div 4

IsThin(route, packed, verdict) ==
    /\ packed.items < Threshold(route.budget)
    /\ ~packed.big
    /\ verdict # "sufficient"

\* Check 5: the shortfall that starts widen -> escalate -> stop.
IsShort(route, packed, verdict) ==
    \/ packed.items = 0
    \/ IsThin(route, packed, verdict)
    \/ verdict = "insufficient"

CanWiden(route, widened) == route.budget < MaxEvidenceItems /\ ~widened

-----------------------------------------------------------------------------
(***************************************************************************)
(* The routes a decision hands back to the loop.                           *)
(***************************************************************************)

Widen(route) == [route EXCEPT !.budget = MaxEvidenceItems]

FaultyEscalateToForgets(mode, route) ==
    [mode |-> mode, budget |-> 8, fresh |-> mode = "TEMPORAL"]

EscalateTo(mode, route) ==
    [mode |-> mode,
     budget |-> IF route.budget > 8 THEN route.budget ELSE 8,
     fresh |-> route.fresh]
=============================================================================

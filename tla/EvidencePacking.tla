--------------------------- MODULE EvidencePacking ---------------------------
(***************************************************************************)
(* From a retrieval to a verdict: EvidencePacker.pack                      *)
(* (src/app/services/evidence.py) and SufficiencyGate.check                *)
(* (src/app/services/sufficiency.py), through the rounds of one request    *)
(* and the requests of one process: retrieve and pack, judge, widen once,  *)
(* trim to a cost ceiling.  The items of a retrieval are named by what     *)
(* their fingerprint tells apart.                                          *)
(***************************************************************************)
EXTENDS Lists, SequencesExt

CONSTANTS
    Text,              \* distinct items, after trimming and folding case
    Blank,             \* an item of white space only
    Cost,              \* estimate_tokens of each text
    Keyword,           \* positions of the query's keywords
    Covers,            \* keywords whose stem the gate finds in a text
    Matches,           \* those the packer finds: not beside punctuation
    Dated,             \* texts with a date-like token
    Retrievals,        \* what the substrate can return, in rank order
    Budgets,           \* evidence budgets of the routes
    MaxEvidenceItems,  \* settings.max_evidence_items
    ThinBelow,         \* items below which a pack is thin
    TokenFloor,        \* tokens below which it is
    TokenBudget,       \* settings.evidence_token_budget
    Affordable,        \* tokens the callers' cost ceilings buy
    MaxItems           \* bound of the query loop: larger packs are alike to it

ASSUME PackingAssumption ==
    /\ Blank \notin Text
    /\ IsFiniteSet(Keyword)
    /\ Cost \in [Text -> Nat \ {0}]
    /\ Covers \in [Text -> SUBSET Keyword]
    /\ Matches \in [Text -> SUBSET Keyword]
    /\ \A t \in Text : Matches[t] \subseteq Covers[t]
    /\ Dated \subseteq Text
    /\ Retrievals \subseteq Seq(Text \cup {Blank})
    /\ Budgets \subseteq Nat /\ Affordable \subseteq Nat
    /\ {MaxEvidenceItems, ThinBelow, TokenFloor} \subseteq Nat
    /\ {TokenBudget, MaxItems} \subseteq Nat \ {0}

VARIABLES
    phase,     \* idle, packed, judged or trimmed
    raw,       \* the evidence of the last retrieval
    budget,    \* the route's evidence budget
    packed,    \* the pack made of it
    verdict,   \* the gate's verdict on the pack
    widened,   \* the budget has been widened for this request
    scorer,    \* the Tier 1 scorer of the process
    before     \* history: what the last widening or trimming replaced

vars == <<phase, raw, budget, packed, verdict, widened, scorer, before>>

-----------------------------------------------------------------------------
(***************************************************************************)
(* Packing.                                                                *)
(***************************************************************************)

Texts(evidence) == Keep(evidence, Text)

\* The first occurrence of each text, in rank order.
Deduped(evidence) ==
    LET seq == Texts(evidence)
        first[i \in 0..Len(seq)] ==
            IF i = 0 THEN <<>>
            ELSE IF seq[i] \in ToSet(first[i-1]) THEN first[i-1]
            ELSE Append(first[i-1], seq[i])
    IN  first[Len(seq)]

\* _evidentiality, in keywords.  The packer splits a text at white space where
\* the gate normalizes it first, so punctuation hides a keyword from it.
Evidentiality(t) == Cardinality(Matches[t])

FaultyByEvidentiality(seq) == seq

\* Most evidential first; the sort is stable, so rank breaks the ties.
ByEvidentiality(seq) ==
    LET all == Cardinality(Keyword)
        level(n) == Keep(seq, {t \in Text : Evidentiality(t) = all - n})
        sorted[n \in 0..all] ==
            IF n = 0 THEN level(0) ELSE sorted[n-1] \o level(n)
    IN  sorted[all]

EmptyPack(maxTokens) ==
    [items |-> <<>>, tokens |-> 0, over |-> 0, best |-> 0, limit |-> maxTokens]

Nothing == EmptyPack(TokenBudget)

FaultyFits(pack, t, maxItems) ==
    /\ Len(pack.items) < maxItems
    /\ pack.items = <<>> \/ pack.tokens < pack.limit

\* The first item is kept whatever it costs.
Fits(pack, t, maxItems) ==
    /\ Len(pack.items) < maxItems
    /\ pack.items = <<>> \/ pack.tokens + Cost[t] <= pack.limit

FaultyDropped(pack, t) == pack

\* A text withheld is counted, and its evidentiality noted if it is the best.
Dropped(pack, t) ==
    [pack EXCEPT !.over = @ + 1,
                 !.best = IF Evidentiality(t) > @ THEN Evidentiality(t) ELSE @]

Offered(pack, t, maxItems) ==
    IF Fits(pack, t, maxItems)
    THEN [pack EXCEPT !.items = Append(@, t), !.tokens = @ + Cost[t]]
    ELSE Dropped(pack, t)

\* Fill against both budgets; an item that does not fit is skipped.
Fill(seq, maxItems, maxTokens) ==
    LET filled[i \in 0..Len(seq)] ==
            IF i = 0 THEN EmptyPack(maxTokens)
            ELSE Offered(filled[i-1], seq[i], maxItems)
    IN  filled[Len(seq)]

Pack(evidence, maxItems) ==
    Fill(ByEvidentiality(Deduped(evidence)), maxItems, TokenBudget)

\* The pack under a cost ceiling is made without the query's keywords, so in
\* rank order and with no note of what was withheld.
Trimmed(evidence, maxItems, affordable) ==
    [Fill(Deduped(evidence), maxItems, IF affordable = 0 THEN 1 ELSE affordable)
        EXCEPT !.best = 0]

-----------------------------------------------------------------------------
(***************************************************************************)
(* The gate.                                                               *)
(***************************************************************************)

Covered(items) == UNION {Covers[t] : t \in ToSet(items)}

Supporting(items) == {t \in ToSet(items) : Covers[t] # {}}

IsCovered(items) == 2 * Cardinality(Covered(items)) >= Cardinality(Keyword)

IsSupported(items) == 100 * Cardinality(Supporting(items)) >= 34 * Len(items)

FaultyIsOffTopic(items) == \E t \in ToSet(items) : Covers[t] = {}

\* Coverage below half of min_coverage: the set is about something else.
IsOffTopic(items) == 4 * Cardinality(Covered(items)) < Cardinality(Keyword)

\* Tier 0, over the set as a whole; "tier1" when it cannot tell.
Tier0(items) ==
    IF items = <<>> THEN "insufficient"
    ELSE IF Keyword = {} THEN "uncertain"
    ELSE IF IsCovered(items) /\ IsSupported(items) THEN "sufficient"
    ELSE IF IsOffTopic(items) THEN "insufficient"
    ELSE "tier1"

-----------------------------------------------------------------------------

Init ==
    /\ phase = "idle"
    /\ raw = <<>>
    /\ budget = 0
    /\ packed = Nothing
    /\ verdict = "none"
    /\ widened = FALSE
    /\ scorer \in {"absent", "ready"}
    /\ before = Nothing

Retrieve ==
    /\ phase = "idle"
    /\ phase' = "packed"
    /\ raw' \in Retrievals
    /\ budget' \in Budgets
    /\ packed' = Pack(raw', budget')
    /\ UNCHANGED <<verdict, widened, scorer, before>>

\* The scorer is asked only where Tier 0 cannot tell.  One that raised is
\* never asked again; it and one that returns nothing leave the verdict open.
Judge ==
    /\ phase = "packed"
    /\ phase' = "judged"
    /\ IF Tier0(packed.items) # "tier1"
       THEN verdict' = Tier0(packed.items) /\ UNCHANGED scorer
       ELSE \/ /\ scorer = "ready"
               /\ verdict' \in {"sufficient", "uncertain", "insufficient"}
               /\ UNCHANGED scorer
            \/ /\ scorer = "ready"
               /\ verdict' = "uncertain"
               /\ scorer' = "failed"
            \/ /\ scorer # "ready"
               /\ verdict' = "uncertain"
               /\ UNCHANGED scorer
    /\ UNCHANGED <<raw, budget, packed, widened, before>>

\* The pack falls short: the controller's reason to widen.
IsShort ==
    \/ verdict = "insufficient"
    \/ /\ verdict = "uncertain"
       /\ Len(packed.items) < ThinBelow
       /\ packed.tokens < TokenFloor

\* The widened search asks for more items.  The substrate ranks as it did, so
\* what it returned before comes first.
Widen ==
    /\ phase = "judged"
    /\ IsShort
    /\ ~widened
    /\ budget < MaxEvidenceItems
    /\ phase' = "packed"
    /\ budget' = MaxEvidenceItems
    /\ raw' \in {r \in Retrievals : IsPrefix(raw, r)}
    /\ packed' = Pack(raw', MaxEvidenceItems)
    /\ widened' = TRUE
    /\ before' = packed
    /\ UNCHANGED <<verdict, scorer>>

\* An accepted pack that costs more than the caller's ceiling is made again.
Trim ==
    /\ phase = "judged"
    /\ packed.items # <<>>
    /\ \E affordable \in Affordable :
          /\ packed.tokens > affordable
          /\ packed' = Trimmed(raw, budget, affordable)
          /\ phase' = "trimmed"
    /\ before' = packed
    /\ UNCHANGED <<raw, budget, verdict, widened, scorer>>

\* The request ends; the process and its scorer go on.
End ==
    /\ phase \in {"judged", "trimmed"}
    /\ phase' = "idle"
    /\ raw' = <<>> /\ budget' = 0 /\ packed' = Nothing /\ verdict' = "none"
    /\ widened' = FALSE /\ before' = Nothing
    /\ UNCHANGED scorer

Next == Retrieve \/ Judge \/ Widen \/ Trim \/ End

Spec == Init /\ [][Next]_vars

-----------------------------------------------------------------------------
(***************************************************************************)
(* What the query loop takes a pack for.                                   *)
(***************************************************************************)

\* What a pack can be depends on none of the controller's settings.
Control ==
    INSTANCE RuntimeController WITH
        MaxRetries <- 0, deployment <- [stub |-> FALSE, strict |-> TRUE]

\* What the controller tells apart of a pack, given a ceiling on its tokens.  An
\* empty pack is short before its tokens are looked at.
Abstract(pack, ceiling) ==
    [degraded |-> FALSE, kind |-> "none",
     items |-> Min({Len(pack.items), MaxItems}),
     big |-> pack.items # <<>> /\ pack.tokens >= TokenFloor,
     dated |-> ToSet(pack.items) \cap Dated # {},
     costly |-> pack.tokens > ceiling]

-----------------------------------------------------------------------------
(***************************************************************************)
(* Properties.                                                             *)
(***************************************************************************)

\* What a set of texts costs: its tokens, one by one.
TokensOf(texts) == Total(texts, Cost)

Withheld == ToSet(Texts(raw)) \ ToSet(packed.items)

\* Each text of the retrieval is packed once or counted as withheld, in every
\* pack of a request, so the note to the synthesizer is true.
NothingIsLost ==
    /\ IsInjective(packed.items)
    /\ ToSet(packed.items) \subseteq ToSet(Texts(raw))
    /\ packed.over = Cardinality(Withheld)

\* A pack keeps to the route's budget and to the token budget it was made for;
\* only a single item may be larger.
WithinBudgets ==
    /\ Len(packed.items) <= budget
    /\ packed.tokens = TokensOf(ToSet(packed.items))
    /\ packed.tokens > packed.limit => Len(packed.items) = 1

\* Where the budgets bite, the cut falls on the least evidential texts: one is
\* withheld in favour of a less evidential one only if it does not fit beside
\* those at least as evidential.  The controller is told the best one lost.
CutsLeastEvidential ==
    phase \in {"packed", "judged"} =>
        /\ \A lost \in Withheld, kept \in ToSet(packed.items) :
              Evidentiality(kept) < Evidentiality(lost) =>
                  TokensOf({t \in ToSet(packed.items) :
                               Evidentiality(t) >= Evidentiality(lost)})
                      + Cost[lost] > TokenBudget
        /\ packed.best = Max({0} \cup {Evidentiality(t) : t \in Withheld})

\* A widening that leaves nothing withheld gives up nothing that was packed,
\* and a set that was on topic stays so: the controller is not sent up the
\* ladder by evidence it asked for.
WideningKeepsEvidence ==
    phase = "packed" /\ widened /\ packed.over = 0 =>
        /\ ToSet(before.items) \subseteq ToSet(packed.items)
        /\ verdict = "uncertain" => Tier0(packed.items) # "insufficient"

\* Every pack, and every pack made anew under a cost ceiling, is one the query
\* loop was checked with; an empty one is judged insufficient, as it assumes.
PacksFitTheLoop ==
    /\ Abstract(packed, packed.limit) \in Control!LiveEvidence
    /\ phase = "trimmed" =>
          Abstract(packed, packed.limit)
              \in Control!Repacked(Abstract(before, packed.limit))
    /\ phase = "judged" /\ packed.items = <<>> => verdict = "insufficient"
=============================================================================

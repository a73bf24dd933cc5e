-------------------------------- MODULE Router --------------------------------
(***************************************************************************)
(* How a route is decided: the scored rules of src/app/services/router.py, *)
(* the NodeSet scope of src/app/services/scoping.py and the learned second *)
(* stage of src/app/integrations/dspy_program.py.  Each is a pure function *)
(* of the request, so this module has operators only; RouterWorkflow runs  *)
(* them, and Routes is what the query loop assumes of them.                *)
(*                                                                         *)
(* A query is abstracted to which signals its normalized text matches, and *)
(* which of the matches are negated (only the first match of a signal, and *)
(* the 24 characters before it, are looked at), whether its raw text is    *)
(* Cypher, and its stemmed words.  Weights and scores are in halves.       *)
(***************************************************************************)
EXTENDS Routes, Lists, FiniteSetsExt

CONSTANTS
    Word,      \* bound: stemmed words of queries and aliases
    NodeSet,   \* NodeSet names in the index file, and those callers may send
    NameWords, \* the stemmed words of a NodeSet's name
    IndexFile, \* the index: the aliases listed for a name, as sets of words
    StopWords  \* the words that paraphrase_form leaves out

ASSUME RouterAssumption ==
    /\ NameWords \in [NodeSet -> SUBSET Word]
    /\ DOMAIN IndexFile \subseteq NodeSet
    /\ \A n \in DOMAIN IndexFile : IndexFile[n] \subseteq SUBSET Word

-----------------------------------------------------------------------------
(***************************************************************************)
(* The rules.                                                              *)
(***************************************************************************)

\* RULES: the signals of each mode, with their weights.
Rules ==
    [TEMPORAL |->
        [deictic |-> 4, recency |-> 4, window |-> 4, change |-> 2, status |-> 1],
     NATURAL_LANGUAGE |-> [explicit |-> 6, match |-> 6, topology |-> 4, count |-> 3],
     CYPHER |-> [cypher_syntax |-> 6],
     GRAPH_COMPLETION |-> [direction |-> 6, impact |-> 4, chain |-> 4, conditional |-> 4],
     TRIPLET_COMPLETION |-> [noun |-> 6, verb |-> 4, between |-> 3, owner |-> 3],
     GRAPH_SUMMARY_COMPLETION |->
        [explicit |-> 6, themes |-> 5, organisation |-> 6, explain |-> 4]]

Ruled == DOMAIN Rules

Signal == UNION {{<<m, s>> : s \in DOMAIN Rules[m]} : m \in Ruled}

Weight == [s \in Signal |-> Rules[s[1]][s[2]]]

\* COST_RANK, cheapest first; of two modes that cost the same, the one whose
\* rule comes first is the one max() returns.
CheapestFirst ==
    <<"CHUNKS", "RAG_COMPLETION", "TRIPLET_COMPLETION", "GRAPH_COMPLETION",
      "GRAPH_SUMMARY_COMPLETION", "NATURAL_LANGUAGE", "CYPHER", "TEMPORAL">>

CostRank(mode) == CHOOSE i \in DOMAIN CheapestFirst : CheapestFirst[i] = mode

MinScore == 4

ConfidenceMargin == 2

\* A request: the text of its query, and the caller's contract.
Request ==
    [said : SUBSET Signal, negated : SUBSET Signal, cypher : BOOLEAN,
     words : SUBSET Word, fresh : BOOLEAN, scope : SUBSET NodeSet]

Fired(req, mode) == {s \in req.said \ req.negated : s[1] = mode}

FaultyScore(req, mode) ==
    Total(Fired(req, mode), Weight) \div Cardinality(Fired(req, mode))

Score(req, mode) == Total(Fired(req, mode), Weight)

Scored(req) == {m \in Ruled : Fired(req, m) # {}}

Eligible(req) == {m \in Scored(req) : Score(req, m) >= MinScore}

\* Ties break toward the cheaper mode.
Beats(req, m, n) ==
    \/ Score(req, m) > Score(req, n)
    \/ Score(req, m) = Score(req, n) /\ CostRank(m) < CostRank(n)

\* _select, where a mode is eligible.
Winner(req) ==
    CHOOSE m \in Eligible(req) : \A n \in Eligible(req) \ {m} : Beats(req, m, n)

FaultyIsConfident(req, winner) ==
    \A m \in Scored(req) \ {winner} : Score(req, winner) > Score(req, m)

\* The margin is over every other mode that scored, eligible or not, and over
\* a score of 1.0 if any did.
IsConfident(req, winner) ==
    LET others == {Score(req, m) : m \in Scored(req) \ {winner}} IN
    others # {} => Score(req, winner) >= ConfidenceMargin * Max(others \cup {2})

-----------------------------------------------------------------------------
(***************************************************************************)
(* The scope.                                                              *)
(***************************************************************************)

FaultyAliases(nodeset) == IndexFile[nodeset] \cup {NameWords[nodeset]}

\* A NodeSet's own name is always an alias; an alias without words is dropped.
Aliases(nodeset) == (IndexFile[nodeset] \cup {NameWords[nodeset]}) \ {{}}

\* An absent or unreadable file is an index without names.
Derive(words) ==
    {n \in DOMAIN IndexFile : \E alias \in Aliases(n) : alias \subseteq words}

Scope(req) == IF req.scope # {} THEN req.scope ELSE Derive(req.words)

-----------------------------------------------------------------------------
(***************************************************************************)
(* The two stages.                                                         *)
(***************************************************************************)

Decision(mode, req, confident) ==
    [mode |-> mode,
     budget |-> RuleBudget[mode],
     fresh |-> req.fresh \/ mode = "TEMPORAL",
     scope |-> Scope(req),
     confident |-> confident]

FaultyRuleDecision(req) ==
    IF req.cypher THEN [Decision("CYPHER", req, TRUE) EXCEPT !.fresh = FALSE]
    ELSE IF req.fresh THEN Decision("TEMPORAL", req, TRUE)
    ELSE IF Eligible(req) = {} THEN Decision("CHUNKS", req, FALSE)
    ELSE Decision(Winner(req), req, IsConfident(req, Winner(req)))

\* QueryRouter.route: Cypher, the freshness contract, the scores, the default.
RuleDecision(req) ==
    IF req.cypher THEN Decision("CYPHER", req, TRUE)
    ELSE IF req.fresh THEN Decision("TEMPORAL", req, TRUE)
    ELSE IF Eligible(req) = {} THEN Decision("CHUNKS", req, FALSE)
    ELSE Decision(Winner(req), req, IsConfident(req, Winner(req)))

MinBudget == 4

MaxBudget == 12

\* What the program can come back with: it fails or names no mode, or it names
\* one, with a budget that may be no number.
NoPrediction == [mode |-> "invalid"]

Prediction(budgets) ==
    {NoPrediction} \cup
    [mode : SearchMode, parses : BOOLEAN, budget : budgets]

ClampBudget(p) ==
    IF ~p.parses THEN 8
    ELSE IF p.budget < MinBudget THEN MinBudget
    ELSE IF p.budget > MaxBudget THEN MaxBudget
    ELSE p.budget

\* DspyRouter.route: only what the rules are not confident of reaches the
\* program, which changes the mode and the budget and keeps the scope.
LearnedDecision(req, prediction) ==
    LET rule == RuleDecision(req) IN
    IF rule.confident \/ req.fresh \/ prediction.mode \notin SearchMode THEN rule
    ELSE [rule EXCEPT !.mode = prediction.mode,
                      !.budget = ClampBudget(prediction),
                      !.fresh = prediction.mode = "TEMPORAL",
                      !.confident = FALSE]
===============================================================================

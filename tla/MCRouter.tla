------------------------------- MODULE MCRouter -------------------------------
(***************************************************************************)
(* RouterWorkflow for model checking: queries that match one or two        *)
(* signals, and queries about two NodeSets under every contract.           *)
(***************************************************************************)
EXTENDS RouterWorkflow

MCWord == {"data", "warehouse", "bill", "the"}

MCNodeSet == {"warehouse", "billing"}

MCNameWords == [n \in MCNodeSet |-> IF n = "warehouse" THEN {"warehouse"} ELSE {"bill"}]

\* An alias of punctuation only has no words.
MCIndexFile ==
    [n \in MCNodeSet |-> IF n = "warehouse" THEN {{"data", "warehouse"}} ELSE {{}}]

\* The words of the queries that _STOP_WORDS has.
MCStopWords == {"the"}

Plain == [said |-> {}, negated |-> {}, cypher |-> FALSE, words |-> {},
          fresh |-> FALSE, scope |-> {}]

\* Queries that match one or two signals, one match perhaps negated;
\* SignalsPullTheirWay adds a third.
Matching ==
    UNION {{[Plain EXCEPT !.said = S, !.negated = N] : N \in {{}} \cup kSubset(1, S)} :
              S \in kSubset(1, Signal) \cup kSubset(2, Signal)}

\* Queries about the NodeSets, under every contract.
Scoped ==
    {[Plain EXCEPT !.words = w, !.fresh = f, !.cypher = c, !.scope = n] :
        w \in SUBSET MCWord, f \in BOOLEAN, c \in BOOLEAN, n \in {{}, {"billing"}}}

\* The default, and one that outlasts the activity.
MCSearchTimeouts == {20, 60}

MCRequests == Matching \cup Scoped

\* Below, at, within and above the range that budgets are clamped to.
MCPredicted == {-1, 0, 4, 9, 12, 40}
===============================================================================

------------------------- MODULE MCEvidencePacking -------------------------
(***************************************************************************)
(* EvidencePacking on short retrievals of texts that tell its budgets and  *)
(* the gate's thresholds apart.                                            *)
(***************************************************************************)
EXTENDS EvidencePacking

MCText == {"about both", "about one", "dated", "long", "huge", "noise"}

MCCost ==
    [t \in MCText |-> IF t = "huge" THEN 7
                      ELSE IF t = "long" THEN 4
                      ELSE IF t = "about both" THEN 3 ELSE 1]

MCKeyword == 1..5

MCCovers ==
    [t \in MCText |-> IF t = "about both" THEN {1, 2}
                      ELSE IF t = "about one" THEN {3}
                      ELSE IF t = "dated" THEN {1, 5}
                      ELSE IF t = "long" THEN {2, 3, 4}
                      ELSE IF t = "huge" THEN {5} ELSE {}]

\* In the long text one keyword has a comma behind it.
MCMatches == [t \in MCText |-> IF t = "long" THEN {2, 3} ELSE MCCovers[t]]

MCDated == {"dated"}

\* Up to four items, blank and repeated ones among them.
MCRetrievals ==
    UNION {[1..n -> MCText \cup {"blank"}] : n \in 0..4}
=============================================================================

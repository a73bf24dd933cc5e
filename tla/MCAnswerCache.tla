---------------------------- MODULE MCAnswerCache ----------------------------
(***************************************************************************)
(* AnswerCache with a handful of queries.  "week plan" and "this week      *)
(* plan" have one paraphrase form ("this" is a stop word) but the second   *)
(* is routed TEMPORAL by rule; "trends" goes to the learned router, which  *)
(* may or may not route it TEMPORAL.                                       *)
(***************************************************************************)
EXTENDS AnswerCache

MCForm ==
    [q \in {"week plan", "this week plan", "trends"} |->
        IF q = "trends" THEN "trend" ELSE "week plan"]

MCRouteFresh ==
    [q \in {"week plan", "this week plan", "trends"} |->
        IF q = "week plan" THEN {FALSE}
        ELSE IF q = "this week plan" THEN {TRUE}
        ELSE BOOLEAN]

Asks(query, scope, fresh) == [query |-> query, scope |-> scope, fresh |-> fresh]

\* Overlapping wordings, one demand for freshness, two scopes.
MCRequest ==
    {Asks("week plan", "ana", FALSE), Asks("this week plan", "ana", FALSE),
     Asks("week plan", "ana", TRUE), Asks("trends", "bob", FALSE)}
=============================================================================

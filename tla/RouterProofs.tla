---------------------------- MODULE RouterProofs -----------------------------
(***************************************************************************)
(* Proofs about RouterWorkflow, for every index of NodeSets, every set of  *)
(* requests and every worker that dies any number of times.  That          *)
(* confidence is a margin and that signals pull their way rests on what    *)
(* they add up to (TotalAdds of ListLemmas) and on one mode beating the    *)
(* others (WinnerWins); that the loop is handed its routes, and that a     *)
(* workflow stays fresh, rests on the four ways to a decision              *)
(* (RulesDecide).                                                          *)
(***************************************************************************)
EXTENDS RouterWorkflow, ListLemmas

\* The request is one of those looked at.
RequestOK == request \in Request

\* No step changes the request.
LEMMA RequestHolds == Spec => []RequestOK
<1>1. Init => RequestOK
  BY WorkflowAssumption DEF Init, RequestOK, WorkflowAssumption
<1>2. RequestOK /\ [Next]_vars => RequestOK'
  BY DEF RequestOK, Next, vars, started, Begin, Normalized, Routed, Packed, SearchReturns,
         SearchTimesOut, Answer, TimeOut, Crash, Restart, Done, Running
<1> QED BY <1>1, <1>2, PTL DEF Spec

\* Stop words come and go without a NodeSet coming or going with them.
THEOREM ScopesSurviveParaphrase == Spec => []ScopeSurvivesParaphrase
<1>1. ScopeSurvivesParaphrase
  <2> SUFFICES ASSUME \A n \in DOMAIN IndexFile :
                          \A alias \in Aliases(n) : alias \cap StopWords = {}
               PROVE  /\ request.words \subseteq StopWords => Derive(request.words) = {}
                      /\ \A dropped, added \in SUBSET StopWords :
                            Derive((request.words \ dropped) \cup added)
                                = Derive(request.words)
    BY DEF ScopeSurvivesParaphrase
  <2>1. ASSUME request.words \subseteq StopWords
        PROVE  Derive(request.words) = {}
    <3>1. ASSUME NEW n \in DOMAIN IndexFile, NEW alias \in Aliases(n),
                 alias \subseteq request.words
          PROVE  FALSE
      <4>1. alias = {}
        BY <2>1, <3>1
      <4> QED BY <3>1, <4>1 DEF Aliases
    <3> QED BY <3>1 DEF Derive
  <2>2. ASSUME NEW dropped \in SUBSET StopWords, NEW added \in SUBSET StopWords
        PROVE  Derive((request.words \ dropped) \cup added) = Derive(request.words)
    <3>1. ASSUME NEW n \in DOMAIN IndexFile, NEW alias \in Aliases(n)
          PROVE  alias \subseteq (request.words \ dropped) \cup added
                     <=> alias \subseteq request.words
      BY <3>1, <2>2
    <3> QED BY <3>1 DEF Derive
  <2> QED BY <2>1, <2>2
<1> QED BY <1>1, PTL

-----------------------------------------------------------------------------
(***************************************************************************)
(* What the rules add up to.                                               *)
(***************************************************************************)

\* The modes that have a rule.
LEMMA RuledModes ==
    Ruled = {"TEMPORAL", "NATURAL_LANGUAGE", "CYPHER", "GRAPH_COMPLETION",
             "TRIPLET_COMPLETION", "GRAPH_SUMMARY_COMPLETION"}
BY DEF Ruled, Rules

\* No two of them cost the same.
LEMMA CostRanks ==
    /\ \A m \in Ruled : CostRank(m) \in 1..8
    /\ \A m, n \in Ruled : CostRank(m) = CostRank(n) => m = n
<1>1. /\ CostRank("TEMPORAL") = 8 /\ CostRank("NATURAL_LANGUAGE") = 6
      /\ CostRank("CYPHER") = 7 /\ CostRank("GRAPH_COMPLETION") = 4
      /\ CostRank("TRIPLET_COMPLETION") = 3
      /\ CostRank("GRAPH_SUMMARY_COMPLETION") = 5
  BY DEF CostRank, CheapestFirst
<1> HIDE DEF CostRank
<1> QED BY <1>1, RuledModes

\* A signal belongs to a rule and pulls toward it.
LEMMA Weights == \A s \in Signal : s[1] \in Ruled /\ Weight[s] \in 1..6
<1> SUFFICES ASSUME NEW m \in Ruled, NEW t \in DOMAIN Rules[m]
             PROVE  <<m, t>>[1] \in Ruled /\ Rules[m][t] \in 1..6
  BY DEF Signal, Weight
<1>1. CASE m = "TEMPORAL"
  BY <1>1 DEF Ruled, Rules
<1>2. CASE m = "NATURAL_LANGUAGE"
  BY <1>2 DEF Ruled, Rules
<1>3. CASE m = "CYPHER"
  BY <1>3 DEF Ruled, Rules
<1>4. CASE m = "GRAPH_COMPLETION"
  BY <1>4 DEF Ruled, Rules
<1>5. CASE m = "TRIPLET_COMPLETION"
  BY <1>5 DEF Ruled, Rules
<1>6. CASE m = "GRAPH_SUMMARY_COMPLETION"
  BY <1>6 DEF Ruled, Rules
<1> QED BY <1>1, <1>2, <1>3, <1>4, <1>5, <1>6, RuledModes

\* Six at most are finitely many.
LEMMA SixAreFinite ==
    ASSUME NEW a, NEW b, NEW c, NEW d, NEW e, NEW f
    PROVE  IsFiniteSet({a, b, c, d, e, f})
<1>1. IsFiniteSet({a})
  BY FS_Singleton
<1>2. IsFiniteSet({a, b, c})
  <2>1. IsFiniteSet({a} \cup {b})
    BY <1>1, FS_AddElement
  <2>2. IsFiniteSet(({a} \cup {b}) \cup {c})
    BY <2>1, FS_AddElement
  <2>3. ({a} \cup {b}) \cup {c} = {a, b, c}
    OBVIOUS
  <2> QED BY <2>2, <2>3
<1>3. IsFiniteSet({d, e, f})
  <2>1. IsFiniteSet({d})
    BY FS_Singleton
  <2>2. IsFiniteSet({d} \cup {e})
    BY <2>1, FS_AddElement
  <2>3. IsFiniteSet(({d} \cup {e}) \cup {f})
    BY <2>2, FS_AddElement
  <2>4. ({d} \cup {e}) \cup {f} = {d, e, f}
    OBVIOUS
  <2> QED BY <2>3, <2>4
<1>4. {a, b, c, d, e, f} = {a, b, c} \cup {d, e, f}
  OBVIOUS
<1>5. IsFiniteSet({a, b, c} \cup {d, e, f})
  BY <1>2, <1>3, FS_Union
<1> QED BY <1>4, <1>5

\* There are finitely many signals.
LEMMA SignalsAreFinite == IsFiniteSet(Signal)
<1> DEFINE A == {"deictic", "recency", "window", "change", "status", "explicit"}
           B == {"match", "topology", "count", "cypher_syntax", "direction", "impact"}
           C == {"chain", "conditional", "noun", "verb", "between", "owner"}
           D == {"themes", "organisation", "explain", "explain", "explain", "explain"}
           Names == (A \cup B) \cup (C \cup D)
<1>1. IsFiniteSet(Names)
  <2>1. IsFiniteSet(A) /\ IsFiniteSet(B) /\ IsFiniteSet(C) /\ IsFiniteSet(D)
    BY SixAreFinite
  <2> HIDE DEF A, B, C, D
  <2>2. IsFiniteSet(A \cup B) /\ IsFiniteSet(C \cup D)
    BY <2>1, FS_Union
  <2> QED BY <2>2, FS_Union
<1>2. IsFiniteSet(Ruled)
  BY RuledModes, SixAreFinite
<1>3. Signal \subseteq Ruled \X Names
  BY DEF Signal, Ruled, Rules
<1> HIDE DEF Names
<1>4. IsFiniteSet(Ruled \X Names)
  BY <1>1, <1>2, FS_Product
<1> QED BY <1>3, <1>4, FS_Subset

\* What a query would score that fires every signal.
MaxScore == Total(Signal, Weight)

\* A score is a natural number, with the same bound for every mode and request.
LEMMA Scores ==
    ASSUME NEW req \in Request, NEW mode
    PROVE  /\ IsFiniteSet(Ones(Fired(req, mode), Weight))
           /\ MaxScore \in Nat
           /\ Score(req, mode) \in Nat /\ Score(req, mode) <= MaxScore
<1>1. IsFiniteSet(Ones(Signal, Weight))
  <2>1. \A s \in Signal : Weight[s] \in 0..6
    BY Weights
  <2> QED BY <2>1, SignalsAreFinite, TotalIsFinite
<1>2. Fired(req, mode) \subseteq Signal
  BY DEF Fired, Request
<1> QED BY <1>1, <1>2, TotalMonotone DEF Score, MaxScore

\* A mode none of whose signals fires scores nothing.
LEMMA Unscored ==
    ASSUME NEW req \in Request, NEW mode \in Ruled, mode \notin Scored(req)
    PROVE  Score(req, mode) = 0
<1>1. Fired(req, mode) = {}
  BY DEF Scored
<1> QED BY <1>1, TotalOfNothing DEF Score

-----------------------------------------------------------------------------
(***************************************************************************)
(* Who wins.                                                               *)
(***************************************************************************)

\* Of two modes one beats the other.
LEMMA OneBeats ==
    ASSUME NEW req \in Request, NEW m \in Ruled, NEW n \in Ruled
    PROVE  /\ Beats(req, m, n) => ~Beats(req, n, m)
           /\ m # n => Beats(req, m, n) \/ Beats(req, n, m)
<1>1. Score(req, m) \in Nat /\ Score(req, n) \in Nat
  BY Scores
<1>2. CostRank(m) \in Nat /\ CostRank(n) \in Nat
      /\ (CostRank(m) = CostRank(n) => m = n)
  BY CostRanks
<1> QED BY <1>1, <1>2 DEF Beats

\* Where modes are eligible, one of them beats the others.
LEMMA WinnerWins ==
    ASSUME NEW req \in Request, Eligible(req) # {}
    PROVE  /\ Winner(req) \in Eligible(req)
           /\ \A n \in Eligible(req) \ {Winner(req)} : Beats(req, Winner(req), n)
<1> DEFINE Distance(m) == 10 * (MaxScore - Score(req, m)) + CostRank(m)
           Distances == {Distance(m) : m \in Eligible(req)}
<1>1. Eligible(req) \subseteq Ruled
  BY DEF Eligible, Scored
<1>2. \A m \in Eligible(req) :
          /\ MaxScore \in Nat /\ Score(req, m) \in Nat /\ Score(req, m) <= MaxScore
          /\ CostRank(m) \in 1..8
  BY <1>1, Scores, CostRanks
<1>3. \A m \in Eligible(req) : Distance(m) \in Nat
  <2> SUFFICES ASSUME NEW m \in Eligible(req) PROVE Distance(m) \in Nat
    OBVIOUS
  <2>1. /\ MaxScore \in Nat /\ Score(req, m) \in Nat /\ Score(req, m) <= MaxScore
        /\ CostRank(m) \in 1..8
    BY <1>2
  <2> QED BY <2>1
<1>4. Distances \subseteq Nat /\ Distances # {}
  BY <1>3
<1>5. PICK d \in Distances : \A e \in Distances : d <= e
  <2> HIDE DEF Distances
  <2> QED BY <1>4, Least
<1>6. PICK m \in Eligible(req) : d = Distance(m)
  BY <1>5
<1>7. ASSUME NEW n \in Eligible(req) \ {m} PROVE Beats(req, m, n)
  <2>1. Distance(m) <= Distance(n)
    BY <1>5, <1>6
  <2>2. CostRank(m) # CostRank(n)
    BY <1>1, CostRanks
  <2>3. /\ MaxScore \in Nat /\ Score(req, m) \in Nat /\ Score(req, n) \in Nat
        /\ CostRank(m) \in 1..8 /\ CostRank(n) \in 1..8
    BY <1>2
  <2> QED BY <2>1, <2>2, <2>3 DEF Beats
<1>8. \E w \in Eligible(req) : \A n \in Eligible(req) \ {w} : Beats(req, w, n)
  BY <1>7
<1> QED BY <1>8, Zenon DEF Winner

\* And only that one does.
LEMMA OneWinner ==
    ASSUME NEW req \in Request, NEW m \in Eligible(req),
           \A n \in Eligible(req) \ {m} : Beats(req, m, n)
    PROVE  Winner(req) = m
<1>1. /\ Winner(req) \in Eligible(req)
      /\ \A n \in Eligible(req) \ {Winner(req)} : Beats(req, Winner(req), n)
  BY WinnerWins
<1>2. Winner(req) # m => Beats(req, m, Winner(req)) /\ Beats(req, Winner(req), m)
  BY <1>1
<1>3. Eligible(req) \subseteq Ruled
  BY DEF Eligible, Scored
<1> QED BY <1>1, <1>2, <1>3, OneBeats

\* A confident winner has the margin the code asks for.
LEMMA ConfidenceIs ==
    ASSUME NEW req \in Request, NEW w \in Ruled
    PROVE  IsConfident(req, w) <=>
               \A m \in Scored(req) \ {w} :
                   Score(req, w) >= 2 * Score(req, m) /\ Score(req, w) >= 4
<1> DEFINE others == {Score(req, m) : m \in Scored(req) \ {w}}
<1>1. Score(req, w) \in Nat /\ MaxScore \in Nat
  BY Scores
<1>2. \A x \in others \cup {2} : x \in Nat /\ x <= MaxScore + 2
  BY <1>1, Scores
<1>3. IsConfident(req, w) <=>
          (others # {} => Score(req, w) >= 2 * Max(others \cup {2}))
  BY DEF IsConfident, ConfidenceMargin
<1> HIDE DEF others
<1>4. /\ Max(others \cup {2}) \in others \cup {2}
      /\ \A x \in others \cup {2} : Max(others \cup {2}) >= x
  <2>1. others \cup {2} \subseteq Nat /\ others \cup {2} # {} /\ MaxScore + 2 \in Nat
    BY <1>1, <1>2
  <2> QED BY <1>2, <2>1, MaxWorks
<1>5. IsConfident(req, w) <=> \A x \in others : Score(req, w) >= 2 * x /\ Score(req, w) >= 4
  <2>1. Max(others \cup {2}) \in Nat
    BY <1>2, <1>4
  <2>2. ASSUME others # {}, Score(req, w) >= 2 * Max(others \cup {2}), NEW x \in others
        PROVE  Score(req, w) >= 2 * x /\ Score(req, w) >= 4
    <3>1. x \in Nat /\ Max(others \cup {2}) >= x /\ Max(others \cup {2}) >= 2
      BY <1>2, <1>4
    <3> QED BY <1>1, <2>1, <2>2, <3>1
  <2>3. ASSUME others # {}, \A x \in others : Score(req, w) >= 2 * x /\ Score(req, w) >= 4
        PROVE  Score(req, w) >= 2 * Max(others \cup {2})
    <3>1. CASE Max(others \cup {2}) = 2
      BY <1>1, <2>3, <3>1
    <3>2. CASE Max(others \cup {2}) \in others
      BY <2>3, <3>2
    <3> QED BY <1>4, <3>1, <3>2
  <2> QED BY <1>3, <2>2, <2>3
<1> QED BY <1>5 DEF others

-----------------------------------------------------------------------------
(***************************************************************************)
(* What the rules decide.                                                  *)
(***************************************************************************)

\* The four ways to a decision.
LEMMA RulesDecide ==
    ASSUME NEW req \in Request
    PROVE  /\ RuleDecision(req) = Decision(RuleDecision(req).mode, req,
                                           RuleDecision(req).confident)
           /\ req.cypher =>
                 RuleDecision(req).mode = "CYPHER" /\ RuleDecision(req).confident
           /\ ~req.cypher /\ req.fresh =>
                 RuleDecision(req).mode = "TEMPORAL" /\ RuleDecision(req).confident
           /\ ~req.cypher /\ ~req.fresh /\ Eligible(req) = {} =>
                 RuleDecision(req).mode = "CHUNKS" /\ ~RuleDecision(req).confident
           /\ ~req.cypher /\ ~req.fresh /\ Eligible(req) # {} =>
                 /\ RuleDecision(req).mode = Winner(req)
                 /\ RuleDecision(req).confident = IsConfident(req, Winner(req))
<1>1. \A mode, c : /\ Decision(mode, req, c).mode = mode
                   /\ Decision(mode, req, c).confident = c
  BY DEF Decision
<1>2. ASSUME NEW mode, NEW c, RuleDecision(req) = Decision(mode, req, c)
      PROVE  /\ RuleDecision(req) = Decision(RuleDecision(req).mode, req,
                                             RuleDecision(req).confident)
             /\ RuleDecision(req).mode = mode /\ RuleDecision(req).confident = c
  BY <1>1, <1>2, Zenon
<1>3. CASE req.cypher
  <2>1. RuleDecision(req) = Decision("CYPHER", req, TRUE)
    BY <1>3 DEF RuleDecision
  <2>2. /\ RuleDecision(req) = Decision(RuleDecision(req).mode, req,
                                          RuleDecision(req).confident)
        /\ RuleDecision(req).mode = "CYPHER"
        /\ RuleDecision(req).confident = TRUE
    BY <1>2, <2>1, Zenon
  <2> QED BY <1>3, <2>2
<1>4. CASE ~req.cypher /\ req.fresh
  <2>1. RuleDecision(req) = Decision("TEMPORAL", req, TRUE)
    BY <1>4 DEF RuleDecision
  <2>2. /\ RuleDecision(req) = Decision(RuleDecision(req).mode, req,
                                          RuleDecision(req).confident)
        /\ RuleDecision(req).mode = "TEMPORAL"
        /\ RuleDecision(req).confident = TRUE
    BY <1>2, <2>1, Zenon
  <2> QED BY <1>4, <2>2
<1>5. CASE ~req.cypher /\ ~req.fresh /\ Eligible(req) = {}
  <2>1. RuleDecision(req) = Decision("CHUNKS", req, FALSE)
    BY <1>5 DEF RuleDecision
  <2>2. /\ RuleDecision(req) = Decision(RuleDecision(req).mode, req,
                                          RuleDecision(req).confident)
        /\ RuleDecision(req).mode = "CHUNKS"
        /\ RuleDecision(req).confident = FALSE
    BY <1>2, <2>1, Zenon
  <2> QED BY <1>5, <2>2
<1>6. CASE ~req.cypher /\ ~req.fresh /\ Eligible(req) # {}
  <2>1. RuleDecision(req) = Decision(Winner(req), req, IsConfident(req, Winner(req)))
    BY <1>6, Zenon DEF RuleDecision
  <2>2. /\ RuleDecision(req) = Decision(RuleDecision(req).mode, req,
                                          RuleDecision(req).confident)
        /\ RuleDecision(req).mode = Winner(req)
        /\ RuleDecision(req).confident = IsConfident(req, Winner(req))
    BY <1>2, <2>1, Zenon
  <2> QED BY <1>6, <2>2
<1> QED BY <1>3, <1>4, <1>5, <1>6

\* A confident decision of the scores has the margin.
LEMMA MarginHolds ==
    ASSUME NEW req \in Request, RuleDecision(req).confident, ~req.cypher, ~req.fresh
    PROVE  LET winner == RuleDecision(req).mode IN
           /\ Score(req, winner) >= MinScore
           /\ \A m \in Ruled \ {winner} : Score(req, winner) >= Score(req, m) + 2
<1>1. Eligible(req) # {}
  BY RulesDecide
<1> DEFINE w == Winner(req)
<1>2. RuleDecision(req).mode = w /\ IsConfident(req, w)
  BY <1>1, RulesDecide
<1>3. w \in Eligible(req)
  BY <1>1, WinnerWins
<1> HIDE DEF w
<1>4. w \in Ruled /\ Score(req, w) \in Nat /\ Score(req, w) >= 4
  BY <1>3, Scores DEF Eligible, Scored, MinScore
<1>5. ASSUME NEW m \in Ruled \ {w} PROVE Score(req, w) >= Score(req, m) + 2
  <2>1. Score(req, m) \in Nat
    BY Scores
  <2>2. CASE m \in Scored(req)
    <3>1. Score(req, w) >= 2 * Score(req, m)
      BY <1>2, <1>4, <2>2, ConfidenceIs
    <3> QED BY <1>4, <2>1, <3>1
  <2>3. CASE m \notin Scored(req)
    BY <1>4, <2>3, Unscored
  <2> QED BY <2>2, <2>3
<1> QED BY <1>2, <1>4, <1>5 DEF MinScore

\* What the rules are confident of was not settled by rounding.
THEOREM ConfidenceHasAMargin == Spec => []ConfidenceIsAMargin
<1>1. RequestOK => ConfidenceIsAMargin
  BY MarginHolds DEF RequestOK, ConfidenceIsAMargin
<1> QED BY <1>1, RequestHolds, PTL

-----------------------------------------------------------------------------
(***************************************************************************)
(* One signal more.                                                        *)
(***************************************************************************)

Also(req, s) == [req EXCEPT !.said = @ \cup {s}]

\* It adds to the score of its own mode, and to no other's.
LEMMA OneSignalMore ==
    ASSUME NEW req \in Request, NEW s \in Signal \ (req.said \cup req.negated)
    PROVE  /\ Also(req, s) \in Request
           /\ s[1] \in Ruled
           /\ Score(Also(req, s), s[1]) > Score(req, s[1])
           /\ Scored(Also(req, s)) = Scored(req) \cup {s[1]}
           /\ \A m \in Ruled \ {s[1]} : Score(Also(req, s), m) = Score(req, m)
<1>1. Also(req, s) \in Request
  BY DEF Also, Request
<1>2. s[1] \in Ruled /\ Weight[s] \in 1..6
  BY Weights
<1>3. /\ Fired(Also(req, s), s[1]) = Fired(req, s[1]) \cup {s}
      /\ s \notin Fired(req, s[1])
      /\ \A m : m # s[1] => Fired(Also(req, s), m) = Fired(req, m)
  BY DEF Fired, Also, Request
<1>4. Score(Also(req, s), s[1]) = Score(req, s[1]) + Weight[s]
  <2>1. Weight[s] \in Nat /\ IsFiniteSet(Ones(Fired(req, s[1]), Weight))
    BY <1>2, Scores
  <2>2. Total(Fired(req, s[1]) \cup {s}, Weight) = Total(Fired(req, s[1]), Weight) + Weight[s]
    BY <1>3, <2>1, TotalAdds
  <2> QED BY <1>3, <2>2 DEF Score
<1>5. Score(req, s[1]) \in Nat
  BY Scores
<1>6. Scored(Also(req, s)) = Scored(req) \cup {s[1]}
  BY <1>2, <1>3 DEF Scored
<1>7. \A m \in Ruled \ {s[1]} : Score(Also(req, s), m) = Score(req, m)
  BY <1>3 DEF Score
<1> QED BY <1>1, <1>2, <1>4, <1>5, <1>6, <1>7

\* So it is its own mode that comes to win, or none does, and a winner of that
\* mode is the more confident.
LEMMA SignalPulls ==
    ASSUME NEW req \in Request, NEW s \in Signal \ (req.said \cup req.negated)
    PROVE  LET before == RuleDecision(req)
               after == RuleDecision(Also(req, s)) IN
           /\ after.mode \in {before.mode, s[1]}
           /\ s[1] = before.mode /\ before.confident => after.confident
<1> DEFINE more == Also(req, s)
<1>1. /\ more \in Request /\ s[1] \in Ruled
      /\ Score(more, s[1]) > Score(req, s[1])
      /\ Scored(more) = Scored(req) \cup {s[1]}
      /\ \A m \in Ruled \ {s[1]} : Score(more, m) = Score(req, m)
  BY OneSignalMore
<1>2. more.cypher = req.cypher /\ more.fresh = req.fresh
  BY DEF Also, Request
<1> HIDE DEF more
<1>3. Eligible(req) \subseteq Ruled /\ Eligible(more) \subseteq Ruled
  BY DEF Eligible, Scored
<1>4. \A m \in Ruled : Score(more, m) \in Nat /\ Score(req, m) \in Nat
  BY <1>1, Scores
<1>5. /\ Eligible(more) \ {s[1]} = Eligible(req) \ {s[1]}
      /\ s[1] \in Eligible(req) => s[1] \in Eligible(more)
  <2>1. Eligible(more) \ {s[1]} = Eligible(req) \ {s[1]}
    BY <1>1, <1>3 DEF Eligible
  <2>2. s[1] \in Eligible(req) => s[1] \in Eligible(more)
    BY <1>1, <1>4 DEF Eligible, MinScore
  <2> QED BY <2>1, <2>2
<1>6. CASE req.cypher \/ req.fresh
  BY <1>1, <1>2, <1>6, RulesDecide DEF more
<1>7. CASE ~req.cypher /\ ~req.fresh /\ Eligible(req) = {}
  <2>1. Eligible(more) # {} => Winner(more) = s[1]
    BY <1>1, <1>5, <1>7, WinnerWins
  <2>2. RuleDecision(more).mode \in {RuleDecision(req).mode, s[1]}
    BY <1>1, <1>2, <1>7, <2>1, RulesDecide
  <2>3. ~RuleDecision(req).confident
    BY <1>7, RulesDecide
  <2> QED BY <2>2, <2>3 DEF more
<1>8. CASE ~req.cypher /\ ~req.fresh /\ Eligible(req) # {}
  <2> DEFINE w == Winner(req)
             v == Winner(more)
  <2>1. /\ w \in Eligible(req) /\ v \in Eligible(more)
        /\ \A n \in Eligible(req) \ {w} : Beats(req, w, n)
        /\ \A n \in Eligible(more) \ {v} : Beats(more, v, n)
    BY <1>1, <1>5, <1>8, WinnerWins
  <2>2. /\ RuleDecision(req).mode = w /\ RuleDecision(more).mode = v
        /\ RuleDecision(req).confident = IsConfident(req, w)
        /\ RuleDecision(more).confident = IsConfident(more, v)
    BY <1>1, <1>2, <1>5, <1>8, RulesDecide
  <2> HIDE DEF w, v
  <2>3. v \in {w, s[1]}
    <3> SUFFICES ASSUME v # s[1], v # w PROVE FALSE
      OBVIOUS
    <3>1. v \in Eligible(req) /\ w \in Eligible(more)
      BY <1>5, <2>1
    <3>2. Beats(req, w, v) /\ Beats(more, v, w)
      BY <2>1, <3>1
    <3>3. w \in Ruled /\ v \in Ruled /\ Score(more, v) = Score(req, v)
          /\ Score(more, w) >= Score(req, w)
      BY <1>1, <1>3, <1>4, <2>1
    <3>4. Beats(more, w, v)
      BY <1>4, <3>2, <3>3 DEF Beats
    <3> QED BY <1>1, <3>2, <3>3, <3>4, OneBeats
  <2>4. ASSUME s[1] = w, IsConfident(req, w) PROVE IsConfident(more, v)
    <3>1. v = w /\ w \in Ruled
      BY <1>3, <2>1, <2>3, <2>4
    <3>2. ASSUME NEW m \in Scored(more) \ {w}
          PROVE  Score(more, w) >= 2 * Score(more, m) /\ Score(more, w) >= 4
      <4>1. m \in Scored(req) \ {w} /\ m \in Ruled /\ Score(more, m) = Score(req, m)
        BY <1>1, <2>4, <3>2 DEF Scored
      <4>2. Score(req, w) >= 2 * Score(req, m) /\ Score(req, w) >= 4
        BY <2>4, <3>1, <4>1, ConfidenceIs
      <4>3. Score(more, w) > Score(req, w)
        BY <1>1, <2>4
      <4> QED BY <1>4, <3>1, <4>1, <4>2, <4>3
    <3> QED BY <1>1, <3>1, <3>2, ConfidenceIs
  <2> QED BY <2>2, <2>3, <2>4 DEF more
<1> QED BY <1>6, <1>7, <1>8

\* No signal makes a third mode win, or takes confidence from its own.
THEOREM EverySignalPulls == Spec => []SignalsPullTheirWay
<1>1. RequestOK => SignalsPullTheirWay
  BY SignalPulls DEF RequestOK, SignalsPullTheirWay, Also
<1> QED BY <1>1, RequestHolds, PTL

-----------------------------------------------------------------------------
(***************************************************************************)
(* What the query loop is handed.                                          *)
(***************************************************************************)

\* A rule's mode is one that a rule may have, and its budget is the rule's.
LEMMA RuleRoutesOnly ==
    ASSUME NEW req \in Request
    PROVE  Seen(RuleDecision(req)) \in RuleRoutes(req)
<1> DEFINE d == RuleDecision(req)
<1>1. d = Decision(d.mode, req, d.confident)
  BY RulesDecide
<1>2. d.mode \in IF req.fresh THEN {"TEMPORAL", "CYPHER"} ELSE DOMAIN RuleBudget
  <2>1. CASE req.cypher
    BY <2>1, RulesDecide DEF RuleBudget, SearchMode
  <2>2. CASE ~req.cypher /\ req.fresh
    BY <2>2, RulesDecide
  <2>3. CASE ~req.cypher /\ ~req.fresh /\ Eligible(req) = {}
    BY <2>3, RulesDecide DEF RuleBudget, SearchMode
  <2>4. CASE ~req.cypher /\ ~req.fresh /\ Eligible(req) # {}
    <3>1. Winner(req) \in Ruled
      BY <2>4, WinnerWins DEF Eligible, Scored
    <3>2. Ruled \subseteq DOMAIN RuleBudget
      BY RuledModes DEF RuleBudget, SearchMode
    <3> QED BY <2>4, <3>1, <3>2, RulesDecide
  <2> QED BY <2>1, <2>2, <2>3, <2>4
<1>3. /\ d.budget = RuleBudget[d.mode]
      /\ d.fresh = (req.fresh \/ d.mode = "TEMPORAL")
  <2> HIDE DEF d
  <2> QED BY <1>1 DEF Decision
<1> HIDE DEF d
<1>4. Seen(d) \in RuleRoutes(req)
  BY <1>2, <1>3 DEF Seen, RuleRoutes
<1> QED BY <1>4 DEF d

\* Whatever is predicted, the budget is one that may be asked for.
LEMMA ClampWorks ==
    ASSUME NEW p \in [mode : SearchMode, parses : BOOLEAN, budget : Predicted]
    PROVE  ClampBudget(p) \in MinBudget..MaxBudget
<1>1. p.budget \in Int
  BY WorkflowAssumption
<1> QED BY <1>1 DEF ClampBudget, MinBudget, MaxBudget

\* The learned stage keeps the scope and stays among its routes.
LEMMA LearnedRoutesOnly ==
    ASSUME NEW req \in Request, NEW p \in Prediction(Predicted)
    PROVE  /\ Seen(LearnedDecision(req, p)) \in LearnedRoutes(req, MinBudget..MaxBudget)
           /\ LearnedDecision(req, p).scope = Scope(req)
<1> DEFINE rule == RuleDecision(req)
<1>1. rule = Decision(rule.mode, req, rule.confident) /\ Seen(rule) \in RuleRoutes(req)
  BY RulesDecide, RuleRoutesOnly
<1>2. rule.scope = Scope(req)
  <2> HIDE DEF rule
  <2> QED BY <1>1 DEF Decision
<1>3. CASE rule.confident \/ req.fresh \/ p.mode \notin SearchMode
  <2>1. LearnedDecision(req, p) = rule
    BY <1>3 DEF LearnedDecision
  <2> QED BY <1>1, <1>2, <2>1 DEF LearnedRoutes
<1>4. CASE ~rule.confident /\ ~req.fresh /\ p.mode \in SearchMode
  <2>1. p \in [mode : SearchMode, parses : BOOLEAN, budget : Predicted]
    BY <1>4 DEF Prediction, NoPrediction, SearchMode
  <2>2. ClampBudget(p) \in MinBudget..MaxBudget
    BY <2>1, ClampWorks
  <2>3. LearnedDecision(req, p)
          = [rule EXCEPT !.mode = p.mode, !.budget = ClampBudget(p),
                         !.fresh = p.mode = "TEMPORAL", !.confident = FALSE]
    BY <1>4 DEF LearnedDecision
  <2> HIDE DEF rule
  <2>4. /\ Seen(LearnedDecision(req, p))
             = [mode |-> p.mode, budget |-> ClampBudget(p), fresh |-> p.mode = "TEMPORAL"]
        /\ LearnedDecision(req, p).scope = rule.scope
    BY <1>1, <2>3 DEF Seen, Decision
  <2> QED BY <1>2, <1>4, <2>2, <2>4 DEF LearnedRoutes
<1> QED BY <1>3, <1>4

\* The query loop is handed the routes it was proved with, whatever the rules
\* decide and whatever a program predicts.
THEOREM RoutesDoFitTheLoop == Spec => []RoutesFitTheLoop
<1>1. RequestOK => RoutesFitTheLoop
  BY RuleRoutesOnly, LearnedRoutesOnly DEF RequestOK, RoutesFitTheLoop
<1> QED BY <1>1, RequestHolds, PTL
-----------------------------------------------------------------------------
(***************************************************************************)
(* What the workflow is handed.                                            *)
(***************************************************************************)

\* What route_query is handed is a request that is as fresh as the caller's.
LEMMA InputIsAsFresh ==
    ASSUME NEW req \in Request
    PROVE  RouteInput(req) \in Request /\ RouteInput(req).fresh = req.fresh
BY DEF RouteInput, Request

\* So what it decides for a fresh request is fresh.
LEMMA DecidedFresh ==
    ASSUME NEW req \in Request, req.fresh
    PROVE  /\ RuleDecision(RouteInput(req)).fresh
           /\ RuleDecision(RouteInput(req)).mode \in {"TEMPORAL", "CYPHER"}
<1> DEFINE in == RouteInput(req)
<1>1. in \in Request /\ in.fresh
  BY InputIsAsFresh
<1> HIDE DEF in
<1>2. Seen(RuleDecision(in)) \in RuleRoutes(in)
  BY <1>1, RuleRoutesOnly
<1>3. RuleDecision(in).fresh /\ RuleDecision(in).mode \in {"TEMPORAL", "CYPHER"}
  BY <1>1, <1>2 DEF Seen, RuleRoutes
<1> QED BY <1>3 DEF in

\* Whatever dies and is tried again, a workflow that was asked for freshness
\* retrieves under a mode that can give it.
THEOREM WorkflowsStayFresh == Spec => []WorkflowStaysFresh
<1>1. Init => WorkflowStaysFresh
  BY DEF Init, WorkflowStaysFresh
<1>2. RequestOK /\ WorkflowStaysFresh /\ [Next]_vars => WorkflowStaysFresh'
  <2> SUFFICES ASSUME RequestOK, WorkflowStaysFresh, [Next]_vars
               PROVE  WorkflowStaysFresh'
    OBVIOUS
  <2>1. request' = request
    BY DEF Next, vars, started, Begin, Normalized, Routed, Packed, SearchReturns,
           SearchTimesOut, Answer, TimeOut, Crash, Restart, Done, Running
  <2>2. ASSUME Routed PROVE WorkflowStaysFresh'
    <3>1. route' = RuleDecision(RouteInput(request))
      BY <2>2 DEF Routed
    <3>2. request.fresh => /\ route'.fresh
                           /\ route'.mode \in {"TEMPORAL", "CYPHER"}
      BY <3>1, DecidedFresh DEF RequestOK
    <3> QED BY <2>1, <3>2 DEF WorkflowStaysFresh
  <2>3. ASSUME route' = route PROVE WorkflowStaysFresh'
    BY <2>1, <2>3 DEF WorkflowStaysFresh
  <2>4. Routed \/ route' = route
    BY DEF Next, vars, started, Begin, Normalized, Packed, SearchReturns,
           SearchTimesOut, Answer, TimeOut, Crash, Restart, Done, Running
  <2> QED BY <2>2, <2>3, <2>4
<1> QED BY <1>1, <1>2, RequestHolds, PTL DEF Spec
===============================================================================

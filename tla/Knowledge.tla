------------------------------ MODULE Knowledge ------------------------------
(***************************************************************************)
(* What the resident graph is meant to be: a set of nodes, never more than *)
(* MaxNodes, and the edges among them.  Learning an edge brings in its two *)
(* nodes; nodes leave only for want of room, and an edge leaves only with  *)
(* one of its nodes.  A process that ends forgets everything.              *)
(***************************************************************************)
EXTENDS Integers, FiniteSets

CONSTANTS Edges, MaxNodes

VARIABLES nodes, edges

vars == <<nodes, edges>>

Ends(e) == {e.subject, e.object}

Init == nodes = {} /\ edges = {}

Learn(e) ==
    LET all == nodes \cup Ends(e) IN
    /\ nodes' \in SUBSET all
    /\ IF Cardinality(all) <= MaxNodes
       THEN nodes' = all
       ELSE Cardinality(nodes') = MaxNodes
    /\ MaxNodes >= 2 => Ends(e) \subseteq nodes'
    /\ edges' = {f \in edges \cup {e} : Ends(f) \subseteq nodes'}

Forget == nodes' = {} /\ edges' = {}

Next == (\E e \in Edges : Learn(e)) \/ Forget

Spec == Init /\ [][Next]_vars
=============================================================================

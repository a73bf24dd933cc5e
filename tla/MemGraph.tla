------------------------------- MODULE MemGraph -------------------------------
(***************************************************************************)
(* The resident triple store of src/app/services/memgraph.py, as operators *)
(* on a value of the class InMemoryGraph: an ordered dictionary of nodes,  *)
(* least recently used first, each with the list of its outgoing and the   *)
(* list of its incoming edges.                                             *)
(*                                                                         *)
(* A node stands for a canonical key: the labels that _canon maps to it    *)
(* are not told apart, so an edge from a node to itself is one between two *)
(* spellings of a name.  Provenance is left out.  A line that add_edge     *)
(* rejects (an empty field, the same label twice) changes nothing.         *)
(***************************************************************************)
EXTENDS Lists, SequencesExt

CONSTANTS
    Key,        \* canonical node keys
    Predicate,  \* predicates
    MaxNodes,   \* settings.memgraph_max_nodes
    MaxHops     \* max_hops of path

ASSUME GraphAssumption ==
    /\ MaxNodes \in Nat
    /\ MaxHops \in Nat

Edge == [subject : Key, predicate : Predicate, object : Key]

EmptyGraph ==
    [lru |-> <<>>, out |-> [k \in Key |-> <<>>], in |-> [k \in Key |-> <<>>]]

Resident(g) == ToSet(g.lru)

EdgesOf(g) == UNION {ToSet(g.out[k]) : k \in Resident(g)}

-----------------------------------------------------------------------------
(***************************************************************************)
(* Writes.                                                                 *)
(***************************************************************************)

FaultyUse(g, k) == [g EXCEPT !.lru = Append(@, k)]

Use(g, k) == [g EXCEPT !.lru = Append(Keep(@, Key \ {k}), k)]

\* _touch: nothing for a node that is not resident.
Touch(g, k) == IF k \in Resident(g) THEN Use(g, k) ELSE g

\* _node: the node is created if need be, and used.
Node(g, k) == Use(g, k)

FaultyKnows(g, e) == \E f \in ToSet(g.out[e.subject]) : f.predicate = e.predicate

Knows(g, e) ==
    \E f \in ToSet(g.out[e.subject]) : f.predicate = e.predicate /\ f.object = e.object

FaultyEvictOldest(g) ==
    LET k == Head(g.lru) IN
    [lru |-> Tail(g.lru),
     out |-> [n \in Key |-> IF n = k THEN <<>> ELSE g.out[n]],
     in  |-> [n \in Key |->
                IF n = k THEN <<>>
                ELSE Keep(g.in[n], {e \in Edge : e.subject # k})]]

\* One round of _evict: the least recently used node goes, and its neighbours
\* forget the edges they shared with it.
EvictOldest(g) ==
    LET k == Head(g.lru)
        targets == {e.object : e \in ToSet(g.out[k])}
        sources == {e.subject : e \in ToSet(g.in[k])} IN
    [lru |-> Tail(g.lru),
     out |-> [n \in Key |->
                IF n = k THEN <<>>
                ELSE IF n \in sources THEN Keep(g.out[n], {e \in Edge : e.object # k})
                ELSE g.out[n]],
     in  |-> [n \in Key |->
                IF n = k THEN <<>>
                ELSE IF n \in targets THEN Keep(g.in[n], {e \in Edge : e.subject # k})
                ELSE g.in[n]]]

FaultyEvict(g) == IF Len(g.lru) > MaxNodes THEN EvictOldest(g) ELSE g

\* An edge adds at most two nodes, so _evict goes round at most twice.
Evict(g) ==
    LET once(h) == IF Len(h.lru) > MaxNodes THEN EvictOldest(h) ELSE h
    IN  once(once(g))

AddEdge(g, e) ==
    LET s == Node(g, e.subject)
        o == Node(s, e.object) IN
    IF Knows(s, e) THEN s
    ELSE Evict([o EXCEPT !.out[e.subject] = Append(@, e),
                         !.in[e.object] = Append(@, e)])

\* The edge that a line of three tokens states.
Stated(line) == [subject |-> line[1], predicate |-> line[2], object |-> line[3]]

FaultyPromote(g, line) ==
    IF Len(line) >= 3 /\ line[2] \in Predicate /\ line[Len(line)] \in Key
    THEN AddEdge(g, [subject |-> line[1], predicate |-> line[2], object |-> line[Len(line)]])
    ELSE g

\* A line of evidence teaches an edge only if it is exactly three tokens.
Promote(g, line) ==
    IF Len(line) = 3 THEN AddEdge(g, Stated(line)) ELSE g

FaultyDumpEdges(g) == FlattenSeq([i \in 1..(Len(g.lru) - 1) |-> g.out[g.lru[i]]])

\* Every edge, in the order of its subject's last use.
DumpEdges(g) == FlattenSeq([i \in 1..Len(g.lru) |-> g.out[g.lru[i]]])

-----------------------------------------------------------------------------
(***************************************************************************)
(* Reads.                                                                  *)
(***************************************************************************)

EdgesBetween(g, a, b) ==
    Keep(g.out[a], {e \in Edge : e.object = b})
        \o Keep(g.out[b], {e \in Edge : e.object = a})

FaultyAdjacent(g, k) == g.out[k]

\* The edges path walks from a node, either way.
Adjacent(g, k) == g.out[k] \o g.in[k]

Other(e, k) == IF e.subject = k THEN e.object ELSE e.subject

\* One edge of the search: s holds the nodes seen, the next frontier and the
\* trail found.
Visit(s, step, e, goal) ==
    LET k == Other(e, step.key) IN
    IF s.found # <<>> \/ k \in s.seen THEN s
    ELSE IF k = goal THEN [s EXCEPT !.found = Append(step.trail, e)]
    ELSE [s EXCEPT !.seen = @ \cup {k},
                   !.next = Append(@, [key |-> k, trail |-> Append(step.trail, e)])]

\* Every edge of one frontier node.
Expand(g, s, step, goal) ==
    LET edges == Adjacent(g, step.key)
        after[i \in 0..Len(edges)] ==
            IF i = 0 THEN s ELSE Visit(after[i-1], step, edges[i], goal)
    IN  after[Len(edges)]

\* One hop of the breadth-first search: every node of the frontier.
Hop(g, s, goal) ==
    LET after[i \in 0..Len(s.next)] ==
            IF i = 0 THEN [s EXCEPT !.next = <<>>]
            ELSE Expand(g, after[i-1], s.next[i], goal)
    IN  after[Len(s.next)]

\* The search before its first hop.
Origin(a) == [seen |-> {a}, next |-> <<[key |-> a, trail |-> <<>>]>>, found |-> <<>>]

\* The trail path returns from a to b; empty for None.
Path(g, a, b) ==
    LET search[i \in 0..MaxHops] ==
            IF i = 0 THEN Origin(a) ELSE Hop(g, search[i-1], b)
    IN  search[MaxHops].found

=============================================================================

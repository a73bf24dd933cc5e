---------------------------- MODULE ResidentGraph ----------------------------
(***************************************************************************)
(* Tier 0 over the life of the service: the resident graph is seeded,      *)
(* restored and warm-loaded at startup (lifespan in src/app/api/main.py,   *)
(* build_graph, load_snapshot and warm_load_from_cognee in                 *)
(* src/app/services/memgraph.py), answers structural questions             *)
(* (src/app/services/graph_answerer.py), learns from the slow path, and is *)
(* saved at shutdown.  The process may crash at any step.                  *)
(*                                                                         *)
(* Every method of the graph runs to its end on the one event loop, so it  *)
(* is one step; only the save is cut up, by the crash.                     *)
(***************************************************************************)
EXTENDS MemGraph

CONSTANT Sites  \* the services looked at

VARIABLES
    site,      \* what surrounds this service: it never changes
    proc,      \* "down", "loading", "up", "saving"
    todo,      \* edges still to be loaded
    graph,     \* the resident graph
    answer,    \* the last answer Tier 0 gave, until the next step
    tmp,       \* the temporary file of save_snapshot
    snapshot,  \* the snapshot file
    dumped,    \* history: the graph of the last save that completed
    lesson,    \* history: the text promoted by the last step, or none
    alone      \* history: the last start had nothing to load but the snapshot

vars == <<site, proc, todo, graph, answer, tmp, snapshot, dumped, lesson, alone>>

fileVars == <<tmp, snapshot, dumped>>

\* The line that a text of a triplet retrieval becomes:
\* evidence_from_search_results makes it the object of a triplet, and
\* EvidencePacker._extract prints the three fields.
TripletItem(text) == <<"context", "contains">> \o text

\* A site: the edges of the seed file and of Cognee's graph store, in order, the
\* texts the substrate can return for a TRIPLET retrieval, and whether a
\* snapshot path is set.
ASSUME SiteAssumption ==
    \A s \in Sites :
        /\ s.seed \in Seq(Edge) /\ s.store \in Seq(Edge)
        /\ s.persists \in BOOLEAN
        /\ \A t \in s.texts :
              Len(TripletItem(t)) = 3 => Stated(TripletItem(t)) \in Edge

NoAnswer == [pattern |-> "none"]

NoLesson == <<>>

NoFile == [state |-> "absent", edges |-> <<>>]

Init ==
    /\ site \in Sites
    /\ proc = "down"
    /\ todo = <<>>
    /\ graph = EmptyGraph
    /\ answer = NoAnswer
    /\ tmp = NoFile
    /\ snapshot = NoFile
    /\ dumped = EmptyGraph
    /\ lesson = NoLesson
    /\ alone = FALSE

-----------------------------------------------------------------------------
(***************************************************************************)
(* Startup.                                                                *)
(***************************************************************************)

\* A snapshot that is not whole does not parse, and nothing of it is loaded.
SavedEdges == IF snapshot.state = "whole" THEN snapshot.edges ELSE <<>>

\* Seed, snapshot and store, in this order.  The store may be unreachable.
Start ==
    /\ proc = "down"
    /\ proc' = "loading"
    /\ \E store \in {<<>>, site.store} :
          /\ todo' = site.seed \o SavedEdges \o store
          /\ alone' = (site.seed = <<>> /\ store = <<>>)
    /\ UNCHANGED <<site, graph, answer, lesson, fileVars>>

Load ==
    /\ proc = "loading"
    /\ todo # <<>>
    /\ graph' = AddEdge(graph, Head(todo))
    /\ todo' = Tail(todo)
    /\ UNCHANGED <<site, alone, proc, answer, lesson, fileVars>>

Serve ==
    /\ proc = "loading"
    /\ todo = <<>>
    /\ proc' = "up"
    /\ UNCHANGED <<site, alone, todo, graph, answer, lesson, fileVars>>

-----------------------------------------------------------------------------
(***************************************************************************)
(* Learning.                                                               *)
(***************************************************************************)

\* An accepted, live TRIPLET answer is promoted.
Learn(text) ==
    /\ proc = "up"
    /\ graph' = Promote(graph, TripletItem(text))
    /\ answer' = NoAnswer
    /\ lesson' = text
    /\ UNCHANGED <<site, alone, proc, todo, fileVars>>

-----------------------------------------------------------------------------
(***************************************************************************)
(* Answering.  resolve touches both entities, then every read touches them *)
(* again, in the same order; the nodes between them are not touched.       *)
(***************************************************************************)

Answered(g, a) ==
    /\ proc = "up"
    /\ graph' = g
    /\ answer' = a
    /\ lesson' = NoLesson
    /\ UNCHANGED <<site, alone, proc, todo, fileVars>>

TwoEntityAnswer(g, a, b) ==
    LET direct == EdgesBetween(g, a, b)
        trail == Path(g, a, b) IN
    IF {a, b} \ Resident(g) # {} THEN NoAnswer
    ELSE IF direct # <<>>
    THEN [pattern |-> "edge", a |-> a, b |-> b, edges |-> direct]
    ELSE IF trail # <<>>
    THEN [pattern |-> "path", a |-> a, b |-> b, edges |-> trail]
    ELSE [pattern |-> "no_path", a |-> a, b |-> b, edges |-> <<>>]

AskTwoEntity(a, b) ==
    Answered(Touch(Touch(graph, a), b), TwoEntityAnswer(graph, a, b))

\* An empty neighbourhood is not an answer.
NeighborhoodAnswer(g, k, edges) ==
    IF k \notin Resident(g) \/ edges = <<>> THEN NoAnswer
    ELSE [pattern |-> "neighbors", a |-> k, b |-> k, edges |-> edges]

AskNeighborhood(k) ==
    \E edges \in {graph.in[k], graph.out[k]} :
        Answered(Touch(graph, k), NeighborhoodAnswer(graph, k, edges))

-----------------------------------------------------------------------------
(***************************************************************************)
(* Shutdown: write the temporary file, then rename it over the snapshot.   *)
(***************************************************************************)

Shutdown ==
    /\ proc = "up"
    /\ site.persists
    /\ proc' = "saving"
    /\ tmp' = [state |-> "torn", edges |-> <<>>]
    /\ answer' = NoAnswer
    /\ lesson' = NoLesson
    /\ UNCHANGED <<site, alone, todo, graph, snapshot, dumped>>

WriteTmp ==
    /\ proc = "saving"
    /\ tmp.state = "torn"
    /\ tmp' = [state |-> "whole", edges |-> DumpEdges(graph)]
    /\ UNCHANGED <<site, alone, proc, todo, graph, answer, snapshot, dumped, lesson>>

FaultyReplace ==
    /\ proc = "saving"
    /\ proc' = "down"
    /\ snapshot' = tmp
    /\ tmp' = NoFile
    /\ dumped' = graph
    /\ graph' = EmptyGraph
    /\ UNCHANGED <<site, alone, todo, answer, lesson>>

Replace ==
    /\ proc = "saving"
    /\ tmp.state = "whole"
    /\ proc' = "down"
    /\ snapshot' = tmp
    /\ tmp' = NoFile
    /\ dumped' = graph
    /\ graph' = EmptyGraph
    /\ UNCHANGED <<site, alone, todo, answer, lesson>>

\* The process dies, or ends without saving (no snapshot path, or a save that
\* raised and was only logged): what was written stays where it is, and the
\* graph is gone.
Stop ==
    /\ proc # "down"
    /\ proc' = "down"
    /\ todo' = <<>>
    /\ graph' = EmptyGraph
    /\ answer' = NoAnswer
    /\ lesson' = NoLesson
    /\ UNCHANGED <<site, alone, fileVars>>

Next ==
    \/ Start \/ Load \/ Serve
    \/ \E text \in site.texts : Learn(text)
    \/ \E a, b \in Key : AskTwoEntity(a, b)
    \/ \E k \in Key : AskNeighborhood(k)
    \/ Shutdown \/ WriteTmp \/ Replace
    \/ Stop

Spec == Init /\ [][Next]_vars
-----------------------------------------------------------------------------
(***************************************************************************)
(* Properties.                                                             *)
(***************************************************************************)

\* Each variable has its type; a node is in the eviction order once.
TypeOK ==
    /\ site \in Sites
    /\ proc \in {"down", "loading", "up", "saving"}
    /\ todo \in Seq(Edge)
    /\ IsInjective(graph.lru) /\ Resident(graph) \subseteq Key
    /\ \A k \in Key : graph.out[k] \in Seq(Edge) /\ graph.in[k] \in Seq(Edge)
    /\ answer.pattern \in {"none", "edge", "path", "no_path", "neighbors"}
    /\ {tmp.state, snapshot.state} \subseteq {"absent", "torn", "whole"}

\* Both lists of every node hold what the lists at the other ends hold.
Agree(g) ==
    \A k \in Key :
        /\ IsInjective(g.out[k]) /\ IsInjective(g.in[k])
        /\ \A e \in ToSet(g.out[k]) :
               e.subject = k /\ k \in Resident(g) /\ e \in ToSet(g.in[e.object])
        /\ \A e \in ToSet(g.in[k]) :
               e.object = k /\ k \in Resident(g) /\ e \in ToSet(g.out[e.subject])

\* The two adjacency lists of the graph agree, hold no edge twice and point at
\* no evicted node, through every interleaving of promotion and eviction: what
\* neighbors_in and neighbors_out say of an edge is the same.
AdjacencyAgrees == Agree(graph)

\* The nodes within n edges of a, taken either way.
Within(g, a, n) ==
    LET reach[i \in 0..n] ==
            IF i = 0 THEN {a}
            ELSE reach[i-1] \cup {e.object : e \in {f \in EdgesOf(g) : f.subject \in reach[i-1]}}
                            \cup {e.subject : e \in {f \in EdgesOf(g) : f.object \in reach[i-1]}}
    IN  reach[n]

\* A trail leads from a to b: each edge continues from where the last one led.
LeadsTo(trail, a, b) ==
    LET at[i \in 0..Len(trail)] == IF i = 0 THEN a ELSE Other(trail[i], at[i-1])
    IN  /\ \A i \in 1..Len(trail) : at[i-1] \in {trail[i].subject, trail[i].object}
        /\ at[Len(trail)] = b

\* What Tier 0 answers is so: cited edges are resident and link what was asked
\* about, a path is a shortest one, and "no connection" is said only when there
\* is none within max_hops.
AnswersAreSound ==
    /\ answer.pattern # "none" => ToSet(answer.edges) \subseteq EdgesOf(graph)
    /\ answer.pattern = "edge" =>
          answer.edges # <<>>
          /\ \A e \in ToSet(answer.edges) : {e.subject, e.object} = {answer.a, answer.b}
    /\ answer.pattern = "path" =>
          /\ LeadsTo(answer.edges, answer.a, answer.b)
          /\ Len(answer.edges) \in 2..MaxHops
          /\ answer.b \notin Within(graph, answer.a, Len(answer.edges) - 1)
    /\ answer.pattern = "no_path" /\ answer.a # answer.b =>
          answer.b \notin Within(graph, answer.a, MaxHops)
    /\ answer.pattern = "neighbors" =>
          answer.edges # <<>>
          /\ \A e \in ToSet(answer.edges) : answer.a \in {e.subject, e.object}

\* The rows of the seed file and of the store, and the lines of evidence of
\* three tokens, each read as the edge it states.
Sources ==
    ToSet(site.seed) \cup ToSet(site.store)
        \cup {Stated(t) : t \in {u \in {TripletItem(v) : v \in site.texts} : Len(u) = 3}}

\* Every edge is a whole row or a whole line: promote never takes a part of a
\* longer line for an edge, and nothing else enters by way of a snapshot.
EdgesWereStated == EdgesOf(graph) \subseteq Sources

\* A crash at any point of a save leaves a snapshot that can be loaded.
SnapshotIsNeverTorn == snapshot.state # "torn"

\* A restart with no seed file, whose store is empty or out of reach, restores
\* exactly the edges last saved, wherever they had come from.
RestartRestores ==
    proc = "loading" /\ todo = <<>> /\ alone => EdgesOf(graph) = EdgesOf(dumped)

\* A line that promote took is citable at once: whatever _evict had to make
\* room for, Tier 0 answers a question about its two ends with the edge.
PromotionIsAnswered ==
    Len(TripletItem(lesson)) = 3 /\ MaxNodes >= 2 =>
        LET taught == Stated(TripletItem(lesson))
            reply == TwoEntityAnswer(graph, taught.subject, taught.object) IN
        reply.pattern = "edge" /\ taught \in ToSet(reply.edges)

Abstract == INSTANCE Knowledge WITH
                Edges <- Edge, nodes <- Resident(graph), edges <- EdgesOf(graph)

\* The lists, orders and evictions of the code amount to a bounded set of
\* nodes and the edges among them.
ImplementsKnowledge == Abstract!Spec

-----------------------------------------------------------------------------
(***************************************************************************)
(* What the documents say of Tier 0 and the code does not do.              *)
(***************************************************************************)

\* A live triplet that states an edge leaves the edge in the graph, so the
\* next question about it is answered by Tier 0.
SlowPathTeaches ==
    Len(lesson) = 3 /\ MaxNodes >= 2 => Stated(lesson) \in EdgesOf(graph)

\* The chain of nodes a path answer prints.
Chain(trail) == <<trail[1].subject>> \o [i \in 1..Len(trail) |-> trail[i].object]

\* Each link of a printed chain is an edge of the graph.
ChainIsGrounded ==
    answer.pattern = "path" =>
        LET chain == Chain(answer.edges) IN
        \A i \in 1..(Len(chain) - 1) :
            \E e \in EdgesOf(graph) : {e.subject, e.object} = {chain[i], chain[i+1]}
=============================================================================

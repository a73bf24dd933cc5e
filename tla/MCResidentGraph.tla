--------------------------- MODULE MCResidentGraph ---------------------------
(***************************************************************************)
(* ResidentGraph on small graphs.                                          *)
(***************************************************************************)
EXTENDS ResidentGraph

Arrow(a, b) == [subject |-> a, predicate |-> "uses", object |-> b]

Nothing == <<>>

\* Edges that fill the graph.
MCSeed == <<Arrow("c", "d"), Arrow("e", "f")>>

\* An edge that costs two of its nodes, another into the same node, and one
\* between two spellings of a name.
MCStore == <<Arrow("a", "b"), Arrow("c", "b"), Arrow("c", "c")>>

\* Texts of one word, which become lines of three, and a triplet, which becomes
\* one of five.
MCTexts == {<<"b">>, <<"e">>, <<"d", "uses", "a">>}

\* A seed file and a store to warm-load from, no snapshot, and more names than
\* there is room for.
Crowded == [seed |-> MCSeed, store |-> MCStore,
            texts |-> MCTexts, persists |-> FALSE]

\* A service that lives off its snapshot whenever its store is out of reach.
Restarting == [seed |-> Nothing, store |-> <<Arrow("a", "b"), Arrow("b", "a")>>,
               texts |-> {<<"b">>}, persists |-> TRUE]

MCSites == {Crowded, Restarting}

CrowdedOnly == {Crowded}

\* The same, with nothing to learn.
Untaught == {[Crowded EXCEPT !.texts = {}]}
=============================================================================

------------------------- MODULE ResidentGraphProofs -------------------------
(***************************************************************************)
(* What is proved about ResidentGraph, for every graph, every site and     *)
(* every size: first what the operators of MemGraph keep true of a graph,  *)
(* then the invariant IInv and what follows from it, the refinement of     *)
(* Knowledge, and last that the breadth-first search finds a shortest      *)
(* path.                                                                   *)
(***************************************************************************)
EXTENDS ResidentGraph, ListLemmas

GraphType ==
    [lru : Seq(Key), out : [Key -> Seq(Edge)], in : [Key -> Seq(Edge)]]

\* A graph whose eviction order holds no node twice and whose lists agree.
GraphOK(g) ==
    /\ g \in GraphType
    /\ IsInjective(g.lru)
    /\ Agree(g)

-----------------------------------------------------------------------------
(***************************************************************************)
(* The operators of MemGraph.                                              *)
(***************************************************************************)

\* The parts of a graph and of an edge have their types.
LEMMA Parts ==
    ASSUME NEW g, GraphOK(g)
    PROVE  /\ g.lru \in Seq(Key) /\ Resident(g) \subseteq Key
           /\ \A k \in Key :
                 /\ g.out[k] \in Seq(Edge) /\ ToSet(g.out[k]) \subseteq Edge
                 /\ g.in[k] \in Seq(Edge) /\ ToSet(g.in[k]) \subseteq Edge
<1>1. g.lru \in Seq(Key) /\ g.out \in [Key -> Seq(Edge)] /\ g.in \in [Key -> Seq(Edge)]
  BY DEF GraphOK, GraphType
<1>2. Resident(g) \subseteq Key
  BY <1>1, ElementsTyped DEF Resident
<1>3. ASSUME NEW k \in Key
      PROVE  /\ g.out[k] \in Seq(Edge) /\ ToSet(g.out[k]) \subseteq Edge
             /\ g.in[k] \in Seq(Edge) /\ ToSet(g.in[k]) \subseteq Edge
  BY <1>1, ElementsTyped
<1> QED BY <1>1, <1>2, <1>3

\* The ends of an edge are nodes, and its three fields are all there is to it.
LEMMA EdgeParts ==
    /\ \A e \in Edge : e.subject \in Key /\ e.object \in Key
    /\ \A e, f \in Edge :
          e.subject = f.subject /\ e.predicate = f.predicate /\ e.object = f.object => e = f
BY DEF Edge

\* An edge is in the graph exactly if it is in the outgoing list of its subject,
\* and then in the incoming list of its object; both ends are resident.
LEMMA InGraph ==
    ASSUME NEW g, GraphOK(g), NEW e
    PROVE  /\ e \in EdgesOf(g) <=> e \in Edge /\ e \in ToSet(g.out[e.subject])
           /\ e \in EdgesOf(g) <=> e \in Edge /\ e \in ToSet(g.in[e.object])
           /\ e \in EdgesOf(g) => e.subject \in Resident(g) /\ e.object \in Resident(g)
<1>1. \A k \in Key :
        /\ \A f \in ToSet(g.out[k]) :
               f \in Edge /\ f.subject = k /\ k \in Resident(g) /\ f \in ToSet(g.in[f.object])
        /\ \A f \in ToSet(g.in[k]) :
               f \in Edge /\ f.object = k /\ k \in Resident(g) /\ f \in ToSet(g.out[f.subject])
  BY Parts DEF GraphOK, Agree
<1>2. Resident(g) \subseteq Key
  BY Parts
<1>3. e \in EdgesOf(g) <=> \E k \in Resident(g) : e \in ToSet(g.out[k])
  BY DEF EdgesOf
<1>4. e \in EdgesOf(g) => e \in Edge /\ e \in ToSet(g.out[e.subject])
  BY <1>1, <1>2, <1>3
<1>5. e \in Edge /\ e \in ToSet(g.out[e.subject])
        => e \in EdgesOf(g) /\ e \in ToSet(g.in[e.object])
           /\ e.subject \in Resident(g) /\ e.object \in Resident(g)
  BY <1>1, <1>3, EdgeParts
<1>6. e \in Edge /\ e \in ToSet(g.in[e.object]) => e \in ToSet(g.out[e.subject])
  BY <1>1, EdgeParts
<1> QED BY <1>4, <1>5, <1>6

\* k ends the eviction order, or is one of the last two.
Newest(g, k) == g.lru # <<>> /\ g.lru[Len(g.lru)] = k

Late(g, k) == \E i \in 1..Len(g.lru) : i > Len(g.lru) - 2 /\ g.lru[i] = k

\* Using a node makes it resident and the last to go, and changes nothing else.
LEMMA UseWorks ==
    ASSUME NEW g, GraphOK(g), NEW k \in Key
    PROVE  /\ GraphOK(Use(g, k))
           /\ Use(g, k).out = g.out /\ Use(g, k).in = g.in
           /\ Resident(Use(g, k)) = Resident(g) \cup {k}
           /\ EdgesOf(Use(g, k)) = EdgesOf(g)
           /\ Len(Use(g, k).lru) <= Len(g.lru) + 1
           /\ Newest(Use(g, k), k) /\ Late(Use(g, k), k)
           /\ \A l \in Key : Newest(g, l) => Late(Use(g, k), l)
<1> DEFINE h == Use(g, k)
           kept == Keep(g.lru, Key \ {k})
<1>1. h = [g EXCEPT !.lru = Append(kept, k)]
  BY DEF Use
<1>2. g \in GraphType /\ g.lru \in Seq(Key) /\ IsInjective(g.lru) /\ Agree(g)
  BY Parts DEF GraphOK
<1>3. kept \in Seq(Key) /\ Len(kept) <= Len(g.lru) /\ ToSet(kept) = ToSet(g.lru) \cap (Key \ {k}) /\ IsInjective(kept)
  BY <1>2, KeepProperties
<1>4. ToSet(g.lru) \subseteq Key
  BY <1>2, ElementsTyped
<1> HIDE DEF kept, h
<1>5. /\ Append(kept, k) \in Seq(Key) /\ Append(kept, k) # <<>>
      /\ Append(kept, k)[Len(Append(kept, k))] = k
  BY <1>3, AppendProperties
<1>6. h \in GraphType /\ h.lru = Append(kept, k) /\ h.out = g.out /\ h.in = g.in
  BY <1>1, <1>2, <1>5 DEF GraphType
<1>7. IsInjective(h.lru) /\ Resident(h) = Resident(g) \cup {k}
  BY <1>3, <1>4, <1>6, AppendSet, InjectiveAppend DEF Resident
<1>8. Agree(h)
  BY <1>2, <1>6, <1>7 DEF Agree
<1>9. GraphOK(h)
  BY <1>6, <1>7, <1>8 DEF GraphOK
<1>10. EdgesOf(h) = EdgesOf(g)
  <2>1. ASSUME NEW e PROVE e \in EdgesOf(h) <=> e \in EdgesOf(g)
    BY <1>6, <1>9, InGraph
  <2> QED BY <2>1
<1>11. Newest(h, k) /\ Late(h, k) /\ Len(h.lru) <= Len(g.lru) + 1
  <2>1. Len(h.lru) = Len(kept) + 1 /\ Len(kept) \in Nat /\ Len(g.lru) \in Nat
    BY <1>2, <1>3, <1>6, AppendProperties, LenProperties
  <2>2. h.lru # <<>> /\ h.lru[Len(h.lru)] = k
    BY <1>5, <1>6
  <2>3. Len(h.lru) \in 1..Len(h.lru) /\ Len(h.lru) > Len(h.lru) - 2
    BY <2>1
  <2> QED BY <1>3, <2>1, <2>2, <2>3 DEF Newest, Late
<1>12. ASSUME NEW l \in Key, Newest(g, l) PROVE Late(h, l)
  <2>1. CASE l = k
    BY <1>11, <2>1
  <2>2. CASE l # k
    <3>1. kept # <<>> /\ kept[Len(kept)] = l
      <4>1. g.lru # <<>> /\ g.lru[Len(g.lru)] \in Key \ {k}
        BY <1>12, <2>2 DEF Newest
      <4> QED BY <1>2, <1>12, <4>1, KeepLast DEF kept, Newest
    <3>2. Len(kept) \in Nat \ {0} /\ Len(h.lru) = Len(kept) + 1 /\ h.lru[Len(kept)] = l
      BY <1>3, <1>6, <3>1, AppendProperties, EmptySeq
    <3>3. Len(kept) \in 1..Len(h.lru) /\ Len(kept) > Len(h.lru) - 2
      BY <3>2
    <3> QED BY <3>2, <3>3 DEF Late
  <2> QED BY <2>1, <2>2
<1> QED BY <1>6, <1>7, <1>9, <1>10, <1>11, <1>12 DEF h

\* Touching a resident node uses it; otherwise nothing happens.
LEMMA TouchWorks ==
    ASSUME NEW g, GraphOK(g), NEW k \in Key
    PROVE  /\ GraphOK(Touch(g, k))
           /\ Touch(g, k).out = g.out /\ Touch(g, k).in = g.in
           /\ Resident(Touch(g, k)) = Resident(g)
           /\ EdgesOf(Touch(g, k)) = EdgesOf(g)
<1>1. CASE k \in Resident(g)
  <2>1. Touch(g, k) = Use(g, k)
    BY <1>1 DEF Touch
  <2>2. Resident(g) \cup {k} = Resident(g)
    BY <1>1
  <2> QED BY <2>1, <2>2, UseWorks
<1>2. CASE k \notin Resident(g)
  <2>1. Touch(g, k) = g
    BY <1>2 DEF Touch
  <2> QED BY <2>1
<1> QED BY <1>1, <1>2

\* One round of _evict takes the oldest node and the edges it shared, and
\* nothing else: what neighbours keep is exactly the rest.
LEMMA EvictOldestWorks ==
    ASSUME NEW g, GraphOK(g), g.lru # <<>>
    PROVE  LET h == EvictOldest(g)
               k == Head(g.lru) IN
           /\ GraphOK(h)
           /\ h.lru = Tail(g.lru)
           /\ Len(h.lru) = Len(g.lru) - 1
           /\ Resident(h) = Resident(g) \ {k}
           /\ EdgesOf(h) = {e \in EdgesOf(g) : e.subject # k /\ e.object # k}
<1> DEFINE h == EvictOldest(g)
           k == Head(g.lru)
           away == {e \in Edge : e.object # k}
           from == {e \in Edge : e.subject # k}
           targets == {e.object : e \in ToSet(g.out[k])}
           sources == {e.subject : e \in ToSet(g.in[k])}
<1>1. /\ h.lru = Tail(g.lru)
      /\ h.out = [n \in Key |-> IF n = k THEN <<>>
                                ELSE IF n \in sources THEN Keep(g.out[n], away) ELSE g.out[n]]
      /\ h.in = [n \in Key |-> IF n = k THEN <<>>
                               ELSE IF n \in targets THEN Keep(g.in[n], from) ELSE g.in[n]]
      /\ h = [lru |-> h.lru, out |-> h.out, in |-> h.in]
  BY DEF EvictOldest
<1>2. /\ g.lru \in Seq(Key) /\ Resident(g) \subseteq Key /\ IsInjective(g.lru)
      /\ \A n \in Key : /\ g.out[n] \in Seq(Edge) /\ ToSet(g.out[n]) \subseteq Edge
                        /\ g.in[n] \in Seq(Edge) /\ ToSet(g.in[n]) \subseteq Edge
  BY Parts DEF GraphOK
<1>3. \A n \in Key :
        /\ IsInjective(g.out[n]) /\ IsInjective(g.in[n])
        /\ \A e \in ToSet(g.out[n]) :
               e.subject = n /\ n \in Resident(g) /\ e \in ToSet(g.in[e.object])
        /\ \A e \in ToSet(g.in[n]) :
               e.object = n /\ n \in Resident(g) /\ e \in ToSet(g.out[e.subject])
  BY DEF GraphOK, Agree
<1>4. k \in Key /\ k \in Resident(g)
  BY <1>2, TailSet DEF Resident
<1>5. /\ Tail(g.lru) \in Seq(Key) /\ Len(Tail(g.lru)) = Len(g.lru) - 1
      /\ IsInjective(Tail(g.lru)) /\ ToSet(Tail(g.lru)) = Resident(g) \ {k}
  BY <1>2, TailSet, InjectiveTail DEF Resident
<1> HIDE DEF h, k
<1>6. ASSUME NEW n \in Key
      PROVE  /\ h.out[n] \in Seq(Edge) /\ IsInjective(h.out[n])
             /\ ToSet(h.out[n]) = {e \in ToSet(g.out[n]) : e.subject # k /\ e.object # k}
  <2>1. CASE n = k
    BY <1>1, <1>3, <2>1, NothingInEmpty
  <2>2. CASE n # k /\ n \in sources
    <3>1. h.out[n] = Keep(g.out[n], away)
      BY <1>1, <2>2
    <3> QED BY <1>2, <1>3, <2>2, <3>1, KeepProperties
  <2>3. CASE n # k /\ n \notin sources
    <3>1. h.out[n] = g.out[n]
      BY <1>1, <2>3
    <3>2. \A e \in ToSet(g.out[n]) : e.object # k
      BY <1>3, <2>3
    <3> QED BY <1>2, <1>3, <2>3, <3>1, <3>2
  <2> QED BY <2>1, <2>2, <2>3
<1>7. ASSUME NEW n \in Key
      PROVE  /\ h.in[n] \in Seq(Edge) /\ IsInjective(h.in[n])
             /\ ToSet(h.in[n]) = {e \in ToSet(g.in[n]) : e.subject # k /\ e.object # k}
  <2>1. CASE n = k
    BY <1>1, <1>3, <2>1, NothingInEmpty
  <2>2. CASE n # k /\ n \in targets
    <3>1. h.in[n] = Keep(g.in[n], from)
      BY <1>1, <2>2
    <3> QED BY <1>2, <1>3, <2>2, <3>1, KeepProperties
  <2>3. CASE n # k /\ n \notin targets
    <3>1. h.in[n] = g.in[n]
      BY <1>1, <2>3
    <3>2. \A e \in ToSet(g.in[n]) : e.subject # k
      BY <1>3, <2>3
    <3> QED BY <1>2, <1>3, <2>3, <3>1, <3>2
  <2> QED BY <2>1, <2>2, <2>3
<1>8. h \in GraphType
  <2>1. h.out \in [Key -> Seq(Edge)] /\ h.in \in [Key -> Seq(Edge)]
    BY <1>1, <1>6, <1>7
  <2> QED BY <1>1, <1>5, <2>1 DEF GraphType
<1>9. Resident(h) = Resident(g) \ {k}
  BY <1>1, <1>5 DEF Resident
<1>10. Agree(h)
  <2>1. ASSUME NEW n \in Key, NEW e \in ToSet(h.out[n])
        PROVE  e.subject = n /\ n \in Resident(h) /\ e \in ToSet(h.in[e.object])
    <3>1. e \in ToSet(g.out[n]) /\ e.subject # k /\ e.object # k /\ e \in Edge
      BY <1>2, <1>6, <2>1
    <3>2. e.object \in Key
      BY <3>1, EdgeParts
    <3> QED BY <1>3, <1>7, <1>9, <3>1, <3>2
  <2>2. ASSUME NEW n \in Key, NEW e \in ToSet(h.in[n])
        PROVE  e.object = n /\ n \in Resident(h) /\ e \in ToSet(h.out[e.subject])
    <3>1. e \in ToSet(g.in[n]) /\ e.subject # k /\ e.object # k /\ e \in Edge
      BY <1>2, <1>7, <2>2
    <3>2. e.subject \in Key
      BY <3>1, EdgeParts
    <3> QED BY <1>3, <1>6, <1>9, <3>1, <3>2
  <2> QED BY <1>6, <1>7, <2>1, <2>2 DEF Agree
<1>11. GraphOK(h)
  BY <1>1, <1>5, <1>8, <1>10 DEF GraphOK
<1>12. EdgesOf(h) = {e \in EdgesOf(g) : e.subject # k /\ e.object # k}
  <2>1. ASSUME NEW e
        PROVE  e \in EdgesOf(h) <=> e \in EdgesOf(g) /\ e.subject # k /\ e.object # k
    <3>1. e \in EdgesOf(h) <=> e \in Edge /\ e \in ToSet(h.out[e.subject])
      BY <1>11, InGraph
    <3>2. e \in EdgesOf(g) <=> e \in Edge /\ e \in ToSet(g.out[e.subject])
      BY InGraph
    <3>3. e \in Edge => e.subject \in Key
      BY EdgeParts
    <3> QED BY <1>6, <3>1, <3>2, <3>3
  <2> QED BY <2>1
<1> QED BY <1>1, <1>5, <1>9, <1>11, <1>12 DEF h, k

\* Appending an edge that is not there to both lists puts it in the graph.
LEMMA LinkWorks ==
    ASSUME NEW g, GraphOK(g), NEW e \in Edge, e \notin EdgesOf(g),
           e.subject \in Resident(g), e.object \in Resident(g)
    PROVE  LET h == [g EXCEPT !.out[e.subject] = Append(@, e),
                              !.in[e.object] = Append(@, e)] IN
           /\ GraphOK(h) /\ h.lru = g.lru
           /\ Resident(h) = Resident(g)
           /\ EdgesOf(h) = EdgesOf(g) \cup {e}
<1> DEFINE h == [g EXCEPT !.out[e.subject] = Append(@, e),
                          !.in[e.object] = Append(@, e)]
           s == e.subject
           o == e.object
<1>1. s \in Key /\ o \in Key
  BY EdgeParts
<1>2. g \in GraphType /\ IsInjective(g.lru) /\ g.lru \in Seq(Key)
      /\ g.out \in [Key -> Seq(Edge)] /\ g.in \in [Key -> Seq(Edge)]
  BY DEF GraphOK, GraphType
<1>3. /\ h.lru = g.lru
      /\ h.out = [g.out EXCEPT ![s] = Append(@, e)]
      /\ h.in = [g.in EXCEPT ![o] = Append(@, e)]
      /\ h = [lru |-> h.lru, out |-> h.out, in |-> h.in]
  <2>1. g = [lru |-> g.lru, out |-> g.out, in |-> g.in]
    BY <1>2 DEF GraphType
  <2>2. h.lru = g.lru
    BY <2>1
  <2>3. h.out = [g.out EXCEPT ![s] = Append(@, e)]
    BY <2>1
  <2>4. h.in = [g.in EXCEPT ![o] = Append(@, e)]
    BY <2>1
  <2> DEFINE A == {h.lru}
             B == {h.out}
             C == {h.in}
  <2>5. h \in [lru : A, out : B, in : C]
    <3>1. g.lru \in A /\ [g.out EXCEPT ![s] = Append(@, e)] \in B
          /\ [g.in EXCEPT ![o] = Append(@, e)] \in C
      BY <2>2, <2>3, <2>4
    <3> HIDE DEF A, B, C
    <3> QED BY <2>1, <3>1
  <2>6. h = [lru |-> h.lru, out |-> h.out, in |-> h.in]
    <3> HIDE DEF h
    <3> QED BY <2>5
  <2> QED BY <2>2, <2>3, <2>4, <2>6
<1>4. \A n \in Key :
        /\ IsInjective(g.out[n]) /\ IsInjective(g.in[n])
        /\ \A f \in ToSet(g.out[n]) :
               f.subject = n /\ n \in Resident(g) /\ f \in ToSet(g.in[f.object])
        /\ \A f \in ToSet(g.in[n]) :
               f.object = n /\ n \in Resident(g) /\ f \in ToSet(g.out[f.subject])
  BY DEF GraphOK, Agree
<1>5. e \notin ToSet(g.out[s]) /\ e \notin ToSet(g.in[o])
  BY InGraph
<1> HIDE DEF h
<1>6. ASSUME NEW n \in Key
      PROVE  /\ h.out[n] \in Seq(Edge) /\ IsInjective(h.out[n])
             /\ ToSet(h.out[n]) = ToSet(g.out[n]) \cup (IF n = s THEN {e} ELSE {})
  <2>1. CASE n = s
    <3>1. h.out[n] = Append(g.out[n], e) /\ g.out[n] \in Seq(Edge)
      BY <1>2, <1>3, <2>1
    <3> QED BY <1>4, <1>5, <2>1, <3>1, AppendSet, InjectiveAppend
  <2>2. CASE n # s
    <3>1. h.out[n] = g.out[n] /\ g.out[n] \in Seq(Edge)
      BY <1>2, <1>3, <2>2
    <3> QED BY <1>4, <2>2, <3>1
  <2> QED BY <2>1, <2>2
<1>7. ASSUME NEW n \in Key
      PROVE  /\ h.in[n] \in Seq(Edge) /\ IsInjective(h.in[n])
             /\ ToSet(h.in[n]) = ToSet(g.in[n]) \cup (IF n = o THEN {e} ELSE {})
  <2>1. CASE n = o
    <3>1. h.in[n] = Append(g.in[n], e) /\ g.in[n] \in Seq(Edge)
      BY <1>2, <1>3, <2>1
    <3> QED BY <1>4, <1>5, <2>1, <3>1, AppendSet, InjectiveAppend
  <2>2. CASE n # o
    <3>1. h.in[n] = g.in[n] /\ g.in[n] \in Seq(Edge)
      BY <1>2, <1>3, <2>2
    <3> QED BY <1>4, <2>2, <3>1
  <2> QED BY <2>1, <2>2
<1>8. Resident(h) = Resident(g)
  BY <1>3 DEF Resident
<1>9. h \in GraphType
  <2>1. h.out \in [Key -> Seq(Edge)] /\ h.in \in [Key -> Seq(Edge)]
    BY <1>2, <1>3, <1>6, <1>7
  <2> QED BY <1>2, <1>3, <2>1 DEF GraphType
<1>10. Agree(h)
  <2>1. ASSUME NEW n \in Key, NEW f \in ToSet(h.out[n])
        PROVE  f.subject = n /\ n \in Resident(h) /\ f \in ToSet(h.in[f.object])
    <3>1. CASE f = e
      <4>1. n = s
        <5>1. CASE f \in ToSet(g.out[n])
          BY <1>4, <3>1, <5>1
        <5>2. CASE f \notin ToSet(g.out[n])
          BY <1>6, <2>1, <5>2
        <5> QED BY <5>1, <5>2
      <4> QED BY <1>1, <1>7, <1>8, <3>1, <4>1
    <3>2. CASE f # e
      <4>1. f \in ToSet(g.out[n])
        BY <1>6, <2>1, <3>2
      <4>2. f \in Edge /\ f.object \in Key
        BY <2>1, <1>6, EdgeParts, ElementsTyped
      <4>3. f.subject = n /\ n \in Resident(g) /\ f \in ToSet(g.in[f.object])
        BY <1>4, <4>1
      <4>4. f \in ToSet(h.in[f.object])
        BY <1>7, <4>2, <4>3
      <4> QED BY <1>8, <4>3, <4>4
    <3> QED BY <3>1, <3>2
  <2>2. ASSUME NEW n \in Key, NEW f \in ToSet(h.in[n])
        PROVE  f.object = n /\ n \in Resident(h) /\ f \in ToSet(h.out[f.subject])
    <3>1. CASE f = e
      <4>1. n = o
        <5>1. CASE f \in ToSet(g.in[n])
          BY <1>4, <3>1, <5>1
        <5>2. CASE f \notin ToSet(g.in[n])
          BY <1>7, <2>2, <5>2
        <5> QED BY <5>1, <5>2
      <4> QED BY <1>1, <1>6, <1>8, <3>1, <4>1
    <3>2. CASE f # e
      <4>1. f \in ToSet(g.in[n])
        BY <1>7, <2>2, <3>2
      <4>2. f \in Edge /\ f.subject \in Key
        BY <2>2, <1>7, EdgeParts, ElementsTyped
      <4>3. f.object = n /\ n \in Resident(g) /\ f \in ToSet(g.out[f.subject])
        BY <1>4, <4>1
      <4>4. f \in ToSet(h.out[f.subject])
        BY <1>6, <4>2, <4>3
      <4> QED BY <1>8, <4>3, <4>4
    <3> QED BY <3>1, <3>2
  <2> QED BY <1>6, <1>7, <2>1, <2>2 DEF Agree
<1>11. GraphOK(h)
  BY <1>2, <1>3, <1>9, <1>10 DEF GraphOK
<1>12. EdgesOf(h) = EdgesOf(g) \cup {e}
  <2>1. ASSUME NEW f PROVE f \in EdgesOf(h) <=> f \in EdgesOf(g) \/ f = e
    <3>1. f \in EdgesOf(h) <=> f \in Edge /\ f \in ToSet(h.out[f.subject])
      BY <1>11, InGraph
    <3>2. f \in EdgesOf(g) <=> f \in Edge /\ f \in ToSet(g.out[f.subject])
      BY InGraph
    <3>3. f \in Edge => f.subject \in Key
      BY EdgeParts
    <3> QED BY <1>6, <3>1, <3>2, <3>3
  <2> QED BY <2>1
<1> QED BY <1>3, <1>8, <1>11, <1>12 DEF h

-----------------------------------------------------------------------------
(***************************************************************************)
(* _evict and add_edge.                                                    *)
(***************************************************************************)

Ends(e) == {e.subject, e.object}

\* One pass of the loop of _evict.
Round(g) == IF Len(g.lru) > MaxNodes THEN EvictOldest(g) ELSE g

\* A pass takes at most the oldest node; the edges that stay are those whose
\* ends stay, and the two last nodes stay where there is room for two.
LEMMA RoundWorks ==
    ASSUME NEW g, GraphOK(g)
    PROVE  LET h == Round(g) IN
           /\ GraphOK(h)
           /\ Len(h.lru) = IF Len(g.lru) > MaxNodes THEN Len(g.lru) - 1 ELSE Len(g.lru)
           /\ Len(g.lru) <= MaxNodes => h = g
           /\ Resident(h) \subseteq Resident(g)
           /\ EdgesOf(h) = {e \in EdgesOf(g) : Ends(e) \subseteq Resident(h)}
           /\ MaxNodes >= 2 => \A k : Late(g, k) => Late(h, k)
<1> DEFINE h == Round(g)
<1>1. MaxNodes \in Nat /\ g.lru \in Seq(Key) /\ Len(g.lru) \in Nat
  BY GraphAssumption, Parts, LenProperties
<1>2. \A e \in EdgesOf(g) : e.subject \in Resident(g) /\ e.object \in Resident(g)
  BY InGraph
<1>3. CASE ~(Len(g.lru) > MaxNodes)
  <2>1. h = g
    BY <1>3 DEF Round
  <2>2. EdgesOf(g) = {e \in EdgesOf(g) : Ends(e) \subseteq Resident(g)}
    BY <1>2 DEF Ends
  <2> QED BY <1>3, <2>1, <2>2
<1>4. CASE Len(g.lru) > MaxNodes
  <2> DEFINE k == Head(g.lru)
  <2>1. h = EvictOldest(g)
    BY <1>4 DEF Round
  <2>2. g.lru # <<>>
    BY <1>1, <1>4
  <2>3. /\ GraphOK(h) /\ h.lru = Tail(g.lru)
        /\ Len(h.lru) = Len(g.lru) - 1
        /\ Resident(h) = Resident(g) \ {k}
        /\ EdgesOf(h) = {e \in EdgesOf(g) : e.subject # k /\ e.object # k}
    BY <2>1, <2>2, EvictOldestWorks
  <2> HIDE DEF h, k
  <2>4. EdgesOf(h) = {e \in EdgesOf(g) : Ends(e) \subseteq Resident(h)}
    BY <1>2, <2>3 DEF Ends
  <2>5. ASSUME MaxNodes >= 2, NEW l, Late(g, l) PROVE Late(h, l)
    <3>1. PICK i \in 1..Len(g.lru) : i > Len(g.lru) - 2 /\ g.lru[i] = l
      BY <2>5 DEF Late
    <3>2. i - 1 \in 1..(Len(g.lru) - 1) /\ (i - 1) + 1 = i /\ i - 1 > Len(h.lru) - 2
      BY <1>1, <1>4, <2>3, <2>5, <3>1
    <3>3. h.lru[i - 1] = l
      BY <1>1, <2>2, <2>3, <3>1, <3>2, TailSet
    <3> QED BY <2>3, <3>2, <3>3 DEF Late
  <2> QED BY <1>1, <1>4, <2>3, <2>4, <2>5 DEF h
<1> QED BY <1>3, <1>4

\* _evict leaves at most max_nodes nodes, and no fewer than it has to.
LEMMA EvictWorks ==
    ASSUME NEW g, GraphOK(g), Len(g.lru) <= MaxNodes + 2
    PROVE  LET h == Evict(g) IN
           /\ GraphOK(h)
           /\ Len(h.lru) = IF Len(g.lru) > MaxNodes THEN MaxNodes ELSE Len(g.lru)
           /\ Len(g.lru) <= MaxNodes => h = g
           /\ Resident(h) \subseteq Resident(g)
           /\ EdgesOf(h) = {e \in EdgesOf(g) : Ends(e) \subseteq Resident(h)}
           /\ MaxNodes >= 2 => \A k : Late(g, k) => k \in Resident(h)
<1> DEFINE m == Round(g)
           h == Round(m)
<1>1. Evict(g) = h
  BY DEF Evict, Round
<1>2. MaxNodes \in Nat /\ Len(g.lru) \in Nat
  BY GraphAssumption, Parts, LenProperties
<1>3. /\ GraphOK(m)
      /\ Len(m.lru) = IF Len(g.lru) > MaxNodes THEN Len(g.lru) - 1 ELSE Len(g.lru)
      /\ Len(g.lru) <= MaxNodes => m = g
      /\ Resident(m) \subseteq Resident(g)
      /\ EdgesOf(m) = {e \in EdgesOf(g) : Ends(e) \subseteq Resident(m)}
      /\ MaxNodes >= 2 => \A k : Late(g, k) => Late(m, k)
  BY RoundWorks
<1> HIDE DEF m
<1>4. /\ GraphOK(h)
      /\ Len(h.lru) = IF Len(m.lru) > MaxNodes THEN Len(m.lru) - 1 ELSE Len(m.lru)
      /\ Len(m.lru) <= MaxNodes => h = m
      /\ Resident(h) \subseteq Resident(m)
      /\ EdgesOf(h) = {e \in EdgesOf(m) : Ends(e) \subseteq Resident(h)}
      /\ MaxNodes >= 2 => \A k : Late(m, k) => Late(h, k)
  BY <1>3, RoundWorks
<1> HIDE DEF h
<1>5. ASSUME MaxNodes >= 2, NEW k, Late(g, k) PROVE k \in Resident(h)
  <2>1. Late(h, k)
    BY <1>3, <1>4, <1>5
  <2>2. h.lru \in Seq(Key)
    BY <1>4, Parts
  <2> QED BY <2>1, <2>2, InSeq DEF Late, Resident
<1>6. EdgesOf(h) = {e \in EdgesOf(g) : Ends(e) \subseteq Resident(h)}
  BY <1>3, <1>4
<1>7. /\ Len(h.lru) = IF Len(g.lru) > MaxNodes THEN MaxNodes ELSE Len(g.lru)
      /\ Len(g.lru) <= MaxNodes => h = g
  BY <1>2, <1>3, <1>4
<1> QED BY <1>1, <1>3, <1>4, <1>5, <1>6, <1>7

\* What is resident is as many as the eviction order is long.
LEMMA Size ==
    ASSUME NEW g, GraphOK(g)
    PROVE  IsFiniteSet(Resident(g)) /\ Cardinality(Resident(g)) = Len(g.lru)
           /\ Len(g.lru) \in Nat
BY Parts, InjectiveSize, LenProperties DEF GraphOK, Resident

\* What add_edge does to the nodes and edges of a graph that fits.
Learned(g, e, h) ==
    LET all == Resident(g) \cup Ends(e) IN
    /\ Resident(h) \subseteq all
    /\ IF Cardinality(all) <= MaxNodes
       THEN Resident(h) = all
       ELSE Cardinality(Resident(h)) = MaxNodes
    /\ MaxNodes >= 2 => Ends(e) \subseteq Resident(h)
    /\ EdgesOf(h) = {f \in EdgesOf(g) \cup {e} : Ends(f) \subseteq Resident(h)}

\* add_edge keeps the lists in agreement and the graph within its bound, and an
\* edge leaves only with one of its ends.
LEMMA AddEdgeWorks ==
    ASSUME NEW g, GraphOK(g), Len(g.lru) <= MaxNodes, NEW e \in Edge
    PROVE  LET h == AddEdge(g, e) IN
           /\ GraphOK(h) /\ Len(h.lru) <= MaxNodes
           /\ Learned(g, e, h)
<1> DEFINE s == Use(g, e.subject)
           o == Use(s, e.object)
           m == [o EXCEPT !.out[e.subject] = Append(@, e), !.in[e.object] = Append(@, e)]
           h == AddEdge(g, e)
           all == Resident(g) \cup Ends(e)
<1>0. MaxNodes \in Nat /\ e.subject \in Key /\ e.object \in Key /\ Len(g.lru) \in Nat
  BY GraphAssumption, EdgeParts, Size
<1>1. h = IF Knows(s, e) THEN s ELSE Evict(m)
  BY DEF AddEdge, Node
<1>2. /\ GraphOK(s) /\ s.out = g.out /\ s.in = g.in
      /\ Resident(s) = Resident(g) \cup {e.subject} /\ EdgesOf(s) = EdgesOf(g)
      /\ Len(s.lru) <= Len(g.lru) + 1 /\ Newest(s, e.subject)
  BY <1>0, UseWorks
<1>3. Len(s.lru) \in Nat
  BY <1>2, Size
<1> HIDE DEF s
<1>4. /\ GraphOK(o) /\ o.out = s.out /\ o.in = s.in
      /\ Resident(o) = Resident(s) \cup {e.object} /\ EdgesOf(o) = EdgesOf(s)
      /\ Len(o.lru) <= Len(s.lru) + 1 /\ Late(o, e.object) /\ Late(o, e.subject)
  BY <1>0, <1>2, UseWorks
<1>5. Len(o.lru) \in Nat
  BY <1>4, Size
<1> HIDE DEF o
<1>6. Knows(s, e) <=> e \in EdgesOf(g)
  <2>1. ASSUME e \in EdgesOf(g) PROVE Knows(s, e)
    BY <1>2, <2>1, InGraph DEF Knows
  <2>2. ASSUME Knows(s, e) PROVE e \in EdgesOf(g)
    <3>1. PICK f \in ToSet(s.out[e.subject]) : f.predicate = e.predicate /\ f.object = e.object
      BY <2>2 DEF Knows
    <3>2. f \in Edge /\ f.subject = e.subject
      BY <1>0, <1>2, <3>1, Parts DEF GraphOK, Agree
    <3>3. f = e
      BY <3>1, <3>2, EdgeParts
    <3> QED BY <1>2, <3>1, <3>3, InGraph
  <2> QED BY <2>1, <2>2
<1>7. CASE Knows(s, e)
  <2>1. h = s /\ e \in EdgesOf(g)
    BY <1>1, <1>6, <1>7
  <2>2. Ends(e) \subseteq Resident(g)
    BY <2>1, InGraph DEF Ends
  <2>3. Resident(s) = Resident(g) /\ all = Resident(g)
    BY <1>2, <2>2 DEF Ends
  <2>4. Len(s.lru) = Len(g.lru) /\ Cardinality(Resident(g)) = Len(g.lru)
    BY <1>2, <2>3, Size
  <2>5. EdgesOf(s) = {f \in EdgesOf(g) \cup {e} : Ends(f) \subseteq Resident(s)}
    <3>1. \A f \in EdgesOf(g) : Ends(f) \subseteq Resident(s)
      BY <2>3, InGraph DEF Ends
    <3> QED BY <1>2, <2>1, <3>1
  <2> HIDE DEF h
  <2>6. Learned(g, e, s)
    BY <2>2, <2>3, <2>4, <2>5 DEF Learned
  <2> QED BY <1>2, <2>1, <2>4, <2>6 DEF h
<1>8. CASE ~ Knows(s, e)
  <2>1. h = Evict(m) /\ e \notin EdgesOf(o)
    BY <1>1, <1>2, <1>4, <1>6, <1>8
  <2>2. /\ GraphOK(m) /\ m.lru = o.lru /\ Resident(m) = Resident(o)
        /\ EdgesOf(m) = EdgesOf(o) \cup {e}
    <3>1. e.subject \in Resident(o) /\ e.object \in Resident(o)
      BY <1>2, <1>4
    <3> QED BY <1>4, <2>1, <3>1, LinkWorks
  <2> HIDE DEF m, h
  <2>3. Len(m.lru) <= MaxNodes + 2 /\ Resident(m) = all
    BY <1>0, <1>2, <1>3, <1>4, <1>5, <2>2 DEF Ends
  <2>4. /\ GraphOK(Evict(m))
        /\ Len(Evict(m).lru) = IF Len(m.lru) > MaxNodes THEN MaxNodes ELSE Len(m.lru)
        /\ Len(m.lru) <= MaxNodes => Evict(m) = m
        /\ Resident(Evict(m)) \subseteq Resident(m)
        /\ EdgesOf(Evict(m)) = {f \in EdgesOf(m) : Ends(f) \subseteq Resident(Evict(m))}
        /\ MaxNodes >= 2 => \A k : Late(m, k) => k \in Resident(Evict(m))
    BY <2>2, <2>3, EvictWorks
  <2>5. Cardinality(all) = Len(m.lru) /\ Cardinality(Resident(h)) = Len(h.lru)
        /\ Len(m.lru) \in Nat
    BY <2>1, <2>2, <2>3, <2>4, Size
  <2>6. MaxNodes >= 2 => Ends(e) \subseteq Resident(h)
    BY <1>4, <2>1, <2>2, <2>4 DEF Ends, Late
  <2>7. EdgesOf(h) = {f \in EdgesOf(g) \cup {e} : Ends(f) \subseteq Resident(h)}
    BY <1>2, <1>4, <2>1, <2>2, <2>4
  <2>8. Resident(h) \subseteq all /\ Len(h.lru) <= MaxNodes
        /\ IF Cardinality(all) <= MaxNodes THEN Resident(h) = all
           ELSE Cardinality(Resident(h)) = MaxNodes
    BY <1>0, <2>1, <2>3, <2>4, <2>5
  <2> HIDE DEF all
  <2>9. Learned(g, e, h)
    BY <2>6, <2>7, <2>8 DEF Learned, all
  <2> QED BY <2>1, <2>4, <2>8, <2>9 DEF h
<1> QED BY <1>7, <1>8

-----------------------------------------------------------------------------
(***************************************************************************)
(* What the actions do to the graph.                                       *)
(***************************************************************************)

\* The empty graph is a graph, and holds nothing.
LEMMA EmptyOK ==
    /\ GraphOK(EmptyGraph) /\ Len(EmptyGraph.lru) = 0
    /\ Resident(EmptyGraph) = {} /\ EdgesOf(EmptyGraph) = {}
<1>1. EmptyGraph.lru = <<>> /\ EmptyGraph.out = [k \in Key |-> <<>>]
      /\ EmptyGraph.in = [k \in Key |-> <<>>]
  BY DEF EmptyGraph
<1>2. EmptyGraph \in GraphType
  BY DEF EmptyGraph, GraphType
<1>3. Resident(EmptyGraph) = {}
  BY <1>1, NothingInEmpty DEF Resident
<1>4. EdgesOf(EmptyGraph) = {}
  BY <1>3 DEF EdgesOf
<1>5. Agree(EmptyGraph) /\ IsInjective(EmptyGraph.lru)
  BY <1>1, NothingInEmpty DEF Agree
<1> QED BY <1>1, <1>2, <1>3, <1>4, <1>5 DEF GraphOK

\* h holds the nodes and edges of g.
Same(g, h) ==
    /\ GraphOK(h) /\ Len(h.lru) = Len(g.lru)
    /\ Resident(h) = Resident(g) /\ EdgesOf(h) = EdgesOf(g)

\* A touch is no more than a change of the eviction order.
LEMMA TouchSame ==
    ASSUME NEW g, GraphOK(g), NEW k \in Key
    PROVE  Same(g, Touch(g, k))
<1> DEFINE h == Touch(g, k)
<1>1. GraphOK(h) /\ Resident(h) = Resident(g) /\ EdgesOf(h) = EdgesOf(g)
  BY TouchWorks
<1> HIDE DEF h
<1>2. Len(h.lru) = Len(g.lru)
  BY <1>1, Size
<1> QED BY <1>1, <1>2 DEF Same, h

\* h is g after one of the lines that the site can teach.
Taught(g, h) ==
    \/ Same(g, h)
    \/ \E e \in Edge \cap Sources : h = AddEdge(g, e)

\* dump_edges writes down exactly the edges of the graph.
LEMMA DumpWorks ==
    ASSUME NEW g, GraphOK(g)
    PROVE  DumpEdges(g) \in Seq(Edge) /\ ToSet(DumpEdges(g)) = EdgesOf(g)
<1> DEFINE n == Len(g.lru)
           rows == [i \in 1..n |-> g.out[g.lru[i]]]
<1>1. n \in Nat /\ g.lru \in Seq(Key) /\ \A i \in 1..n : g.lru[i] \in Key
  BY Parts, InSeq
<1>2. \A i \in 1..n : g.out[g.lru[i]] \in Seq(Edge)
  BY <1>1, Parts
<1>3. rows \in Seq(Seq(Edge)) /\ Len(rows) = n
  BY <1>1, <1>2
<1>4. \A i \in 1..n : rows[i] = g.out[g.lru[i]]
  OBVIOUS
<1>5. DumpEdges(g) = FlattenSeq(rows)
  BY DEF DumpEdges
<1> HIDE DEF rows
<1>6. /\ DumpEdges(g) \in Seq(Edge)
      /\ ToSet(DumpEdges(g)) = UNION {ToSet(rows[i]) : i \in 1..n}
  BY <1>3, <1>5, FlattenedSet
<1>7. \A k : k \in Resident(g) <=> \E i \in 1..n : k = g.lru[i]
  BY <1>1, InSeq DEF Resident
<1>8. ASSUME NEW e
      PROVE  e \in UNION {ToSet(rows[i]) : i \in 1..n} <=> e \in EdgesOf(g)
  <2>1. e \in UNION {ToSet(rows[i]) : i \in 1..n} <=> \E i \in 1..n : e \in ToSet(g.out[g.lru[i]])
    BY <1>4
  <2>2. e \in EdgesOf(g) <=> \E k \in Resident(g) : e \in ToSet(g.out[k])
    BY DEF EdgesOf
  <2> QED BY <1>7, <2>1, <2>2
<1> QED BY <1>6, <1>8

-----------------------------------------------------------------------------
(***************************************************************************)
(* The inductive invariant, in three parts that each build on the ones     *)
(* before.                                                                 *)
(***************************************************************************)

FileType == [state : {"absent", "torn", "whole"}, edges : Seq(Edge)]

\* The graph fits and its lists agree, and everything held anywhere was stated
\* by a source.
Shape ==
    /\ site \in Sites
    /\ proc \in {"down", "loading", "up", "saving"}
    /\ todo \in Seq(Edge) /\ ToSet(todo) \subseteq Sources
    /\ GraphOK(graph) /\ Len(graph.lru) <= MaxNodes /\ EdgesOf(graph) \subseteq Sources
    /\ tmp \in FileType /\ ToSet(tmp.edges) \subseteq Sources
    /\ snapshot \in FileType /\ ToSet(snapshot.edges) \subseteq Sources

\* A service that reaches no source but its own snapshot is loading it.
Restoring == proc = "loading" /\ alone

\* The files hold what was in the graph; what is loaded and what is still to be
\* loaded of a snapshot are together what was saved, and nothing need be evicted.
Saved ==
    /\ GraphOK(dumped) /\ Len(dumped.lru) <= MaxNodes
    /\ proc = "down" => graph = EmptyGraph
    /\ proc = "saving" /\ tmp.state = "whole" => ToSet(tmp.edges) = EdgesOf(graph)
    /\ \/ snapshot.state = "whole" /\ ToSet(snapshot.edges) = EdgesOf(dumped)
       \/ snapshot.state = "absent" /\ dumped = EmptyGraph
    /\ Restoring =>
          /\ EdgesOf(graph) \cup ToSet(todo) = EdgesOf(dumped)
          /\ Resident(graph) \subseteq Resident(dumped)

\* The edge that the last line taught is there, where there is room for it.
Lessons ==
    /\ proc # "up" => lesson = NoLesson
    /\ Len(TripletItem(lesson)) = 3 /\ MaxNodes >= 2
          => Stated(TripletItem(lesson)) \in EdgesOf(graph)

IInv == Shape /\ Saved /\ Lessons

\* What a site offers is made of edges.
LEMMA SiteParts ==
    ASSUME site \in Sites
    PROVE  /\ site.seed \in Seq(Edge) /\ site.store \in Seq(Edge)
           /\ ToSet(site.seed) \subseteq Sources /\ ToSet(site.store) \subseteq Sources
           /\ \A t \in site.texts :
                 Len(TripletItem(t)) = 3 => Stated(TripletItem(t)) \in Edge \cap Sources
BY SiteAssumption DEF Sources

\* Every step leaves the graph as it is, teaches it an edge of a source, or
\* forgets it.
LEMMA GraphSteps ==
    ASSUME Shape, [Next]_vars
    PROVE  site' = site /\ (Taught(graph, graph') \/ graph' = EmptyGraph)
<1>1. site \in Sites /\ GraphOK(graph) /\ todo \in Seq(Edge) /\ ToSet(todo) \subseteq Sources
  BY DEF Shape
<1>2. Taught(graph, graph)
  BY <1>1 DEF Taught, Same
<1>3. CASE graph' = graph /\ site' = site
  BY <1>2, <1>3
<1>4. CASE Load
  <2>1. Head(todo) \in Edge \cap Sources
    BY <1>1, <1>4, TailSet DEF Load
  <2> QED BY <1>4, <2>1 DEF Load, Taught
<1>5. ASSUME NEW text \in site.texts, Learn(text)
      PROVE  site' = site /\ Taught(graph, graph')
  <2> DEFINE line == TripletItem(text)
  <2>1. graph' = IF Len(line) = 3 THEN AddEdge(graph, Stated(line)) ELSE graph
    BY <1>5 DEF Learn, Promote
  <2>2. Len(line) = 3 => Stated(line) \in Edge \cap Sources
    BY <1>1, SiteParts
  <2>3. site' = site
    BY <1>5 DEF Learn
  <2> HIDE DEF line
  <2> QED BY <1>2, <2>1, <2>2, <2>3 DEF Taught
<1>6. ASSUME NEW a \in Key, NEW b \in Key, AskTwoEntity(a, b)
      PROVE  site' = site /\ Taught(graph, graph')
  <2> DEFINE g == Touch(graph, a)
  <2>1. graph' = Touch(g, b) /\ site' = site
    BY <1>6 DEF AskTwoEntity, Answered
  <2>2. Same(graph, g)
    BY <1>1, TouchSame
  <2> HIDE DEF g
  <2>3. Same(g, Touch(g, b))
    BY <2>2, TouchSame DEF Same
  <2> QED BY <2>1, <2>2, <2>3 DEF Same, Taught
<1>7. ASSUME NEW k \in Key, AskNeighborhood(k)
      PROVE  site' = site /\ Taught(graph, graph')
  <2>1. graph' = Touch(graph, k) /\ site' = site
    BY <1>7 DEF AskNeighborhood, Answered
  <2>2. Same(graph, Touch(graph, k))
    BY <1>1, TouchSame
  <2> QED BY <2>1, <2>2 DEF Taught
<1>8. CASE Replace \/ Stop
  BY <1>8 DEF Replace, Stop
<1>9. CASE Start \/ Serve \/ Shutdown \/ WriteTmp \/ UNCHANGED vars
  BY <1>3, <1>9 DEF Start, Serve, Shutdown, WriteTmp, vars
<1> QED BY <1>4, <1>5, <1>6, <1>7, <1>8, <1>9 DEF Next

\* The graph keeps its shape in every step.
LEMMA GraphShape ==
    ASSUME Shape, [Next]_vars
    PROVE  GraphOK(graph') /\ Len(graph'.lru) <= MaxNodes /\ EdgesOf(graph') \subseteq Sources
<1>1. GraphOK(graph) /\ Len(graph.lru) <= MaxNodes /\ EdgesOf(graph) \subseteq Sources
  BY DEF Shape
<1>2. CASE Same(graph, graph')
  BY <1>1, <1>2 DEF Same
<1>3. ASSUME NEW e \in Edge \cap Sources, graph' = AddEdge(graph, e)
      PROVE  GraphOK(graph') /\ Len(graph'.lru) <= MaxNodes /\ EdgesOf(graph') \subseteq Sources
  <2>1. /\ GraphOK(AddEdge(graph, e)) /\ Len(AddEdge(graph, e).lru) <= MaxNodes
        /\ Learned(graph, e, AddEdge(graph, e))
    BY <1>1, AddEdgeWorks
  <2> QED BY <1>1, <1>3, <2>1 DEF Learned
<1>4. CASE graph' = EmptyGraph
  BY <1>4, EmptyOK, GraphAssumption
<1> QED BY <1>2, <1>3, <1>4, GraphSteps DEF Taught

\* No file is a file that holds nothing.
LEMMA NoFileType == NoFile \in FileType /\ ToSet(NoFile.edges) = {}
BY NothingInEmpty DEF NoFile, FileType

\* The invariant holds before the service first starts.
LEMMA InitInv == Init => IInv
<1> SUFFICES ASSUME Init PROVE IInv
  OBVIOUS
<1>1. Shape
  BY EmptyOK, NoFileType, NothingInEmpty, GraphAssumption DEF Init, Shape
<1>2. Saved
  BY EmptyOK, NothingInEmpty, GraphAssumption DEF Init, Saved, NoFile, Restoring
<1>3. Lessons
  <2>1. Len(TripletItem(<<>>)) # 3
    BY DEF TripletItem
  <2> QED BY <2>1 DEF Init, Lessons, NoLesson
<1> QED BY <1>1, <1>2, <1>3 DEF IInv

\* Loading and saving move edges between the graph and the files, so that
\* everything held stays stated.
LEMMA ShapeStep == Shape /\ [Next]_vars => Shape'
<1> SUFFICES ASSUME Shape, [Next]_vars PROVE Shape'
  OBVIOUS
<1>1. GraphOK(graph') /\ Len(graph'.lru) <= MaxNodes /\ EdgesOf(graph') \subseteq Sources
  BY GraphShape
<1>2. site' = site /\ Sources' = Sources
  BY GraphSteps DEF Sources
<1>3. /\ site \in Sites /\ proc \in {"down", "loading", "up", "saving"}
      /\ todo \in Seq(Edge) /\ ToSet(todo) \subseteq Sources
      /\ tmp \in FileType /\ ToSet(tmp.edges) \subseteq Sources
      /\ snapshot \in FileType /\ ToSet(snapshot.edges) \subseteq Sources
      /\ GraphOK(graph) /\ EdgesOf(graph) \subseteq Sources
  BY DEF Shape
<1>4. GraphOK(graph)' /\ (Len(graph.lru) <= MaxNodes)' /\ (EdgesOf(graph) \subseteq Sources)'
  BY <1>1, <1>2 DEF GraphOK, GraphType, Agree, EdgesOf, Resident
<1> HIDE DEF Shape
<1> DEFINE Rest ==
             /\ proc' \in {"down", "loading", "up", "saving"}
             /\ todo' \in Seq(Edge) /\ ToSet(todo') \subseteq Sources
             /\ tmp' \in FileType /\ ToSet(tmp'.edges) \subseteq Sources
             /\ snapshot' \in FileType /\ ToSet(snapshot'.edges) \subseteq Sources
<1>5. ASSUME Start PROVE Rest
  <2>1. SavedEdges \in Seq(Edge) /\ ToSet(SavedEdges) \subseteq Sources
    BY <1>3, NothingInEmpty DEF SavedEdges, FileType
  <2>2. PICK store \in {<<>>, site.store} : todo' = site.seed \o SavedEdges \o store
    BY <1>5, Zenon DEF Start
  <2>3. store \in Seq(Edge) /\ ToSet(store) \subseteq Sources
    <3>1. <<>> \in Seq(Edge) /\ ToSet(<<>>) \subseteq Sources
      BY NothingInEmpty
    <3> QED BY <1>3, <2>2, <3>1, SiteParts
  <2> DEFINE first == site.seed \o SavedEdges
  <2>4. first \in Seq(Edge) /\ ToSet(first) \subseteq Sources
    BY <1>3, <2>1, SiteParts, ConcatSet
  <2>5. todo' = first \o store
    BY <2>2
  <2> HIDE DEF first
  <2>6. todo' \in Seq(Edge) /\ ToSet(todo') \subseteq Sources
    BY <2>3, <2>4, <2>5, ConcatSet
  <2> QED BY <1>3, <1>5, <2>6 DEF Start, fileVars
<1>6. ASSUME Load PROVE Rest
  <2>1. todo' \in Seq(Edge) /\ ToSet(todo') \subseteq Sources
    BY <1>3, <1>6, TailSet DEF Load
  <2> QED BY <1>3, <1>6, <2>1 DEF Load, fileVars
<1>7. ASSUME WriteTmp PROVE Rest
  <2>1. tmp' = [state |-> "whole", edges |-> DumpEdges(graph)]
    BY <1>7 DEF WriteTmp
  <2>2. tmp' \in FileType /\ ToSet(tmp'.edges) \subseteq Sources
    BY <1>3, <2>1, DumpWorks DEF FileType
  <2> QED BY <1>3, <1>7, <2>2 DEF WriteTmp
<1>8. ASSUME Shutdown PROVE Rest
  <2>1. tmp' = [state |-> "torn", edges |-> <<>>]
    BY <1>8 DEF Shutdown
  <2>2. tmp' \in FileType /\ ToSet(tmp'.edges) \subseteq Sources
    BY <2>1, NothingInEmpty DEF FileType
  <2> QED BY <1>3, <1>8, <2>2 DEF Shutdown
<1>9. ASSUME Replace PROVE Rest
  BY <1>3, <1>9, NoFileType DEF Replace
<1>10. ASSUME Stop PROVE Rest
  BY <1>3, <1>10, NothingInEmpty DEF Stop, fileVars
<1>11. ASSUME Serve PROVE Rest
  BY <1>3, <1>11 DEF Serve, fileVars
<1>12. ASSUME NEW g, NEW a, Answered(g, a) PROVE Rest
  BY <1>3, <1>12 DEF Answered, fileVars
<1>13. ASSUME (\E a, b \in Key : AskTwoEntity(a, b)) \/ (\E k \in Key : AskNeighborhood(k)) PROVE Rest
  BY <1>12, <1>13 DEF AskTwoEntity, AskNeighborhood
<1>14. ASSUME (\E text \in site.texts : Learn(text)) \/ UNCHANGED vars PROVE Rest
  BY <1>3, <1>14 DEF Learn, fileVars, vars
<1>15. Rest
  BY <1>5, <1>6, <1>7, <1>8, <1>9, <1>10, <1>11, <1>13, <1>14 DEF Next
<1> QED BY <1>2, <1>3, <1>4, <1>15 DEF Shape

\* Loading an edge of a graph that fitted evicts nothing.
LEMMA RoomToRestore ==
    ASSUME NEW g, GraphOK(g), NEW d, GraphOK(d), Len(d.lru) <= MaxNodes,
           Resident(g) \subseteq Resident(d), NEW e \in EdgesOf(d), NEW h, Learned(g, e, h)
    PROVE  Resident(h) \subseteq Resident(d) /\ EdgesOf(h) = EdgesOf(g) \cup {e}
<1> DEFINE all == Resident(g) \cup Ends(e)
<1>1. Ends(e) \subseteq Resident(d)
  BY InGraph DEF Ends
<1>2. all \subseteq Resident(d)
  BY <1>1
<1>3. IsFiniteSet(Resident(d)) /\ Cardinality(Resident(d)) = Len(d.lru) /\ Len(d.lru) \in Nat
  BY Size
<1> HIDE DEF all
<1>4. IsFiniteSet(all) /\ Cardinality(all) <= Cardinality(Resident(d))
  BY <1>2, <1>3, FS_Subset
<1>5. Cardinality(all) <= MaxNodes
  BY <1>3, <1>4, FS_CardinalityType, GraphAssumption
<1>6. Resident(h) = all
  BY <1>5 DEF Learned, all
<1>7. EdgesOf(h) = {f \in EdgesOf(g) \cup {e} : Ends(f) \subseteq all}
  BY <1>6 DEF Learned
<1>8. \A f \in EdgesOf(g) : Ends(f) \subseteq all
  BY InGraph DEF Ends, all
<1>9. Ends(e) \subseteq all
  BY DEF all
<1> QED BY <1>2, <1>6, <1>7, <1>8, <1>9

\* A save copies the graph to the file, a restart copies the file to the graph.
LEMMA SavedStep == Shape /\ Saved /\ [Next]_vars => Saved'
<1> SUFFICES ASSUME Shape, Saved, [Next]_vars PROVE Saved'
  OBVIOUS
<1>1. /\ GraphOK(graph) /\ Len(graph.lru) <= MaxNodes
      /\ site \in Sites /\ todo \in Seq(Edge) /\ snapshot \in FileType /\ tmp \in FileType
  BY DEF Shape
<1>2. /\ GraphOK(dumped) /\ Len(dumped.lru) <= MaxNodes
      /\ proc = "down" => graph = EmptyGraph
      /\ proc = "saving" /\ tmp.state = "whole" => ToSet(tmp.edges) = EdgesOf(graph)
      /\ \/ snapshot.state = "whole" /\ ToSet(snapshot.edges) = EdgesOf(dumped)
         \/ snapshot.state = "absent" /\ dumped = EmptyGraph
      /\ Restoring =>
            /\ EdgesOf(graph) \cup ToSet(todo) = EdgesOf(dumped)
            /\ Resident(graph) \subseteq Resident(dumped)
  BY DEF Saved
<1>3. \/ Start
      \/ Load
      \/ WriteTmp
      \/ Replace
      \/ proc' \in {"up", "down"} /\ UNCHANGED fileVars /\ (proc' = "down" => graph' = EmptyGraph)
      \/ Shutdown
      \/ UNCHANGED vars
  BY DEF Next, Serve, Learn, AskTwoEntity, AskNeighborhood, Answered, Stop
<1>4. CASE Start
  <2>1. proc' = "loading" /\ UNCHANGED <<site, graph, tmp, snapshot, dumped>>
    BY <1>4 DEF Start, fileVars
  <2>2. SavedEdges \in Seq(Edge)
    BY <1>1 DEF SavedEdges, FileType
  <2>3. ToSet(SavedEdges) = EdgesOf(dumped)
    BY <1>2, EmptyOK, NothingInEmpty DEF SavedEdges
  <2>4. ASSUME Restoring' PROVE ToSet(todo') = EdgesOf(dumped)
    <3>1. PICK store \in {<<>>, site.store} :
             /\ todo' = site.seed \o SavedEdges \o store
             /\ alone' = (site.seed = <<>> /\ store = <<>>)
      BY <1>4, Zenon DEF Start
    <3>2. todo' = <<>> \o SavedEdges \o <<>>
      BY <2>4, <3>1, Zenon DEF Restoring
    <3>3. todo' = SavedEdges
      BY <2>2, <3>2, ConcatEmptySeq
    <3> QED BY <2>3, <3>3
  <2>5. proc = "down"
    BY <1>4 DEF Start
  <2> QED BY <1>2, <2>1, <2>4, <2>5, EmptyOK DEF Saved
<1>5. CASE Load
  <2> DEFINE e == Head(todo)
             h == AddEdge(graph, e)
  <2>1. /\ proc = "loading" /\ todo # <<>> /\ graph' = h /\ todo' = Tail(todo)
        /\ UNCHANGED <<site, alone, proc, tmp, snapshot, dumped>>
    BY <1>5 DEF Load, fileVars
  <2>2. ASSUME Restoring
        PROVE  /\ EdgesOf(h) \cup ToSet(Tail(todo)) = EdgesOf(dumped)
               /\ Resident(h) \subseteq Resident(dumped)
    <3>1. e \in Edge /\ ToSet(todo) = {e} \cup ToSet(Tail(todo))
      BY <1>1, <2>1, TailSet
    <3>2. Learned(graph, e, h)
      BY <1>1, <3>1, AddEdgeWorks
    <3>3. e \in EdgesOf(dumped)
      BY <1>2, <2>2, <3>1
    <3> HIDE DEF e, h
    <3>4. Resident(h) \subseteq Resident(dumped) /\ EdgesOf(h) = EdgesOf(graph) \cup {e}
      BY <1>1, <1>2, <2>2, <3>2, <3>3, RoomToRestore
    <3> QED BY <1>2, <2>2, <3>1, <3>4
  <2>3. Restoring' => Restoring
    BY <2>1 DEF Restoring
  <2> HIDE DEF h
  <2> QED BY <1>2, <2>1, <2>2, <2>3 DEF Saved
<1>6. CASE WriteTmp
  <2>1. /\ tmp' = [state |-> "whole", edges |-> DumpEdges(graph)] /\ proc = "saving"
        /\ UNCHANGED <<site, alone, proc, todo, graph, snapshot, dumped>>
    BY <1>6 DEF WriteTmp
  <2>2. ToSet(tmp'.edges) = EdgesOf(graph)
    BY <1>1, <2>1, DumpWorks
  <2> QED BY <1>2, <2>1, <2>2 DEF Saved, Restoring
<1>7. CASE Replace
  <2>1. /\ proc = "saving" /\ tmp.state = "whole" /\ proc' = "down"
        /\ snapshot' = tmp /\ dumped' = graph /\ graph' = EmptyGraph
    BY <1>7 DEF Replace
  <2> QED BY <1>1, <1>2, <2>1 DEF Saved, Restoring
<1>8. CASE proc' \in {"up", "down"} /\ UNCHANGED fileVars /\ (proc' = "down" => graph' = EmptyGraph)
  BY <1>2, <1>8 DEF Saved, Restoring, fileVars
<1>9. CASE Shutdown
  <2>1. proc' = "saving" /\ tmp'.state = "torn" /\ snapshot' = snapshot /\ dumped' = dumped
    BY <1>9 DEF Shutdown
  <2> QED BY <1>2, <2>1 DEF Saved, Restoring
<1>10. CASE UNCHANGED vars
  BY <1>2, <1>10 DEF Saved, Restoring, vars
<1> QED BY <1>3, <1>4, <1>5, <1>6, <1>7, <1>8, <1>9, <1>10

\* What the last line taught is in the graph until the next step.
LEMMA LessonsStep == Shape /\ Lessons /\ [Next]_vars => Lessons'
<1> SUFFICES ASSUME Shape, Lessons, [Next]_vars PROVE Lessons'
  OBVIOUS
<1>1. Len(TripletItem(NoLesson)) # 3
  BY DEF TripletItem, NoLesson
<1>2. GraphOK(graph) /\ Len(graph.lru) <= MaxNodes /\ site \in Sites
  BY DEF Shape
<1>3. ASSUME NEW text \in site.texts, Learn(text) PROVE Lessons'
  <2> DEFINE line == TripletItem(text)
             e == Stated(line)
             h == AddEdge(graph, e)
  <2>1. /\ proc' = "up" /\ lesson' = text
        /\ graph' = IF Len(line) = 3 THEN h ELSE graph
    BY <1>3 DEF Learn, Promote
  <2>2. ASSUME Len(line) = 3, MaxNodes >= 2 PROVE e \in EdgesOf(h)
    <3>1. e \in Edge
      BY <1>2, <2>2, SiteParts
    <3>2. Learned(graph, e, h)
      BY <1>2, <3>1, AddEdgeWorks
    <3> QED BY <2>2, <3>2 DEF Learned
  <2>3. TripletItem(lesson)' = line
    BY <2>1 DEF TripletItem
  <2> HIDE DEF h, line
  <2>4. Len(line) = 3 /\ MaxNodes >= 2 => e \in EdgesOf(graph')
    BY <2>1, <2>2
  <2>5. Lessons' <=> /\ proc' # "up" => lesson' = NoLesson
                     /\ Len(line) = 3 /\ MaxNodes >= 2 => e \in EdgesOf(graph')
    BY <2>3 DEF Lessons, EdgesOf, Resident, Stated, NoLesson
  <2> QED BY <2>1, <2>4, <2>5
<1>4. CASE lesson' = NoLesson
  BY <1>1, <1>4 DEF Lessons, TripletItem, NoLesson
<1>5. CASE UNCHANGED vars
  BY <1>5 DEF Lessons, vars, TripletItem, Stated, EdgesOf, Resident, NoLesson
<1>6. CASE UNCHANGED lesson /\ proc # "up"
  BY <1>4, <1>6 DEF Lessons
<1> QED BY <1>3, <1>4, <1>5, <1>6
     DEF Next, Start, Load, Serve, AskTwoEntity, AskNeighborhood, Answered, Shutdown,
         WriteTmp, Replace, Stop

\* Every step preserves the three parts of the invariant together.
LEMMA IInvStep == IInv /\ [Next]_vars => IInv'
BY ShapeStep, SavedStep, LessonsStep DEF IInv

\* The invariant holds throughout.
LEMMA InvariantHolds == Spec => []IInv
BY InitInv, IInvStep, PTL DEF Spec

-----------------------------------------------------------------------------
(***************************************************************************)
(* What the invariant gives.                                               *)
(***************************************************************************)

\* Tier 0 gives an answer of one of its patterns, or none.
PatternOK == answer.pattern \in {"none", "edge", "path", "no_path", "neighbors"}

\* The last answer has one of the shapes of graph_answerer.
LEMMA PatternHolds == Spec => []PatternOK
<1>1. Init => PatternOK
  BY DEF Init, PatternOK, NoAnswer
<1>2. PatternOK /\ [Next]_vars => PatternOK'
  <2> SUFFICES ASSUME PatternOK, [Next]_vars PROVE PatternOK'
    OBVIOUS
  <2>1. ASSUME NEW a \in Key, NEW b \in Key, AskTwoEntity(a, b) PROVE PatternOK'
    <3>1. answer' = TwoEntityAnswer(graph, a, b)
      BY <2>1 DEF AskTwoEntity, Answered
    <3> DEFINE direct == EdgesBetween(graph, a, b)
               trail == Path(graph, a, b)
    <3>2. answer' \in {NoAnswer,
                       [pattern |-> "edge", a |-> a, b |-> b, edges |-> direct],
                       [pattern |-> "path", a |-> a, b |-> b, edges |-> trail],
                       [pattern |-> "no_path", a |-> a, b |-> b, edges |-> <<>>]}
      BY <3>1, Zenon DEF TwoEntityAnswer
    <3> HIDE DEF direct, trail
    <3> QED BY <3>2 DEF PatternOK, NoAnswer
  <2>2. ASSUME NEW k \in Key, AskNeighborhood(k) PROVE PatternOK'
    BY <2>2 DEF AskNeighborhood, Answered, NeighborhoodAnswer, PatternOK, NoAnswer
  <2>3. CASE answer' \in {answer, NoAnswer}
    BY <2>3 DEF PatternOK, NoAnswer
  <2> QED BY <2>1, <2>2, <2>3
       DEF Next, vars, fileVars, Start, Load, Serve, Learn, Shutdown, WriteTmp, Replace, Stop
<1> QED BY <1>1, <1>2, PTL DEF Spec

\* Every variable keeps its type in every reachable state; the eviction order
\* holds no node twice.
THEOREM TypeCorrect == Spec => []TypeOK
<1>1. IInv /\ PatternOK => TypeOK
  <2> SUFFICES ASSUME IInv, PatternOK PROVE TypeOK
    OBVIOUS
  <2>1. GraphOK(graph)
    BY DEF IInv, Shape
  <2>2. IsInjective(graph.lru) /\ Resident(graph) \subseteq Key
        /\ \A k \in Key : graph.out[k] \in Seq(Edge) /\ graph.in[k] \in Seq(Edge)
    BY <2>1, Parts DEF GraphOK
  <2> QED BY <2>2 DEF IInv, Shape, PatternOK, TypeOK, FileType
<1> QED BY <1>1, InvariantHolds, PatternHolds, PTL

\* add_edge and _evict never leave an edge in one list and not in the other, a
\* reference to an evicted node, or an edge twice.
THEOREM AdjacencyAlwaysAgrees == Spec => []AdjacencyAgrees
<1>1. IInv => AdjacencyAgrees
  BY DEF IInv, Shape, GraphOK, AdjacencyAgrees
<1> QED BY <1>1, InvariantHolds, PTL

\* Through seeding, restarts, warm loads and promotion, Tier 0 never holds an
\* edge that was no row of a file or of the store and no line of three tokens.
THEOREM EdgesAreStated == Spec => []EdgesWereStated
<1>1. IInv => EdgesWereStated
  BY DEF IInv, Shape, EdgesWereStated
<1> QED BY <1>1, InvariantHolds, PTL

\* A service that can load nothing but its snapshot comes to hold exactly the edges it had
\* when it saved them: none is evicted while it loads, in whatever order the
\* snapshot lists them.
THEOREM RestartsRestore == Spec => []RestartRestores
<1>1. IInv => RestartRestores
  <2> SUFFICES ASSUME IInv, proc = "loading", todo = <<>>, alone
               PROVE  EdgesOf(graph) = EdgesOf(dumped)
    BY DEF RestartRestores
  <2>1. EdgesOf(graph) \cup ToSet(todo) = EdgesOf(dumped)
    BY DEF IInv, Saved, Restoring
  <2> QED BY <2>1, NothingInEmpty
<1> QED BY <1>1, InvariantHolds, PTL

\* Only a finished save moves its file over the snapshot, so a process that
\* dies at any step of save_snapshot leaves a snapshot that load_snapshot reads.
THEOREM SnapshotsAreNeverTorn == Spec => []SnapshotIsNeverTorn
<1>1. IInv => SnapshotIsNeverTorn
  BY DEF IInv, Saved, SnapshotIsNeverTorn
<1> QED BY <1>1, InvariantHolds, PTL

-----------------------------------------------------------------------------
(***************************************************************************)
(* The graph implements Knowledge.                                         *)
(***************************************************************************)

\* The empty graph knows nothing.
LEMMA StartsIgnorant == Init => Abstract!Init
BY EmptyOK DEF Init, Abstract!Init

\* add_edge is a step of learning, the end of a process is one of forgetting,
\* and every other step leaves nodes and edges as they are.
LEMMA StepsLearn == IInv /\ [Next]_vars => [Abstract!Next]_Abstract!vars
<1> SUFFICES ASSUME IInv, [Next]_vars PROVE [Abstract!Next]_Abstract!vars
  OBVIOUS
<1> DEFINE N == Resident(graph)
           E == EdgesOf(graph)
<1>1. GraphOK(graph) /\ Len(graph.lru) <= MaxNodes
  BY DEF IInv, Shape
<1>2. N' = Resident(graph') /\ E' = EdgesOf(graph')
  BY DEF Resident, EdgesOf
<1>3. CASE Same(graph, graph')
  <2>1. N' = N /\ E' = E
    BY <1>2, <1>3 DEF Same
  <2> QED BY <2>1 DEF Abstract!vars
<1>4. ASSUME NEW e \in Edge, graph' = AddEdge(graph, e) PROVE Abstract!Next
  <2>1. Learned(graph, e, graph')
    BY <1>1, <1>4, AddEdgeWorks
  <2> DEFINE all == N \cup Ends(e)
  <2>2. /\ N' \subseteq all
        /\ IF Cardinality(all) <= MaxNodes THEN N' = all ELSE Cardinality(N') = MaxNodes
        /\ MaxNodes >= 2 => Ends(e) \subseteq N'
        /\ E' = {f \in E \cup {e} : Ends(f) \subseteq N'}
    BY <1>2, <2>1 DEF Learned
  <2>3. Abstract!Ends(e) = Ends(e) /\ \A f : Abstract!Ends(f) = Ends(f)
    BY DEF Abstract!Ends, Ends
  <2> HIDE DEF all
  <2>4. N' \in SUBSET all
    BY <2>2
  <2>5. Abstract!Learn(e)
    BY <2>2, <2>3, <2>4, Zenon DEF Abstract!Learn, all, Abstract!Cardinality, Cardinality
  <2> QED BY <2>5 DEF Abstract!Next
<1>5. CASE graph' = EmptyGraph
  <2>1. N' = {} /\ E' = {}
    BY <1>2, <1>5, EmptyOK
  <2>2. Abstract!Forget
    BY <2>1 DEF Abstract!Forget
  <2> QED BY <2>2 DEF Abstract!Next
<1>6. Taught(graph, graph') \/ graph' = EmptyGraph
  BY GraphSteps DEF IInv
<1> QED BY <1>3, <1>4, <1>5, <1>6 DEF Taught

\* The lists, orders and evictions of memgraph.py amount to a set of at most
\* max_nodes nodes and the edges among them, for every graph and every bound.
THEOREM GraphImplementsKnowledge == Spec => ImplementsKnowledge
BY StartsIgnorant, StepsLearn, InvariantHolds, PTL
   DEF Spec, ImplementsKnowledge, Abstract!Spec

-----------------------------------------------------------------------------
(***************************************************************************)
(* What Within and LeadsTo compute.                                        *)
(***************************************************************************)

\* The nodes that share an edge with a node of S.
Beside(g, S) ==
    {e.object : e \in {f \in EdgesOf(g) : f.subject \in S}}
        \cup {e.subject : e \in {f \in EdgesOf(g) : f.object \in S}}

\* r holds the values of the recursion that defines Within.
Reaches(r, g, a, n) ==
    /\ r[0] = {a}
    /\ \A i \in 1..n : r[i] = r[i-1] \cup Beside(g, r[i-1])
    /\ Within(g, a, n) = r[n]

\* The recursion that defines Within has a solution.
LEMMA WithinRuns ==
    ASSUME NEW g, NEW a, NEW n \in Nat
    PROVE  \E r : Reaches(r, g, a, n)
<1> DEFINE Then(k) == k \cup {e.object : e \in {f \in EdgesOf(g) : f.subject \in k}}
                        \cup {e.subject : e \in {f \in EdgesOf(g) : f.object \in k}}
           base == {a}
           X == {a} \cup {e.object : e \in EdgesOf(g)} \cup {e.subject : e \in EdgesOf(g)}
           D == SUBSET X
           Runs(k) == k = [i \in 0..n |-> IF i = 0 THEN base ELSE Then(k[i-1])]
           reach == CHOOSE k : Runs(k)
<1>1. Within(g, a, n) = reach[n]
  BY Zenon DEF Within
<1>2. \A k \in D : Then(k) \in D
  OBVIOUS
<1>3. base \in D
  OBVIOUS
<1>4. \A k : Then(k) = k \cup Beside(g, k)
  BY DEF Beside
<1>5. base = {a}
  OBVIOUS
<1> HIDE DEF Then, base, X, D
<1>6. \E f : Runs(f)
  <2> DEFINE step == [i \in 1..n |-> [k \in D |-> Then(k)]]
  <2>1. step \in Steps(n, D)
    BY <1>2 DEF Steps
  <2>2. \A i \in 1..n, k \in D : step[i][k] = Then(k)
    OBVIOUS
  <2> HIDE DEF step
  <2>3. PICK f : Solves(f, n, D, base, step)
    BY <1>3, <2>1, Recursion, Zenon
  <2>4. f \in [0..n -> D] /\ f[0] = base /\ \A i \in 1..n : f[i] = step[i][f[i-1]]
    BY <2>3 DEF Solves
  <2>5. \A i \in 1..n : f[i-1] \in D
    BY <2>4
  <2> DEFINE h == [i \in 0..n |-> IF i = 0 THEN base ELSE Then(f[i-1])]
  <2>6. ASSUME NEW i \in 0..n PROVE f[i] = h[i]
    <3>1. CASE i = 0
      BY <2>2, <2>4, <2>5, <3>1
    <3>2. CASE i # 0
      <4>1. i \in 1..n
        BY <3>2
      <4>2. f[i] = Then(f[i-1])
        BY <2>2, <2>4, <2>5, <4>1
      <4> QED BY <3>2, <4>2
    <3> QED BY <3>1, <3>2
  <2>7. f = h
    BY <2>4, <2>6
  <2> QED BY <2>7
<1>7. Runs(reach)
  <2> HIDE DEF Runs
  <2> QED BY <1>6, Zenon
<1> HIDE DEF reach
<1>8. reach[0] = base /\ \A i \in 1..n : reach[i] = Then(reach[i-1])
  BY <1>7
<1>9. Reaches(reach, g, a, n)
  BY <1>1, <1>4, <1>5, <1>8 DEF Reaches
<1> QED BY <1>9

\* Within grows by one edge at a time.
LEMMA WithinSteps ==
    ASSUME NEW g, NEW a, NEW n \in Nat
    PROVE  /\ Within(g, a, 0) = {a}
           /\ Within(g, a, n + 1) = Within(g, a, n) \cup Beside(g, Within(g, a, n))
<1>1. PICK r : Reaches(r, g, a, 0)
  BY WithinRuns, Zenon
<1>2. PICK f : Reaches(f, g, a, n)
  BY WithinRuns, Zenon
<1>3. n + 1 \in Nat
  OBVIOUS
<1>4. PICK h : Reaches(h, g, a, n + 1)
  BY <1>3, WithinRuns, Zenon
<1>5. f[0] = h[0] /\ \A i \in 1..n : f[i-1] = h[i-1] => f[i] = h[i]
  <2>1. f[0] = h[0]
    BY <1>2, <1>4 DEF Reaches
  <2>2. ASSUME NEW i \in 1..n, f[i-1] = h[i-1] PROVE f[i] = h[i]
    <3>1. i \in 1..(n+1)
      OBVIOUS
    <3>2. f[i] = f[i-1] \cup Beside(g, f[i-1])
      BY <1>2 DEF Reaches
    <3>3. h[i] = h[i-1] \cup Beside(g, h[i-1])
      BY <1>4, <3>1 DEF Reaches
    <3> QED BY <2>2, <3>2, <3>3
  <2> QED BY <2>1, <2>2
<1>6. \A i \in 0..n : f[i] = h[i]
  BY <1>5, SameSteps
<1>7. Within(g, a, n) = h[n]
  BY <1>2, <1>6 DEF Reaches
<1>8. h[n + 1] = h[n] \cup Beside(g, h[n])
  <2>1. n + 1 \in 1..(n+1) /\ (n + 1) - 1 = n
    OBVIOUS
  <2> QED BY <1>4, <2>1 DEF Reaches
<1>9. Within(g, a, n + 1) = h[n + 1]
  BY <1>4 DEF Reaches
<1>10. Within(g, a, 0) = {a}
  BY <1>1 DEF Reaches
<1> QED BY <1>7, <1>8, <1>9, <1>10

\* Within looks at the edges of the graph only.
LEMMA WithinSame ==
    ASSUME NEW g, NEW h, EdgesOf(g) = EdgesOf(h), NEW a, NEW n \in Nat
    PROVE  Within(g, a, n) = Within(h, a, n)
<1>1. PICK r : Reaches(r, g, a, n)
  BY WithinRuns, Zenon
<1>2. PICK f : Reaches(f, h, a, n)
  BY WithinRuns, Zenon
<1>3. \A S : Beside(g, S) = Beside(h, S)
  BY DEF Beside
<1>4. r[0] = f[0] /\ \A i \in 1..n : r[i-1] = f[i-1] => r[i] = f[i]
  <2>1. r[0] = f[0]
    BY <1>1, <1>2 DEF Reaches
  <2>2. ASSUME NEW i \in 1..n, r[i-1] = f[i-1] PROVE r[i] = f[i]
    <3>1. r[i] = r[i-1] \cup Beside(g, r[i-1])
      BY <1>1 DEF Reaches
    <3>2. f[i] = f[i-1] \cup Beside(h, f[i-1])
      BY <1>2 DEF Reaches
    <3> QED BY <1>3, <2>2, <3>1, <3>2
  <2> QED BY <2>1, <2>2
<1>5. \A i \in 0..n : r[i] = f[i]
  BY <1>4, SameSteps
<1> QED BY <1>1, <1>2, <1>5 DEF Reaches

\* at holds the nodes that a trail from a passes.
Passes(at, trail, a, b) ==
    /\ at[0] = a
    /\ \A i \in 1..Len(trail) : at[i] = Other(trail[i], at[i-1])
    /\ LeadsTo(trail, a, b) <=>
          (\A i \in 1..Len(trail) : at[i-1] \in Ends(trail[i])) /\ at[Len(trail)] = b

\* The recursion that LeadsTo is defined with has a solution.
LEMMA TrailRuns ==
    ASSUME NEW trail \in Seq(Edge), NEW a \in Key, NEW b
    PROVE  \E at : Passes(at, trail, a, b)
<1> DEFINE n == Len(trail)
           Then(i, k) == Other(trail[i], k)
           Runs(k) == k = [i \in 0..n |-> IF i = 0 THEN a ELSE Then(i, k[i-1])]
           at == CHOOSE k : Runs(k)
<1>1. LeadsTo(trail, a, b) <=>
          /\ \A i \in 1..n : at[i-1] \in {trail[i].subject, trail[i].object}
          /\ at[n] = b
  BY Zenon DEF LeadsTo
<1>2. n \in Nat /\ \A i \in 1..n, k \in Key : Then(i, k) \in Key
  BY InSeq, EdgeParts DEF Other
<1>3. n = Len(trail) /\ \A i, k : Then(i, k) = Other(trail[i], k)
  BY Zenon
<1> HIDE DEF n, Then
<1>4. \E f : Runs(f)
  <2> DEFINE step == [i \in 1..n |-> [k \in Key |-> Then(i, k)]]
  <2>1. step \in Steps(n, Key)
    BY <1>2 DEF Steps
  <2>2. \A i \in 1..n, k \in Key : step[i][k] = Then(i, k)
    OBVIOUS
  <2>3. n \in Nat
    BY <1>2
  <2> HIDE DEF step
  <2>4. PICK f : Solves(f, n, Key, a, step)
    BY <2>1, <2>3, Recursion, Zenon
  <2>5. f \in [0..n -> Key] /\ f[0] = a /\ \A i \in 1..n : f[i] = step[i][f[i-1]]
    BY <2>4 DEF Solves
  <2>6. \A i \in 1..n : f[i-1] \in Key
    BY <2>3, <2>5
  <2> DEFINE h == [i \in 0..n |-> IF i = 0 THEN a ELSE Then(i, f[i-1])]
  <2>7. ASSUME NEW i \in 0..n PROVE f[i] = h[i]
    <3>1. CASE i = 0
      BY <2>5, <3>1
    <3>2. CASE i # 0
      <4>1. i \in 1..n
        BY <3>2
      <4>2. f[i] = Then(i, f[i-1])
        BY <2>2, <2>5, <2>6, <4>1
      <4> QED BY <3>2, <4>2
    <3> QED BY <3>1, <3>2
  <2>8. f = h
    BY <2>5, <2>7
  <2> QED BY <2>8
<1>5. Runs(at)
  <2> HIDE DEF Runs
  <2> QED BY <1>4, Zenon
<1> HIDE DEF at
<1>6. at[0] = a /\ \A i \in 1..n : at[i] = Then(i, at[i-1])
  BY <1>2, <1>5
<1>7. Passes(at, trail, a, b)
  BY <1>1, <1>3, <1>6 DEF Passes, Ends
<1> QED BY <1>7

\* A trail is continued by an edge of the node it ends at.
LEMMA TrailGrows ==
    ASSUME NEW trail \in Seq(Edge), NEW a \in Key, NEW k, LeadsTo(trail, a, k),
           NEW e \in Edge, k \in Ends(e)
    PROVE  LeadsTo(Append(trail, e), a, Other(e, k))
<1> DEFINE t == Append(trail, e)
           n == Len(trail)
           b == Other(e, k)
<1>1. /\ t \in Seq(Edge) /\ Len(t) = n + 1 /\ n \in Nat
      /\ t[n + 1] = e /\ \A i \in 1..n : t[i] = trail[i]
  BY AppendProperties, LenProperties
<1> HIDE DEF t, b
<1>2. PICK f : Passes(f, trail, a, k)
  BY TrailRuns, Zenon
<1>3. PICK h : Passes(h, t, a, b)
  BY <1>1, TrailRuns, Zenon
<1>4. f[0] = h[0] /\ \A i \in 1..n : f[i-1] = h[i-1] => f[i] = h[i]
  <2>1. f[0] = h[0]
    BY <1>2, <1>3 DEF Passes
  <2>2. ASSUME NEW i \in 1..n, f[i-1] = h[i-1] PROVE f[i] = h[i]
    <3>1. i \in 1..Len(t) /\ t[i] = trail[i]
      BY <1>1
    <3>2. f[i] = Other(trail[i], f[i-1])
      BY <1>2 DEF Passes
    <3>3. h[i] = Other(t[i], h[i-1])
      BY <1>3, <3>1 DEF Passes
    <3> QED BY <2>2, <3>1, <3>2, <3>3
  <2> QED BY <2>1, <2>2
<1>5. \A i \in 0..n : f[i] = h[i]
  <2>1. n \in Nat
    BY <1>1
  <2> HIDE DEF n
  <2> QED BY <1>4, <2>1, SameSteps
<1>6. (\A i \in 1..n : f[i-1] \in Ends(trail[i])) /\ f[n] = k
  BY <1>2 DEF Passes
<1>7. n + 1 \in 1..Len(t) /\ (n + 1) - 1 = n /\ n \in 0..n
  BY <1>1
<1>8. h[n] = k /\ h[n + 1] = b
  BY <1>1, <1>3, <1>5, <1>6, <1>7 DEF Passes, b
<1>9. ASSUME NEW i \in 1..Len(t) PROVE h[i-1] \in Ends(t[i])
  <2>1. CASE i = n + 1
    BY <1>1, <1>7, <1>8, <2>1
  <2>2. CASE i # n + 1
    <3>1. i \in 1..n /\ i - 1 \in 0..n
      BY <1>1, <2>2
    <3> QED BY <1>1, <1>5, <1>6, <3>1
  <2> QED BY <2>1, <2>2
<1>10. LeadsTo(t, a, b)
  BY <1>1, <1>3, <1>8, <1>9 DEF Passes
<1> QED BY <1>10 DEF t, b

\* The empty trail leads nowhere else.
LEMMA TrailStarts ==
    ASSUME NEW a \in Key
    PROVE  LeadsTo(<<>>, a, a)
<1>1. <<>> \in Seq(Edge) /\ Len(<<>>) = 0
  OBVIOUS
<1>2. PICK at : Passes(at, <<>>, a, a)
  BY <1>1, TrailRuns, Zenon
<1> QED BY <1>1, <1>2 DEF Passes

-----------------------------------------------------------------------------
(***************************************************************************)
(* The breadth-first search of path.                                       *)
(***************************************************************************)

StepType == [key : Key, trail : Seq(Edge)]

SearchType == [seen : SUBSET Key, next : Seq(StepType), found : Seq(Edge)]

\* The edges path walks from a node are edges of the graph that the node ends.
LEMMA AdjacentWorks ==
    ASSUME NEW g, GraphOK(g), NEW k \in Key
    PROVE  /\ Adjacent(g, k) \in Seq(Edge)
           /\ \A e : e \in ToSet(Adjacent(g, k)) <=> e \in EdgesOf(g) /\ k \in Ends(e)
<1>1. g.out[k] \in Seq(Edge) /\ g.in[k] \in Seq(Edge)
  BY Parts
<1>2. Adjacent(g, k) \in Seq(Edge)
      /\ ToSet(Adjacent(g, k)) = ToSet(g.out[k]) \cup ToSet(g.in[k])
  BY <1>1, ConcatSet DEF Adjacent
<1>3. ASSUME NEW e \in ToSet(g.out[k]) PROVE e \in EdgesOf(g) /\ k \in Ends(e)
  <2>1. e \in Edge /\ e.subject = k
    BY <1>1, ElementsTyped DEF GraphOK, Agree
  <2> QED BY <2>1, InGraph DEF Ends
<1>4. ASSUME NEW e \in ToSet(g.in[k]) PROVE e \in EdgesOf(g) /\ k \in Ends(e)
  <2>1. e \in Edge /\ e.object = k
    BY <1>1, ElementsTyped DEF GraphOK, Agree
  <2> QED BY <2>1, InGraph DEF Ends
<1>5. ASSUME NEW e \in EdgesOf(g), k \in Ends(e)
      PROVE  e \in ToSet(g.out[k]) \cup ToSet(g.in[k])
  BY <1>5, InGraph DEF Ends
<1> QED BY <1>2, <1>3, <1>4, <1>5

\* The three things a visit that leads to k by trail t can do.
Visited(s, goal, k, t, v) ==
    /\ s.found # <<>> \/ k \in s.seen => v = s
    /\ s.found = <<>> /\ k \notin s.seen /\ k = goal =>
          v.seen = s.seen /\ v.next = s.next /\ v.found = t
    /\ s.found = <<>> /\ k \notin s.seen /\ k # goal =>
          /\ v.seen = s.seen \cup {k} /\ v.found = s.found
          /\ v.next = Append(s.next, [key |-> k, trail |-> t])

\* A visit does one of the three.
LEMMA VisitCases ==
    ASSUME NEW s \in SearchType, NEW p \in StepType, NEW e \in Edge, NEW goal
    PROVE  /\ Visit(s, p, e, goal) \in SearchType
           /\ Visited(s, goal, Other(e, p.key), Append(p.trail, e), Visit(s, p, e, goal))
<1> DEFINE k == Other(e, p.key)
           v == Visit(s, p, e, goal)
           t == Append(p.trail, e)
           q == [key |-> k, trail |-> t]
<1>1. p.key \in Key /\ p.trail \in Seq(Edge) /\ k \in Key
  BY EdgeParts DEF StepType, Other
<1>2. t \in Seq(Edge)
  BY <1>1, AppendProperties
<1>3. v = IF s.found # <<>> \/ k \in s.seen THEN s
          ELSE IF k = goal THEN [s EXCEPT !.found = t]
          ELSE [s EXCEPT !.seen = @ \cup {k}, !.next = Append(@, q)]
  BY DEF Visit
<1> HIDE DEF k, t, v
<1>4. q \in StepType
  BY <1>1, <1>2 DEF StepType
<1> HIDE DEF q
<1>5. s.seen \in SUBSET Key /\ s.next \in Seq(StepType) /\ s.found \in Seq(Edge)
  BY DEF SearchType
<1>6. Append(s.next, q) \in Seq(StepType)
  BY <1>4, <1>5, AppendProperties
<1>7. v \in SearchType
  BY <1>1, <1>2, <1>3, <1>5, <1>6 DEF SearchType
<1>8. Visited(s, goal, k, t, v)
  BY <1>3, <1>5 DEF q, Visited, SearchType
<1> QED BY <1>7, <1>8 DEF k, t, v

\* after holds the values of the recursion that defines Expand.
Expands(after, g, s, p, goal) ==
    /\ after[0] = s
    /\ \A i \in 1..Len(Adjacent(g, p.key)) :
          after[i] = Visit(after[i-1], p, Adjacent(g, p.key)[i], goal)
    /\ Expand(g, s, p, goal) = after[Len(Adjacent(g, p.key))]
    /\ \A i \in 0..Len(Adjacent(g, p.key)) : after[i] \in SearchType

\* The recursion that defines Expand has a solution.
LEMMA ExpandRuns ==
    ASSUME NEW g, GraphOK(g), NEW s \in SearchType, NEW p \in StepType, NEW goal
    PROVE  \E after : Expands(after, g, s, p, goal)
<1> DEFINE edges == Adjacent(g, p.key)
           n == Len(edges)
           Then(i, k) == Visit(k, p, edges[i], goal)
           Runs(k) == k = [i \in 0..n |-> IF i = 0 THEN s ELSE Then(i, k[i-1])]
           after == CHOOSE k : Runs(k)
<1>1. Expand(g, s, p, goal) = after[n]
  BY Zenon DEF Expand
<1>2. n \in Nat /\ \A i \in 1..n : edges[i] \in Edge
  BY AdjacentWorks, InSeq DEF StepType
<1>3. \A i \in 1..n, k \in SearchType : Then(i, k) \in SearchType
  BY <1>2, VisitCases
<1>4. n = Len(Adjacent(g, p.key))
      /\ \A i, k : Then(i, k) = Visit(k, p, Adjacent(g, p.key)[i], goal)
  BY Zenon
<1> HIDE DEF n, Then, edges
<1>5. \E f : Runs(f)
  <2> DEFINE step == [i \in 1..n |-> [k \in SearchType |-> Then(i, k)]]
  <2>1. step \in Steps(n, SearchType)
    BY <1>3 DEF Steps
  <2>2. \A i \in 1..n, k \in SearchType : step[i][k] = Then(i, k)
    OBVIOUS
  <2>3. n \in Nat
    BY <1>2
  <2> HIDE DEF step
  <2>4. PICK f : Solves(f, n, SearchType, s, step)
    BY <2>1, <2>3, Recursion, Zenon
  <2>5. f \in [0..n -> SearchType] /\ f[0] = s /\ \A i \in 1..n : f[i] = step[i][f[i-1]]
    BY <2>4 DEF Solves
  <2>6. \A i \in 1..n : f[i-1] \in SearchType
    BY <2>3, <2>5
  <2> DEFINE h == [i \in 0..n |-> IF i = 0 THEN s ELSE Then(i, f[i-1])]
  <2>7. ASSUME NEW i \in 0..n PROVE f[i] = h[i]
    <3>1. CASE i = 0
      BY <2>5, <3>1
    <3>2. CASE i # 0
      <4>1. i \in 1..n
        BY <3>2
      <4>2. f[i] = Then(i, f[i-1])
        BY <2>2, <2>5, <2>6, <4>1
      <4> QED BY <3>2, <4>2
    <3> QED BY <3>1, <3>2
  <2>8. f = h
    BY <2>5, <2>7
  <2> QED BY <2>8
<1>6. Runs(after)
  <2> HIDE DEF Runs
  <2> QED BY <1>5, Zenon
<1> HIDE DEF after
<1>7. after[0] = s /\ \A i \in 1..n : after[i] = Then(i, after[i-1])
  BY <1>2, <1>6
<1>8. \A i \in 0..n : after[i] \in SearchType
  <2>1. n \in Nat
    BY <1>2
  <2> QED BY <1>3, <1>7, <2>1, StaysIn
<1>9. Expands(after, g, s, p, goal)
  BY <1>1, <1>4, <1>7, <1>8 DEF Expands
<1> QED BY <1>9

\* After the goal is found nothing more is expanded.
LEMMA ExpandIdles ==
    ASSUME NEW g, GraphOK(g), NEW s \in SearchType, NEW p \in StepType, NEW goal
    PROVE  /\ Expand(g, s, p, goal) \in SearchType
           /\ s.found # <<>> => Expand(g, s, p, goal) = s
<1> DEFINE n == Len(Adjacent(g, p.key))
<1>1. PICK after : Expands(after, g, s, p, goal)
  BY ExpandRuns, Zenon
<1>2. n \in Nat /\ \A i \in 1..n : Adjacent(g, p.key)[i] \in Edge
  BY AdjacentWorks, InSeq DEF StepType
<1>3. n \in 0..n
  BY <1>2
<1>4. Expand(g, s, p, goal) = after[n] /\ after[n] \in SearchType
  BY <1>1, <1>3 DEF Expands
<1>5. ASSUME s.found # <<>> PROVE after[n] = s
  <2> DEFINE D == {s}
  <2>1. after[0] \in D
    BY <1>1 DEF Expands
  <2>2. ASSUME NEW i \in 1..n, after[i-1] = s PROVE after[i] = s
    <3>1. after[i] = Visit(after[i-1], p, Adjacent(g, p.key)[i], goal)
      BY <1>1 DEF Expands
    <3>2. Adjacent(g, p.key)[i] \in Edge
      BY <1>2
    <3>3. Visit(s, p, Adjacent(g, p.key)[i], goal) = s
      BY <1>5, <3>2, VisitCases DEF Visited
    <3> QED BY <2>2, <3>1, <3>3
  <2>3. \A i \in 1..n : after[i-1] \in D => after[i] \in D
    BY <2>2
  <2>4. n \in Nat
    BY <1>2
  <2> HIDE DEF D, n
  <2>5. \A i \in 0..n : after[i] \in D
    BY <2>1, <2>3, <2>4, StaysIn
  <2> QED BY <1>3, <2>5 DEF D
<1> QED BY <1>4, <1>5

\* after holds the values of the recursion that defines Hop.
Hops(after, g, s, goal) ==
    /\ after[0] = [s EXCEPT !.next = <<>>]
    /\ \A i \in 1..Len(s.next) : after[i] = Expand(g, after[i-1], s.next[i], goal)
    /\ Hop(g, s, goal) = after[Len(s.next)]
    /\ \A i \in 0..Len(s.next) : after[i] \in SearchType

\* The recursion that defines Hop has a solution.
LEMMA HopRuns ==
    ASSUME NEW g, GraphOK(g), NEW s \in SearchType, NEW goal
    PROVE  \E after : Hops(after, g, s, goal)
<1> DEFINE n == Len(s.next)
           base == [s EXCEPT !.next = <<>>]
           Then(i, k) == Expand(g, k, s.next[i], goal)
           Runs(k) == k = [i \in 0..n |-> IF i = 0 THEN base ELSE Then(i, k[i-1])]
           after == CHOOSE k : Runs(k)
<1>1. Hop(g, s, goal) = after[n]
  BY Zenon DEF Hop
<1>2. n \in Nat /\ \A i \in 1..n : s.next[i] \in StepType
  BY DEF SearchType
<1>3. \A i \in 1..n, k \in SearchType : Then(i, k) \in SearchType
  BY <1>2, ExpandIdles
<1>4. n = Len(s.next) /\ base = [s EXCEPT !.next = <<>>]
      /\ \A i, k : Then(i, k) = Expand(g, k, s.next[i], goal)
  BY Zenon
<1>5. base \in SearchType
  <2>1. s.seen \in SUBSET Key /\ s.found \in Seq(Edge) /\ <<>> \in Seq(StepType)
    BY DEF SearchType
  <2> QED BY <2>1 DEF SearchType
<1> HIDE DEF n, Then, base
<1>6. \E f : Runs(f)
  <2> DEFINE step == [i \in 1..n |-> [k \in SearchType |-> Then(i, k)]]
  <2>1. step \in Steps(n, SearchType)
    BY <1>3 DEF Steps
  <2>2. \A i \in 1..n, k \in SearchType : step[i][k] = Then(i, k)
    OBVIOUS
  <2>3. n \in Nat
    BY <1>2
  <2> HIDE DEF step
  <2>4. PICK f : Solves(f, n, SearchType, base, step)
    BY <1>5, <2>1, <2>3, Recursion, Zenon
  <2>5. f \in [0..n -> SearchType] /\ f[0] = base /\ \A i \in 1..n : f[i] = step[i][f[i-1]]
    BY <2>4 DEF Solves
  <2>6. \A i \in 1..n : f[i-1] \in SearchType
    BY <2>3, <2>5
  <2> DEFINE h == [i \in 0..n |-> IF i = 0 THEN base ELSE Then(i, f[i-1])]
  <2>7. ASSUME NEW i \in 0..n PROVE f[i] = h[i]
    <3>1. CASE i = 0
      BY <2>2, <2>3, <2>5, <2>6, <3>1
    <3>2. CASE i # 0
      <4>1. i \in 1..n
        BY <3>2
      <4>2. f[i] = Then(i, f[i-1])
        BY <2>2, <2>3, <2>5, <2>6, <4>1
      <4> QED BY <3>2, <4>2
    <3> QED BY <3>1, <3>2
  <2>8. f = h
    BY <2>5, <2>7
  <2> QED BY <2>8
<1>7. Runs(after)
  <2> HIDE DEF Runs
  <2> QED BY <1>6, Zenon
<1> HIDE DEF after
<1>8. after[0] = base /\ \A i \in 1..n : after[i] = Then(i, after[i-1])
  BY <1>2, <1>7
<1>9. \A i \in 0..n : after[i] \in SearchType
  <2>1. n \in Nat
    BY <1>2
  <2> QED BY <1>3, <1>5, <1>8, <2>1, StaysIn
<1>10. Hops(after, g, s, goal)
  BY <1>1, <1>4, <1>8, <1>9 DEF Hops
<1> QED BY <1>10

\* The trail of n edges of the graph that leads from a to k.
Trail(g, a, n, k, t) ==
    /\ t \in Seq(Edge)
    /\ ToSet(t) \subseteq EdgesOf(g)
    /\ Len(t) = n
    /\ LeadsTo(t, a, k)

\* A trail continued by an edge of the graph.
LEMMA TrailContinues ==
    ASSUME NEW g, GraphOK(g), NEW a \in Key, NEW n \in Nat, NEW k, NEW t, Trail(g, a, n, k, t),
           NEW e \in EdgesOf(g), k \in Ends(e)
    PROVE  Trail(g, a, n + 1, Other(e, k), Append(t, e))
<1>1. t \in Seq(Edge) /\ ToSet(t) \subseteq EdgesOf(g) /\ Len(t) = n /\ LeadsTo(t, a, k)
  BY DEF Trail
<1>2. e \in Edge
  BY InGraph
<1>3. Append(t, e) \in Seq(Edge) /\ ToSet(Append(t, e)) = ToSet(t) \cup {e}
      /\ Len(Append(t, e)) = n + 1
  BY <1>1, <1>2, AppendSet, AppendProperties
<1>4. LeadsTo(Append(t, e), a, Other(e, k))
  BY <1>1, <1>2, TrailGrows
<1> QED BY <1>1, <1>3, <1>4 DEF Trail

\* What holds of u while the frontier i edges from a is expanded.
Hopping(g, a, b, i, u) ==
    /\ u \in SearchType
    /\ a \in u.seen
    /\ b # a => b \notin u.seen
    /\ Within(g, a, i) \subseteq u.seen
    /\ u.seen \subseteq Within(g, a, i + 1)
    /\ u.seen \subseteq Within(g, a, i) \cup {p.key : p \in ToSet(u.next)}
    /\ \A p \in ToSet(u.next) : p.key \in u.seen /\ Trail(g, a, i + 1, p.key, p.trail)
    /\ u.found # <<>> => Trail(g, a, i + 1, b, u.found) /\ b \notin Within(g, a, i)

\* One edge of one frontier node.
LEMMA VisitWorks ==
    ASSUME NEW g, GraphOK(g), NEW a \in Key, NEW b \in Key, NEW i \in Nat,
           NEW u, Hopping(g, a, b, i, u),
           NEW p \in StepType, Trail(g, a, i, p.key, p.trail), p.key \in Within(g, a, i),
           NEW e \in EdgesOf(g), p.key \in Ends(e)
    PROVE  LET v == Visit(u, p, e, b) IN
           /\ Hopping(g, a, b, i, v)
           /\ u.seen \subseteq v.seen
           /\ u.found # <<>> => v.found # <<>>
           /\ v.found = <<>> => Other(e, p.key) \in v.seen
<1> DEFINE k == Other(e, p.key)
           v == Visit(u, p, e, b)
           t == Append(p.trail, e)
           q == [key |-> k, trail |-> t]
<1>1. /\ u \in SearchType /\ a \in u.seen /\ (b # a => b \notin u.seen)
      /\ Within(g, a, i) \subseteq u.seen
      /\ u.seen \subseteq Within(g, a, i + 1)
      /\ u.seen \subseteq Within(g, a, i) \cup {r.key : r \in ToSet(u.next)}
      /\ \A r \in ToSet(u.next) : r.key \in u.seen /\ Trail(g, a, i + 1, r.key, r.trail)
      /\ u.found # <<>> => Trail(g, a, i + 1, b, u.found) /\ b \notin Within(g, a, i)
  BY DEF Hopping
<1>2. e \in Edge
  BY InGraph
<1>3. Trail(g, a, i + 1, k, t)
  BY TrailContinues
<1>4. k \in Within(g, a, i + 1)
  <2>1. k \in Beside(g, Within(g, a, i))
    BY DEF Beside, Other, Ends
  <2> QED BY <2>1, WithinSteps
<1>5. /\ v \in SearchType
      /\ u.found # <<>> \/ k \in u.seen => v = u
      /\ u.found = <<>> /\ k \notin u.seen /\ k = b =>
            v.seen = u.seen /\ v.next = u.next /\ v.found = t
      /\ u.found = <<>> /\ k \notin u.seen /\ k # b =>
            v.seen = u.seen \cup {k} /\ v.found = u.found /\ v.next = Append(u.next, q)
  <2>1. u \in SearchType
    BY <1>1
  <2>2. v \in SearchType /\ Visited(u, b, k, t, v)
    BY <1>2, <2>1, VisitCases
  <2> QED BY <2>2 DEF Visited
<1>6. q.key = k /\ q.trail = t
  OBVIOUS
<1>7. k \in Key /\ t \in Seq(Edge)
  BY <1>2, <1>3, EdgeParts DEF Trail, Other, StepType
<1>8. q \in StepType
  BY <1>7 DEF StepType
<1>9. u.next \in Seq(StepType) /\ t # <<>>
  <2>1. u.next \in Seq(StepType)
    BY <1>1 DEF SearchType
  <2>2. Len(t) = i + 1
    BY <1>3 DEF Trail
  <2> HIDE DEF t
  <2>3. t # <<>>
    BY <2>2
  <2> QED BY <2>1, <2>3
<1> HIDE DEF k, v, t, q
<1>10. CASE u.found # <<>> \/ k \in u.seen
  BY <1>1, <1>5, <1>10 DEF k, v, Hopping
<1>11. CASE u.found = <<>> /\ k \notin u.seen /\ k = b
  <2>1. v.seen = u.seen /\ v.next = u.next /\ v.found = t
    BY <1>5, <1>11
  <2>2. Hopping(g, a, b, i, v)
    BY <1>1, <1>3, <1>5, <1>11, <2>1 DEF Hopping
  <2> QED BY <1>9, <1>11, <2>1, <2>2 DEF v
<1>12. CASE u.found = <<>> /\ k \notin u.seen /\ k # b
  <2>1. v.seen = u.seen \cup {k} /\ v.found = u.found /\ v.next = Append(u.next, q)
    BY <1>5, <1>12
  <2>2. ToSet(v.next) = ToSet(u.next) \cup {q}
    BY <1>8, <1>9, <2>1, AppendSet
  <2>3. v.seen \subseteq Within(g, a, i) \cup {r.key : r \in ToSet(v.next)}
    BY <1>1, <1>6, <2>1, <2>2
  <2>4. \A r \in ToSet(v.next) : r.key \in v.seen /\ Trail(g, a, i + 1, r.key, r.trail)
    BY <1>1, <1>3, <1>6, <2>1, <2>2
  <2>5. Hopping(g, a, b, i, v)
    BY <1>1, <1>4, <1>5, <1>12, <2>1, <2>3, <2>4 DEF Hopping
  <2> QED BY <1>12, <2>1, <2>5 DEF v, k
<1> QED BY <1>10, <1>11, <1>12

\* One frontier node: all its neighbours are seen, or the goal is found.
LEMMA ExpandWorks ==
    ASSUME NEW g, GraphOK(g), NEW a \in Key, NEW b \in Key, NEW i \in Nat,
           NEW u, Hopping(g, a, b, i, u),
           NEW p \in StepType, Trail(g, a, i, p.key, p.trail), p.key \in Within(g, a, i)
    PROVE  LET v == Expand(g, u, p, b) IN
           /\ Hopping(g, a, b, i, v)
           /\ u.seen \subseteq v.seen
           /\ u.found # <<>> => v.found # <<>>
           /\ v.found = <<>> =>
                 \A e \in EdgesOf(g) : p.key \in Ends(e) => Other(e, p.key) \in v.seen
<1> DEFINE edges == Adjacent(g, p.key)
           n == Len(edges)
<1>1. u \in SearchType /\ p.key \in Key
  BY DEF Hopping, StepType
<1>2. PICK after : Expands(after, g, u, p, b)
  BY <1>1, ExpandRuns, Zenon
<1>3. /\ n \in Nat
      /\ \A e : e \in ToSet(edges) <=> e \in EdgesOf(g) /\ p.key \in Ends(e)
      /\ \A e : e \in ToSet(edges) <=> \E j \in 1..n : e = edges[j]
      /\ \A j \in 1..n : edges[j] \in ToSet(edges)
  BY <1>1, AdjacentWorks, InSeq
<1>4. /\ after[0] = u
      /\ \A j \in 1..n : after[j] = Visit(after[j-1], p, edges[j], b)
      /\ Expand(g, u, p, b) = after[n]
  BY <1>2 DEF Expands
<1> HIDE DEF edges, n
<1> DEFINE Good(j) == /\ Hopping(g, a, b, i, after[j])
                      /\ u.seen \subseteq after[j].seen
                      /\ u.found # <<>> => after[j].found # <<>>
                      /\ after[j].found = <<>> =>
                            \A m \in 1..j : Other(edges[m], p.key) \in after[j].seen
           S == {j \in 0..n : Good(j)}
<1>5. 0 \in S
  BY <1>3, <1>4
<1>6. ASSUME NEW j \in 0..(n-1), j \in S PROVE j + 1 \in S
  <2>1. j + 1 \in 1..n /\ (j + 1) - 1 = j /\ j + 1 \in 0..n /\ \A m \in 1..(j+1) : m \in 1..j \/ m = j + 1
    BY <1>3
  <2> DEFINE e == edges[j+1]
             v == after[j]
             w == after[j+1]
  <2>2. w = Visit(v, p, e, b)
    BY <1>4, <2>1
  <2>3. e \in EdgesOf(g) /\ p.key \in Ends(e)
    BY <1>3, <2>1
  <2>4. Good(j)
    BY <1>6
  <2>5. /\ Hopping(g, a, b, i, v) /\ u.seen \subseteq v.seen
        /\ u.found # <<>> => v.found # <<>>
        /\ v.found = <<>> => \A m \in 1..j : Other(edges[m], p.key) \in v.seen
    BY <2>4
  <2>6. /\ Hopping(g, a, b, i, w)
        /\ v.seen \subseteq w.seen
        /\ v.found # <<>> => w.found # <<>>
        /\ w.found = <<>> => Other(e, p.key) \in w.seen
    <3> HIDE DEF e, v, w, Good, S
    <3> QED BY <2>2, <2>3, <2>5, VisitWorks
  <2>7. w.found = <<>> => \A m \in 1..(j+1) : Other(edges[m], p.key) \in w.seen
    BY <2>1, <2>5, <2>6
  <2>8. Good(j+1)
    BY <2>5, <2>6, <2>7
  <2> QED BY <2>1, <2>8
<1>7. \A j \in 0..n : j \in S
  <2> HIDE DEF S
  <2> QED BY <1>3, <1>5, <1>6, UpTo
<1>8. Good(n)
  BY <1>3, <1>7
<1>9. after[n].found = <<>> =>
          \A e \in EdgesOf(g) : p.key \in Ends(e) => Other(e, p.key) \in after[n].seen
  BY <1>3, <1>8
<1> QED BY <1>4, <1>8, <1>9

\* What holds of the search s after i hops.
Searched(g, a, b, i, s) ==
    /\ s \in SearchType
    /\ s.found = <<>> =>
          /\ s.seen = Within(g, a, i)
          /\ a \in s.seen
          /\ b # a => b \notin s.seen
          /\ \A p \in ToSet(s.next) : p.key \in s.seen /\ Trail(g, a, i, p.key, p.trail)
          /\ \A e \in EdgesOf(g), k \in Key :
                k \in Ends(e) /\ k \in s.seen /\ Other(e, k) \notin s.seen =>
                   \E p \in ToSet(s.next) : p.key = k
    /\ s.found # <<>> =>
          /\ Trail(g, a, Len(s.found), b, s.found)
          /\ Len(s.found) \in 1..i
          /\ b \notin Within(g, a, Len(s.found) - 1)

\* One hop from a search that has found nothing looks one edge further.
LEMMA HopWorks ==
    ASSUME NEW g, GraphOK(g), NEW a \in Key, NEW b \in Key, NEW i \in Nat,
           NEW s, Searched(g, a, b, i, s), s.found = <<>>
    PROVE  Searched(g, a, b, i + 1, Hop(g, s, b))
<1> DEFINE n == Len(s.next)
           w == Hop(g, s, b)
<1>1. /\ s \in SearchType /\ s.seen = Within(g, a, i) /\ a \in s.seen
      /\ b # a => b \notin s.seen
      /\ \A p \in ToSet(s.next) : p.key \in s.seen /\ Trail(g, a, i, p.key, p.trail)
      /\ \A e \in EdgesOf(g), k \in Key :
            k \in Ends(e) /\ k \in s.seen /\ Other(e, k) \notin s.seen =>
               \E p \in ToSet(s.next) : p.key = k
  BY DEF Searched
<1>2. s.seen \in SUBSET Key /\ s.next \in Seq(StepType) /\ s.found \in Seq(Edge)
  BY <1>1 DEF SearchType
<1>3. /\ n \in Nat
      /\ \A p : p \in ToSet(s.next) <=> \E j \in 1..n : p = s.next[j]
      /\ \A j \in 1..n : s.next[j] \in StepType /\ s.next[j] \in ToSet(s.next)
  BY <1>2, InSeq
<1>4. PICK after : Hops(after, g, s, b)
  BY <1>1, HopRuns, Zenon
<1>5. /\ after[0] = [s EXCEPT !.next = <<>>]
      /\ \A j \in 1..n : after[j] = Expand(g, after[j-1], s.next[j], b)
      /\ w = after[n] /\ after[0] \in SearchType
  BY <1>3, <1>4 DEF Hops
<1>6. Within(g, a, i + 1) = s.seen \cup Beside(g, s.seen)
  BY <1>1, WithinSteps
<1> HIDE DEF n, w
<1> DEFINE Good(j) == /\ Hopping(g, a, b, i, after[j])
                      /\ after[j].found = <<>> =>
                            \A m \in 1..j, e \in EdgesOf(g) :
                               s.next[m].key \in Ends(e) =>
                                  Other(e, s.next[m].key) \in after[j].seen
           S == {j \in 0..n : Good(j)}
<1>7. 0 \in S
  <2>1. after[0].seen = s.seen /\ after[0].next = <<>> /\ after[0].found = <<>>
    BY <1>1, <1>5 DEF SearchType
  <2>2. Hopping(g, a, b, i, after[0])
    BY <1>1, <1>5, <1>6, <2>1, NothingInEmpty DEF Hopping
  <2> QED BY <1>3, <2>2
<1>8. ASSUME NEW j \in 0..(n-1), j \in S PROVE j + 1 \in S
  <2>1. j + 1 \in 1..n /\ (j + 1) - 1 = j /\ j + 1 \in 0..n /\ \A m \in 1..(j+1) : m \in 1..j \/ m = j + 1
    BY <1>3
  <2> DEFINE p == s.next[j+1]
             v == after[j]
             x == after[j+1]
  <2>2. x = Expand(g, v, p, b)
    BY <1>5, <2>1
  <2>3. p \in StepType /\ p.key \in Within(g, a, i) /\ Trail(g, a, i, p.key, p.trail)
    BY <1>1, <1>3, <2>1
  <2>4. Good(j)
    BY <1>8
  <2>5. /\ Hopping(g, a, b, i, v)
        /\ v.found = <<>> => \A m \in 1..j, e \in EdgesOf(g) :
               s.next[m].key \in Ends(e) => Other(e, s.next[m].key) \in v.seen
    BY <2>4
  <2>6. /\ Hopping(g, a, b, i, x)
        /\ v.seen \subseteq x.seen
        /\ v.found # <<>> => x.found # <<>>
        /\ x.found = <<>> => \A e \in EdgesOf(g) : p.key \in Ends(e) => Other(e, p.key) \in x.seen
    <3> HIDE DEF p, v, x, Good, S
    <3> QED BY <2>2, <2>3, <2>5, ExpandWorks
  <2>7. ASSUME x.found = <<>>, NEW m \in 1..(j+1), NEW e \in EdgesOf(g), s.next[m].key \in Ends(e)
        PROVE  Other(e, s.next[m].key) \in x.seen
    <3>1. CASE m \in 1..j
      <4>1. Other(e, s.next[m].key) \in v.seen
        BY <2>5, <2>6, <2>7, <3>1
      <4> QED BY <2>6, <4>1
    <3>2. CASE m = j + 1
      BY <2>6, <2>7, <3>2
    <3> QED BY <2>1, <3>1, <3>2
  <2>8. Good(j+1)
    BY <2>6, <2>7
  <2> QED BY <2>1, <2>8
<1>9. \A j \in 0..n : j \in S
  <2> HIDE DEF S
  <2> QED BY <1>3, <1>7, <1>8, UpTo
<1>10. Good(n)
  BY <1>3, <1>9
<1>11. /\ Hopping(g, a, b, i, w)
       /\ w.found = <<>> =>
             \A p \in ToSet(s.next), e \in EdgesOf(g) :
                p.key \in Ends(e) => Other(e, p.key) \in w.seen
  BY <1>3, <1>5, <1>10
<1>12. /\ w \in SearchType /\ a \in w.seen /\ (b # a => b \notin w.seen)
       /\ s.seen \subseteq w.seen
       /\ w.seen \subseteq Within(g, a, i + 1)
       /\ w.seen \subseteq s.seen \cup {p.key : p \in ToSet(w.next)}
       /\ \A p \in ToSet(w.next) : p.key \in w.seen /\ Trail(g, a, i + 1, p.key, p.trail)
       /\ w.found # <<>> => Trail(g, a, i + 1, b, w.found) /\ b \notin Within(g, a, i)
  BY <1>1, <1>11 DEF Hopping
<1> HIDE DEF Good, S
<1>13. CASE w.found = <<>>
  <2>1. ASSUME NEW k \in Key, NEW e \in EdgesOf(g), k \in Ends(e), k \in s.seen
        PROVE  Other(e, k) \in w.seen
    <3>1. CASE Other(e, k) \in s.seen
      BY <1>12, <3>1
    <3>2. CASE Other(e, k) \notin s.seen
      <4>1. PICK p \in ToSet(s.next) : p.key = k
        BY <1>1, <2>1, <3>2
      <4> QED BY <1>11, <1>13, <2>1, <4>1
    <3> QED BY <3>1, <3>2
  <2>2. ASSUME NEW x \in Beside(g, s.seen) PROVE x \in w.seen
    <3>1. PICK e \in EdgesOf(g) : \/ e.subject \in s.seen /\ x = e.object
                                  \/ e.object \in s.seen /\ x = e.subject
      BY <2>2 DEF Beside
    <3>2. PICK k \in s.seen : k \in Ends(e) /\ x = Other(e, k)
      BY <3>1 DEF Ends, Other
    <3> QED BY <1>2, <2>1, <3>2
  <2>3. w.seen = Within(g, a, i + 1)
    BY <1>6, <1>12, <2>2
  <2>4. ASSUME NEW e \in EdgesOf(g), NEW k \in Key,
               k \in Ends(e), k \in w.seen, Other(e, k) \notin w.seen
        PROVE  \E p \in ToSet(w.next) : p.key = k
    <3>1. k \notin s.seen
      BY <2>1, <2>4
    <3> QED BY <1>12, <2>4, <3>1
  <2> QED BY <1>12, <1>13, <2>3, <2>4 DEF Searched, w
<1>14. CASE w.found # <<>>
  <2>1. Trail(g, a, i + 1, b, w.found) /\ b \notin Within(g, a, i) /\ Len(w.found) = i + 1
    BY <1>12, <1>14 DEF Trail
  <2>2. i + 1 \in 1..(i + 1) /\ (i + 1) - 1 = i
    OBVIOUS
  <2> QED BY <1>12, <1>14, <2>1, <2>2 DEF Searched, w
<1> QED BY <1>13, <1>14

\* A hop from a search that has found its trail changes nothing that counts.
LEMMA HopIdles ==
    ASSUME NEW g, GraphOK(g), NEW a \in Key, NEW b \in Key, NEW i \in Nat,
           NEW s, Searched(g, a, b, i, s), s.found # <<>>
    PROVE  Searched(g, a, b, i + 1, Hop(g, s, b))
<1> DEFINE n == Len(s.next)
           w == Hop(g, s, b)
           D == {u \in SearchType : u.found = s.found}
<1>1. s \in SearchType
  BY DEF Searched
<1>2. n \in Nat /\ \A j \in 1..n : s.next[j] \in StepType
  BY <1>1 DEF SearchType
<1>3. PICK after : Hops(after, g, s, b)
  BY <1>1, HopRuns, Zenon
<1>4. /\ after[0] = [s EXCEPT !.next = <<>>]
      /\ \A j \in 1..n : after[j] = Expand(g, after[j-1], s.next[j], b)
      /\ w = after[n] /\ after[0] \in SearchType
  BY <1>2, <1>3 DEF Hops
<1>5. after[0] \in D
  BY <1>1, <1>4 DEF SearchType
<1>6. ASSUME NEW j \in 1..n, after[j-1] \in D PROVE after[j] \in D
  <2>1. after[j-1] \in SearchType /\ after[j-1].found = s.found
    BY <1>6
  <2>2. Expand(g, after[j-1], s.next[j], b) = after[j-1]
    BY <1>2, <2>1, ExpandIdles
  <2> QED BY <1>4, <1>6, <2>2
<1>7. \A j \in 0..n : after[j] \in D
  <2> HIDE DEF n, D
  <2> QED BY <1>2, <1>5, <1>6, StaysIn
<1>8. w \in SearchType /\ w.found = s.found
  BY <1>2, <1>4, <1>7
<1>9. \A j \in 1..i : j \in 1..(i+1)
  OBVIOUS
<1> QED BY <1>8, <1>9 DEF Searched, w

\* search holds the values of the recursion that defines Path.
Finds(search, g, a, b) ==
    /\ search[0] = Origin(a)
    /\ \A i \in 1..MaxHops : search[i] = Hop(g, search[i-1], b)
    /\ Path(g, a, b) = search[MaxHops].found

\* A search before its first hop.
LEMMA OriginWorks ==
    ASSUME NEW g, NEW a \in Key, NEW b \in Key
    PROVE  Origin(a) \in SearchType /\ Searched(g, a, b, 0, Origin(a))
<1> DEFINE s == Origin(a)
           p == [key |-> a, trail |-> <<>>]
<1>1. s.seen = {a} /\ s.next = <<p>> /\ s.found = <<>>
  BY DEF Origin
<1>2. <<>> \in Seq(Edge) /\ ToSet(<<>>) = {} /\ Len(<<>>) = 0 /\ LeadsTo(<<>>, a, a)
  BY NothingInEmpty, TrailStarts
<1>3. p \in StepType /\ p.key = a /\ p.trail = <<>>
  BY <1>2 DEF StepType
<1> HIDE DEF p
<1>4. <<p>> \in Seq(StepType) /\ ToSet(<<p>>) = {p}
  BY <1>3 DEF ToSet
<1>5. s \in SearchType
  BY <1>2, <1>4 DEF SearchType, Origin, p
<1>6. Trail(g, a, 0, a, <<>>)
  BY <1>2 DEF Trail
<1>7. Within(g, a, 0) = {a}
  BY WithinSteps
<1> HIDE DEF s
<1>8. Searched(g, a, b, 0, s)
  BY <1>1, <1>3, <1>4, <1>5, <1>6, <1>7 DEF Searched
<1> QED BY <1>5, <1>8 DEF s

\* The recursion that defines Path has a solution.
LEMMA PathRuns ==
    ASSUME NEW g, GraphOK(g), NEW a \in Key, NEW b \in Key
    PROVE  \E search : Finds(search, g, a, b)
<1> DEFINE n == MaxHops
           base == Origin(a)
           Then(k) == Hop(g, k, b)
           Runs(k) == k = [i \in 0..n |-> IF i = 0 THEN base ELSE Then(k[i-1])]
           search == CHOOSE k : Runs(k)
<1>1. Path(g, a, b) = search[n].found
  BY Zenon DEF Path
<1>2. n \in Nat
  BY GraphAssumption
<1>3. base \in SearchType
  BY OriginWorks
<1>4. ASSUME NEW k \in SearchType PROVE Then(k) \in SearchType
  <2>1. PICK after : Hops(after, g, k, b)
    BY HopRuns, Zenon
  <2>2. Len(k.next) \in 0..Len(k.next)
    BY DEF SearchType
  <2> QED BY <2>1, <2>2 DEF Hops
<1>5. n = MaxHops /\ base = Origin(a) /\ \A k : Then(k) = Hop(g, k, b)
  BY Zenon
<1> HIDE DEF n, base, Then
<1>6. \E f : Runs(f)
  <2> DEFINE step == [i \in 1..n |-> [k \in SearchType |-> Then(k)]]
  <2>1. step \in Steps(n, SearchType)
    BY <1>4 DEF Steps
  <2>2. \A i \in 1..n, k \in SearchType : step[i][k] = Then(k)
    OBVIOUS
  <2> HIDE DEF step
  <2>3. PICK f : Solves(f, n, SearchType, base, step)
    BY <1>2, <1>3, <2>1, Recursion, Zenon
  <2>4. f \in [0..n -> SearchType] /\ f[0] = base /\ \A i \in 1..n : f[i] = step[i][f[i-1]]
    BY <2>3 DEF Solves
  <2>5. \A i \in 1..n : f[i-1] \in SearchType
    BY <1>2, <2>4
  <2> DEFINE h == [i \in 0..n |-> IF i = 0 THEN base ELSE Then(f[i-1])]
  <2>6. ASSUME NEW i \in 0..n PROVE f[i] = h[i]
    <3>1. CASE i = 0
      BY <1>2, <2>2, <2>4, <2>5, <3>1
    <3>2. CASE i # 0
      <4>1. i \in 1..n
        BY <3>2
      <4>2. f[i] = Then(f[i-1])
        BY <1>2, <2>2, <2>4, <2>5, <4>1
      <4> QED BY <3>2, <4>2
    <3> QED BY <3>1, <3>2
  <2>7. f = h
    BY <2>4, <2>6
  <2> QED BY <2>7
<1>7. Runs(search)
  <2> HIDE DEF Runs
  <2> QED BY <1>6, Zenon
<1> HIDE DEF search
<1>8. search[0] = base /\ \A i \in 1..n : search[i] = Then(search[i-1])
  BY <1>2, <1>7
<1>9. Finds(search, g, a, b)
  BY <1>1, <1>5, <1>8 DEF Finds
<1> QED BY <1>9

\* The trail path returns is a shortest one; when it returns none, the search
\* has seen everything within max_hops.
LEMMA PathWorks ==
    ASSUME NEW g, GraphOK(g), NEW a \in Key, NEW b \in Key
    PROVE  LET t == Path(g, a, b) IN
           /\ t # <<>> => /\ Trail(g, a, Len(t), b, t)
                          /\ Len(t) \in 1..MaxHops
                          /\ b \notin Within(g, a, Len(t) - 1)
           /\ t = <<>> /\ b # a => b \notin Within(g, a, MaxHops)
<1>1. PICK search : Finds(search, g, a, b)
  BY PathRuns, Zenon
<1> DEFINE S == {i \in 0..MaxHops : Searched(g, a, b, i, search[i])}
<1>2. MaxHops \in Nat
  BY GraphAssumption
<1>3. 0 \in S
  BY <1>1, <1>2, OriginWorks DEF Finds
<1>4. ASSUME NEW i \in 0..(MaxHops-1), i \in S PROVE i + 1 \in S
  <2>1. i \in Nat /\ i + 1 \in 1..MaxHops /\ (i + 1) - 1 = i /\ i + 1 \in 0..MaxHops
    BY <1>2
  <2>2. search[i+1] = Hop(g, search[i], b)
    BY <1>1, <2>1 DEF Finds
  <2>3. Searched(g, a, b, i, search[i])
    BY <1>4
  <2>4. Searched(g, a, b, i + 1, Hop(g, search[i], b))
    BY <2>1, <2>3, HopWorks, HopIdles
  <2> QED BY <2>1, <2>2, <2>4
<1>5. \A i \in 0..MaxHops : i \in S
  <2> HIDE DEF S
  <2> QED BY <1>2, <1>3, <1>4, UpTo
<1>6. Searched(g, a, b, MaxHops, search[MaxHops])
  BY <1>2, <1>5
<1>7. Path(g, a, b) = search[MaxHops].found
  BY <1>1 DEF Finds
<1> QED BY <1>6, <1>7 DEF Searched

-----------------------------------------------------------------------------
(***************************************************************************)
(* The answers.                                                            *)
(***************************************************************************)

\* The edges of the graph that join two nodes.
Joining(g, a, b) == {e \in EdgesOf(g) : {e.subject, e.object} = {a, b}}

\* The edges between two nodes are all those of the graph that join them.
LEMMA BetweenWorks ==
    ASSUME NEW g, GraphOK(g), NEW a \in Key, NEW b \in Key
    PROVE  /\ EdgesBetween(g, a, b) \in Seq(Edge)
           /\ ToSet(EdgesBetween(g, a, b)) = Joining(g, a, b)
<1> DEFINE A == Keep(g.out[a], {e \in Edge : e.object = b})
           B == Keep(g.out[b], {e \in Edge : e.object = a})
<1>1. g.out[a] \in Seq(Edge) /\ g.out[b] \in Seq(Edge)
  BY Parts
<1>2. /\ A \in Seq(Edge) /\ ToSet(A) = ToSet(g.out[a]) \cap {e \in Edge : e.object = b}
      /\ B \in Seq(Edge) /\ ToSet(B) = ToSet(g.out[b]) \cap {e \in Edge : e.object = a}
  BY <1>1, KeepProperties
<1>3. EdgesBetween(g, a, b) = A \o B
  BY DEF EdgesBetween
<1>4. \A k \in Key : \A e \in ToSet(g.out[k]) : e \in Edge /\ e.subject = k
  BY Parts DEF GraphOK, Agree
<1> HIDE DEF A, B
<1>5. A \o B \in Seq(Edge) /\ ToSet(A \o B) = ToSet(A) \cup ToSet(B)
  BY <1>2, ConcatSet
<1>6. ASSUME NEW e
      PROVE  e \in ToSet(A) \cup ToSet(B) <=> e \in Joining(g, a, b)
  <2>1. e \in EdgesOf(g) <=> e \in Edge /\ e \in ToSet(g.out[e.subject])
    BY InGraph
  <2>2. e \in ToSet(A) <=> e \in ToSet(g.out[a]) /\ e \in Edge /\ e.object = b
    BY <1>2
  <2>3. e \in ToSet(B) <=> e \in ToSet(g.out[b]) /\ e \in Edge /\ e.object = a
    BY <1>2
  <2>4. {e.subject, e.object} = {a, b} <=>
           \/ e.subject = a /\ e.object = b
           \/ e.subject = b /\ e.object = a
    OBVIOUS
  <2>5. e \in ToSet(g.out[a]) => e.subject = a
    BY <1>4
  <2>6. e \in ToSet(g.out[b]) => e.subject = b
    BY <1>4
  <2> QED BY <2>1, <2>2, <2>3, <2>4, <2>5, <2>6 DEF Joining
<1> QED BY <1>3, <1>5, <1>6

\* A trail of one edge is an edge between its ends.
LEMMA ShortTrail ==
    ASSUME NEW g, NEW a \in Key, NEW b, NEW t, Trail(g, a, 1, b, t)
    PROVE  Joining(g, a, b) # {}
<1>1. t \in Seq(Edge) /\ ToSet(t) \subseteq EdgesOf(g) /\ Len(t) = 1 /\ LeadsTo(t, a, b)
  BY DEF Trail
<1>2. PICK at : Passes(at, t, a, b)
  BY <1>1, TrailRuns, Zenon
<1>3. at[0] = a /\ a \in Ends(t[1]) /\ b = Other(t[1], a)
  <2>1. 1 \in 1..Len(t) /\ 1 - 1 = 0
    BY <1>1
  <2> QED BY <1>1, <1>2, <2>1 DEF Passes
<1>4. t[1] \in EdgesOf(g)
  BY <1>1, InSeq
<1> QED BY <1>3, <1>4 DEF Ends, Other, Joining

\* x is a sound answer about g.
SoundIn(g, x) ==
    /\ x.pattern # "none" => ToSet(x.edges) \subseteq EdgesOf(g)
    /\ x.pattern = "edge" =>
          x.edges # <<>> /\ \A e \in ToSet(x.edges) : {e.subject, e.object} = {x.a, x.b}
    /\ x.pattern = "path" =>
          /\ LeadsTo(x.edges, x.a, x.b)
          /\ Len(x.edges) \in 2..MaxHops
          /\ x.b \notin Within(g, x.a, Len(x.edges) - 1)
    /\ x.pattern = "no_path" /\ x.a # x.b => x.b \notin Within(g, x.a, MaxHops)
    /\ x.pattern = "neighbors" =>
          x.edges # <<>> /\ \A e \in ToSet(x.edges) : x.a \in {e.subject, e.object}

\* Soundness depends on the edges of the graph only: touching changes none.
LEMMA SoundSame ==
    ASSUME NEW g, NEW h, EdgesOf(g) = EdgesOf(h), NEW x, SoundIn(g, x)
    PROVE  SoundIn(h, x)
<1>1. MaxHops \in Nat
  BY GraphAssumption
<1>2. Within(g, x.a, MaxHops) = Within(h, x.a, MaxHops)
  BY <1>1, WithinSame
<1>3. ASSUME x.pattern = "path"
      PROVE  Within(g, x.a, Len(x.edges) - 1) = Within(h, x.a, Len(x.edges) - 1)
  <2>1. Len(x.edges) - 1 \in Nat
    BY <1>1, <1>3 DEF SoundIn
  <2> QED BY <2>1, WithinSame
<1> QED BY <1>2, <1>3 DEF SoundIn

\* No answer claims nothing.
LEMMA SilenceIsSound ==
    ASSUME NEW g
    PROVE  SoundIn(g, NoAnswer)
BY DEF SoundIn, NoAnswer

\* The answer to a question about two entities.
LEMMA TwoEntityWorks ==
    ASSUME NEW g, GraphOK(g), NEW a \in Key, NEW b \in Key
    PROVE  SoundIn(g, TwoEntityAnswer(g, a, b))
<1> DEFINE direct == EdgesBetween(g, a, b)
           trail == Path(g, a, b)
           x == TwoEntityAnswer(g, a, b)
<1>1. x = IF {a, b} \ Resident(g) # {} THEN NoAnswer
          ELSE IF direct # <<>>
          THEN [pattern |-> "edge", a |-> a, b |-> b, edges |-> direct]
          ELSE IF trail # <<>>
          THEN [pattern |-> "path", a |-> a, b |-> b, edges |-> trail]
          ELSE [pattern |-> "no_path", a |-> a, b |-> b, edges |-> <<>>]
  BY DEF TwoEntityAnswer
<1>2. /\ direct \in Seq(Edge)
      /\ ToSet(direct) = Joining(g, a, b)
  BY BetweenWorks
<1>3. /\ trail # <<>> => /\ Trail(g, a, Len(trail), b, trail)
                         /\ Len(trail) \in 1..MaxHops
                         /\ b \notin Within(g, a, Len(trail) - 1)
      /\ trail = <<>> /\ b # a => b \notin Within(g, a, MaxHops)
  BY PathWorks
<1> HIDE DEF direct, trail, x
<1>5. CASE x = NoAnswer
  BY <1>5, SilenceIsSound DEF x
<1>6. CASE direct # <<>> /\ x = [pattern |-> "edge", a |-> a, b |-> b, edges |-> direct]
  <2>1. x.pattern = "edge" /\ x.a = a /\ x.b = b /\ x.edges = direct
    BY <1>6
  <2>2. SoundIn(g, x)
    BY <1>2, <1>6, <2>1 DEF SoundIn, Joining
  <2> QED BY <2>2 DEF x
<1>7. CASE /\ direct = <<>> /\ trail # <<>>
           /\ x = [pattern |-> "path", a |-> a, b |-> b, edges |-> trail]
  <2>1. x.pattern = "path" /\ x.a = a /\ x.b = b /\ x.edges = trail
    BY <1>7
  <2>2. Len(trail) # 1
    <3>1. ToSet(direct) = {}
      BY <1>7, NothingInEmpty
    <3>2. Joining(g, a, b) = {}
      BY <1>2, <3>1
    <3>3. Trail(g, a, Len(trail), b, trail)
      BY <1>3, <1>7
    <3>4. ~ Trail(g, a, 1, b, trail)
      BY <3>2, ShortTrail
    <3> QED BY <3>3, <3>4
  <2>3. Len(trail) \in 2..MaxHops
    <3>1. MaxHops \in Nat
      BY GraphAssumption
    <3> QED BY <1>3, <1>7, <2>2, <3>1
  <2>4. SoundIn(g, x)
    BY <1>3, <1>7, <2>1, <2>3 DEF SoundIn, Trail
  <2> QED BY <2>4 DEF x
<1>8. CASE trail = <<>> /\ x = [pattern |-> "no_path", a |-> a, b |-> b, edges |-> <<>>]
  <2>1. x.pattern = "no_path" /\ x.a = a /\ x.b = b /\ x.edges = <<>>
    BY <1>8
  <2>2. SoundIn(g, x)
    BY <1>3, <1>8, <2>1, NothingInEmpty DEF SoundIn
  <2> QED BY <2>2 DEF x
<1> QED BY <1>1, <1>5, <1>6, <1>7, <1>8

\* The answer to a question about the neighbours of one entity.
LEMMA NeighborhoodWorks ==
    ASSUME NEW g, GraphOK(g), NEW k \in Key, NEW edges \in {g.in[k], g.out[k]}
    PROVE  SoundIn(g, NeighborhoodAnswer(g, k, edges))
<1> DEFINE x == NeighborhoodAnswer(g, k, edges)
<1>1. \A e \in ToSet(edges) : e \in EdgesOf(g) /\ k \in {e.subject, e.object}
  <2>1. ASSUME NEW e \in ToSet(g.out[k]) PROVE e \in EdgesOf(g) /\ e.subject = k
    <3>1. e.subject = k /\ e \in Edge
      BY Parts DEF GraphOK, Agree
    <3> QED BY <3>1, InGraph
  <2>2. ASSUME NEW e \in ToSet(g.in[k]) PROVE e \in EdgesOf(g) /\ e.object = k
    <3>1. e.object = k /\ e \in Edge
      BY Parts DEF GraphOK, Agree
    <3> QED BY <3>1, InGraph
  <2> QED BY <2>1, <2>2
<1>2. CASE k \notin Resident(g) \/ edges = <<>>
  <2>1. x = NoAnswer
    BY <1>2 DEF NeighborhoodAnswer
  <2> QED BY <2>1, SilenceIsSound
<1>3. CASE k \in Resident(g) /\ edges # <<>>
  <2>1. x = [pattern |-> "neighbors", a |-> k, b |-> k, edges |-> edges]
    BY <1>3 DEF NeighborhoodAnswer
  <2> HIDE DEF x
  <2>2. x.pattern = "neighbors" /\ x.a = k /\ x.edges = edges
    BY <2>1
  <2>3. SoundIn(g, x)
    BY <1>1, <1>3, <2>2 DEF SoundIn
  <2> QED BY <2>3 DEF x
<1> QED BY <1>2, <1>3

\* Only a service that is up has an answer, and it is sound about the graph as
\* it is now.
Answers ==
    /\ proc # "up" => answer = NoAnswer
    /\ SoundIn(graph, answer)

\* No step breaks the soundness of the answer.
LEMMA AnswersStep ==
    ASSUME IInv, Answers, [Next]_vars
    PROVE  Answers'
<1>1. GraphOK(graph)
  BY DEF IInv, Shape
<1>2. CASE answer' = NoAnswer
  BY <1>2, SilenceIsSound DEF Answers
<1>3. ASSUME NEW a \in Key, NEW b \in Key, AskTwoEntity(a, b) PROVE Answers'
  <2>1. /\ proc = "up" /\ proc' = "up" /\ answer' = TwoEntityAnswer(graph, a, b)
        /\ graph' = Touch(Touch(graph, a), b)
    BY <1>3 DEF AskTwoEntity, Answered
  <2>2. SoundIn(graph, answer')
    BY <1>1, <2>1, TwoEntityWorks
  <2> DEFINE g == Touch(graph, a)
  <2>3. GraphOK(g) /\ EdgesOf(g) = EdgesOf(graph)
    BY <1>1, TouchWorks
  <2> HIDE DEF g
  <2>4. EdgesOf(Touch(g, b)) = EdgesOf(g)
    BY <2>3, TouchWorks
  <2>5. EdgesOf(graph) = EdgesOf(graph')
    BY <2>1, <2>3, <2>4 DEF g
  <2>6. SoundIn(graph', answer')
    BY <2>2, <2>5, SoundSame
  <2> QED BY <2>1, <2>6 DEF Answers
<1>4. ASSUME NEW k \in Key, AskNeighborhood(k) PROVE Answers'
  <2>1. PICK edges \in {graph.in[k], graph.out[k]} :
            Answered(Touch(graph, k), NeighborhoodAnswer(graph, k, edges))
    BY <1>4 DEF AskNeighborhood
  <2>2. /\ proc' = "up" /\ answer' = NeighborhoodAnswer(graph, k, edges)
        /\ graph' = Touch(graph, k)
    BY <2>1 DEF Answered
  <2>3. SoundIn(graph, answer')
    BY <1>1, <2>2, NeighborhoodWorks
  <2>4. EdgesOf(graph) = EdgesOf(graph')
    BY <1>1, <2>2, TouchWorks
  <2>5. SoundIn(graph', answer')
    BY <2>3, <2>4, SoundSame
  <2> QED BY <2>2, <2>5 DEF Answers
<1>5. CASE proc # "up" /\ answer' = answer
  BY <1>2, <1>5 DEF Answers
<1>6. CASE UNCHANGED vars
  BY <1>6 DEF vars, Answers
<1>7. ASSUME NEW text \in site.texts, Learn(text) PROVE answer' = NoAnswer
  BY <1>7 DEF Learn
<1>8. CASE Start \/ Load \/ Serve \/ WriteTmp \/ Replace
  BY <1>5, <1>8 DEF Start, Load, Serve, WriteTmp, Replace
<1>9. CASE Shutdown \/ Stop
  BY <1>2, <1>9 DEF Shutdown, Stop
<1> QED BY <1>2, <1>3, <1>4, <1>6, <1>7, <1>8, <1>9 DEF Next

\* What Tier 0 answers is so, for every graph and every max_hops: cited edges
\* are resident and link what was asked about, a path is a shortest one, and
\* that there is no connection is said only when max_hops edges reach none.
THEOREM EveryAnswerIsSound == Spec => []AnswersAreSound
<1>1. Init => Answers
  <2> SUFFICES ASSUME Init PROVE Answers
    OBVIOUS
  <2>1. answer = NoAnswer
    BY DEF Init
  <2> QED BY <2>1, SilenceIsSound DEF Answers
<1>2. IInv /\ Answers /\ [Next]_vars => Answers'
  BY AnswersStep
<1>3. Answers => AnswersAreSound
  BY DEF Answers, AnswersAreSound, SoundIn
<1> QED BY <1>1, <1>2, <1>3, InvariantHolds, PTL DEF Spec

\* What promote took for an edge is cited by Tier 0 at once, whatever _evict had
\* to make room for: dedup keeps no edge out, and eviction takes neither end.
THEOREM PromotionsAreAnswered == Spec => []PromotionIsAnswered
<1>1. IInv => PromotionIsAnswered
  <2> DEFINE line == TripletItem(lesson)
             e == Stated(line)
             a == e.subject
             b == e.object
             direct == EdgesBetween(graph, a, b)
  <2> SUFFICES ASSUME IInv, Len(line) = 3, MaxNodes >= 2
               PROVE  /\ TwoEntityAnswer(graph, a, b).pattern = "edge"
                      /\ e \in ToSet(TwoEntityAnswer(graph, a, b).edges)
    BY DEF PromotionIsAnswered
  <2>1. GraphOK(graph) /\ e \in EdgesOf(graph)
    BY DEF IInv, Shape, Lessons
  <2>2. e \in Edge /\ {a, b} \ Resident(graph) = {}
    BY <2>1, InGraph
  <2> HIDE DEF e
  <2>3. a \in Key /\ b \in Key
    BY <2>2 DEF Edge
  <2>4. e \in ToSet(direct)
    BY <2>1, <2>3, BetweenWorks DEF Joining
  <2>5. direct # <<>>
    BY <2>4, NothingInEmpty
  <2>6. TwoEntityAnswer(graph, a, b) = [pattern |-> "edge", a |-> a, b |-> b, edges |-> direct]
    BY <2>2, <2>5, Zenon DEF TwoEntityAnswer
  <2> HIDE DEF direct
  <2> QED BY <2>4, <2>6
<1> QED BY <1>1, InvariantHolds, PTL
==============================================================================

------------------------ MODULE EvidencePackingProofs ------------------------
(***************************************************************************)
(* Proofs about EvidencePacking, for every set of texts, every cost and    *)
(* keyword match of them, every retrieval and every budget.                *)
(***************************************************************************)
EXTENDS EvidencePacking, ListLemmas

-----------------------------------------------------------------------------
(***************************************************************************)
(* What a set of texts costs.                                              *)
(***************************************************************************)

Pieces(texts) == Ones(texts, Cost)

\* One text more costs what that text costs.
LEMMA TokensAdd ==
    ASSUME NEW S, S \subseteq Text, NEW t \in Text, t \notin S, IsFiniteSet(Pieces(S))
    PROVE  /\ IsFiniteSet(Pieces(S \cup {t}))
           /\ TokensOf(S \cup {t}) = TokensOf(S) + Cost[t]
<1>1. Cost[t] \in Nat
  BY PackingAssumption DEF PackingAssumption
<1> QED BY <1>1, TotalAdds DEF TokensOf, Pieces

\* Nothing costs nothing.
LEMMA TokensOfNothing == IsFiniteSet(Pieces({})) /\ TokensOf({}) = 0
BY TotalOfNothing DEF TokensOf, Pieces

\* Fewer texts cost no more.
LEMMA TokensMonotone ==
    ASSUME NEW T, IsFiniteSet(Pieces(T)), NEW S, S \subseteq T
    PROVE  /\ TokensOf(S) \in Nat /\ TokensOf(T) \in Nat
           /\ TokensOf(S) <= TokensOf(T)
BY TotalMonotone DEF TokensOf, Pieces

-----------------------------------------------------------------------------
(***************************************************************************)
(* What is offered to the packer, and in what order.                       *)
(***************************************************************************)

Evidence == Seq(Text \cup {Blank})

\* The texts of a retrieval are its items that are not blank.
LEMMA TextsWork ==
    ASSUME NEW evidence \in Evidence
    PROVE  /\ Texts(evidence) \in Seq(Text)
           /\ ToSet(Texts(evidence)) = ToSet(evidence) \cap Text
<1> DEFINE seq == Texts(evidence)
<1>1. seq \in Seq(Text \cup {Blank}) /\ ToSet(seq) = ToSet(evidence) \cap Text
  BY KeepProperties DEF Evidence, Texts
<1> HIDE DEF seq
<1>2. \A i \in 1..Len(seq) : seq[i] \in Text
  BY <1>1, InSeq
<1>3. seq \in Seq(Text)
  BY <1>1, <1>2
<1> QED BY <1>1, <1>3 DEF seq

\* first holds the values of the recursion that defines Deduped.
Dedupes(first, evidence) ==
    LET seq == Texts(evidence) IN
    /\ first[0] = <<>>
    /\ \A i \in 1..Len(seq) :
          first[i] = IF seq[i] \in ToSet(first[i-1]) THEN first[i-1]
                     ELSE Append(first[i-1], seq[i])
    /\ Deduped(evidence) = first[Len(seq)]

\* The recursion that defines Deduped has a solution.
LEMMA DedupeRuns ==
    ASSUME NEW evidence \in Evidence
    PROVE  \E first : Dedupes(first, evidence)
<1> DEFINE seq == Texts(evidence)
           n == Len(seq)
           D == Seq(Text)
           base == <<>>
           Then(i, k) == IF seq[i] \in ToSet(k) THEN k ELSE Append(k, seq[i])
           Runs(k) == k = [i \in 0..n |-> IF i = 0 THEN base ELSE Then(i, k[i-1])]
           first == CHOOSE k : Runs(k)
<1>1. Deduped(evidence) = first[n]
  BY Zenon DEF Deduped
<1>2. n \in Nat /\ \A i \in 1..n : seq[i] \in Text
  BY TextsWork, InSeq
<1>3. base \in D /\ \A i \in 1..n, k \in D : Then(i, k) \in D
  BY <1>2
<1>4. n = Len(seq) /\ base = <<>>
      /\ \A i, k : Then(i, k) = IF seq[i] \in ToSet(k) THEN k ELSE Append(k, seq[i])
  BY Zenon
<1> HIDE DEF n, D, base, Then
<1>5. \E f : Runs(f)
  <2> DEFINE step == [i \in 1..n |-> [k \in D |-> Then(i, k)]]
  <2>1. step \in Steps(n, D)
    BY <1>3 DEF Steps
  <2>2. \A i \in 1..n, k \in D : step[i][k] = Then(i, k)
    OBVIOUS
  <2>3. n \in Nat
    BY <1>2
  <2>4. base \in D
    BY <1>3
  <2> HIDE DEF step
  <2>5. PICK f : Solves(f, n, D, base, step)
    BY <2>1, <2>3, <2>4, Recursion, Zenon
  <2>6. f \in [0..n -> D] /\ f[0] = base /\ \A i \in 1..n : f[i] = step[i][f[i-1]]
    BY <2>5 DEF Solves
  <2>7. \A i \in 1..n : f[i-1] \in D
    BY <2>3, <2>6
  <2> DEFINE h == [i \in 0..n |-> IF i = 0 THEN base ELSE Then(i, f[i-1])]
  <2>8. ASSUME NEW i \in 0..n PROVE f[i] = h[i]
    <3>1. CASE i = 0
      BY <2>2, <2>3, <2>6, <2>7, <3>1
    <3>2. CASE i # 0
      <4>1. i \in 1..n
        BY <3>2
      <4>2. f[i] = Then(i, f[i-1])
        BY <2>2, <2>3, <2>6, <2>7, <4>1
      <4> QED BY <3>2, <4>2
    <3> QED BY <3>1, <3>2
  <2>9. f = h
    BY <2>6, <2>8
  <2> QED BY <2>9
<1>6. Runs(first)
  <2> HIDE DEF Runs
  <2> QED BY <1>5, Zenon
<1> HIDE DEF first
<1>7. first[0] = base /\ \A i \in 1..n : first[i] = Then(i, first[i-1])
  BY <1>2, <1>6
<1>8. Dedupes(first, evidence)
  BY <1>1, <1>4, <1>7 DEF Dedupes
<1> QED BY <1>8

\* The texts with index up to i.
UpToIndex(seq, i) == {seq[j] : j \in 1..i}

\* The last prefix is all of the sequence; a prefix grows by one element.
Accumulates(seq) ==
    /\ UpToIndex(seq, 0) = {}
    /\ UpToIndex(seq, Len(seq)) = ToSet(seq)
    /\ \A i \in 0..(Len(seq) - 1) :
          UpToIndex(seq, i + 1) = UpToIndex(seq, i) \cup {seq[i+1]}
    /\ \A i \in 0..Len(seq) : UpToIndex(seq, i) \subseteq ToSet(seq)

\* Every sequence is the union of its elements, one after the other.
LEMMA PrefixesGrow ==
    ASSUME NEW seq \in Seq(Text)
    PROVE  Accumulates(seq)
<1> DEFINE n == Len(seq)
<1>1. n \in Nat /\ \A x : x \in ToSet(seq) <=> \E i \in 1..n : x = seq[i]
  BY InSeq
<1> HIDE DEF n
<1>2. UpToIndex(seq, 0) = {} /\ UpToIndex(seq, n) = ToSet(seq)
  BY <1>1 DEF UpToIndex
<1>3. ASSUME NEW i \in 0..(n-1)
      PROVE  UpToIndex(seq, i + 1) = UpToIndex(seq, i) \cup {seq[i+1]}
  <2>1. 1..(i+1) = (1..i) \cup {i+1}
    BY <1>1
  <2> QED BY <2>1 DEF UpToIndex
<1>4. ASSUME NEW i \in 0..n PROVE UpToIndex(seq, i) \subseteq ToSet(seq)
  <2>1. \A j \in 1..i : j \in 1..n
    BY <1>1
  <2> QED BY <1>1, <2>1 DEF UpToIndex
<1> QED BY <1>2, <1>3, <1>4 DEF Accumulates, n

\* Deduped keeps each text once, and loses none.
LEMMA DedupedWorks ==
    ASSUME NEW evidence \in Evidence
    PROVE  /\ Deduped(evidence) \in Seq(Text)
           /\ IsInjective(Deduped(evidence))
           /\ ToSet(Deduped(evidence)) = ToSet(Texts(evidence))
<1> DEFINE seq == Texts(evidence)
           n == Len(seq)
<1>1. PICK first : Dedupes(first, evidence)
  BY DedupeRuns, Zenon
<1>2. seq \in Seq(Text) /\ n \in Nat /\ \A i \in 1..n : seq[i] \in Text
  BY TextsWork, InSeq
<1>3. /\ first[0] = <<>>
      /\ \A i \in 1..n :
            first[i] = IF seq[i] \in ToSet(first[i-1]) THEN first[i-1]
                       ELSE Append(first[i-1], seq[i])
      /\ Deduped(evidence) = first[n]
  BY <1>1 DEF Dedupes
<1>4. /\ UpToIndex(seq, 0) = {} /\ UpToIndex(seq, n) = ToSet(seq)
      /\ \A i \in 0..(n-1) : UpToIndex(seq, i + 1) = UpToIndex(seq, i) \cup {seq[i+1]}
  BY <1>2, PrefixesGrow DEF Accumulates
<1> HIDE DEF seq, n
<1> DEFINE Good(i) == /\ first[i] \in Seq(Text) /\ IsInjective(first[i])
                      /\ ToSet(first[i]) = UpToIndex(seq, i)
           S == {i \in 0..n : Good(i)}
<1>5. 0 \in S
  <2>1. Good(0)
    BY <1>3, <1>4, NothingInEmpty
  <2> QED BY <1>2, <2>1
<1>6. ASSUME NEW i \in 0..(n-1), i \in S PROVE i + 1 \in S
  <2>1. i + 1 \in 1..n /\ (i + 1) - 1 = i /\ i + 1 \in 0..n
    BY <1>2
  <2> DEFINE k == first[i]
             t == seq[i+1]
  <2>2. k \in Seq(Text) /\ IsInjective(k) /\ ToSet(k) = UpToIndex(seq, i) /\ t \in Text
    BY <1>2, <1>6, <2>1
  <2>3. first[i+1] = IF t \in ToSet(k) THEN k ELSE Append(k, t)
    BY <1>3, <2>1
  <2>4. UpToIndex(seq, i + 1) = ToSet(k) \cup {t}
    BY <1>4, <2>2
  <2> HIDE DEF k, t
  <2>5. CASE t \in ToSet(k)
    BY <2>1, <2>2, <2>3, <2>4, <2>5
  <2>6. CASE t \notin ToSet(k)
    <3>1. /\ Append(k, t) \in Seq(Text) /\ IsInjective(Append(k, t))
          /\ ToSet(Append(k, t)) = ToSet(k) \cup {t}
      BY <2>2, <2>6, AppendSet, InjectiveAppend
    <3> QED BY <2>1, <2>3, <2>4, <2>6, <3>1
  <2> QED BY <2>5, <2>6
<1>7. \A i \in 0..n : i \in S
  <2> HIDE DEF S
  <2> QED BY <1>2, <1>5, <1>6, UpTo
<1>8. Good(n)
  BY <1>2, <1>7
<1> QED BY <1>3, <1>4, <1>8 DEF seq

\* The texts of one evidentiality, in rank order.
Level(seq, n) == Keep(seq, {t \in Text : Evidentiality(t) = Cardinality(Keyword) - n})

\* A text's evidentiality counts keywords of the query.
LEMMA EvidentialityBounds ==
    /\ Cardinality(Keyword) \in Nat
    /\ \A t \in Text : Evidentiality(t) \in 0..Cardinality(Keyword)
<1>1. IsFiniteSet(Keyword) /\ \A t \in Text : Matches[t] \in SUBSET Keyword
  BY PackingAssumption
<1>2. Cardinality(Keyword) \in Nat
  BY <1>1, FS_CardinalityType
<1>3. ASSUME NEW t \in Text PROVE Evidentiality(t) \in 0..Cardinality(Keyword)
  <2>1. IsFiniteSet(Matches[t]) /\ Cardinality(Matches[t]) <= Cardinality(Keyword)
    BY <1>1, FS_Subset
  <2>2. Cardinality(Matches[t]) \in Nat
    BY <2>1, FS_CardinalityType
  <2> QED BY <1>2, <2>1, <2>2 DEF Evidentiality
<1> QED BY <1>2, <1>3

\* A level is what the sequence has of one evidentiality.
LEMMA LevelWorks ==
    ASSUME NEW seq \in Seq(Text), IsInjective(seq), NEW n \in 0..Cardinality(Keyword)
    PROVE  /\ Level(seq, n) \in Seq(Text) /\ IsInjective(Level(seq, n))
           /\ ToSet(Level(seq, n))
                 = {t \in ToSet(seq) : Evidentiality(t) = Cardinality(Keyword) - n}
<1> DEFINE all == Cardinality(Keyword)
           at == {t \in Text : Evidentiality(t) = all - n}
<1>1. /\ Keep(seq, at) \in Seq(Text) /\ ToSet(Keep(seq, at)) = ToSet(seq) \cap at
      /\ IsInjective(Keep(seq, at))
  BY KeepProperties
<1>2. ToSet(seq) \subseteq Text
  BY ElementsTyped
<1>3. ToSet(seq) \cap at = {t \in ToSet(seq) : Evidentiality(t) = all - n}
  BY <1>2
<1>4. Level(seq, n) = Keep(seq, at)
  BY DEF Level
<1> QED BY <1>1, <1>3, <1>4

\* sorted holds the values of the recursion that defines ByEvidentiality.
Sorts(sorted, seq) ==
    /\ sorted[0] = Level(seq, 0)
    /\ \A n \in 1..Cardinality(Keyword) : sorted[n] = sorted[n-1] \o Level(seq, n)
    /\ ByEvidentiality(seq) = sorted[Cardinality(Keyword)]

\* The recursion that defines ByEvidentiality has a solution.
LEMMA SortRuns ==
    ASSUME NEW seq \in Seq(Text), IsInjective(seq)
    PROVE  \E sorted : Sorts(sorted, seq)
<1> DEFINE n == Cardinality(Keyword)
           D == Seq(Text)
           base == Level(seq, 0)
           Then(i, k) == k \o Level(seq, i)
           Runs(k) == k = [i \in 0..n |-> IF i = 0 THEN base ELSE Then(i, k[i-1])]
           sorted == CHOOSE k : Runs(k)
<1>1. ByEvidentiality(seq) = sorted[n]
  BY Zenon DEF ByEvidentiality, Level
<1>2. n \in Nat
  BY EvidentialityBounds
<1>3. \A i \in 0..n : Level(seq, i) \in D
  BY LevelWorks
<1>4. base \in D /\ \A i \in 1..n, k \in D : Then(i, k) \in D
  BY <1>2, <1>3
<1>5. n = Cardinality(Keyword) /\ base = Level(seq, 0)
      /\ \A i, k : Then(i, k) = k \o Level(seq, i)
  BY Zenon
<1> HIDE DEF n, D, base, Then
<1>6. \E f : Runs(f)
  <2> DEFINE step == [i \in 1..n |-> [k \in D |-> Then(i, k)]]
  <2>1. step \in Steps(n, D)
    BY <1>4 DEF Steps
  <2>2. \A i \in 1..n, k \in D : step[i][k] = Then(i, k)
    OBVIOUS
  <2>3. base \in D
    BY <1>4
  <2> HIDE DEF step
  <2>4. PICK f : Solves(f, n, D, base, step)
    BY <1>2, <2>1, <2>3, Recursion, Zenon
  <2>5. f \in [0..n -> D] /\ f[0] = base /\ \A i \in 1..n : f[i] = step[i][f[i-1]]
    BY <2>4 DEF Solves
  <2>6. \A i \in 1..n : f[i-1] \in D
    BY <1>2, <2>5
  <2> DEFINE h == [i \in 0..n |-> IF i = 0 THEN base ELSE Then(i, f[i-1])]
  <2>7. ASSUME NEW i \in 0..n PROVE f[i] = h[i]
    <3>1. CASE i = 0
      BY <1>2, <2>2, <2>5, <2>6, <3>1
    <3>2. CASE i # 0
      <4>1. i \in 1..n
        BY <3>2
      <4>2. f[i] = Then(i, f[i-1])
        BY <1>2, <2>2, <2>5, <2>6, <4>1
      <4> QED BY <3>2, <4>2
    <3> QED BY <3>1, <3>2
  <2>8. f = h
    BY <2>5, <2>7
  <2> QED BY <2>8
<1>7. Runs(sorted)
  <2> HIDE DEF Runs
  <2> QED BY <1>6, Zenon
<1> HIDE DEF sorted
<1>8. sorted[0] = base /\ \A i \in 1..n : sorted[i] = Then(i, sorted[i-1])
  BY <1>2, <1>7
<1>9. Sorts(sorted, seq)
  BY <1>1, <1>5, <1>8 DEF Sorts
<1> QED BY <1>9

\* The more evidential texts come first.
Descends(seq) ==
    \A i, j \in 1..Len(seq) : i <= j => Evidentiality(seq[i]) >= Evidentiality(seq[j])

\* Less evidential texts behind a descending sequence make a descending one.
LEMMA DescendsOn ==
    ASSUME NEW s \in Seq(Text), Descends(s), NEW t \in Seq(Text), NEW n \in Nat,
           \A x \in ToSet(s) : Evidentiality(x) >= n,
           \A x \in ToSet(t) : Evidentiality(x) = n
    PROVE  Descends(s \o t)
<1> DEFINE u == s \o t
           l == Len(s)
           m == Len(t)
<1>1. /\ l \in Nat /\ m \in Nat /\ Len(u) = l + m
      /\ \A i \in 1..l : u[i] = s[i]
      /\ \A i \in (l+1)..(l+m) : u[i] = t[i - l]
  OBVIOUS
<1>2. /\ \A i \in 1..l : Evidentiality(s[i]) >= n
      /\ \A i \in 1..m : Evidentiality(t[i]) = n
  BY InSeq
<1>3. \A i, j \in 1..l : i <= j => Evidentiality(s[i]) >= Evidentiality(s[j])
  BY DEF Descends
<1> HIDE DEF u, l, m
<1>4. ASSUME NEW i \in 1..(l+m), NEW j \in 1..(l+m), i <= j
      PROVE  Evidentiality(u[i]) >= Evidentiality(u[j])
  <2>1. CASE j \in 1..l
    <3>1. i \in 1..l
      BY <1>1, <1>4, <2>1
    <3> QED BY <1>1, <1>3, <1>4, <2>1, <3>1
  <2>2. CASE j \notin 1..l
    <3>1. j \in (l+1)..(l+m) /\ j - l \in 1..m
      BY <1>1, <2>2
    <3>2. Evidentiality(u[j]) = n
      BY <1>1, <1>2, <3>1
    <3>3. Evidentiality(u[i]) >= n
      <4>1. CASE i \in 1..l
        BY <1>1, <1>2, <4>1
      <4>2. CASE i \notin 1..l
        <5>1. i \in (l+1)..(l+m) /\ i - l \in 1..m
          BY <1>1, <4>2
        <5> QED BY <1>1, <1>2, <5>1
      <4> QED BY <4>1, <4>2
    <3> QED BY <3>2, <3>3
  <2> QED BY <2>1, <2>2
<1>5. Descends(u)
  BY <1>1, <1>4 DEF Descends
<1> QED BY <1>5 DEF u

\* ByEvidentiality is a sort: the same texts, each once, the most evidential
\* ones first.
LEMMA ByEvidentialityWorks ==
    ASSUME NEW seq \in Seq(Text), IsInjective(seq)
    PROVE  LET by == ByEvidentiality(seq) IN
           /\ by \in Seq(Text) /\ IsInjective(by) /\ ToSet(by) = ToSet(seq)
           /\ Descends(by)
<1> DEFINE n == Cardinality(Keyword)
           least(i) == {t \in ToSet(seq) : Evidentiality(t) >= n - i}
<1>1. PICK sorted : Sorts(sorted, seq)
  BY SortRuns, Zenon
<1>2. n \in Nat /\ \A t \in Text : Evidentiality(t) \in 0..n
  BY EvidentialityBounds
<1>3. /\ sorted[0] = Level(seq, 0)
      /\ \A i \in 1..n : sorted[i] = sorted[i-1] \o Level(seq, i)
      /\ ByEvidentiality(seq) = sorted[n]
  BY <1>1 DEF Sorts
<1>4. ToSet(seq) \subseteq Text
  BY ElementsTyped
<1>5. ASSUME NEW i \in 0..n
      PROVE  /\ Level(seq, i) \in Seq(Text) /\ IsInjective(Level(seq, i))
             /\ ToSet(Level(seq, i)) = {t \in ToSet(seq) : Evidentiality(t) = n - i}
  BY LevelWorks
<1> HIDE DEF n
<1> DEFINE Good(i) == /\ sorted[i] \in Seq(Text) /\ IsInjective(sorted[i])
                      /\ ToSet(sorted[i]) = least(i) /\ Descends(sorted[i])
           S == {i \in 0..n : Good(i)}
<1>6. 0 \in S
  <2> DEFINE top == Level(seq, 0)
  <2>1. top \in Seq(Text) /\ IsInjective(top)
        /\ ToSet(top) = {t \in ToSet(seq) : Evidentiality(t) = n - 0}
    BY <1>2, <1>5
  <2> HIDE DEF top
  <2>2. \A t \in ToSet(seq) : Evidentiality(t) = n - 0 <=> Evidentiality(t) >= n - 0
    BY <1>2, <1>4
  <2>3. ToSet(top) = least(0)
    BY <2>1, <2>2
  <2>4. \A i \in 1..Len(top) : Evidentiality(top[i]) = n
    <3>1. \A t \in ToSet(top) : Evidentiality(t) = n
      BY <1>2, <2>1
    <3> QED BY <2>1, <3>1, InSeq
  <2>5. Descends(top)
    BY <1>2, <2>4 DEF Descends
  <2>6. Good(0)
    BY <1>3, <2>1, <2>3, <2>5 DEF top
  <2> QED BY <1>2, <2>6
<1>7. ASSUME NEW i \in 0..(n-1), i \in S PROVE i + 1 \in S
  <2>1. i + 1 \in 1..n /\ (i + 1) - 1 = i /\ i + 1 \in 0..n
    BY <1>2
  <2> DEFINE k == sorted[i]
             l == Level(seq, i + 1)
  <2>2. k \in Seq(Text) /\ IsInjective(k) /\ ToSet(k) = least(i) /\ Descends(k)
    BY <1>7
  <2>3. l \in Seq(Text) /\ IsInjective(l)
        /\ ToSet(l) = {t \in ToSet(seq) : Evidentiality(t) = n - (i + 1)}
    BY <1>5, <2>1
  <2>4. sorted[i+1] = k \o l
    BY <1>3, <2>1
  <2> HIDE DEF k, l
  <2>5. /\ \A x \in ToSet(k) : Evidentiality(x) >= n - (i + 1)
        /\ \A x \in ToSet(l) : Evidentiality(x) = n - (i + 1)
        /\ ToSet(k) \cap ToSet(l) = {}
        /\ ToSet(k) \cup ToSet(l) = least(i + 1)
    <3>1. \A x \in ToSet(seq) : Evidentiality(x) \in Int
      BY <1>2, <1>4
    <3>2. \A x \in ToSet(seq) :
             Evidentiality(x) >= n - (i + 1) <=>
                Evidentiality(x) >= n - i \/ Evidentiality(x) = n - (i + 1)
      BY <1>2, <2>1, <3>1
    <3>3. \A x \in ToSet(seq) :
             ~(Evidentiality(x) >= n - i /\ Evidentiality(x) = n - (i + 1))
      BY <1>2, <2>1, <3>1
    <3> QED BY <2>2, <2>3, <3>2, <3>3
  <2>6. n - (i + 1) \in Nat
    BY <1>2, <2>1
  <2>7. Descends(k \o l)
    BY <2>2, <2>3, <2>5, <2>6, DescendsOn
  <2>8. k \o l \in Seq(Text) /\ ToSet(k \o l) = least(i + 1)
    BY <2>2, <2>3, <2>5, ConcatSet
  <2>9. IsInjective(k \o l)
    BY <2>2, <2>3, <2>5, InjectiveConcat
  <2> QED BY <2>1, <2>4, <2>7, <2>8, <2>9
<1>8. \A i \in 0..n : i \in S
  <2> HIDE DEF S
  <2> QED BY <1>2, <1>6, <1>7, UpTo
<1>9. Good(n)
  BY <1>2, <1>8
<1>10. least(n) = ToSet(seq)
  BY <1>2, <1>4
<1> QED BY <1>3, <1>9, <1>10

-----------------------------------------------------------------------------
(***************************************************************************)
(* Filling a pack.                                                         *)
(***************************************************************************)

PackType == [items : Seq(Text), tokens : Nat, over : Nat, best : Nat, limit : Nat]

\* f is a pack made of the texts in S: each is packed once or counted, what is
\* packed is what is paid for, and only a first item may break the limit.
Packs(f, S, maxItems) ==
    /\ f \in PackType
    /\ IsInjective(f.items)
    /\ ToSet(f.items) \subseteq S
    /\ f.over = Cardinality(S \ ToSet(f.items))
    /\ Len(f.items) <= maxItems
    /\ IsFiniteSet(Pieces(ToSet(f.items)))
    /\ f.tokens = TokensOf(ToSet(f.items))
    /\ f.tokens > f.limit => Len(f.items) = 1
    /\ f.items = <<>> /\ maxItems > 0 => S = {}

\* f notes how evidential the best text withheld is.
Notes(f, S) ==
    /\ f.best \in {0} \cup {Evidentiality(t) : t \in S \ ToSet(f.items)}
    /\ \A t \in S \ ToSet(f.items) : Evidentiality(t) <= f.best

AtLeast(f, t) == {u \in ToSet(f.items) : Evidentiality(u) >= Evidentiality(t)}

\* What is withheld found the pack full of more evidential texts, or does not
\* fit beside them.
Prefers(f, S, maxItems) ==
    \A lost \in S \ ToSet(f.items) :
        \/ Len(f.items) >= maxItems /\ AtLeast(f, lost) = ToSet(f.items)
        \/ TokensOf(AtLeast(f, lost)) + Cost[lost] > f.limit

\* The two things that can happen to a text that is offered.
LEMMA OfferedCases ==
    ASSUME NEW f \in PackType, NEW t \in Text, NEW maxItems \in Nat
    PROVE  /\ Offered(f, t, maxItems) \in PackType
           /\ Offered(f, t, maxItems).limit = f.limit
           /\ Fits(f, t, maxItems) =>
                 /\ Offered(f, t, maxItems).items = Append(f.items, t)
                 /\ Offered(f, t, maxItems).tokens = f.tokens + Cost[t]
                 /\ Offered(f, t, maxItems).over = f.over
                 /\ Offered(f, t, maxItems).best = f.best
           /\ ~Fits(f, t, maxItems) =>
                 /\ Offered(f, t, maxItems).items = f.items
                 /\ Offered(f, t, maxItems).tokens = f.tokens
                 /\ Offered(f, t, maxItems).over = f.over + 1
                 /\ Offered(f, t, maxItems).best =
                       IF Evidentiality(t) > f.best THEN Evidentiality(t) ELSE f.best
<1> DEFINE h == Offered(f, t, maxItems)
           more == Append(f.items, t)
           paid == f.tokens + Cost[t]
           best == IF Evidentiality(t) > f.best THEN Evidentiality(t) ELSE f.best
<1>1. /\ f.items \in Seq(Text) /\ f.tokens \in Nat /\ f.over \in Nat
      /\ f.best \in Nat /\ f.limit \in Nat
  BY DEF PackType
<1>2. Cost[t] \in Nat /\ Evidentiality(t) \in Nat
  <2>1. Cost[t] \in Nat
    BY PackingAssumption
  <2> QED BY <2>1, EvidentialityBounds
<1>3. more \in Seq(Text) /\ paid \in Nat /\ best \in Nat /\ f.over + 1 \in Nat
  BY <1>1, <1>2
<1>4. h = IF Fits(f, t, maxItems) THEN [f EXCEPT !.items = more, !.tokens = paid]
          ELSE [f EXCEPT !.over = @ + 1, !.best = best]
  BY DEF Offered, Dropped
<1> HIDE DEF h, more, paid, best
<1>5. CASE Fits(f, t, maxItems)
  <2>1. h = [f EXCEPT !.items = more, !.tokens = paid]
    BY <1>4, <1>5
  <2>2. /\ h \in PackType /\ h.limit = f.limit /\ h.items = more /\ h.tokens = paid
        /\ h.over = f.over /\ h.best = f.best
    BY <1>1, <1>3, <2>1 DEF PackType
  <2> QED BY <1>5, <2>2 DEF h, more, paid
<1>6. CASE ~Fits(f, t, maxItems)
  <2>1. h = [f EXCEPT !.over = @ + 1, !.best = best]
    BY <1>4, <1>6
  <2>2. /\ h \in PackType /\ h.limit = f.limit /\ h.items = f.items /\ h.tokens = f.tokens
        /\ h.over = f.over + 1 /\ h.best = best
    BY <1>1, <1>3, <2>1 DEF PackType
  <2> QED BY <1>6, <2>2 DEF h, best
<1> QED BY <1>5, <1>6

\* An offer keeps the books, and, if it is no more evidential than what was
\* offered before, the preference.
LEMMA OfferedWorks ==
    ASSUME NEW S, S \subseteq Text, IsFiniteSet(S), NEW maxItems \in Nat,
           NEW f, Packs(f, S, maxItems), Notes(f, S), NEW t \in Text, t \notin S
    PROVE  LET h == Offered(f, t, maxItems) IN
           /\ Packs(h, S \cup {t}, maxItems) /\ Notes(h, S \cup {t})
           /\ h.limit = f.limit
           /\ /\ Prefers(f, S, maxItems)
              /\ \A x \in S : Evidentiality(x) >= Evidentiality(t)
              => Prefers(h, S \cup {t}, maxItems)
<1> DEFINE h == Offered(f, t, maxItems)
           T == S \cup {t}
           old == ToSet(f.items)
<1>1. /\ f \in PackType /\ IsInjective(f.items) /\ old \subseteq S
      /\ f.over = Cardinality(S \ old) /\ Len(f.items) <= maxItems
      /\ IsFiniteSet(Pieces(old)) /\ f.tokens = TokensOf(old)
      /\ f.tokens > f.limit => Len(f.items) = 1
      /\ f.items = <<>> /\ maxItems > 0 => S = {}
  BY DEF Packs
<1>2. /\ f.best \in {0} \cup {Evidentiality(x) : x \in S \ old}
      /\ \A x \in S \ old : Evidentiality(x) <= f.best
  BY DEF Notes
<1>3. f.items \in Seq(Text) /\ Len(f.items) \in Nat /\ f.tokens \in Nat /\ f.over \in Nat
      /\ f.best \in Nat /\ f.limit \in Nat
  BY <1>1, LenProperties DEF PackType
<1>4. Cost[t] \in Nat
  BY PackingAssumption
<1>5. \A x \in Text : Evidentiality(x) \in Nat
  BY EvidentialityBounds
<1>6. h \in PackType /\ h.limit = f.limit
  BY <1>1, OfferedCases
<1>7. CASE Fits(f, t, maxItems)
  <2>1. /\ h.items = Append(f.items, t) /\ h.tokens = f.tokens + Cost[t]
        /\ h.over = f.over /\ h.best = f.best
    BY <1>1, <1>7, OfferedCases
  <2> HIDE DEF h
  <2>2. t \notin old
    BY <1>1
  <2>3. ToSet(h.items) = old \cup {t} /\ IsInjective(h.items)
    BY <1>1, <1>3, <2>1, <2>2, AppendSet, InjectiveAppend
  <2>4. Len(h.items) = Len(f.items) + 1 /\ h.items # <<>>
    BY <1>3, <2>1, AppendProperties
  <2>5. /\ Len(f.items) < maxItems
        /\ f.items = <<>> \/ f.tokens + Cost[t] <= f.limit
    BY <1>7 DEF Fits
  <2>6. Len(h.items) <= maxItems
    BY <1>3, <2>4, <2>5
  <2>7. /\ IsFiniteSet(Pieces(old \cup {t}))
        /\ TokensOf(old \cup {t}) = TokensOf(old) + Cost[t]
    <3>1. old \subseteq Text
      BY <1>1
    <3> HIDE DEF old
    <3> QED BY <1>1, <2>2, <3>1, TokensAdd
  <2>8. h.tokens > h.limit => Len(h.items) = 1
    <3>1. f.items = <<>> => Len(h.items) = 1
      BY <2>4
    <3>2. f.tokens + Cost[t] <= f.limit => ~(h.tokens > h.limit)
      BY <1>3, <1>4, <1>6, <2>1
    <3> QED BY <2>5, <3>1, <3>2
  <2>9. T \ ToSet(h.items) = S \ old
    BY <2>2, <2>3
  <2>10. Packs(h, T, maxItems)
    <3>1. ToSet(h.items) \subseteq T
      BY <1>1, <2>3
    <3>2. h.over = Cardinality(T \ ToSet(h.items))
      BY <1>1, <2>1, <2>9
    <3>3. h.tokens = TokensOf(ToSet(h.items)) /\ IsFiniteSet(Pieces(ToSet(h.items)))
      BY <1>1, <2>1, <2>3, <2>7
    <3> QED BY <1>6, <2>3, <2>4, <2>6, <2>8, <3>1, <3>2, <3>3 DEF Packs
  <2>11. Notes(h, T)
    BY <1>2, <2>1, <2>9 DEF Notes
  <2>12. ASSUME Prefers(f, S, maxItems) PROVE Prefers(h, T, maxItems)
    <3>1. ASSUME NEW lost \in T \ ToSet(h.items)
          PROVE  TokensOf(AtLeast(h, lost)) + Cost[lost] > h.limit
      <4>1. lost \in S \ old /\ lost \in Text
        BY <2>9, <3>1
      <4>2. TokensOf(AtLeast(f, lost)) + Cost[lost] > f.limit
        <5>1. ~(Len(f.items) >= maxItems)
          BY <1>3, <2>5
        <5> QED BY <2>12, <4>1, <5>1 DEF Prefers
      <4>3. AtLeast(f, lost) \subseteq AtLeast(h, lost) /\ AtLeast(h, lost) \subseteq old \cup {t}
        BY <2>3 DEF AtLeast
      <4>4. IsFiniteSet(Pieces(AtLeast(h, lost)))
        <5>1. Pieces(AtLeast(h, lost)) \in SUBSET Pieces(old \cup {t})
          BY <4>3 DEF Pieces, Ones
        <5> QED BY <2>7, <5>1, FS_Subset
      <4>5. /\ TokensOf(AtLeast(f, lost)) \in Nat /\ TokensOf(AtLeast(h, lost)) \in Nat
            /\ TokensOf(AtLeast(f, lost)) <= TokensOf(AtLeast(h, lost))
        BY <4>3, <4>4, TokensMonotone
      <4>6. Cost[lost] \in Nat
        BY <4>1, PackingAssumption
      <4> QED BY <1>3, <1>6, <4>2, <4>5, <4>6
    <3> QED BY <3>1 DEF Prefers
  <2> QED BY <1>6, <2>10, <2>11, <2>12 DEF h
<1>8. CASE ~Fits(f, t, maxItems)
  <2>1. /\ h.items = f.items /\ h.tokens = f.tokens /\ h.over = f.over + 1
        /\ h.best = IF Evidentiality(t) > f.best THEN Evidentiality(t) ELSE f.best
    BY <1>1, <1>8, OfferedCases
  <2> HIDE DEF h
  <2>2. T \ ToSet(h.items) = (S \ old) \cup {t} /\ t \notin S \ old
    BY <1>1, <2>1
  <2>3. IsFiniteSet(S \ old) /\ Cardinality((S \ old) \cup {t}) = Cardinality(S \ old) + 1
    <3>1. IsFiniteSet(S \ old)
      <4> HIDE DEF old
      <4> QED BY FS_Difference
    <3> QED BY <2>2, <3>1, FS_AddElement
  <2>4. \/ Len(f.items) >= maxItems
        \/ f.items # <<>> /\ f.tokens + Cost[t] > f.limit
    BY <1>3, <1>4, <1>8 DEF Fits
  <2>5. Packs(h, T, maxItems)
    <3>1. h.over = Cardinality(T \ ToSet(h.items))
      BY <1>1, <2>1, <2>2, <2>3
    <3>2. ~(h.items = <<>> /\ maxItems > 0)
      <4>1. f.items = <<>> => Len(f.items) = 0
        OBVIOUS
      <4> QED BY <1>3, <2>1, <2>4, <4>1
    <3>3. ToSet(h.items) \subseteq T
      BY <1>1, <2>1
    <3> QED BY <1>1, <1>6, <2>1, <3>1, <3>2, <3>3 DEF Packs
  <2>6. Notes(h, T)
    <3>1. h.best \in {0} \cup {Evidentiality(x) : x \in T \ ToSet(h.items)}
      BY <1>2, <2>1, <2>2
    <3>2. ASSUME NEW x \in T \ ToSet(h.items) PROVE Evidentiality(x) <= h.best
      <4>1. CASE x = t
        BY <1>3, <1>5, <2>1, <4>1
      <4>2. CASE x \in S \ old
        <5>1. Evidentiality(x) <= f.best /\ Evidentiality(x) \in Nat /\ Evidentiality(t) \in Nat
          BY <1>2, <1>5, <4>2
        <5> QED BY <1>3, <2>1, <5>1
      <4> QED BY <2>2, <3>2, <4>1, <4>2
    <3> QED BY <3>1, <3>2 DEF Notes
  <2>7. ASSUME Prefers(f, S, maxItems), \A x \in S : Evidentiality(x) >= Evidentiality(t)
        PROVE  Prefers(h, T, maxItems)
    <3>1. \A x : AtLeast(h, x) = AtLeast(f, x)
      BY <2>1 DEF AtLeast
    <3>2. AtLeast(f, t) = old
      BY <1>1, <2>7 DEF AtLeast
    <3>3. ASSUME NEW lost \in T \ ToSet(h.items)
          PROVE  \/ Len(h.items) >= maxItems /\ AtLeast(h, lost) = ToSet(h.items)
                 \/ TokensOf(AtLeast(h, lost)) + Cost[lost] > h.limit
      <4>1. CASE lost = t
        BY <1>1, <1>6, <2>1, <2>4, <3>1, <3>2, <4>1
      <4>2. CASE lost \in S \ old
        BY <1>6, <2>1, <2>7, <3>1, <4>2 DEF Prefers
      <4> QED BY <2>2, <3>3, <4>1, <4>2
    <3> QED BY <3>3 DEF Prefers
  <2> QED BY <1>6, <2>5, <2>6, <2>7 DEF h
<1> QED BY <1>7, <1>8

\* filled holds the values of the recursion that defines Fill.
Fills(filled, seq, maxItems, maxTokens) ==
    /\ filled[0] = EmptyPack(maxTokens)
    /\ \A i \in 1..Len(seq) : filled[i] = Offered(filled[i-1], seq[i], maxItems)
    /\ Fill(seq, maxItems, maxTokens) = filled[Len(seq)]

\* The recursion that defines Fill has a solution.
LEMMA FillRuns ==
    ASSUME NEW seq \in Seq(Text), NEW maxItems \in Nat, NEW maxTokens \in Nat
    PROVE  \E filled : Fills(filled, seq, maxItems, maxTokens)
<1> DEFINE n == Len(seq)
           D == PackType
           base == EmptyPack(maxTokens)
           Then(i, k) == Offered(k, seq[i], maxItems)
           Runs(k) == k = [i \in 0..n |-> IF i = 0 THEN base ELSE Then(i, k[i-1])]
           filled == CHOOSE k : Runs(k)
<1>1. Fill(seq, maxItems, maxTokens) = filled[n]
  BY Zenon DEF Fill
<1>2. n \in Nat /\ \A i \in 1..n : seq[i] \in Text
  BY InSeq
<1>3. base \in D
  BY DEF EmptyPack, PackType
<1>4. \A i \in 1..n, k \in D : Then(i, k) \in D
  BY <1>2, OfferedCases
<1>5. n = Len(seq) /\ base = EmptyPack(maxTokens)
      /\ \A i, k : Then(i, k) = Offered(k, seq[i], maxItems)
  BY Zenon
<1> HIDE DEF n, D, base, Then
<1>6. \E f : Runs(f)
  <2> DEFINE step == [i \in 1..n |-> [k \in D |-> Then(i, k)]]
  <2>1. step \in Steps(n, D)
    BY <1>4 DEF Steps
  <2>2. \A i \in 1..n, k \in D : step[i][k] = Then(i, k)
    OBVIOUS
  <2>3. n \in Nat
    BY <1>2
  <2> HIDE DEF step
  <2>4. PICK f : Solves(f, n, D, base, step)
    BY <1>3, <2>1, <2>3, Recursion, Zenon
  <2>5. f \in [0..n -> D] /\ f[0] = base /\ \A i \in 1..n : f[i] = step[i][f[i-1]]
    BY <2>4 DEF Solves
  <2>6. \A i \in 1..n : f[i-1] \in D
    BY <2>3, <2>5
  <2> DEFINE h == [i \in 0..n |-> IF i = 0 THEN base ELSE Then(i, f[i-1])]
  <2>7. ASSUME NEW i \in 0..n PROVE f[i] = h[i]
    <3>1. CASE i = 0
      BY <2>2, <2>3, <2>5, <2>6, <3>1
    <3>2. CASE i # 0
      <4>1. i \in 1..n
        BY <3>2
      <4>2. f[i] = Then(i, f[i-1])
        BY <2>2, <2>3, <2>5, <2>6, <4>1
      <4> QED BY <3>2, <4>2
    <3> QED BY <3>1, <3>2
  <2>8. f = h
    BY <2>5, <2>7
  <2> QED BY <2>8
<1>7. Runs(filled)
  <2> HIDE DEF Runs
  <2> QED BY <1>6, Zenon
<1> HIDE DEF filled
<1>8. filled[0] = base /\ \A i \in 1..n : filled[i] = Then(i, filled[i-1])
  BY <1>2, <1>7
<1>9. Fills(filled, seq, maxItems, maxTokens)
  BY <1>1, <1>5, <1>8 DEF Fills
<1> QED BY <1>9

\* The empty pack, made of nothing.
LEMMA EmptyPackWorks ==
    ASSUME NEW maxTokens \in Nat, NEW maxItems \in Nat
    PROVE  LET f == EmptyPack(maxTokens) IN
           /\ Packs(f, {}, maxItems) /\ Notes(f, {}) /\ Prefers(f, {}, maxItems)
           /\ f.limit = maxTokens
<1> DEFINE f == EmptyPack(maxTokens)
<1>1. /\ f \in PackType /\ f.items = <<>> /\ f.tokens = 0 /\ f.over = 0 /\ f.best = 0
      /\ f.limit = maxTokens
  BY DEF EmptyPack, PackType
<1> HIDE DEF f
<1>2. ToSet(f.items) = {} /\ IsInjective(f.items) /\ Len(f.items) = 0
  BY <1>1, NothingInEmpty
<1>3. Cardinality({}) = 0
  BY FS_EmptySet
<1>4. Packs(f, {}, maxItems)
  BY <1>1, <1>2, <1>3, TokensOfNothing DEF Packs
<1>5. Notes(f, {}) /\ Prefers(f, {}, maxItems)
  BY <1>1, <1>2 DEF Notes, Prefers
<1> QED BY <1>1, <1>4, <1>5 DEF f

\* Filling a pack keeps the books, and prefers what comes first.
LEMMA FillWorks ==
    ASSUME NEW seq \in Seq(Text), IsInjective(seq), NEW maxItems \in Nat, NEW maxTokens \in Nat
    PROVE  LET f == Fill(seq, maxItems, maxTokens) IN
           /\ Packs(f, ToSet(seq), maxItems) /\ Notes(f, ToSet(seq))
           /\ f.limit = maxTokens
           /\ Descends(seq) => Prefers(f, ToSet(seq), maxItems)
<1> DEFINE n == Len(seq)
           P(i) == UpToIndex(seq, i)
<1>1. PICK filled : Fills(filled, seq, maxItems, maxTokens)
  BY FillRuns, Zenon
<1>2. /\ filled[0] = EmptyPack(maxTokens)
      /\ \A i \in 1..n : filled[i] = Offered(filled[i-1], seq[i], maxItems)
      /\ Fill(seq, maxItems, maxTokens) = filled[n]
  BY <1>1 DEF Fills
<1>3. /\ n \in Nat /\ \A i \in 1..n : seq[i] \in Text
      /\ ToSet(seq) \subseteq Text /\ IsFiniteSet(ToSet(seq))
  BY InSeq, ElementsTyped, InjectiveSize
<1>4. /\ P(0) = {} /\ P(n) = ToSet(seq)
      /\ \A i \in 0..(n-1) : P(i + 1) = P(i) \cup {seq[i+1]}
      /\ \A i \in 0..n : P(i) \in SUBSET ToSet(seq)
  BY PrefixesGrow DEF Accumulates
<1>5. ASSUME NEW i \in 0..n PROVE P(i) \subseteq Text /\ IsFiniteSet(P(i))
  BY <1>3, <1>4, FS_Subset
<1>6. ASSUME NEW i \in 0..(n-1) PROVE seq[i+1] \notin P(i)
  <2>1. \A j \in 1..i : j \in 1..n /\ i + 1 \in 1..n /\ j # i + 1
    BY <1>3
  <2> QED BY <2>1 DEF UpToIndex, IsInjective
<1>7. ASSUME Descends(seq), NEW i \in 0..(n-1)
      PROVE  \A x \in P(i) : Evidentiality(x) >= Evidentiality(seq[i+1])
  <2>1. \A j \in 1..i : j \in 1..n /\ i + 1 \in 1..n /\ j <= i + 1
    BY <1>3
  <2> QED BY <1>7, <2>1 DEF UpToIndex, Descends
<1> HIDE DEF n, P
<1> DEFINE Good(i) == /\ Packs(filled[i], P(i), maxItems) /\ Notes(filled[i], P(i))
                      /\ filled[i].limit = maxTokens
                      /\ Descends(seq) => Prefers(filled[i], P(i), maxItems)
           S == {i \in 0..n : Good(i)}
<1>8. 0 \in S
  <2>1. Good(0)
    BY <1>2, <1>4, EmptyPackWorks
  <2> QED BY <1>3, <2>1
<1>9. ASSUME NEW i \in 0..(n-1), i \in S PROVE i + 1 \in S
  <2>1. i + 1 \in 1..n /\ (i + 1) - 1 = i /\ i + 1 \in 0..n /\ i \in 0..n
    BY <1>3
  <2> DEFINE f == filled[i]
             h == filled[i+1]
             t == seq[i+1]
             A == P(i)
  <2>2. h = Offered(f, t, maxItems) /\ P(i + 1) = A \cup {t}
    BY <1>2, <1>4, <2>1
  <2>3. /\ t \in Text /\ t \notin A /\ A \subseteq Text /\ IsFiniteSet(A)
        /\ Descends(seq) => \A x \in A : Evidentiality(x) >= Evidentiality(t)
    BY <1>3, <1>5, <1>6, <1>7, <2>1
  <2>4. /\ Packs(f, A, maxItems) /\ Notes(f, A) /\ f.limit = maxTokens
        /\ Descends(seq) => Prefers(f, A, maxItems)
    BY <1>9
  <2> HIDE DEF f, h, t, A
  <2>5. /\ Packs(h, A \cup {t}, maxItems) /\ Notes(h, A \cup {t}) /\ h.limit = maxTokens
        /\ Descends(seq) => Prefers(h, A \cup {t}, maxItems)
    BY <2>2, <2>3, <2>4, OfferedWorks
  <2>6. Good(i+1)
    BY <2>2, <2>5 DEF h
  <2> QED BY <2>1, <2>6
<1>10. \A i \in 0..n : i \in S
  <2> HIDE DEF S
  <2> QED BY <1>3, <1>8, <1>9, UpTo
<1>11. Good(n)
  BY <1>3, <1>10
<1> QED BY <1>2, <1>4, <1>11

\* A pack of a retrieval.
LEMMA PackWorks ==
    ASSUME NEW evidence \in Evidence, NEW maxItems \in Nat
    PROVE  LET f == Pack(evidence, maxItems)
               S == ToSet(Texts(evidence)) IN
           /\ Packs(f, S, maxItems) /\ Notes(f, S) /\ Prefers(f, S, maxItems)
           /\ f.limit = TokenBudget
<1> DEFINE d == Deduped(evidence)
           b == ByEvidentiality(d)
           S == ToSet(Texts(evidence))
<1>1. d \in Seq(Text) /\ IsInjective(d) /\ ToSet(d) = S
  BY DedupedWorks
<1> HIDE DEF d, S
<1>2. b \in Seq(Text) /\ IsInjective(b) /\ ToSet(b) = S /\ Descends(b)
  BY <1>1, ByEvidentialityWorks
<1>3. TokenBudget \in Nat
  BY PackingAssumption
<1>4. Pack(evidence, maxItems) = Fill(b, maxItems, TokenBudget)
  BY DEF Pack, d
<1> HIDE DEF b
<1> QED BY <1>2, <1>3, <1>4, FillWorks DEF S

\* A pack made again under a cost ceiling.
LEMMA TrimmedWorks ==
    ASSUME NEW evidence \in Evidence, NEW maxItems \in Nat, NEW affordable \in Nat
    PROVE  Packs(Trimmed(evidence, maxItems, affordable), ToSet(Texts(evidence)), maxItems)
<1> DEFINE d == Deduped(evidence)
           limit == IF affordable = 0 THEN 1 ELSE affordable
           f == Fill(d, maxItems, limit)
           h == Trimmed(evidence, maxItems, affordable)
           S == ToSet(Texts(evidence))
<1>1. d \in Seq(Text) /\ IsInjective(d) /\ ToSet(d) = S
  BY DedupedWorks
<1>2. limit \in Nat
  OBVIOUS
<1>3. h = [f EXCEPT !.best = 0]
  BY DEF Trimmed
<1> HIDE DEF d, limit, S
<1>4. Packs(f, S, maxItems)
  BY <1>1, <1>2, FillWorks
<1> HIDE DEF f, h
<1>5. /\ h \in PackType /\ h.items = f.items /\ h.over = f.over /\ h.tokens = f.tokens
      /\ h.limit = f.limit
  BY <1>3, <1>4 DEF Packs, PackType
<1>6. Packs(h, S, maxItems)
  BY <1>4, <1>5 DEF Packs
<1> QED BY <1>6 DEF h, S

-----------------------------------------------------------------------------
(***************************************************************************)
(* The specification.                                                      *)
(***************************************************************************)

Offers == ToSet(Texts(raw))

\* The pack of the moment is made of the retrieval of the moment; until it is
\* trimmed it is a pack of the most evidential texts.
PackFits ==
    /\ phase \in {"idle", "packed", "judged", "trimmed"}
    /\ raw \in Evidence /\ budget \in Nat
    /\ Packs(packed, Offers, budget)
    /\ phase \in {"packed", "judged"} =>
          /\ packed.limit = TokenBudget
          /\ Notes(packed, Offers) /\ Prefers(packed, Offers, budget)

OnTopic(items) == Tier0(items) \in {"uncertain", "tier1"}

\* A verdict left open is of a pack that Tier 0 did not turn down; what a
\* widened retrieval replaced is among what it returned.  Nothing but an empty
\* retrieval, or a budget of nothing, packs to an empty pack, and such a one is
\* turned down and never trimmed.
VerdictFits ==
    /\ phase = "idle" => ~widened
    /\ phase = "judged" /\ verdict = "uncertain" => OnTopic(packed.items)
    /\ phase = "packed" /\ widened =>
          /\ before.items \in Seq(Text) /\ ToSet(before.items) \subseteq Offers
          /\ verdict = "uncertain" => OnTopic(before.items)
    /\ phase = "judged" /\ packed.items = <<>> => verdict = "insufficient"
    /\ phase = "trimmed" => Offers # {} /\ budget > 0

PackingInvariant == PackFits /\ VerdictFits

\* What a retrieval returned is among what a longer one returns.
LEMMA LongerRetrievals ==
    ASSUME NEW r \in Evidence, NEW s \in Evidence, IsPrefix(r, s)
    PROVE  ToSet(Texts(r)) \subseteq ToSet(Texts(s))
<1>1. Len(r) \in Nat /\ Len(s) \in Nat /\ Len(r) <= Len(s)
      /\ SubSeq(r, 1, Len(r)) = SubSeq(s, 1, Len(r))
  BY LenProperties DEF IsPrefix, Evidence
<1>2. ASSUME NEW i \in 1..Len(r) PROVE i \in 1..Len(s) /\ r[i] = s[i]
  <2>1. SubSeq(r, 1, Len(r))[i] = r[i] /\ SubSeq(s, 1, Len(r))[i] = s[i]
    BY <1>1, SubSeqProperties DEF Evidence
  <2> QED BY <1>1, <2>1
<1>3. ToSet(r) \subseteq ToSet(s)
  <2>1. /\ \A x : x \in ToSet(r) <=> \E i \in 1..Len(r) : x = r[i]
        /\ \A x : x \in ToSet(s) <=> \E i \in 1..Len(s) : x = s[i]
    BY InSeq DEF Evidence
  <2> QED BY <1>2, <2>1
<1> QED BY <1>3, TextsWork

\* Nothing is packed before the first retrieval.
LEMMA IdleFits ==
    /\ <<>> \in Evidence
    /\ Packs(Nothing, ToSet(Texts(<<>>)), 0)
<1>1. <<>> \in Evidence
  BY DEF Evidence
<1>2. ToSet(Texts(<<>>)) = {}
  BY <1>1, TextsWork, NothingInEmpty
<1>3. TokenBudget \in Nat
  BY PackingAssumption
<1> QED BY <1>1, <1>2, <1>3, EmptyPackWorks DEF Nothing

\* The invariant holds before the first request.
LEMMA InitPacking == Init => PackingInvariant
<1> SUFFICES ASSUME Init PROVE PackingInvariant
  OBVIOUS
<1>1. phase = "idle" /\ raw = <<>> /\ budget = 0 /\ packed = Nothing /\ widened = FALSE
  BY DEF Init
<1>2. PackFits
  BY <1>1, IdleFits DEF PackFits, Offers
<1>3. VerdictFits
  BY <1>1 DEF VerdictFits
<1> QED BY <1>2, <1>3 DEF PackingInvariant

\* Every step of a request preserves the invariant.
LEMMA NextPacking ==
    ASSUME PackingInvariant, [Next]_vars
    PROVE  PackingInvariant'
<1>1. /\ raw \in Evidence /\ budget \in Nat /\ Packs(packed, Offers, budget)
      /\ phase \in {"idle", "packed", "judged", "trimmed"}
      /\ phase \in {"packed", "judged"} =>
            /\ packed.limit = TokenBudget
            /\ Notes(packed, Offers) /\ Prefers(packed, Offers, budget)
      /\ phase = "idle" => ~widened
      /\ phase = "judged" /\ verdict = "uncertain" => OnTopic(packed.items)
      /\ phase = "packed" /\ widened =>
            /\ before.items \in Seq(Text) /\ ToSet(before.items) \subseteq Offers
            /\ verdict = "uncertain" => OnTopic(before.items)
      /\ phase = "judged" /\ packed.items = <<>> => verdict = "insufficient"
      /\ phase = "trimmed" => Offers # {} /\ budget > 0
  BY DEF PackingInvariant, PackFits, VerdictFits
<1>2. Retrievals \subseteq Evidence /\ Budgets \subseteq Nat /\ Affordable \subseteq Nat
      /\ MaxEvidenceItems \in Nat
  BY PackingAssumption DEF Evidence
<1>3. CASE Retrieve
  <2>1. /\ phase = "idle" /\ phase' = "packed" /\ raw' \in Evidence /\ budget' \in Nat
        /\ packed' = Pack(raw', budget') /\ widened' = widened
    BY <1>2, <1>3 DEF Retrieve
  <2>2. PackFits'
    BY <2>1, PackWorks DEF PackFits, Offers
  <2>3. VerdictFits'
    BY <1>1, <2>1 DEF VerdictFits
  <2> QED BY <2>2, <2>3 DEF PackingInvariant
<1>4. CASE Judge
  <2>1. /\ phase = "packed" /\ phase' = "judged"
        /\ raw' = raw /\ budget' = budget /\ packed' = packed
    BY <1>4 DEF Judge
  <2>2. /\ verdict' = "uncertain" => OnTopic(packed.items)
        /\ packed.items = <<>> => verdict' = "insufficient"
    <3>1. packed.items = <<>> => Tier0(packed.items) = "insufficient"
      BY DEF Tier0
    <3> QED BY <1>4, <3>1 DEF Judge, OnTopic
  <2>3. PackFits'
    BY <1>1, <2>1 DEF PackFits, Offers
  <2>4. VerdictFits'
    BY <2>1, <2>2 DEF VerdictFits
  <2> QED BY <2>3, <2>4 DEF PackingInvariant
<1>5. CASE Widen
  <2>1. /\ phase = "judged" /\ phase' = "packed" /\ budget' = MaxEvidenceItems
        /\ raw' \in Evidence /\ IsPrefix(raw, raw')
        /\ packed' = Pack(raw', MaxEvidenceItems)
        /\ before' = packed /\ verdict' = verdict
    BY <1>2, <1>5 DEF Widen
  <2>2. PackFits'
    BY <1>2, <2>1, PackWorks DEF PackFits, Offers
  <2>3. packed.items \in Seq(Text) /\ ToSet(packed.items) \subseteq Offers
    BY <1>1 DEF Packs, PackType
  <2>4. Offers \subseteq Offers'
    BY <1>1, <2>1, LongerRetrievals DEF Offers
  <2>5. VerdictFits'
    BY <1>1, <2>1, <2>3, <2>4 DEF VerdictFits
  <2> QED BY <2>2, <2>5 DEF PackingInvariant
<1>6. CASE Trim
  <2>1. PICK affordable \in Affordable :
            packed' = Trimmed(raw, budget, affordable) /\ phase' = "trimmed"
    BY <1>6 DEF Trim
  <2>2. raw' = raw /\ budget' = budget
    BY <1>6 DEF Trim
  <2>3. PackFits'
    BY <1>1, <1>2, <2>1, <2>2, TrimmedWorks DEF PackFits, Offers
  <2>4. Offers # {} /\ budget > 0
    <3>1. packed.items # <<>>
      BY <1>6 DEF Trim
    <3>2. /\ packed.items \in Seq(Text) /\ ToSet(packed.items) \subseteq Offers
          /\ Len(packed.items) <= budget
      BY <1>1 DEF Packs, PackType
    <3>3. Len(packed.items) \in Nat /\ Len(packed.items) > 0
      BY <3>1, <3>2
    <3>4. packed.items[1] \in ToSet(packed.items)
      BY <3>2, <3>3, InSeq
    <3> QED BY <1>1, <3>2, <3>3, <3>4
  <2>5. VerdictFits'
    BY <2>1, <2>2, <2>4 DEF VerdictFits, Offers
  <2> QED BY <2>3, <2>5 DEF PackingInvariant
<1>7. CASE End
  <2>1. phase' = "idle" /\ raw' = <<>> /\ budget' = 0 /\ packed' = Nothing /\ widened' = FALSE
    BY <1>7 DEF End
  <2>2. PackFits'
    BY <2>1, IdleFits DEF PackFits, Offers
  <2>3. VerdictFits'
    BY <2>1 DEF VerdictFits
  <2> QED BY <2>2, <2>3 DEF PackingInvariant
<1>8. CASE UNCHANGED vars
  BY <1>8 DEF vars, PackingInvariant, PackFits, VerdictFits, Offers
<1> QED BY <1>3, <1>4, <1>5, <1>6, <1>7, <1>8 DEF Next

\* The invariant holds throughout.
LEMMA PackingInvariantHolds == Spec => []PackingInvariant
BY InitPacking, NextPacking, PTL DEF Spec

\* Each text of a retrieval is packed once or counted as withheld, in every
\* pack that EvidencePacker.pack makes of it.
THEOREM NothingGetsLost == Spec => []NothingIsLost
<1>1. PackingInvariant => NothingIsLost
  BY DEF PackingInvariant, PackFits, Packs, NothingIsLost, Withheld, Offers
<1> QED BY <1>1, PackingInvariantHolds, PTL

\* Every pack keeps to the budgets of the route, whatever the texts cost; only
\* a single item may be larger.
THEOREM BudgetsAreKept == Spec => []WithinBudgets
<1>1. PackingInvariant => WithinBudgets
  BY DEF PackingInvariant, PackFits, Packs, WithinBudgets
<1> QED BY <1>1, PackingInvariantHolds, PTL

\* Where the budgets bite, the cut falls on the least evidential texts, and
\* the controller is told the best one lost.
THEOREM TheCutIsRight == Spec => []CutsLeastEvidential
<1>1. ASSUME PackingInvariant, phase \in {"packed", "judged"},
             NEW lost \in Withheld, NEW kept \in ToSet(packed.items),
             Evidentiality(kept) < Evidentiality(lost)
      PROVE  TokensOf({t \in ToSet(packed.items) : Evidentiality(t) >= Evidentiality(lost)})
                 + Cost[lost] > TokenBudget
  <2>1. /\ Prefers(packed, Offers, budget) /\ packed.limit = TokenBudget
        /\ Packs(packed, Offers, budget) /\ raw \in Evidence
    BY <1>1 DEF PackingInvariant, PackFits
  <2>2. lost \in Offers \ ToSet(packed.items)
    BY DEF Withheld, Offers
  <2>3. kept \in Text /\ lost \in Text
    BY <2>1, <2>2, TextsWork DEF Packs, Offers
  <2>4. Evidentiality(kept) \in Nat /\ Evidentiality(lost) \in Nat
    BY <2>3, EvidentialityBounds
  <2>5. AtLeast(packed, lost) # ToSet(packed.items)
    BY <1>1, <2>4 DEF AtLeast
  <2> QED BY <2>1, <2>2, <2>5 DEF Prefers, AtLeast
<1>2. ASSUME PackingInvariant, phase \in {"packed", "judged"}
      PROVE  packed.best = Max({0} \cup {Evidentiality(t) : t \in Withheld})
  <2> DEFINE B == {0} \cup {Evidentiality(t) : t \in Withheld}
  <2>1. Notes(packed, Offers) /\ raw \in Evidence
    BY <1>2 DEF PackingInvariant, PackFits
  <2>2. Withheld = Offers \ ToSet(packed.items) /\ Withheld \subseteq Text
    BY <2>1, TextsWork DEF Withheld, Offers
  <2>3. B \subseteq Nat
    BY <2>2, EvidentialityBounds
  <2>4. packed.best \in B /\ \A x \in B : packed.best >= x
    BY <2>1, <2>2, <2>3 DEF Notes
  <2> HIDE DEF B
  <2>5. ASSUME NEW x \in B, \A y \in B : x >= y
        PROVE  x = packed.best
    <3>1. x \in Nat /\ packed.best \in Nat
      BY <2>3, <2>4
    <3>2. x >= packed.best /\ packed.best >= x
      BY <2>4, <2>5
    <3> QED BY <3>1, <3>2
  <2>6. Max(B) = packed.best
    BY <2>4, <2>5 DEF Max
  <2> QED BY <2>6 DEF B
<1>3. PackingInvariant => CutsLeastEvidential
  BY <1>1, <1>2 DEF CutsLeastEvidential
<1> QED BY <1>3, PackingInvariantHolds, PTL

\* More evidence that is on topic stays on topic.
LEMMA MoreStaysOnTopic ==
    ASSUME NEW s \in Seq(Text), NEW t \in Seq(Text), ToSet(s) \subseteq ToSet(t), OnTopic(s)
    PROVE  Tier0(t) # "insufficient"
<1>1. s # <<>> /\ (Keyword = {} \/ ~IsOffTopic(s))
  BY DEF OnTopic, Tier0
<1>2. t # <<>>
  BY <1>1, ElementsTyped
<1>3. IsFiniteSet(Keyword) /\ \A x \in Text : Covers[x] \subseteq Keyword
  BY PackingAssumption
<1>4. Covered(s) \in SUBSET Covered(t) /\ Covered(t) \in SUBSET Keyword
  BY <1>3, ElementsTyped DEF Covered
<1>5. /\ IsFiniteSet(Covered(t)) /\ Cardinality(Covered(s)) <= Cardinality(Covered(t))
      /\ IsFiniteSet(Covered(s))
  BY <1>3, <1>4, FS_Subset
<1>6. Cardinality(Covered(s)) \in Nat /\ Cardinality(Covered(t)) \in Nat
      /\ Cardinality(Keyword) \in Nat
  BY <1>3, <1>5, FS_CardinalityType
<1>7. IsOffTopic(t) => IsOffTopic(s)
  BY <1>5, <1>6 DEF IsOffTopic
<1> QED BY <1>1, <1>2, <1>7 DEF Tier0

\* A widening that leaves nothing withheld gives up nothing that was packed,
\* and a set that was on topic stays so.
THEOREM WideningLosesNothing == Spec => []WideningKeepsEvidence
<1>1. ASSUME PackingInvariant, phase = "packed", widened, packed.over = 0
      PROVE  /\ ToSet(before.items) \subseteq ToSet(packed.items)
             /\ verdict = "uncertain" => Tier0(packed.items) # "insufficient"
  <2>1. /\ raw \in Evidence /\ Packs(packed, Offers, budget)
        /\ before.items \in Seq(Text) /\ ToSet(before.items) \subseteq Offers
        /\ verdict = "uncertain" => OnTopic(before.items)
    BY <1>1 DEF PackingInvariant, PackFits, VerdictFits
  <2>2. packed.items \in Seq(Text) /\ Cardinality(Offers \ ToSet(packed.items)) = 0
    BY <1>1, <2>1 DEF Packs, PackType
  <2>3. IsFiniteSet(Offers \ ToSet(packed.items))
    <3>1. Deduped(raw) \in Seq(Text) /\ IsInjective(Deduped(raw)) /\ ToSet(Deduped(raw)) = Offers
      BY <2>1, DedupedWorks DEF Offers
    <3>2. IsFiniteSet(Offers)
      BY <3>1, InjectiveSize
    <3> QED BY <3>2, FS_Difference
  <2>4. Offers \subseteq ToSet(packed.items)
    <3> DEFINE Missing == Offers \ ToSet(packed.items)
    <3>1. IsFiniteSet(Missing) /\ Cardinality(Missing) = 0
      BY <2>2, <2>3
    <3>2. Missing = {}
      <4> HIDE DEF Missing
      <4> QED BY <3>1, FS_EmptySet
    <3> QED BY <3>2
  <2> QED BY <2>1, <2>2, <2>4, MoreStaysOnTopic
<1>2. PackingInvariant => WideningKeepsEvidence
  BY <1>1 DEF WideningKeepsEvidence
<1> QED BY <1>2, PackingInvariantHolds, PTL

-----------------------------------------------------------------------------
(***************************************************************************)
(* What the query loop takes a pack for.                                   *)
(***************************************************************************)

\* The smaller of two.
LEMMA MinOfTwo ==
    ASSUME NEW a \in Nat, NEW b \in Nat
    PROVE  Min({a, b}) = IF a <= b THEN a ELSE b
<1> DEFINE least == IF a <= b THEN a ELSE b
<1>1. least \in {a, b} /\ \A y \in {a, b} : least <= y
  OBVIOUS
<1>2. ASSUME NEW x \in {a, b}, \A y \in {a, b} : x <= y PROVE x = least
  BY <1>2
<1> HIDE DEF least
<1>3. Min({a, b}) = least
  BY <1>1, <1>2 DEF Min
<1> QED BY <1>3 DEF least

\* A pack that keeps to its budgets is live evidence to the controller.
LEMMA PacksAreLive ==
    ASSUME NEW S, NEW n \in Nat, NEW f, Packs(f, S, n)
    PROVE  LET p == Abstract(f, f.limit) IN
           /\ p \in Control!LiveEvidence
           /\ p.costly => p.items = 1
           /\ f.items # <<>> => p.items > 0
<1> DEFINE p == Abstract(f, f.limit)
<1>1. /\ f.items \in Seq(Text) /\ f.tokens \in Nat /\ f.limit \in Nat
      /\ f.tokens = TokensOf(ToSet(f.items))
      /\ f.tokens > f.limit => Len(f.items) = 1
  BY DEF Packs, PackType
<1>2. MaxItems \in Nat /\ MaxItems > 0
  BY PackingAssumption
<1>3. Len(f.items) \in Nat /\ (Len(f.items) = 0 <=> f.items = <<>>)
  BY <1>1
<1>4. /\ p.items = IF Len(f.items) <= MaxItems THEN Len(f.items) ELSE MaxItems
      /\ p.degraded = FALSE /\ p.kind = "none"
      /\ p.big = (f.items # <<>> /\ f.tokens >= TokenFloor)
      /\ p.dated = (ToSet(f.items) \cap Dated # {})
      /\ p.costly = (f.tokens > f.limit)
  BY <1>2, <1>3, MinOfTwo DEF Abstract
<1>5. p \in Control!PackedEvidence
  <2>1. /\ p = [degraded |-> p.degraded, kind |-> p.kind, items |-> p.items,
                big |-> p.big, dated |-> p.dated, costly |-> p.costly]
    BY DEF Abstract
  <2>2. p.items \in 0..MaxItems
    BY <1>2, <1>3, <1>4
  <2>3. p.big \in BOOLEAN /\ p.dated \in BOOLEAN /\ p.costly \in BOOLEAN
    BY <1>4
  <2> HIDE DEF p
  <2> QED BY <1>4, <2>1, <2>2, <2>3 DEF Control!PackedEvidence, Control!DegradedKind
<1> HIDE DEF p
<1>6. p.items = 0 => f.items = <<>>
  BY <1>2, <1>3, <1>4
<1>7. f.items = <<>> => ~p.big /\ ~p.dated /\ ~p.costly
  <2> SUFFICES ASSUME f.items = <<>> PROVE ~p.big /\ ~p.dated /\ ~p.costly
    OBVIOUS
  <2>1. ToSet(f.items) = {} /\ Len(f.items) # 1
    BY NothingInEmpty
  <2>2. ~(f.tokens > f.limit)
    BY <1>1, <2>1
  <2> QED BY <1>4, <2>1, <2>2, Zenon
<1>8. p \in Control!LiveEvidence
  BY <1>4, <1>5, <1>6, <1>7 DEF Control!LiveEvidence
<1>9. p.costly => p.items = 1
  <2>1. p.costly => Len(f.items) = 1
    BY <1>1, <1>4, Zenon
  <2>2. p.items = IF Len(f.items) <= MaxItems THEN Len(f.items) ELSE MaxItems
    BY <1>4
  <2> QED BY <1>2, <2>1, <2>2
<1>10. f.items # <<>> => p.items > 0
  BY <1>2, <1>3, <1>4
<1> QED BY <1>8, <1>9, <1>10 DEF p

\* Every pack is one that the query loop was proved with.
THEOREM PacksDoFitTheLoop == Spec => []PacksFitTheLoop
<1>1. ASSUME PackingInvariant PROVE PacksFitTheLoop
  <2>1. /\ budget \in Nat /\ Packs(packed, Offers, budget)
        /\ phase = "judged" /\ packed.items = <<>> => verdict = "insufficient"
        /\ phase = "trimmed" => Offers # {} /\ budget > 0
    BY <1>1 DEF PackingInvariant, PackFits, VerdictFits
  <2> DEFINE p == Abstract(packed, packed.limit)
  <2>2. /\ p \in Control!LiveEvidence
        /\ p.costly => p.items = 1
        /\ packed.items # <<>> => p.items > 0
    BY <2>1, PacksAreLive
  <2> HIDE DEF p
  <2>3. phase = "trimmed" => packed.items # <<>>
    BY <2>1 DEF Packs
  <2>4. Abstract(before, packed.limit).degraded = FALSE
    BY DEF Abstract
  <2>5. phase = "trimmed" => p \in Control!Repacked(Abstract(before, packed.limit))
    BY <2>2, <2>3, <2>4 DEF Control!Repacked
  <2> QED BY <2>1, <2>2, <2>5 DEF PacksFitTheLoop, p
<1> QED BY <1>1, PackingInvariantHolds, PTL
===============================================================================

----------------------------- MODULE ListLemmas ------------------------------
(***************************************************************************)
(* What the proofs about lists, sums and graphs need: induction over the   *)
(* naturals in a form that is about a set, that a recursion over an        *)
(* interval has a solution, and what Keep, ToSet and IsInjective have to   *)
(* do with each other.                                                     *)
(***************************************************************************)
EXTENDS Lists, SequencesExt, SequenceTheorems, FiniteSetTheorems,
        WellFoundedInduction, TLAPS

-----------------------------------------------------------------------------
(***************************************************************************)
(* Induction and recursion.                                                *)
(***************************************************************************)

\* A set with 0 in it that is closed under successors holds every natural.
LEMMA NatSet ==
    ASSUME NEW S, 0 \in S, \A n \in Nat : n \in S => n + 1 \in S
    PROVE  Nat \subseteq S
<1> DEFINE R == OpToRel(<, Nat)
           T == Nat \ S
<1>1. \A x, y \in Nat : <<x, y>> \in R <=> x < y
  BY DEF OpToRel
<1>2. IsWellFoundedOn(R, Nat)
  BY NatLessThanWellFounded, Zenon
<1> HIDE DEF R
<1>3. SUFFICES ASSUME T # {} PROVE FALSE
  OBVIOUS
<1>4. T \subseteq Nat
  OBVIOUS
<1> HIDE DEF T
<1>5. PICK x \in T : \A y \in T : ~ (<<y, x>> \in R)
  BY <1>2, <1>3, <1>4, WFMin
<1>6. x \in Nat /\ x # 0 /\ x \notin S
  BY <1>4 DEF T
<1>7. x - 1 \in Nat /\ x - 1 < x
  BY <1>6
<1>8. x - 1 \notin T
  BY <1>1, <1>5, <1>6, <1>7
<1>9. x - 1 \in S
  BY <1>7, <1>8 DEF T
<1> QED BY <1>6, <1>7, <1>9

\* The same up to n.
LEMMA UpTo ==
    ASSUME NEW n \in Nat, NEW S, 0 \in S, \A i \in 0..(n-1) : i \in S => i + 1 \in S
    PROVE  \A i \in 0..n : i \in S
<1> DEFINE T == {m \in Nat : m <= n => m \in S}
<1>1. 0 \in T
  OBVIOUS
<1>2. ASSUME NEW m \in Nat, m \in T PROVE m + 1 \in T
  <2>1. CASE m + 1 <= n
    <3>1. m \in 0..(n-1)
      BY <2>1
    <3>2. m \in S
      BY <1>2, <2>1
    <3> QED BY <3>1, <3>2
  <2>2. CASE ~(m + 1 <= n)
    BY <2>2
  <2> QED BY <2>1, <2>2
<1> HIDE DEF T
<1>3. Nat \subseteq T
  BY <1>1, <1>2, NatSet
<1> QED BY <1>3 DEF T

\* f starts at base and its i-th value is the i-th step of the one before.
Solves(f, n, D, base, step) ==
    /\ f \in [0..n -> D]
    /\ f[0] = base
    /\ \A i \in 1..n : f[i] = step[i][f[i-1]]

Steps(n, D) == [1..n -> [D -> D]]

\* A step that stays in D can be taken n times.
LEMMA Recursion ==
    ASSUME NEW n \in Nat, NEW D, NEW base \in D, NEW step \in Steps(n, D)
    PROVE  \E f : Solves(f, n, D, base, step)
<1>0. step \in [1..n -> [D -> D]]
  BY DEF Steps
<1> DEFINE Runs(m, f) == f[0] = base /\ \A i \in 1..m : f[i] = step[i][f[i-1]]
           Good == {m \in 0..n : \E f \in [0..m -> D] : Runs(m, f)}
<1>1. 0 \in Good
  <2> DEFINE f == [i \in 0..0 |-> base]
  <2>1. f \in [0..0 -> D] /\ Runs(0, f)
    OBVIOUS
  <2> HIDE DEF f, Runs
  <2> QED BY <2>1
<1>2. ASSUME NEW m \in 0..(n-1), m \in Good PROVE m + 1 \in Good
  <2>1. PICK f \in [0..m -> D] : Runs(m, f)
    BY <1>2
  <2> DEFINE v == step[m + 1][f[m]]
             h == [i \in 0..(m+1) |-> IF i = m + 1 THEN v ELSE f[i]]
  <2>2. v \in D
    BY <1>0
  <2> HIDE DEF v
  <2>3. h \in [0..(m+1) -> D]
    BY <2>2
  <2>4. h[0] = base
    BY <2>1
  <2>5. ASSUME NEW i \in 1..(m+1) PROVE h[i] = step[i][h[i-1]]
    <3>1. CASE i = m + 1
      <4>1. h[i] = v /\ h[i-1] = f[m]
        BY <3>1
      <4> QED BY <4>1, <3>1 DEF v
    <3>2. CASE i # m + 1
      <4>1. h[i] = f[i] /\ h[i-1] = f[i-1] /\ i \in 1..m
        BY <3>2
      <4> QED BY <4>1, <2>1
    <3> QED BY <3>1, <3>2
  <2> HIDE DEF h
  <2> QED BY <2>3, <2>4, <2>5
<1> HIDE DEF Good
<1>3. \A m \in 0..n : m \in Good
  BY <1>1, <1>2, UpTo
<1> QED BY <1>3 DEF Good, Solves

\* Two recursions that start alike and step alike agree.
LEMMA SameSteps ==
    ASSUME NEW n \in Nat, NEW f, NEW h, f[0] = h[0],
           \A i \in 1..n : f[i-1] = h[i-1] => f[i] = h[i]
    PROVE  \A i \in 0..n : f[i] = h[i]
<1> DEFINE T == {i \in 0..n : f[i] = h[i]}
<1>1. 0 \in T
  OBVIOUS
<1>2. ASSUME NEW i \in 0..(n-1), i \in T PROVE i + 1 \in T
  <2>1. i + 1 \in 1..n /\ (i + 1) - 1 = i /\ i + 1 \in 0..n
    OBVIOUS
  <2>2. f[(i + 1) - 1] = h[(i + 1) - 1]
    BY <1>2, <2>1
  <2> QED BY <2>1, <2>2
<1> HIDE DEF T
<1>3. \A i \in 0..n : i \in T
  BY <1>1, <1>2, UpTo
<1> QED BY <1>3 DEF T

\* A recursion whose steps stay in D stays in D.
LEMMA StaysIn ==
    ASSUME NEW n \in Nat, NEW D, NEW f, f[0] \in D,
           \A i \in 1..n : f[i-1] \in D => f[i] \in D
    PROVE  \A i \in 0..n : f[i] \in D
<1> DEFINE T == {i \in 0..n : f[i] \in D}
<1>1. 0 \in T
  OBVIOUS
<1>2. ASSUME NEW i \in 0..(n-1), i \in T PROVE i + 1 \in T
  <2>1. i + 1 \in 1..n /\ (i + 1) - 1 = i /\ i + 1 \in 0..n
    OBVIOUS
  <2>2. f[(i + 1) - 1] \in D
    BY <1>2, <2>1
  <2> QED BY <2>1, <2>2
<1> HIDE DEF T
<1>3. \A i \in 0..n : i \in T
  BY <1>1, <1>2, UpTo
<1> QED BY <1>3 DEF T

-----------------------------------------------------------------------------
(***************************************************************************)
(* The elements of a sequence, and sequences in which none occurs twice.   *)
(***************************************************************************)

\* What is in a sequence.
LEMMA InSeq ==
    ASSUME NEW A, NEW s \in Seq(A)
    PROVE  /\ Len(s) \in Nat
           /\ \A x : x \in ToSet(s) <=> \E i \in 1..Len(s) : x = s[i]
           /\ \A i \in 1..Len(s) : s[i] \in A /\ s[i] \in ToSet(s)
BY DEF ToSet

\* Every element of a sequence has its type, and only the empty sequence has
\* none.
LEMMA ElementsTyped ==
    ASSUME NEW A, NEW s \in Seq(A)
    PROVE  ToSet(s) \subseteq A /\ (s = <<>> <=> ToSet(s) = {})
<1>1. ToSet(s) \subseteq A
  BY InSeq
<1>2. ASSUME ToSet(s) = {} PROVE s = <<>>
  <2>1. Len(s) = 0
    BY <1>2, InSeq
  <2> QED BY <2>1
<1>3. ToSet(<<>>) = {}
  BY DEF ToSet
<1> QED BY <1>1, <1>2, <1>3

\* The elements of the empty sequence, of a longer one, of a shorter one and
\* of two in a row.
LEMMA NothingInEmpty == ToSet(<<>>) = {} /\ IsInjective(<<>>)
<1>1. DOMAIN <<>> = {}
  OBVIOUS
<1> QED BY <1>1 DEF ToSet, IsInjective

\* What Append adds.
LEMMA AppendSet ==
    ASSUME NEW A, NEW s \in Seq(A), NEW x \in A
    PROVE  Append(s, x) \in Seq(A) /\ ToSet(Append(s, x)) = ToSet(s) \cup {x}
<1> DEFINE t == Append(s, x)
<1>1. t \in Seq(A) /\ Len(t) = Len(s) + 1
  OBVIOUS
<1>2. t[Len(s) + 1] = x /\ \A i \in 1..Len(s) : t[i] = s[i]
  OBVIOUS
<1> HIDE DEF t
<1>3. /\ Len(s) \in Nat
      /\ \A y : y \in ToSet(s) <=> \E i \in 1..Len(s) : y = s[i]
      /\ \A y : y \in ToSet(t) <=> \E i \in 1..(Len(s) + 1) : y = t[i]
  BY <1>1, InSeq
<1>4. ASSUME NEW y \in ToSet(t) PROVE y \in ToSet(s) \/ y = x
  <2>1. PICK i \in 1..(Len(s) + 1) : y = t[i]
    BY <1>3, <1>4
  <2>2. i \in 1..Len(s) \/ i = Len(s) + 1
    BY <1>3
  <2> QED BY <1>2, <1>3, <2>1, <2>2
<1>5. ToSet(s) \subseteq ToSet(t)
  <2>1. \A i \in 1..Len(s) : i \in 1..(Len(s) + 1)
    BY <1>3
  <2> QED BY <1>2, <1>3, <2>1
<1>6. x \in ToSet(t)
  <2>1. Len(s) + 1 \in 1..(Len(s) + 1)
    BY <1>3
  <2> QED BY <1>2, <1>3, <2>1
<1> QED BY <1>1, <1>4, <1>5, <1>6 DEF t

\* What Head and Tail take apart.
LEMMA TailSet ==
    ASSUME NEW A, NEW s \in Seq(A), s # <<>>
    PROVE  /\ Head(s) \in A /\ Tail(s) \in Seq(A)
           /\ Len(Tail(s)) = Len(s) - 1
           /\ Head(s) = s[1] /\ \A i \in 1..(Len(s) - 1) : Tail(s)[i] = s[i+1]
           /\ ToSet(s) = {Head(s)} \cup ToSet(Tail(s))
<1> DEFINE t == Tail(s)
           h == Head(s)
<1>1. t \in Seq(A) /\ Len(t) = Len(s) - 1 /\ Len(s) \in Nat \ {0}
  BY HeadTailProperties
<1>2. h = s[1] /\ \A i \in 1..(Len(s) - 1) : t[i] = s[i+1]
  OBVIOUS
<1> HIDE DEF t, h
<1>3. ASSUME NEW y PROVE y \in ToSet(s) <=> y = h \/ y \in ToSet(t)
  <2>1. \A i \in 1..Len(s) : i = 1 \/ (i - 1 \in 1..Len(t) /\ t[i-1] = s[i])
    BY <1>1, <1>2
  <2>2. \A i \in 1..Len(t) : i + 1 \in 1..Len(s) /\ t[i] = s[i+1]
    BY <1>1, <1>2
  <2>3. 1 \in 1..Len(s)
    BY <1>1
  <2>4. ASSUME y \in ToSet(s) PROVE y = h \/ y \in ToSet(t)
    <3>1. PICK i \in 1..Len(s) : y = s[i]
      BY <2>4, InSeq
    <3> QED BY <1>1, <1>2, <2>1, <3>1, InSeq
  <2>5. ASSUME y \in ToSet(t) PROVE y \in ToSet(s)
    <3>1. PICK i \in 1..Len(t) : y = t[i]
      BY <1>1, <2>5, InSeq
    <3> QED BY <2>2, <3>1, InSeq
  <2> QED BY <1>2, <2>3, <2>4, <2>5, InSeq
<1>4. h \in A
  BY <1>1, <1>2, InSeq
<1> QED BY <1>1, <1>2, <1>3, <1>4 DEF t, h

\* What a concatenation holds.
LEMMA ConcatSet ==
    ASSUME NEW A, NEW s \in Seq(A), NEW t \in Seq(A)
    PROVE  s \o t \in Seq(A) /\ ToSet(s \o t) = ToSet(s) \cup ToSet(t)
<1> DEFINE u == s \o t
<1>1. u \in Seq(A) /\ Len(u) = Len(s) + Len(t) /\ Len(s) \in Nat /\ Len(t) \in Nat
  OBVIOUS
<1>2. \A i \in 1..Len(s) : u[i] = s[i]
  OBVIOUS
<1>3. \A i \in 1..Len(t) : u[Len(s) + i] = t[i] /\ Len(s) + i \in 1..Len(u)
  OBVIOUS
<1> HIDE DEF u
<1>4. ASSUME NEW i \in 1..Len(u) PROVE u[i] \in ToSet(s) \cup ToSet(t)
  <2>1. CASE i <= Len(s)
    BY <1>1, <1>2, <2>1, InSeq
  <2>2. CASE i > Len(s)
    <3>1. i - Len(s) \in 1..Len(t) /\ Len(s) + (i - Len(s)) = i
      BY <1>1, <2>2
    <3> QED BY <1>3, <3>1, InSeq
  <2> QED BY <1>1, <2>1, <2>2
<1>5. \A y : y \in ToSet(u) => y \in ToSet(s) \cup ToSet(t)
  BY <1>1, <1>4, InSeq
<1>6. \A i \in 1..Len(s) : i \in 1..Len(u)
  BY <1>1
<1>7. \A y : y \in ToSet(s) => y \in ToSet(u)
  BY <1>1, <1>2, <1>6, InSeq
<1>8. ASSUME NEW y \in ToSet(t) PROVE y \in ToSet(u)
  <2>1. PICK i \in 1..Len(t) : y = t[i]
    BY InSeq
  <2> QED BY <1>1, <1>3, <2>1, InSeq
<1> QED BY <1>1, <1>5, <1>7, <1>8 DEF u

\* An element put at the end that was not there before leaves it injective.
LEMMA InjectiveAppend ==
    ASSUME NEW A, NEW s \in Seq(A), NEW x \in A, IsInjective(s), x \notin ToSet(s)
    PROVE  IsInjective(Append(s, x))
<1> DEFINE t == Append(s, x)
<1>1. DOMAIN t = 1..(Len(s) + 1) /\ Len(s) \in Nat
  OBVIOUS
<1>2. t[Len(s) + 1] = x /\ \A i \in 1..Len(s) : t[i] = s[i]
  OBVIOUS
<1>3. \A i, j \in 1..Len(s) : s[i] = s[j] => i = j
  BY DEF IsInjective
<1>4. \A i \in 1..Len(s) : s[i] # x
  BY InSeq
<1> HIDE DEF t
<1>5. IsInjective(t)
  BY <1>1, <1>2, <1>3, <1>4 DEF IsInjective
<1> QED BY <1>5 DEF t

\* The head of an injective sequence is not in its tail.
LEMMA InjectiveTail ==
    ASSUME NEW A, NEW s \in Seq(A), s # <<>>, IsInjective(s)
    PROVE  IsInjective(Tail(s)) /\ Head(s) \notin ToSet(Tail(s))
<1> DEFINE t == Tail(s)
<1>1. t \in Seq(A) /\ Len(t) = Len(s) - 1 /\ Len(s) \in Nat \ {0}
  BY HeadTailProperties
<1>2. Head(s) = s[1] /\ \A i \in 1..Len(t) : t[i] = s[i+1]
  BY <1>1, TailSet
<1>3. \A i, j \in 1..Len(s) : s[i] = s[j] => i = j
  BY DEF IsInjective
<1> HIDE DEF t
<1>4. \A i, j \in 1..Len(t) : t[i] = t[j] => i = j
  BY <1>1, <1>2, <1>3
<1>5. \A i \in 1..Len(t) : t[i] # Head(s)
  BY <1>1, <1>2, <1>3
<1>6. DOMAIN t = 1..Len(t)
  BY <1>1
<1>7. IsInjective(t)
  BY <1>4, <1>6 DEF IsInjective
<1> QED BY <1>1, <1>5, <1>7, InSeq DEF t

\* Two sequences without repetition and without a common element make one
\* without repetition.
LEMMA InjectiveConcat ==
    ASSUME NEW A, NEW s \in Seq(A), NEW t \in Seq(A), IsInjective(s), IsInjective(t),
           ToSet(s) \cap ToSet(t) = {}
    PROVE  IsInjective(s \o t)
<1> DEFINE u == s \o t
           n == Len(s)
           m == Len(t)
<1>1. /\ n \in Nat /\ m \in Nat /\ Len(u) = n + m /\ u \in Seq(A)
      /\ \A i \in 1..n : u[i] = s[i]
      /\ \A i \in (n+1)..(n+m) : u[i] = t[i - n]
  OBVIOUS
<1>2. /\ \A i \in 1..n : s[i] \in ToSet(s)
      /\ \A i \in 1..m : t[i] \in ToSet(t)
  BY InSeq
<1>3. /\ \A i, j \in 1..n : s[i] = s[j] => i = j
      /\ \A i, j \in 1..m : t[i] = t[j] => i = j
  BY DEF IsInjective
<1> HIDE DEF u, n, m
<1>4. ASSUME NEW i \in 1..(n+m), NEW j \in 1..(n+m), u[i] = u[j] PROVE i = j
  <2>1. \A k \in 1..(n+m) : \/ k \in 1..n /\ u[k] = s[k] /\ u[k] \in ToSet(s)
                            \/ /\ k - n \in 1..m /\ k \in (n+1)..(n+m)
                               /\ u[k] = t[k - n] /\ u[k] \in ToSet(t)
    <3> TAKE k \in 1..(n+m)
    <3>1. CASE k \in 1..n
      BY <1>1, <1>2, <3>1
    <3>2. CASE k \notin 1..n
      <4>1. k \in (n+1)..(n+m) /\ k - n \in 1..m
        BY <1>1, <3>2
      <4> QED BY <1>1, <1>2, <4>1
    <3> QED BY <3>1, <3>2
  <2>2. CASE i \in 1..n /\ j \in 1..n
    BY <1>1, <1>3, <1>4, <2>2
  <2>3. CASE i - n \in 1..m /\ j - n \in 1..m /\ u[i] = t[i - n] /\ u[j] = t[j - n]
    <3>1. i - n = j - n
      BY <1>3, <1>4, <2>3
    <3> QED BY <1>1, <3>1
  <2>4. CASE \/ u[i] \in ToSet(s) /\ u[j] \in ToSet(t)
             \/ u[j] \in ToSet(s) /\ u[i] \in ToSet(t)
    BY <1>4, <2>4
  <2> QED BY <2>1, <2>2, <2>3, <2>4
<1>5. IsInjective(u)
  BY <1>1, <1>4 DEF IsInjective
<1> QED BY <1>5 DEF u

\* An injective sequence has as many elements as it is long.
LEMMA InjectiveSize ==
    ASSUME NEW A, NEW s \in Seq(A), IsInjective(s)
    PROVE  IsFiniteSet(ToSet(s)) /\ Cardinality(ToSet(s)) = Len(s)
<1>1. Len(s) \in Nat /\ 1 \in Int
  OBVIOUS
<1>2. IsFiniteSet(1..Len(s)) /\ Cardinality(1..Len(s)) = Len(s)
  BY <1>1, FS_Interval
<1>3. s \in Bijection(1..Len(s), ToSet(s))
  BY DEF Bijection, Injection, Surjection, IsInjective, ToSet
<1> QED BY <1>2, <1>3, FS_Bijection DEF ExistsBijection

-----------------------------------------------------------------------------
(***************************************************************************)
(* Keep.                                                                   *)
(***************************************************************************)

\* kept holds the values of the recursion that defines Keep.
Keeps(kept, A, s, S) ==
    /\ kept \in [0..Len(s) -> Seq(A)]
    /\ kept[0] = <<>>
    /\ \A i \in 1..Len(s) :
          kept[i] = IF s[i] \in S THEN Append(kept[i-1], s[i]) ELSE kept[i-1]
    /\ Keep(s, S) = kept[Len(s)]

\* The recursion that defines Keep has a solution, and Keep is its last value.
LEMMA KeepRuns ==
    ASSUME NEW A, NEW s \in Seq(A), NEW S
    PROVE  \E kept : Keeps(kept, A, s, S)
<1> DEFINE n == Len(s)
           D == Seq(A)
           base == <<>>
           Then(i, k) == IF s[i] \in S THEN Append(k, s[i]) ELSE k
           Runs(k) == k = [i \in 0..n |-> IF i = 0 THEN base ELSE Then(i, k[i-1])]
           kept == CHOOSE k : Runs(k)
<1>1. n \in Nat /\ base \in D /\ \A i \in 1..n, k \in D : Then(i, k) \in D
  OBVIOUS
<1>2. Keep(s, S) = kept[n]
  BY Zenon DEF Keep
<1>3. D = Seq(A) /\ base = <<>> /\ n = Len(s)
      /\ \A i \in 1..n : \A k : Then(i, k) = IF s[i] \in S THEN Append(k, s[i]) ELSE k
  BY Zenon
<1> HIDE DEF n, D, base, Then
<1>4. \E f : Runs(f)
  <2> DEFINE step == [i \in 1..n |-> [k \in D |-> Then(i, k)]]
  <2>1. n \in Nat
    BY <1>1
  <2>2. base \in D
    BY <1>1
  <2>3. step \in Steps(n, D)
    BY <1>1 DEF Steps
  <2>4. \A i \in 1..n, k \in D : step[i][k] = Then(i, k)
    OBVIOUS
  <2> HIDE DEF step
  <2>5. PICK f : Solves(f, n, D, base, step)
    BY <2>1, <2>2, <2>3, Recursion, Zenon
  <2>6. f \in [0..n -> D] /\ f[0] = base /\ \A i \in 1..n : f[i] = step[i][f[i-1]]
    BY <2>5 DEF Solves
  <2>7. \A i \in 1..n : f[i-1] \in D
    BY <2>1, <2>6
  <2>8. \A i \in 1..n : f[i] = Then(i, f[i-1])
    BY <2>4, <2>6, <2>7
  <2> DEFINE h == [i \in 0..n |-> IF i = 0 THEN base ELSE Then(i, f[i-1])]
  <2>9. ASSUME NEW i \in 0..n PROVE f[i] = h[i]
    <3>1. CASE i = 0
      BY <2>1, <2>6, <2>8, <3>1
    <3>2. CASE i # 0
      <4>1. i \in 1..n
        BY <3>2
      <4>2. f[i] = Then(i, f[i-1])
        BY <2>1, <2>6, <2>8, <4>1
      <4> QED BY <3>2, <4>2
    <3> QED BY <3>1, <3>2
  <2>10. f = h
    BY <2>6, <2>9
  <2> QED BY <2>10
<1>5. Runs(kept)
  <2> HIDE DEF Runs
  <2> QED BY <1>4, Zenon
<1> HIDE DEF kept
<1>6. kept[0] = base /\ \A i \in 1..n : kept[i] = Then(i, kept[i-1])
  BY <1>1, <1>5
<1>7. kept \in [0..n -> D]
  <2>1. \A i \in 0..n : kept[i] \in D
    BY <1>1, <1>6, StaysIn
  <2> QED BY <1>5, <2>1
<1> QED BY <1>2, <1>3, <1>6, <1>7 DEF Keeps

\* Keep keeps what is in S, in order: no element is added, none of S is lost,
\* and none is doubled.
LEMMA KeepProperties ==
    ASSUME NEW A, NEW s \in Seq(A), NEW S
    PROVE  /\ Keep(s, S) \in Seq(A)
           /\ Len(Keep(s, S)) <= Len(s)
           /\ ToSet(Keep(s, S)) = ToSet(s) \cap S
           /\ IsInjective(s) => IsInjective(Keep(s, S))
<1>0. PICK kept : Keeps(kept, A, s, S)
  BY KeepRuns, Zenon
<1>1. /\ kept \in [0..Len(s) -> Seq(A)] /\ kept[0] = <<>>
      /\ \A i \in 1..Len(s) :
            kept[i] = IF s[i] \in S THEN Append(kept[i-1], s[i]) ELSE kept[i-1]
      /\ Keep(s, S) = kept[Len(s)]
  BY <1>0 DEF Keeps
<1> DEFINE n == Len(s)
           First(i) == {s[j] : j \in 1..i}
           Good(i) == /\ Len(kept[i]) <= i
                      /\ ToSet(kept[i]) = First(i) \cap S
                      /\ IsInjective(s) => IsInjective(kept[i])
           T == {i \in 0..n : Good(i)}
<1>2. n \in Nat /\ n = Len(s)
  OBVIOUS
<1>3. 0 \in T
  <2>1. First(0) = {} /\ Len(<<>>) <= 0
    OBVIOUS
  <2> QED BY <1>1, <1>2, <2>1, NothingInEmpty
<1>4. ASSUME NEW i \in 0..(n-1), i \in T PROVE i + 1 \in T
  <2> DEFINE x == s[i+1]
             k == kept[i]
             k1 == kept[i+1]
  <2>1. i + 1 \in 1..n /\ (i + 1) - 1 = i /\ x \in A /\ k \in Seq(A) /\ i \in 0..n /\ i + 1 \in 0..n
    BY <1>1, <1>2, InSeq
  <2>2. k1 = IF x \in S THEN Append(k, x) ELSE k
    BY <1>1, <2>1
  <2>3. First(i + 1) = First(i) \cup {x}
    <3>1. \A j \in 1..(i+1) : j \in 1..i \/ j = i + 1
      OBVIOUS
    <3>2. \A j \in 1..i : j \in 1..(i+1)
      OBVIOUS
    <3>3. i + 1 \in 1..(i+1)
      OBVIOUS
    <3> QED BY <3>1, <3>2, <3>3
  <2>4. Good(i)
    BY <1>4
  <2>5. IsInjective(s) => x \notin First(i)
    BY <2>1 DEF IsInjective
  <2> HIDE DEF First, x, k, k1
  <2>6. CASE x \in S
    <3>1. Len(k1) <= i + 1
      BY <2>1, <2>2, <2>4, <2>6, AppendProperties DEF k, k1
    <3>2. ToSet(k1) = First(i + 1) \cap S
      BY <2>1, <2>2, <2>3, <2>4, <2>6, AppendSet DEF k, k1
    <3>3. IsInjective(s) => IsInjective(k1)
      <4> SUFFICES ASSUME IsInjective(s) PROVE IsInjective(k1)
        OBVIOUS
      <4>1. x \notin ToSet(k) /\ IsInjective(k)
        BY <2>4, <2>5 DEF k
      <4> QED BY <2>1, <2>2, <2>6, <4>1, InjectiveAppend
    <3> QED BY <2>1, <3>1, <3>2, <3>3 DEF k1
  <2>7. CASE x \notin S
    BY <2>1, <2>2, <2>3, <2>4, <2>7 DEF k, k1
  <2> QED BY <2>6, <2>7
<1> HIDE DEF T
<1>5. \A i \in 0..n : i \in T
  BY <1>2, <1>3, <1>4, UpTo
<1>6. Good(n)
  BY <1>2, <1>5 DEF T
<1>7. ToSet(s) = First(n)
  BY DEF ToSet
<1> QED BY <1>1, <1>2, <1>6, <1>7

\* Nothing is dropped where everything is kept.
LEMMA KeepAll ==
    ASSUME NEW A, NEW s \in Seq(A), NEW S, ToSet(s) \subseteq S
    PROVE  Keep(s, S) = s
<1>0. PICK kept : Keeps(kept, A, s, S)
  BY KeepRuns, Zenon
<1>1. /\ kept \in [0..Len(s) -> Seq(A)] /\ kept[0] = <<>>
      /\ \A i \in 1..Len(s) :
            kept[i] = IF s[i] \in S THEN Append(kept[i-1], s[i]) ELSE kept[i-1]
      /\ Keep(s, S) = kept[Len(s)]
  BY <1>0 DEF Keeps
<1> DEFINE n == Len(s)
           T == {i \in 0..n : Len(kept[i]) = i /\ \A j \in 1..i : kept[i][j] = s[j]}
<1>2. n \in Nat /\ n = Len(s)
  OBVIOUS
<1>3. 0 \in T
  BY <1>1, <1>2
<1>4. ASSUME NEW i \in 0..(n-1), i \in T PROVE i + 1 \in T
  <2> DEFINE x == s[i+1]
             k == kept[i]
  <2>0. i + 1 \in 1..n /\ (i + 1) - 1 = i /\ k \in Seq(A)
    BY <1>1, <1>2
  <2>1. x \in A /\ x \in S
    BY <1>2, <2>0, InSeq
  <2>2. kept[i+1] = Append(k, x)
    BY <1>1, <2>0, <2>1
  <2>3. Len(k) = i /\ \A j \in 1..i : k[j] = s[j]
    BY <1>4
  <2>4. Len(Append(k, x)) = i + 1
    BY <2>0, <2>1, <2>3, AppendProperties
  <2>5. \A j \in 1..(i+1) : Append(k, x)[j] = s[j]
    BY <2>0, <2>1, <2>3, AppendProperties
  <2> HIDE DEF x, k
  <2> QED BY <1>2, <2>0, <2>2, <2>4, <2>5
<1> HIDE DEF T
<1>5. \A i \in 0..n : i \in T
  BY <1>2, <1>3, <1>4, UpTo
<1>6. Len(kept[n]) = n /\ \A j \in 1..n : kept[n][j] = s[j]
  BY <1>2, <1>5 DEF T
<1> QED BY <1>1, <1>2, <1>6, SeqEqual

\* What ends the list and is kept ends what is kept.
LEMMA KeepLast ==
    ASSUME NEW A, NEW s \in Seq(A), NEW S, s # <<>>, s[Len(s)] \in S
    PROVE  Keep(s, S) # <<>> /\ Keep(s, S)[Len(Keep(s, S))] = s[Len(s)]
<1>0. PICK kept : Keeps(kept, A, s, S)
  BY KeepRuns, Zenon
<1>1. /\ kept \in [0..Len(s) -> Seq(A)]
      /\ \A i \in 1..Len(s) :
            kept[i] = IF s[i] \in S THEN Append(kept[i-1], s[i]) ELSE kept[i-1]
      /\ Keep(s, S) = kept[Len(s)]
  BY <1>0 DEF Keeps
<1> DEFINE n == Len(s)
           k == kept[n-1]
<1>2. n \in 1..n /\ n - 1 \in 0..n /\ s[n] \in A
  BY EmptySeq, InSeq
<1>3. k \in Seq(A) /\ Keep(s, S) = Append(k, s[n])
  BY <1>1, <1>2
<1> HIDE DEF k
<1> QED BY <1>2, <1>3, AppendProperties

-----------------------------------------------------------------------------
(***************************************************************************)
(* Several lists in a row.                                                 *)
(***************************************************************************)

\* row holds the values of the recursion that defines FlattenSeq.
Flattens(row, A, ss) ==
    /\ row \in [1..Len(ss) -> Seq(A)]
    /\ row[1] = ss[1]
    /\ \A i \in 1..(Len(ss) - 1) : row[i+1] = row[i] \o ss[i+1]
    /\ FlattenSeq(ss) = row[Len(ss)]

\* The recursion that defines FlattenSeq has a solution.
LEMMA FlattenRuns ==
    ASSUME NEW A, NEW ss \in Seq(Seq(A)), ss # <<>>
    PROVE  \E row : Flattens(row, A, ss)
<1> DEFINE n == Len(ss)
           D == Seq(A)
           Runs(k) == k = [i \in 1..n |-> IF i = 1 THEN ss[i] ELSE k[i-1] \o ss[i]]
           row == CHOOSE k : Runs(k)
<1>1. n \in Nat \ {0} /\ \A i \in 1..n : ss[i] \in D
  OBVIOUS
<1>2. FlattenSeq(ss) = row[n]
  <2>1. Len(ss) # 0
    OBVIOUS
  <2> QED BY <2>1, Zenon DEF FlattenSeq
<1>3. \A k, l \in D : k \o l \in D
  OBVIOUS
<1>4. D = Seq(A) /\ n = Len(ss)
  BY Zenon
<1> HIDE DEF n, D
<1>5. \E f : Runs(f)
  <2> DEFINE m == n - 1
             base == ss[1]
             step == [i \in 1..m |-> [k \in D |-> k \o ss[i+1]]]
  <2>0. m \in Nat /\ n = m + 1 /\ \A i \in 1..m : i + 1 \in 1..n
    BY <1>1
  <2>1. m \in Nat
    BY <2>0
  <2>2. base \in D
    BY <1>1
  <2>3. step \in Steps(m, D)
    BY <1>1, <1>3, <2>0 DEF Steps
  <2>4. \A i \in 1..m, k \in D : step[i][k] = k \o ss[i+1]
    OBVIOUS
  <2> HIDE DEF step, m, base
  <2>5. PICK g : Solves(g, m, D, base, step)
    BY <2>1, <2>2, <2>3, Recursion, Zenon
  <2>6. g \in [0..m -> D] /\ g[0] = base /\ \A i \in 1..m : g[i] = step[i][g[i-1]]
    BY <2>5 DEF Solves
  <2>7. \A i \in 1..m : g[i] = g[i-1] \o ss[i+1]
    <3>1. \A i \in 1..m : g[i-1] \in D
      BY <2>1, <2>6
    <3> QED BY <2>4, <2>6, <3>1
  <2> DEFINE f == [i \in 1..n |-> g[i-1]]
             h == [i \in 1..n |-> IF i = 1 THEN ss[i] ELSE f[i-1] \o ss[i]]
  <2>8. \A i \in 1..n : f[i] = h[i]
    <3> TAKE i \in 1..n
    <3>1. CASE i = 1
      BY <2>6, <3>1 DEF base
    <3>2. CASE i # 1
      <4>1. i - 1 \in 1..m /\ i - 1 \in 1..n /\ (i - 1) + 1 = i
        BY <2>0, <3>2
      <4>2. f[i] = g[i-1] /\ f[i-1] = g[(i-1)-1]
        BY <4>1
      <4> QED BY <2>7, <3>2, <4>1, <4>2
    <3> QED BY <3>1, <3>2
  <2>9. f = h
    BY <2>8
  <2> QED BY <2>9
<1>6. Runs(row)
  <2> HIDE DEF Runs
  <2> QED BY <1>5, Zenon
<1> HIDE DEF row
<1>7. row[1] = ss[1] /\ \A i \in 1..(n-1) : row[i+1] = row[i] \o ss[i+1]
  <2>1. \A i \in 1..n : row[i] = IF i = 1 THEN ss[i] ELSE row[i-1] \o ss[i]
    BY <1>6
  <2>2. \A i \in 1..(n-1) : i + 1 \in 1..n /\ (i + 1) - 1 = i /\ i + 1 # 1
    BY <1>1
  <2>3. 1 \in 1..n
    BY <1>1
  <2> QED BY <2>1, <2>2, <2>3
<1>8. row \in [1..n -> D]
  <2> DEFINE m == n - 1
             T == {i \in 0..m : row[i+1] \in D}
  <2>1. 0 \in T
    BY <1>1, <1>7
  <2>2. ASSUME NEW i \in 0..(m-1), i \in T PROVE i + 1 \in T
    <3>1. i + 1 \in 1..(n-1) /\ i + 1 \in 1..n /\ (i + 1) + 1 \in 1..n /\ i + 1 \in 0..m
          /\ row[i+1] \in D
      BY <1>1, <2>2
    <3>2. row[(i + 1) + 1] = row[i+1] \o ss[(i + 1) + 1]
      BY <1>7, <3>1
    <3> QED BY <1>1, <1>3, <3>1, <3>2
  <2> HIDE DEF T
  <2>3. m \in Nat
    BY <1>1
  <2>4. \A i \in 0..m : i \in T
    BY <2>1, <2>2, <2>3, UpTo
  <2>5. \A i \in 1..n : row[i] \in D
    <3> TAKE i \in 1..n
    <3>1. i - 1 \in 0..m /\ (i - 1) + 1 = i
      BY <1>1
    <3> QED BY <2>4, <3>1 DEF T
  <2> QED BY <1>6, <2>5
<1> QED BY <1>2, <1>4, <1>7, <1>8 DEF Flattens

\* What is in a row of lists is what is in one of them.
LEMMA FlattenedSet ==
    ASSUME NEW A, NEW ss \in Seq(Seq(A))
    PROVE  /\ FlattenSeq(ss) \in Seq(A)
           /\ ToSet(FlattenSeq(ss)) = UNION {ToSet(ss[i]) : i \in 1..Len(ss)}
<1>1. CASE ss = <<>>
  <2>1. Len(ss) = 0 /\ FlattenSeq(ss) = <<>>
    BY <1>1 DEF FlattenSeq
  <2> QED BY <2>1, NothingInEmpty
<1>2. CASE ss # <<>>
  <2>0. PICK row : Flattens(row, A, ss)
    BY <1>2, FlattenRuns, Zenon
  <2>1. /\ row \in [1..Len(ss) -> Seq(A)]
        /\ row[1] = ss[1]
        /\ \A i \in 1..(Len(ss) - 1) : row[i+1] = row[i] \o ss[i+1]
        /\ FlattenSeq(ss) = row[Len(ss)]
    BY <2>0 DEF Flattens
  <2> DEFINE n == Len(ss)
             m == n - 1
             First(i) == UNION {ToSet(ss[j]) : j \in 1..i}
             T == {i \in 0..m : ToSet(row[i+1]) = First(i+1)}
  <2>2. n \in Nat \ {0} /\ m \in Nat /\ \A i \in 1..n : ss[i] \in Seq(A)
    BY <1>2
  <2>3. 0 \in T
    <3>1. \A j : j \in 1..1 <=> j = 1
      OBVIOUS
    <3>2. First(0 + 1) = ToSet(ss[1])
      BY <3>1
    <3>3. 0 \in 0..m /\ 0 + 1 = 1
      BY <2>2
    <3> HIDE DEF First
    <3> QED BY <2>1, <3>2, <3>3
  <2>4. ASSUME NEW i \in 0..(m-1), i \in T PROVE i + 1 \in T
    <3>1. i + 1 \in 1..(n-1) /\ i + 1 \in 1..n /\ (i + 1) + 1 \in 1..n /\ i + 1 \in 0..m
      BY <2>2
    <3>2. row[(i + 1) + 1] = row[i+1] \o ss[(i + 1) + 1] /\ row[i+1] \in Seq(A)
      BY <2>1, <3>1
    <3>3. ToSet(row[(i + 1) + 1]) = ToSet(row[i+1]) \cup ToSet(ss[(i + 1) + 1])
      BY <2>2, <3>1, <3>2, ConcatSet
    <3>4. First((i + 1) + 1) = First(i + 1) \cup ToSet(ss[(i + 1) + 1])
      <4>1. \A j \in 1..((i+1)+1) : j \in 1..(i+1) \/ j = (i + 1) + 1
        OBVIOUS
      <4>2. \A j \in 1..(i+1) : j \in 1..((i+1)+1)
        OBVIOUS
      <4>3. (i + 1) + 1 \in 1..((i+1)+1)
        OBVIOUS
      <4> QED BY <4>1, <4>2, <4>3
    <3> HIDE DEF First
    <3> QED BY <2>4, <3>1, <3>3, <3>4
  <2> HIDE DEF T
  <2>5. \A i \in 0..m : i \in T
    BY <2>2, <2>3, <2>4, UpTo
  <2>6. m \in 0..m /\ m + 1 = n /\ n \in 1..n
    BY <2>2
  <2>7. ToSet(row[n]) = First(n)
    BY <2>5, <2>6 DEF T
  <2> QED BY <2>1, <2>6, <2>7
<1> QED BY <1>1, <1>2

-----------------------------------------------------------------------------
(***************************************************************************)
(* Sums.                                                                   *)
(***************************************************************************)

\* One summand more adds what it weighs.
LEMMA TotalAdds ==
    ASSUME NEW S, NEW w, NEW t, t \notin S, w[t] \in Nat, IsFiniteSet(Ones(S, w))
    PROVE  /\ IsFiniteSet(Ones(S \cup {t}, w))
           /\ Total(S \cup {t}, w) = Total(S, w) + w[t]
<1> DEFINE A == Ones(S, w)
           B == {t} \X (1..w[t])
<1>2. IsFiniteSet({t}) /\ Cardinality({t}) = 1
  BY FS_Singleton
<1>3. IsFiniteSet(1..w[t]) /\ Cardinality(1..w[t]) = w[t]
  BY FS_Interval
<1>4. IsFiniteSet(B) /\ Cardinality(B) = w[t]
  <2>1. IsFiniteSet(B) /\ Cardinality(B) = Cardinality({t}) * Cardinality(1..w[t])
    BY <1>2, <1>3, FS_Product
  <2> HIDE DEF B
  <2> QED BY <1>2, <1>3, <2>1
<1>5. A \cap B = {}
  <2>1. \A p \in A : p[1] \in S
    BY DEF Ones
  <2>2. \A p \in B : p[1] = t
    OBVIOUS
  <2> QED BY <2>1, <2>2
<1>6. Ones(S \cup {t}, w) = A \cup B
  BY DEF Ones
<1>7. IsFiniteSet(A) /\ Cardinality(A) \in Nat
  BY FS_CardinalityType
<1> HIDE DEF A, B
<1>8. IsFiniteSet(A \cup B)
      /\ Cardinality(A \cup B) = Cardinality(A) + Cardinality(B) - Cardinality(A \cap B)
  BY <1>4, <1>7, FS_Union
<1>9. Cardinality(A \cap B) = 0
  BY <1>5, FS_EmptySet
<1>10. Cardinality(A \cup B) = Cardinality(A) + w[t]
  BY <1>4, <1>7, <1>8, <1>9
<1> QED BY <1>6, <1>8, <1>10 DEF Total, A

\* The sum over nothing.
LEMMA TotalOfNothing ==
    ASSUME NEW w
    PROVE  IsFiniteSet(Ones({}, w)) /\ Total({}, w) = 0
<1>1. Ones({}, w) = {}
  BY DEF Ones
<1>2. Total({}, w) = Cardinality(Ones({}, w))
  BY DEF Total
<1> QED BY <1>1, <1>2, FS_EmptySet

\* Fewer summands, no larger a sum.
LEMMA TotalMonotone ==
    ASSUME NEW w, NEW T, IsFiniteSet(Ones(T, w)), NEW S, S \subseteq T
    PROVE  /\ IsFiniteSet(Ones(S, w))
           /\ Total(S, w) \in Nat /\ Total(T, w) \in Nat
           /\ Total(S, w) <= Total(T, w)
<1>1. Ones(S, w) \in SUBSET Ones(T, w)
  BY DEF Ones
<1>2. IsFiniteSet(Ones(S, w)) /\ Cardinality(Ones(S, w)) <= Cardinality(Ones(T, w))
  BY <1>1, FS_Subset
<1>3. Cardinality(Ones(S, w)) \in Nat /\ Cardinality(Ones(T, w)) \in Nat
  BY <1>2, FS_CardinalityType
<1> QED BY <1>2, <1>3 DEF Total

\* A sum of finitely many bounded summands is finite.
LEMMA TotalIsFinite ==
    ASSUME NEW S, IsFiniteSet(S), NEW k \in Nat, NEW w, \A x \in S : w[x] \in 0..k
    PROVE  IsFiniteSet(Ones(S, w))
<1>1. IsFiniteSet(S \X (1..k))
  <2>1. IsFiniteSet(1..k)
    BY FS_Interval
  <2> DEFINE I == 1..k
  <2> HIDE DEF I
  <2>2. IsFiniteSet(I) => IsFiniteSet(S \X I)
    BY FS_Product
  <2> QED BY <2>1, <2>2 DEF I
<1>2. Ones(S, w) \subseteq S \X (1..k)
  <2> SUFFICES ASSUME NEW x \in S, NEW i \in 1..w[x]
               PROVE  <<x, i>> \in S \X (1..k)
    BY DEF Ones
  <2>1. w[x] \in 0..k
    OBVIOUS
  <2> QED BY <2>1
<1> HIDE DEF Ones
<1> QED BY <1>1, <1>2, FS_Subset

-----------------------------------------------------------------------------
(***************************************************************************)
(* Least and greatest.                                                     *)
(***************************************************************************)

\* Naturals have a least one.
LEMMA Least ==
    ASSUME NEW S, S \subseteq Nat, S # {}
    PROVE  \E x \in S : \A y \in S : x <= y
<1> DEFINE R == OpToRel(<, Nat)
<1>1. \A x, y \in Nat : <<x, y>> \in R <=> x < y
  BY DEF OpToRel
<1>2. IsWellFoundedOn(R, Nat)
  BY NatLessThanWellFounded, Zenon
<1> HIDE DEF R
<1>3. PICK x \in S : \A y \in S : ~ (<<y, x>> \in R)
  BY <1>2, WFMin
<1>4. ASSUME NEW y \in S PROVE x <= y
  <2>1. x \in Nat /\ y \in Nat /\ ~(y < x)
    BY <1>1, <1>3
  <2> QED BY <2>1
<1> QED BY <1>3, <1>4

\* Max is what it says, for naturals with a bound.
LEMMA MaxWorks ==
    ASSUME NEW S, S \subseteq Nat, S # {}, NEW n \in Nat, \A x \in S : x <= n
    PROVE  Max(S) \in S /\ \A y \in S : Max(S) >= y
<1> DEFINE D == {n - x : x \in S}
<1>1. D \subseteq Nat /\ D # {}
  <2>1. \A x \in S : n - x \in Nat
    <3> SUFFICES ASSUME NEW x \in S PROVE n - x \in Nat
      OBVIOUS
    <3>1. x \in Nat /\ x <= n
      OBVIOUS
    <3> QED BY <3>1
  <2> QED BY <2>1
<1>2. PICK d \in D : \A e \in D : d <= e
  <2> HIDE DEF D
  <2> QED BY <1>1, Least
<1>3. PICK x \in S : d = n - x
  BY <1>2
<1>4. \A y \in S : x >= y
  <2> SUFFICES ASSUME NEW y \in S PROVE x >= y
    OBVIOUS
  <2>1. n - x <= n - y
    BY <1>2, <1>3
  <2> QED BY <2>1
<1>5. \E z \in S : \A y \in S : z >= y
  BY <1>4
<1> QED BY <1>5, Zenon DEF Max
===============================================================================

-------------------------------- MODULE Lists --------------------------------
(***************************************************************************)
(* The list comprehension and the sum of the code, as definitions that can *)
(* be reasoned about: what is kept is given as a set, and the recursion is *)
(* over an interval; a sum is counted one by one.                          *)
(***************************************************************************)
EXTENDS Integers, Sequences, FiniteSets

\* [x for x in s if x in S]
Keep(s, S) ==
    LET kept[i \in 0..Len(s)] ==
            IF i = 0 THEN <<>>
            ELSE IF s[i] \in S THEN Append(kept[i-1], s[i])
            ELSE kept[i-1]
    IN  kept[Len(s)]

Ones(S, w) == UNION {{x} \X (1..w[x]) : x \in S}

\* sum(w[x] for x in S), where no w[x] is negative
Total(S, w) == Cardinality(Ones(S, w))
===============================================================================

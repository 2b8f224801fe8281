------------------------------ MODULE Selections ------------------------------
(***************************************************************************)
(* What the components select from a sequence: a comprehension with an if, *)
(* and a dict filled in order, which keeps each key where it came first.   *)
(* SelectSeq is no more than a test away from Sift, but takes an operator, *)
(* and nothing could be proved of it; FlattenSeq is a function.            *)
(***************************************************************************)
EXTENDS Naturals, Sequences, SequencesExt, FiniteSets

\* Those elements of s that are in S, in their order.
Sift(s, S) ==
    FlattenSeq([i \in DOMAIN s |-> IF s[i] \in S THEN <<s[i]>> ELSE <<>>])

\* Each element of s once, in the order of their first places.
Firsts(s) ==
    FlattenSeq([i \in DOMAIN s |->
        IF \A j \in 1 .. i - 1 : s[j] # s[i] THEN <<s[i]>> ELSE <<>>])

\* How often e is in s.
Times(e, s) == Cardinality({i \in DOMAIN s : s[i] = e})
===============================================================================

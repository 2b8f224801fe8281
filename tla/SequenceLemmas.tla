---------------------------- MODULE SequenceLemmas ----------------------------
(***************************************************************************)
(* Facts of the sequences and the sets the components are built from that  *)
(* their proofs share.  FlattenSeq is a recursive function: what it does   *)
(* with one part more is proved by induction, in the form of SetInduction, *)
(* and whatever the models select from a sequence, or put together out of  *)
(* parts, is written with it.                                              *)
(***************************************************************************)
EXTENDS Integers, Selections, SequenceTheorems, FiniteSetTheorems, FunctionTheorems,
        WellFoundedInduction, TLAPS

-----------------------------------------------------------------------------
(* Induction.                                                              *)

(* A set of naturals that is not empty has a least element,                *)
LEMMA Least ==
    ASSUME NEW T \in SUBSET Nat, T # {}
    PROVE  \E x \in T : \A y \in T : ~(y < x)
<1>1. IsWellFoundedOn(OpToRel(<, Nat), Nat)
  BY NatLessThanWellFounded
<1>2. \E x \in T : \A y \in T : <<y, x>> \notin OpToRel(<, Nat)
  BY <1>1, WFMin
<1>3. \A x, y \in Nat : y < x => <<y, x>> \in OpToRel(<, Nat)
  BY DEF OpToRel
<1>4. QED BY <1>2, <1>3

(* and one below a bound a greatest,                                       *)
LEMMA Greatest ==
    ASSUME NEW n \in Nat, NEW T \in SUBSET (1 .. n), T # {}
    PROVE  \E x \in T : \A y \in T : x >= y
<1> DEFINE U == {n - x : x \in T}
<1>1. U \in SUBSET Nat /\ U # {}
  <2>1. \A x \in T : x \in 1 .. n
    OBVIOUS
  <2>2. \A x \in T : n - x \in Nat
    BY <2>1
  <2>3. QED BY <2>2
<1>2. PICK u \in U : \A v \in U : ~(v < u)
  <2> HIDE DEF U
  <2>1. QED BY <1>1, Least
<1>3. PICK x \in T : u = n - x
  OBVIOUS
<1>4. \A y \in T : ~(n - y < n - x)
  BY <1>2, <1>3
<1>5. \A y \in T : y \in Int /\ x \in Int
  OBVIOUS
<1>6. QED BY <1>4, <1>5

(* and one that has 0, and with each of its elements the next, has all.    *)
LEMMA SetInduction ==
    ASSUME NEW Q \in SUBSET Nat, 0 \in Q, \A n \in Q : n + 1 \in Q
    PROVE  Q = Nat
<1> SUFFICES ASSUME Q # Nat PROVE FALSE
  OBVIOUS
<1>1. PICK x \in Nat \ Q : \A y \in Nat \ Q : ~(y < x)
  <2>1. Nat \ Q # {} /\ Nat \ Q \in SUBSET Nat
    OBVIOUS
  <2>2. QED BY <2>1, Least
<1>2. x - 1 \in Q
  BY <1>1
<1>3. QED BY <1>1, <1>2

(* So for sequences: the empty one, and with each of them any longer by    *)
(* one, are all.                                                           *)
LEMMA AppendInduction ==
    ASSUME NEW S, NEW Q \in SUBSET Seq(S), <<>> \in Q,
           \A s \in Q, e \in S : Append(s, e) \in Q
    PROVE  Q = Seq(S)
<1> DEFINE N == {n \in Nat : \A s \in Seq(S) : Len(s) = n => s \in Q}
<1>1. 0 \in N
  BY EmptySeq
<1>2. ASSUME NEW n \in N PROVE n + 1 \in N
  <2> SUFFICES ASSUME NEW s \in Seq(S), Len(s) = n + 1 PROVE s \in Q
    OBVIOUS
  <2>1. n \in Nat /\ s # <<>>
    BY EmptySeq
  <2>2. PICK t \in Seq(S), e \in S : s = Append(t, e)
    BY <2>1, SequenceEmptyOrAppend
  <2>3. Len(s) = Len(t) + 1 /\ Len(t) \in Nat
    BY <2>2, AppendProperties
  <2>4. t \in Q
    BY <2>1, <2>3
  <2>5. QED BY <2>2, <2>4
<1> HIDE DEF N
<1>3. N = Nat
  <2>1. N \in SUBSET Nat
    BY DEF N
  <2>2. QED BY <1>1, <1>2, <2>1, SetInduction
<1>4. ASSUME NEW s \in Seq(S) PROVE s \in Q
  <2>1. Len(s) \in N
    BY <1>3, LenProperties
  <2>2. QED BY <2>1 DEF N
<1>5. QED BY <1>4

-----------------------------------------------------------------------------
(* What is put after two sequences is put after the second.                *)
LEMMA CatMore ==
    ASSUME NEW S, NEW s \in Seq(S), NEW t \in Seq(S), NEW e \in S
    PROVE  s \o Append(t, e) = Append(s \o t, e)
<1>1. <<e>> \in Seq(S) /\ s \o t \in Seq(S)
  BY ConcatProperties
<1>2. Append(t, e) = t \o <<e>> /\ Append(s \o t, e) = (s \o t) \o <<e>>
  BY <1>1, AppendIsConcat
<1>3. QED BY <1>1, <1>2, ConcatAssociative

(* Concatenation by another name, which the provers do not look into: the  *)
(* three facts of it are all that a long chain of them takes.              *)
Cat(s, t) == s \o t

LEMMA CatType ==
    ASSUME NEW S, NEW s \in Seq(S), NEW t \in Seq(S)
    PROVE  Cat(s, t) \in Seq(S)
  BY ConcatProperties DEF Cat

LEMMA CatAssociates ==
    ASSUME NEW S, NEW a \in Seq(S), NEW b \in Seq(S), NEW c \in Seq(S)
    PROVE  Cat(Cat(a, b), c) = Cat(a, Cat(b, c))
  BY ConcatAssociative DEF Cat

LEMMA CatNothing ==
    ASSUME NEW S, NEW a \in Seq(S)
    PROVE  Cat(a, <<>>) = a /\ Cat(<<>>, a) = a /\ <<>> \in Seq(S)
  BY ConcatEmptySeq, EmptySeq DEF Cat

LEMMA CatAppend ==
    ASSUME NEW S, NEW s \in Seq(S), NEW e \in S
    PROVE  Append(s, e) = Cat(s, <<e>>) /\ <<e>> \in Seq(S)
<1>1. <<e>> \in Seq(S)
  OBVIOUS
<1>2. Append(s, e) = s \o <<e>>
  BY AppendIsConcat
<1>3. QED BY <1>1, <1>2 DEF Cat

-----------------------------------------------------------------------------
(* FlattenSeq.                                                             *)

\* h has at i what the first i + 1 parts of ss make.
Flattens(ss, n, h) ==
    \A i \in 1 .. n : h[i] = IF i = 1 THEN ss[i] ELSE h[i - 1] \o ss[i]

\* The first n elements of s and t are the same.
Alike(s, t, n) == \A i \in 1 .. n : s[i] = t[i]

(* There is such an h,                                                     *)
LEMMA Flattening ==
    ASSUME NEW S, NEW ss \in Seq(Seq(S)), NEW n \in 0 .. Len(ss)
    PROVE  \E h \in [1 .. n -> Seq(S)] : Flattens(ss, n, h)
<1> DEFINE Q == {m \in Nat : m <= Len(ss) => \E h \in [1 .. m -> Seq(S)] : Flattens(ss, m, h)}
<1>1. 0 \in Q
  <2>1. [i \in 1 .. 0 |-> <<>>] \in [1 .. 0 -> Seq(S)]
    OBVIOUS
  <2>2. Flattens(ss, 0, [i \in 1 .. 0 |-> <<>>])
    BY DEF Flattens
  <2>3. QED BY <2>1, <2>2
<1>2. ASSUME NEW m \in Q PROVE m + 1 \in Q
  <2> SUFFICES ASSUME m + 1 <= Len(ss)
               PROVE  \E h \in [1 .. m + 1 -> Seq(S)] : Flattens(ss, m + 1, h)
    OBVIOUS
  <2>1. m \in Nat /\ Len(ss) \in Nat
    OBVIOUS
  <2>2. PICK g \in [1 .. m -> Seq(S)] : Flattens(ss, m, g)
    BY <2>1
  <2> DEFINE new == IF m = 0 THEN ss[m + 1] ELSE g[m] \o ss[m + 1]
             h == [i \in 1 .. m + 1 |-> IF i = m + 1 THEN new ELSE g[i]]
  <2>3. ss[m + 1] \in Seq(S)
    BY <2>1
  <2>4. m # 0 => g[m] \in Seq(S)
    BY <2>1
  <2>5. new \in Seq(S)
    BY <2>3, <2>4, ConcatProperties
  <2> HIDE DEF new
  <2>6. h \in [1 .. m + 1 -> Seq(S)]
    BY <2>1, <2>5
  <2>7. ASSUME NEW i \in 1 .. m + 1
        PROVE  h[i] = IF i = 1 THEN ss[i] ELSE h[i - 1] \o ss[i]
    <3>1. CASE i = m + 1
      <4>1. h[i] = new
        BY <2>1, <3>1
      <4>2. i # 1 => h[i - 1] = g[m]
        BY <2>1, <3>1
      <4>3. i = 1 <=> m = 0
        BY <2>1, <3>1
      <4>4. QED BY <3>1, <4>1, <4>2, <4>3 DEF new
    <3>2. CASE i # m + 1
      <4>1. i \in 1 .. m
        BY <2>1, <3>2
      <4>2. h[i] = g[i] /\ (i # 1 => h[i - 1] = g[i - 1])
        BY <2>1, <3>2, <4>1
      <4>3. QED BY <2>2, <4>1, <4>2 DEF Flattens
    <3>3. QED BY <3>1, <3>2
  <2>8. Flattens(ss, m + 1, h)
    BY <2>7 DEF Flattens
  <2>9. QED BY <2>6, <2>8
<1> HIDE DEF Q
<1>3. Q = Nat
  <2>1. Q \in SUBSET Nat
    BY DEF Q
  <2>2. QED BY <1>1, <1>2, <2>1, SetInduction
<1>4. n \in Q
  BY <1>3
<1>5. QED BY <1>4 DEF Q

(* and but one, for all the parts two sequences begin with.                *)
LEMMA OneFlattening ==
    ASSUME NEW s, NEW t, NEW n \in Nat, NEW g, NEW h,
           Alike(s, t, n), Flattens(s, n, g), Flattens(t, n, h)
    PROVE  Alike(g, h, n)
<1> DEFINE Q == {i \in Nat : i \in 1 .. n => g[i] = h[i]}
<1>1. 0 \in Q
  OBVIOUS
<1>2. ASSUME NEW i \in Q PROVE i + 1 \in Q
  <2> SUFFICES ASSUME i + 1 \in 1 .. n PROVE g[i + 1] = h[i + 1]
    OBVIOUS
  <2>1. (i + 1) - 1 = i /\ (i + 1 = 1 <=> i = 0) /\ (i # 0 => i \in 1 .. n)
    OBVIOUS
  <2>2. i # 0 => g[i] = h[i]
    BY <2>1
  <2>3. s[i + 1] = t[i + 1]
    BY DEF Alike
  <2> HIDE DEF Q
  <2>4. QED BY <2>1, <2>2, <2>3 DEF Flattens
<1> HIDE DEF Q
<1>3. Q = Nat
  <2>1. Q \in SUBSET Nat
    BY DEF Q
  <2>2. QED BY <1>1, <1>2, <2>1, SetInduction
<1>4. QED BY <1>3 DEF Q, Alike

(* FlattenSeq is what it makes of all of them.                             *)
LEMMA FlattenIs ==
    ASSUME NEW S, NEW ss \in Seq(Seq(S)), ss # <<>>
    PROVE  \E h \in [1 .. Len(ss) -> Seq(S)] :
              Flattens(ss, Len(ss), h) /\ FlattenSeq(ss) = h[Len(ss)]
<1> DEFINE Eq(h) == h = [i \in 1 .. Len(ss) |-> IF i = 1 THEN ss[i] ELSE h[i - 1] \o ss[i]]
           u == CHOOSE h : Eq(h)
<1>1. Len(ss) \in Nat \ {0} /\ Len(ss) \in 0 .. Len(ss)
  BY EmptySeq
<1>2. PICK h \in [1 .. Len(ss) -> Seq(S)] : Flattens(ss, Len(ss), h)
  BY <1>1, Flattening
<1>3. Eq(h)
  BY <1>2 DEF Flattens
<1>4. Eq(u)
  BY <1>3
<1>5. FlattenSeq(ss) = u[Len(ss)]
  BY <1>1 DEF FlattenSeq
<1> HIDE DEF u
<1>6. Flattens(ss, Len(ss), u)
  BY <1>4 DEF Flattens
<1> HIDE DEF Eq
<1>7. Alike(u, h, Len(ss))
  <2>1. Alike(ss, ss, Len(ss))
    BY DEF Alike
  <2>2. QED BY <1>1, <1>2, <1>6, <2>1, OneFlattening
<1>8. Len(ss) \in 1 .. Len(ss)
  BY <1>1
<1>9. u[Len(ss)] = h[Len(ss)]
  BY <1>7, <1>8 DEF Alike
<1>10. QED BY <1>2, <1>5, <1>9

(* No part makes nothing,                                                  *)
LEMMA FlattenNone == FlattenSeq(<<>>) = <<>>
  BY EmptySeq DEF FlattenSeq

(* one part makes itself,                                                  *)
LEMMA FlattenOne ==
    ASSUME NEW S, NEW t \in Seq(S)
    PROVE  FlattenSeq(<<t>>) = t
<1>1. <<t>> \in Seq(Seq(S)) /\ <<t>> # <<>> /\ Len(<<t>>) = 1 /\ <<t>>[1] = t
  OBVIOUS
<1>2. PICK h \in [1 .. Len(<<t>>) -> Seq(S)] :
         Flattens(<<t>>, Len(<<t>>), h) /\ FlattenSeq(<<t>>) = h[Len(<<t>>)]
  BY <1>1, FlattenIs
<1>3. QED BY <1>1, <1>2 DEF Flattens

LEMMA FlattenType ==
    ASSUME NEW S, NEW ss \in Seq(Seq(S))
    PROVE  FlattenSeq(ss) \in Seq(S)
<1>1. CASE ss = <<>>
  BY <1>1, FlattenNone, EmptySeq
<1>2. CASE ss # <<>>
  <2>1. PICK h \in [1 .. Len(ss) -> Seq(S)] : FlattenSeq(ss) = h[Len(ss)]
    BY <1>2, FlattenIs
  <2>2. Len(ss) \in 1 .. Len(ss)
    BY <1>2, EmptySeq
  <2>3. QED BY <2>1, <2>2
<1>3. QED BY <1>1, <1>2

(* and a part more is what it adds.                                        *)
LEMMA FlattenMore ==
    ASSUME NEW S, NEW ss \in Seq(Seq(S)), NEW t \in Seq(S)
    PROVE  FlattenSeq(Append(ss, t)) = FlattenSeq(ss) \o t
<1> DEFINE tt == Append(ss, t)
<1>1. /\ tt \in Seq(Seq(S)) /\ Len(tt) = Len(ss) + 1 /\ tt # <<>>
      /\ \A i \in 1 .. Len(ss) : tt[i] = ss[i]
      /\ tt[Len(ss) + 1] = t
      /\ Len(ss) \in Nat
  BY AppendProperties
<1> HIDE DEF tt
<1>2. PICK h \in [1 .. Len(tt) -> Seq(S)] :
         Flattens(tt, Len(tt), h) /\ FlattenSeq(tt) = h[Len(tt)]
  BY <1>1, FlattenIs
<1>3. CASE ss = <<>>
  <2>1. Len(tt) = 1 /\ tt[1] = t
    BY <1>1, <1>3, EmptySeq
  <2>2. FlattenSeq(tt) = t
    BY <1>2, <2>1 DEF Flattens
  <2>3. <<>> \o t = t
    BY ConcatEmptySeq
  <2>4. QED BY <1>3, <2>2, <2>3, FlattenNone DEF tt
<1>4. CASE ss # <<>>
  <2> DEFINE n == Len(ss)
  <2>1. PICK g \in [1 .. Len(ss) -> Seq(S)] : Flattens(ss, n, g) /\ FlattenSeq(ss) = g[n]
    BY <1>4, FlattenIs
  <2>2. n \in Nat /\ n # 0 /\ Len(tt) = n + 1
    BY <1>1, <1>4, EmptySeq
  <2>3. Alike(ss, tt, n)
    BY <1>1 DEF Alike
  <2> HIDE DEF n
  <2>4. /\ \A i \in 1 .. n : i \in 1 .. n + 1
        /\ n \in 1 .. n /\ n + 1 \in 1 .. n + 1 /\ n + 1 # 1 /\ (n + 1) - 1 = n
    BY <2>2
  <2>5. Flattens(tt, n + 1, h) /\ FlattenSeq(tt) = h[n + 1]
    BY <1>2, <2>2
  <2>6. Flattens(tt, n, h)
    BY <2>4, <2>5 DEF Flattens
  <2>7. Alike(g, h, n)
    BY <2>1, <2>2, <2>3, <2>6, OneFlattening
  <2>8. h[n + 1] = h[n] \o tt[n + 1]
    BY <2>4, <2>5 DEF Flattens
  <2>9. tt[n + 1] = t
    BY <1>1 DEF n
  <2>10. FlattenSeq(tt) = FlattenSeq(ss) \o t
    BY <2>1, <2>4, <2>5, <2>7, <2>8, <2>9 DEF Alike
  <2>11. QED BY <2>10 DEF tt
<1>5. QED BY <1>3, <1>4

(* The parts of two sequences of them make what each makes, one after the  *)
(* other.                                                                  *)
LEMMA FlattenCat ==
    ASSUME NEW S, NEW ss \in Seq(Seq(S)), NEW tt \in Seq(Seq(S))
    PROVE  FlattenSeq(ss \o tt) = FlattenSeq(ss) \o FlattenSeq(tt)
<1> DEFINE Q == {rr \in Seq(Seq(S)) : FlattenSeq(ss \o rr) = FlattenSeq(ss) \o FlattenSeq(rr)}
<1>0. FlattenSeq(ss) \in Seq(S)
  BY FlattenType
<1>1. <<>> \in Q
  <2>1. ss \o <<>> = ss /\ FlattenSeq(ss) \o <<>> = FlattenSeq(ss) /\ <<>> \in Seq(Seq(S))
    BY <1>0, ConcatEmptySeq, EmptySeq
  <2>2. QED BY <2>1, FlattenNone
<1>2. ASSUME NEW rr \in Q, NEW t \in Seq(S) PROVE Append(rr, t) \in Q
  <2>1. rr \in Seq(Seq(S)) /\ FlattenSeq(ss \o rr) = FlattenSeq(ss) \o FlattenSeq(rr)
    OBVIOUS
  <2>2. ss \o Append(rr, t) = Append(ss \o rr, t)
    BY <2>1, CatMore
  <2>3. ss \o rr \in Seq(Seq(S)) /\ Append(rr, t) \in Seq(Seq(S)) /\ FlattenSeq(rr) \in Seq(S)
    BY <2>1, ConcatProperties, AppendProperties, FlattenType
  <2>4. FlattenSeq(Append(ss \o rr, t)) = FlattenSeq(ss \o rr) \o t
    BY <2>3, FlattenMore
  <2>5. FlattenSeq(Append(rr, t)) = FlattenSeq(rr) \o t
    BY <2>1, FlattenMore
  <2>6. (FlattenSeq(ss) \o FlattenSeq(rr)) \o t = FlattenSeq(ss) \o (FlattenSeq(rr) \o t)
    BY <1>0, <2>3, ConcatAssociative
  <2>7. QED BY <2>1, <2>2, <2>3, <2>4, <2>5, <2>6
<1> HIDE DEF Q
<1>3. Q = Seq(Seq(S))
  <2>1. Q \in SUBSET Seq(Seq(S))
    BY DEF Q
  <2>2. QED BY <1>1, <1>2, <2>1, AppendInduction
<1>4. QED BY <1>3 DEF Q

(* An element of a sequence with one more, and of two put together.        *)
LEMMA AmongMore ==
    ASSUME NEW S, NEW s \in Seq(S), NEW e \in S
    PROVE  ToSet(Append(s, e)) = ToSet(s) \union {e}
<1>1. /\ DOMAIN s = 1 .. Len(s) /\ Len(s) \in Nat
      /\ DOMAIN Append(s, e) = 1 .. Len(s) + 1
      /\ \A i \in 1 .. Len(s) : Append(s, e)[i] = s[i]
      /\ Append(s, e)[Len(s) + 1] = e
  BY AppendProperties, LenProperties
<1>2. QED BY <1>1 DEF ToSet

LEMMA AmongBoth ==
    ASSUME NEW S, NEW s \in Seq(S), NEW t \in Seq(S)
    PROVE  ToSet(s \o t) = ToSet(s) \union ToSet(t)
<1>1. /\ DOMAIN s = 1 .. Len(s) /\ DOMAIN t = 1 .. Len(t)
      /\ Len(s) \in Nat /\ Len(t) \in Nat
      /\ DOMAIN (s \o t) = 1 .. Len(s) + Len(t)
      /\ \A i \in 1 .. Len(s) + Len(t) :
            (s \o t)[i] = IF i <= Len(s) THEN s[i] ELSE t[i - Len(s)]
  BY ConcatProperties, LenProperties
<1>2. ToSet(s \o t) \subseteq ToSet(s) \union ToSet(t)
  BY <1>1 DEF ToSet
<1>3. \A i \in 1 .. Len(s) : i \in DOMAIN (s \o t) /\ (s \o t)[i] = s[i]
  BY <1>1
<1>4. \A i \in 1 .. Len(t) :
         Len(s) + i \in DOMAIN (s \o t) /\ (s \o t)[Len(s) + i] = t[i]
  BY <1>1
<1>5. QED BY <1>1, <1>2, <1>3, <1>4 DEF ToSet

LEMMA AmongNone == ToSet(<<>>) = {}
  BY DEF ToSet

LEMMA AmongOne == ASSUME NEW e PROVE ToSet(<<e>>) = {e}
  BY DEF ToSet

(* Parts of one length make that many times it.                            *)
LEMMA FlattenEven ==
    ASSUME NEW S, NEW k \in Nat, NEW ss \in Seq(Seq(S)), \A t \in ToSet(ss) : Len(t) = k
    PROVE  Len(FlattenSeq(ss)) = k * Len(ss)
<1> DEFINE Q == {rr \in Seq(Seq(S)) : (\A t \in ToSet(rr) : Len(t) = k) => Len(FlattenSeq(rr)) = k * Len(rr)}
<1>1. <<>> \in Q
  <2>1. FlattenSeq(<<>>) = <<>> /\ Len(<<>>) = 0 /\ <<>> \in Seq(Seq(S)) /\ k * 0 = 0
    BY FlattenNone, EmptySeq
  <2>2. QED BY <2>1
<1>2. ASSUME NEW rr \in Q, NEW t \in Seq(S) PROVE Append(rr, t) \in Q
  <2> DEFINE more == Append(rr, t)
  <2>1. /\ rr \in Seq(Seq(S)) /\ more \in Seq(Seq(S)) /\ Len(more) = Len(rr) + 1
        /\ ToSet(more) = ToSet(rr) \union {t} /\ FlattenSeq(more) = FlattenSeq(rr) \o t
        /\ FlattenSeq(rr) \in Seq(S)
    BY AppendProperties, AmongMore, FlattenMore, FlattenType
  <2> HIDE DEF more
  <2> SUFFICES ASSUME \A x \in ToSet(more) : Len(x) = k PROVE Len(FlattenSeq(more)) = k * Len(more)
    BY <2>1 DEF more
  <2>2. Len(FlattenSeq(rr)) = k * Len(rr) /\ Len(t) = k
    BY <2>1
  <2>3. Len(FlattenSeq(more)) = k * Len(rr) + k
    <3> DEFINE f == FlattenSeq(rr)
    <3>1. f \in Seq(S) /\ Len(f) = k * Len(rr) /\ FlattenSeq(more) = f \o t
      BY <2>1, <2>2
    <3> HIDE DEF f
    <3>2. Len(f \o t) = Len(f) + Len(t)
      BY <3>1, ConcatProperties
    <3>3. QED BY <2>2, <3>1, <3>2
  <2> DEFINE n == Len(rr)
  <2>4. n \in Nat
    BY <2>1
  <2> HIDE DEF n
  <2>5. k * n + k = k * (n + 1)
    BY <2>4
  <2>6. QED BY <2>1, <2>3, <2>5 DEF n
<1> HIDE DEF Q
<1>3. Q = Seq(Seq(S))
  <2>1. Q \in SUBSET Seq(Seq(S))
    BY DEF Q
  <2>2. QED BY <1>1, <1>2, <2>1, AppendInduction
<1>4. QED BY <1>3 DEF Q

(* What the parts make has their elements.                                 *)
LEMMA FlattenHas ==
    ASSUME NEW S, NEW ss \in Seq(Seq(S))
    PROVE  ToSet(FlattenSeq(ss)) = UNION {ToSet(t) : t \in ToSet(ss)}
<1> DEFINE Parts(rr) == UNION {ToSet(t) : t \in ToSet(rr)}
           Q == {rr \in Seq(Seq(S)) : ToSet(FlattenSeq(rr)) = Parts(rr)}
<1>1. <<>> \in Q
  BY FlattenNone, AmongNone, EmptySeq
<1>2. ASSUME NEW rr \in Q, NEW t \in Seq(S) PROVE Append(rr, t) \in Q
  <2>1. rr \in Seq(Seq(S)) /\ FlattenSeq(rr) \in Seq(S) /\ Append(rr, t) \in Seq(Seq(S))
    BY FlattenType, AppendProperties
  <2>2. ToSet(FlattenSeq(Append(rr, t))) = ToSet(FlattenSeq(rr)) \union ToSet(t)
    <3>1. FlattenSeq(Append(rr, t)) = FlattenSeq(rr) \o t
      BY <2>1, FlattenMore
    <3>2. ToSet(FlattenSeq(rr) \o t) = ToSet(FlattenSeq(rr)) \union ToSet(t)
      BY <2>1, AmongBoth
    <3>3. QED BY <3>1, <3>2
  <2>3. ToSet(Append(rr, t)) = ToSet(rr) \union {t}
    BY <2>1, AmongMore
  <2>4. Parts(Append(rr, t)) = Parts(rr) \union ToSet(t)
    BY <2>3
  <2>5. QED BY <2>1, <2>2, <2>4
<1> HIDE DEF Q
<1>3. Q = Seq(Seq(S))
  <2>1. Q \in SUBSET Seq(Seq(S))
    BY DEF Q
  <2>2. QED BY <1>1, <1>2, <2>1, AppendInduction
<1>4. QED BY <1>3 DEF Q

-----------------------------------------------------------------------------
(* Sift and Firsts.                                                        *)

SiftOne(e, T) == IF e \in T THEN <<e>> ELSE <<>>

LEMMA SiftOneType ==
    ASSUME NEW S, NEW e \in S, NEW T
    PROVE  SiftOne(e, T) \in Seq(S)
  BY EmptySeq DEF SiftOne

Sifted(s, T) == [i \in DOMAIN s |-> IF s[i] \in T THEN <<s[i]>> ELSE <<>>]

LEMMA SiftedType ==
    ASSUME NEW S, NEW s \in Seq(S), NEW T
    PROVE  Sifted(s, T) \in Seq(Seq(S)) /\ Len(Sifted(s, T)) = Len(s)
<1>1. DOMAIN s = 1 .. Len(s) /\ Len(s) \in Nat
  BY LenProperties
<1>2. \A i \in 1 .. Len(s) : s[i] \in S
  BY <1>1, ElementOfSeq
<1>3. \A i \in 1 .. Len(s) : SiftOne(s[i], T) \in Seq(S)
  BY <1>2, SiftOneType
<1>4. Sifted(s, T) \in [1 .. Len(s) -> Seq(S)]
  BY <1>1, <1>3 DEF Sifted, SiftOne
<1>5. QED BY <1>1, <1>4, SeqDef, LenProperties

LEMMA SiftNone == ASSUME NEW T PROVE Sift(<<>>, T) = <<>>
<1>1. [i \in DOMAIN <<>> |-> IF <<>>[i] \in T THEN <<<<>>[i]>> ELSE <<>>] = <<>>
  OBVIOUS
<1>2. QED BY <1>1, FlattenNone DEF Sift

LEMMA SiftType ==
    ASSUME NEW S, NEW s \in Seq(S), NEW T
    PROVE  Sift(s, T) \in Seq(S)
<1>1. Sift(s, T) = FlattenSeq(Sifted(s, T))
  BY DEF Sift, Sifted
<1>2. QED BY <1>1, SiftedType, FlattenType

(* An element more is sifted by itself.                                    *)
LEMMA SiftMore ==
    ASSUME NEW S, NEW s \in Seq(S), NEW e \in S, NEW T
    PROVE  Sift(Append(s, e), T) = IF e \in T THEN Append(Sift(s, T), e) ELSE Sift(s, T)
<1>1. /\ DOMAIN s = 1 .. Len(s) /\ Len(s) \in Nat
      /\ Append(s, e) \in Seq(S)
      /\ DOMAIN Append(s, e) = 1 .. Len(s) + 1
      /\ \A i \in 1 .. Len(s) : Append(s, e)[i] = s[i]
      /\ Append(s, e)[Len(s) + 1] = e
  BY AppendProperties, LenProperties
<1>2. /\ Sifted(s, T) \in Seq(Seq(S)) /\ Len(Sifted(s, T)) = Len(s)
      /\ Sifted(Append(s, e), T) \in Seq(Seq(S)) /\ SiftOne(e, T) \in Seq(S)
      /\ Len(Sifted(Append(s, e), T)) = Len(s) + 1
  <2>1. Len(Append(s, e)) = Len(s) + 1
    BY <1>1, AppendProperties
  <2>2. SiftOne(e, T) \in Seq(S)
    BY SiftOneType
  <2>3. Sifted(s, T) \in Seq(Seq(S)) /\ Len(Sifted(s, T)) = Len(s)
    BY SiftedType
  <2>4. Sifted(Append(s, e), T) \in Seq(Seq(S)) /\ Len(Sifted(Append(s, e), T)) = Len(s) + 1
    BY <1>1, <2>1, SiftedType
  <2>5. QED BY <2>2, <2>3, <2>4
<1>3. Sifted(Append(s, e), T) = Append(Sifted(s, T), SiftOne(e, T))
  <2> DEFINE more == Append(Sifted(s, T), SiftOne(e, T))
  <2>1. /\ more \in Seq(Seq(S)) /\ Len(more) = Len(s) + 1
        /\ \A i \in 1 .. Len(s) : more[i] = Sifted(s, T)[i]
        /\ more[Len(s) + 1] = SiftOne(e, T)
    BY <1>2, AppendProperties
  <2>2. \A i \in 1 .. Len(s) : Sifted(Append(s, e), T)[i] = Sifted(s, T)[i]
    BY <1>1 DEF Sifted
  <2>3. Sifted(Append(s, e), T)[Len(s) + 1] = SiftOne(e, T)
    BY <1>1 DEF Sifted, SiftOne
  <2> HIDE DEF more
  <2>4. \A i \in 1 .. Len(s) + 1 : Sifted(Append(s, e), T)[i] = more[i]
    <3> SUFFICES ASSUME NEW i \in 1 .. Len(s) + 1 PROVE Sifted(Append(s, e), T)[i] = more[i]
      OBVIOUS
    <3>1. i \in 1 .. Len(s) \/ i = Len(s) + 1
      BY <1>1
    <3>2. QED BY <2>1, <2>2, <2>3, <3>1
  <2>5. Sifted(Append(s, e), T) = more
    BY <1>2, <2>1, <2>4, SeqEqual
  <2>6. QED BY <2>5 DEF more
<1>4. Sift(Append(s, e), T) = Sift(s, T) \o SiftOne(e, T)
  <2>1. Sift(Append(s, e), T) = FlattenSeq(Sifted(Append(s, e), T)) /\ Sift(s, T) = FlattenSeq(Sifted(s, T))
    BY DEF Sift, Sifted
  <2>2. QED BY <1>2, <1>3, <2>1, FlattenMore
<1>5. Sift(s, T) \in Seq(S)
  BY SiftType
<1>6. CASE e \in T
  BY <1>4, <1>5, <1>6, AppendIsConcat DEF SiftOne
<1>7. CASE e \notin T
  BY <1>4, <1>5, <1>7, ConcatEmptySeq DEF SiftOne
<1>8. QED BY <1>6, <1>7

LEMMA SiftOneIs ==
    ASSUME NEW e, NEW T
    PROVE  Sift(<<e>>, T) = IF e \in T THEN <<e>> ELSE <<>>
<1>1. <<e>> = Append(<<>>, e) /\ <<>> \in Seq({e}) /\ Append(<<>>, e) = <<e>>
  OBVIOUS
<1>2. Sift(Append(<<>>, e), T) = IF e \in T THEN Append(Sift(<<>>, T), e) ELSE Sift(<<>>, T)
  <2> DEFINE none == <<>>
  <2> HIDE DEF none
  <2>1. none \in Seq({e}) /\ e \in {e}
    BY <1>1 DEF none
  <2>2. Sift(Append(none, e), T) = IF e \in T THEN Append(Sift(none, T), e) ELSE Sift(none, T)
    BY <2>1, SiftMore
  <2>3. QED BY <2>2 DEF none
<1>3. QED BY <1>1, <1>2, SiftNone

(* So are two sequences put together,                                      *)
LEMMA SiftCat ==
    ASSUME NEW S, NEW s \in Seq(S), NEW t \in Seq(S), NEW T
    PROVE  Sift(s \o t, T) = Sift(s, T) \o Sift(t, T)
<1> DEFINE Q == {r \in Seq(S) : Sift(s \o r, T) = Sift(s, T) \o Sift(r, T)}
<1>0. Sift(s, T) \in Seq(S)
  BY SiftType
<1>1. <<>> \in Q
  <2>1. s \o <<>> = s /\ Sift(s, T) \o <<>> = Sift(s, T) /\ <<>> \in Seq(S)
    BY <1>0, ConcatEmptySeq, EmptySeq
  <2>2. QED BY <2>1, SiftNone
<1>2. ASSUME NEW r \in Q, NEW e \in S PROVE Append(r, e) \in Q
  <2>1. r \in Seq(S) /\ Sift(s \o r, T) = Sift(s, T) \o Sift(r, T)
    OBVIOUS
  <2>2. s \o r \in Seq(S) /\ Append(r, e) \in Seq(S) /\ Sift(r, T) \in Seq(S)
    BY <2>1, ConcatProperties, AppendProperties, SiftType
  <2>3. s \o Append(r, e) = Append(s \o r, e)
    BY <2>1, CatMore
  <2>4. Sift(Append(s \o r, e), T) = IF e \in T THEN Append(Sift(s \o r, T), e) ELSE Sift(s \o r, T)
    <3>1. s \o r \in Seq(S)
      BY <2>2
    <3> DEFINE c == s \o r
    <3> HIDE DEF c
    <3>2. c \in Seq(S)
      BY <3>1 DEF c
    <3>3. Sift(Append(c, e), T) = IF e \in T THEN Append(Sift(c, T), e) ELSE Sift(c, T)
      BY <3>2, SiftMore
    <3>4. QED BY <3>3 DEF c
  <2>5. Sift(Append(r, e), T) = IF e \in T THEN Append(Sift(r, T), e) ELSE Sift(r, T)
    BY <2>1, SiftMore
  <2>6. Append(Sift(s, T) \o Sift(r, T), e) = Sift(s, T) \o Append(Sift(r, T), e)
    <3> DEFINE a == Sift(s, T)
               b == Sift(r, T)
    <3> HIDE DEF a, b
    <3>1. a \in Seq(S) /\ b \in Seq(S)
      BY <1>0, <2>2 DEF a, b
    <3>2. a \o Append(b, e) = Append(a \o b, e)
      BY <3>1, CatMore
    <3>3. QED BY <3>2 DEF a, b
  <2>7. Sift(s \o Append(r, e), T) = Sift(s, T) \o Sift(Append(r, e), T)
    BY <2>1, <2>3, <2>4, <2>5, <2>6
  <2>8. QED BY <2>2, <2>7
<1> HIDE DEF Q
<1>3. Q = Seq(S)
  <2>1. Q \in SUBSET Seq(S)
    BY DEF Q
  <2>2. QED BY <1>1, <1>2, <2>1, AppendInduction
<1>4. QED BY <1>3 DEF Q

(* and what is left of one are those of its elements that are wanted.      *)
LEMMA SiftHas ==
    ASSUME NEW S, NEW s \in Seq(S), NEW T
    PROVE  ToSet(Sift(s, T)) = ToSet(s) \intersect T
<1> DEFINE Q == {r \in Seq(S) : ToSet(Sift(r, T)) = ToSet(r) \intersect T}
<1>1. <<>> \in Q
  BY SiftNone, AmongNone, EmptySeq
<1>2. ASSUME NEW r \in Q, NEW e \in S PROVE Append(r, e) \in Q
  <2>1. r \in Seq(S) /\ Append(r, e) \in Seq(S) /\ Sift(r, T) \in Seq(S)
    BY AppendProperties, SiftType
  <2>2. Sift(Append(r, e), T) = IF e \in T THEN Append(Sift(r, T), e) ELSE Sift(r, T)
    BY <2>1, SiftMore
  <2>3. ToSet(Append(r, e)) = ToSet(r) \union {e} /\ ToSet(Append(Sift(r, T), e)) = ToSet(Sift(r, T)) \union {e}
    BY <2>1, AmongMore
  <2>4. QED BY <2>1, <2>2, <2>3
<1> HIDE DEF Q
<1>3. Q = Seq(S)
  <2>1. Q \in SUBSET Seq(S)
    BY DEF Q
  <2>2. QED BY <1>1, <1>2, <2>1, AppendInduction
<1>4. QED BY <1>3 DEF Q

(* Where all are wanted, all are left, and where none is, none.            *)
LEMMA SiftAll ==
    ASSUME NEW S, NEW s \in Seq(S), NEW T, S \subseteq T
    PROVE  Sift(s, T) = s
<1> DEFINE Q == {r \in Seq(S) : Sift(r, T) = r}
<1>1. <<>> \in Q
  BY SiftNone, EmptySeq
<1>2. ASSUME NEW r \in Q, NEW e \in S PROVE Append(r, e) \in Q
  <2>1. r \in Seq(S) /\ Append(r, e) \in Seq(S)
    BY AppendProperties
  <2>2. Sift(Append(r, e), T) = Append(Sift(r, T), e)
    BY <2>1, SiftMore
  <2>3. QED BY <2>1, <2>2
<1> HIDE DEF Q
<1>3. Q = Seq(S)
  <2>1. Q \in SUBSET Seq(S)
    BY DEF Q
  <2>2. QED BY <1>1, <1>2, <2>1, AppendInduction
<1>4. QED BY <1>3 DEF Q

LEMMA SiftNothing ==
    ASSUME NEW S, NEW s \in Seq(S), NEW T, S \intersect T = {}
    PROVE  Sift(s, T) = <<>>
<1>1. Sift(s, T) \in Seq(S)
  BY SiftType
<1>2. ToSet(Sift(s, T)) = ToSet(s) \intersect T
  BY SiftHas
<1>3. ToSet(s) \subseteq S
  BY ElementOfSeq, LenProperties DEF ToSet
<1>4. ToSet(Sift(s, T)) = {}
  BY <1>2, <1>3
<1>5. Len(Sift(s, T)) = 0
  <2>1. DOMAIN Sift(s, T) = 1 .. Len(Sift(s, T)) /\ Len(Sift(s, T)) \in Nat
    BY <1>1, LenProperties
  <2>2. 1 .. Len(Sift(s, T)) = {}
    BY <1>4, <2>1 DEF ToSet
  <2> DEFINE n == Len(Sift(s, T))
  <2> HIDE DEF n
  <2>3. n \in Nat /\ 1 .. n = {}
    BY <2>1, <2>2 DEF n
  <2>4. n = 0
    BY <2>3
  <2>5. QED BY <2>4 DEF n
<1>6. QED BY <1>1, <1>5, EmptySeq

(* Only which of its elements are wanted matters.                          *)
LEMMA SiftAlike ==
    ASSUME NEW s, NEW T, NEW U, \A x \in ToSet(s) : x \in T <=> x \in U
    PROVE  Sift(s, T) = Sift(s, U)
<1>1. \A i \in DOMAIN s : s[i] \in T <=> s[i] \in U
  BY DEF ToSet
<1>2. QED BY <1>1 DEF Sift

LEMMA SiftTogether ==
    ASSUME NEW S, NEW s \in Seq(S), NEW t \in Seq(S), NEW T
    PROVE  Sift(Cat(s, t), T) = Cat(Sift(s, T), Sift(t, T))
  BY SiftCat DEF Cat

-----------------------------------------------------------------------------
(* What a function makes of each element, and what the sequences it makes  *)
(* of them are together.                                                   *)

\* g is a function from S to T: a name for it, which the provers match.
Maps(g, S, T) == g \in [S -> T]

Mapped(s, g) == [i \in DOMAIN s |-> g[s[i]]]
Spread(s, g) == FlattenSeq(Mapped(s, g))

LEMMA MappedType ==
    ASSUME NEW S, NEW T, NEW s \in Seq(S), NEW g, Maps(g, S, T)
    PROVE  Mapped(s, g) \in Seq(T) /\ Len(Mapped(s, g)) = Len(s)
<1>1. DOMAIN s = 1 .. Len(s) /\ Len(s) \in Nat /\ \A i \in 1 .. Len(s) : s[i] \in S
  BY LenProperties, ElementOfSeq
<1>2. Mapped(s, g) \in [1 .. Len(s) -> T]
  BY <1>1 DEF Mapped, Maps
<1>3. QED BY <1>1, <1>2, SeqDef, LenProperties

LEMMA MappedNone == ASSUME NEW g PROVE Mapped(<<>>, g) = <<>>
BY DEF Mapped

LEMMA MappedOne ==
    ASSUME NEW f, NEW x
    PROVE  Mapped(<<x>>, f) = <<f[x]>>
BY DEF Mapped

LEMMA MappedMore ==
    ASSUME NEW S, NEW T, NEW s \in Seq(S), NEW e \in S, NEW g, Maps(g, S, T)
    PROVE  Mapped(Append(s, e), g) = Cat(Mapped(s, g), <<g[e]>>)
<1> DEFINE m == Mapped(s, g)
           r == Append(s, e)
           q == Append(m, g[e])
<1>1. /\ m \in Seq(T) /\ Len(m) = Len(s) /\ Len(s) \in Nat /\ g[e] \in T
      /\ DOMAIN s = 1 .. Len(s)
      /\ \A i \in 1 .. Len(s) : m[i] = g[s[i]]
  BY MappedType, LenProperties DEF Mapped, Maps
<1>2. /\ r \in Seq(S) /\ Len(r) = Len(s) + 1 /\ DOMAIN r = 1 .. Len(s) + 1
      /\ \A i \in 1 .. Len(s) : r[i] = s[i]
      /\ r[Len(s) + 1] = e
  BY AppendProperties, LenProperties
<1> HIDE DEF m
<1>3. /\ q \in Seq(T) /\ Len(q) = Len(s) + 1
      /\ \A i \in 1 .. Len(s) : q[i] = m[i]
      /\ q[Len(s) + 1] = g[e]
  BY <1>1, AppendProperties
<1> HIDE DEF r, q
<1>4. Mapped(r, g) \in Seq(T) /\ Len(Mapped(r, g)) = Len(s) + 1
  BY <1>2, MappedType
<1>5. ASSUME NEW i \in 1 .. Len(s) + 1 PROVE Mapped(r, g)[i] = q[i]
  <2>1. Mapped(r, g)[i] = g[r[i]]
    BY <1>2 DEF Mapped
  <2>2. i \in 1 .. Len(s) \/ i = Len(s) + 1
    BY <1>1
  <2>3. QED BY <1>1, <1>2, <1>3, <2>1, <2>2
<1>6. Mapped(r, g) = q
  BY <1>3, <1>4, <1>5, SeqEqual
<1> DEFINE v == g[e]
<1> HIDE DEF v
<1>7. m \in Seq(T) /\ v \in T /\ q = Append(m, v)
  BY <1>1 DEF q, v
<1>8. q = Cat(m, <<v>>)
  BY <1>7, CatAppend
<1>9. QED BY <1>6, <1>8 DEF m, r, v

LEMMA SpreadType ==
    ASSUME NEW S, NEW T, NEW s \in Seq(S), NEW g, Maps(g, S, Seq(T))
    PROVE  Spread(s, g) \in Seq(T)
BY MappedType, FlattenType DEF Spread

LEMMA SpreadNone == ASSUME NEW g PROVE Spread(<<>>, g) = <<>>
BY MappedNone, FlattenNone DEF Spread

LEMMA SpreadMore ==
    ASSUME NEW S, NEW T, NEW s \in Seq(S), NEW e \in S, NEW g, Maps(g, S, Seq(T))
    PROVE  Spread(Append(s, e), g) = Cat(Spread(s, g), g[e])
<1> DEFINE m == Mapped(s, g)
           t == g[e]
<1>1. m \in Seq(Seq(T)) /\ t \in Seq(T)
  BY MappedType DEF Maps
<1>2. Mapped(Append(s, e), g) = Cat(m, <<t>>)
  BY MappedMore
<1> HIDE DEF m, t
<1>3. FlattenSeq(Append(m, t)) = FlattenSeq(m) \o t /\ Append(m, t) = Cat(m, <<t>>)
  BY <1>1, FlattenMore, CatAppend
<1>4. QED BY <1>2, <1>3 DEF Spread, Cat, m, t

(* Only what it makes of the elements there are matters.                   *)
LEMMA SpreadAlike ==
    ASSUME NEW s, NEW g, NEW h, \A x \in ToSet(s) : g[x] = h[x]
    PROVE  Spread(s, g) = Spread(s, h)
<1>1. \A i \in DOMAIN s : s[i] \in ToSet(s)
  BY DEF ToSet
<1>2. Mapped(s, g) = Mapped(s, h)
  BY <1>1 DEF Mapped
<1>3. QED BY <1>2 DEF Spread

LEMMA SiftIsSpread ==
    ASSUME NEW S, NEW s \in Seq(S), NEW T
    PROVE  Sift(s, T) = Spread(s, [x \in S |-> SiftOne(x, T)])
<1>1. DOMAIN s = 1 .. Len(s) /\ \A i \in 1 .. Len(s) : s[i] \in S
  BY LenProperties, ElementOfSeq
<1>2. Mapped(s, [x \in S |-> SiftOne(x, T)]) = [i \in DOMAIN s |-> IF s[i] \in T THEN <<s[i]>> ELSE <<>>]
  BY <1>1 DEF Mapped, SiftOne
<1>3. QED BY <1>2 DEF Spread, Sift

(* Sifting what is spread,                                                 *)
LEMMA SpreadSift ==
    ASSUME NEW S, NEW T, NEW s \in Seq(S), NEW g, Maps(g, S, Seq(T)), NEW W
    PROVE  Sift(Spread(s, g), W) = Spread(s, [x \in S |-> Sift(g[x], W)])
<1> DEFINE h == [x \in S |-> Sift(g[x], W)]
           Q == {r \in Seq(S) : Sift(Spread(r, g), W) = Spread(r, h)}
<1>0. Maps(h, S, Seq(T)) /\ \A x \in S : h[x] = Sift(g[x], W)
  <2>1. \A x \in S : g[x] \in Seq(T)
    BY DEF Maps
  <2>2. QED BY <2>1, SiftType DEF Maps
<1> HIDE DEF h
<1>1. <<>> \in Q
  BY SpreadNone, SiftNone, EmptySeq
<1>2. ASSUME NEW r \in Q, NEW e \in S PROVE Append(r, e) \in Q
  <2>1. r \in Seq(S) /\ Append(r, e) \in Seq(S) /\ Sift(Spread(r, g), W) = Spread(r, h)
    BY AppendProperties
  <2>2. Spread(r, g) \in Seq(T) /\ g[e] \in Seq(T)
    BY <2>1, SpreadType DEF Maps
  <2>3. Spread(Append(r, e), g) = Cat(Spread(r, g), g[e])
    BY <2>1, SpreadMore
  <2>4. Spread(Append(r, e), h) = Cat(Spread(r, h), h[e])
    BY <1>0, <2>1, SpreadMore
  <2>5. Sift(Cat(Spread(r, g), g[e]), W) = Cat(Sift(Spread(r, g), W), Sift(g[e], W))
    BY <2>2, SiftTogether
  <2>6. QED BY <1>0, <2>1, <2>3, <2>4, <2>5
<1> HIDE DEF Q
<1>3. Q = Seq(S)
  <2>1. Q \in SUBSET Seq(S)
    BY DEF Q
  <2>2. QED BY <1>1, <1>2, <2>1, AppendInduction
<1>4. QED BY <1>3 DEF Q, h

(* and mapping it, is doing so with each part.                             *)
LEMMA MappedCat ==
    ASSUME NEW S, NEW T, NEW s \in Seq(S), NEW t \in Seq(S), NEW g, Maps(g, S, T)
    PROVE  Mapped(Cat(s, t), g) = Cat(Mapped(s, g), Mapped(t, g))
<1> DEFINE Q == {r \in Seq(S) : Mapped(Cat(s, r), g) = Cat(Mapped(s, g), Mapped(r, g))}
<1>0. Mapped(s, g) \in Seq(T)
  BY MappedType
<1>1. <<>> \in Q
  <2>1. Cat(s, <<>>) = s /\ Cat(Mapped(s, g), <<>>) = Mapped(s, g)
    BY <1>0, CatNothing
  <2>2. QED BY <2>1, MappedNone, EmptySeq
<1>2. ASSUME NEW r \in Q, NEW e \in S PROVE Append(r, e) \in Q
  <2>1. r \in Seq(S) /\ Append(r, e) \in Seq(S) /\ Mapped(Cat(s, r), g) = Cat(Mapped(s, g), Mapped(r, g))
    BY AppendProperties
  <2>2. Cat(s, r) \in Seq(S) /\ Mapped(r, g) \in Seq(T) /\ g[e] \in T
    BY <2>1, CatType, MappedType DEF Maps
  <2> DEFINE c == Cat(s, r)
             a == Mapped(s, g)
             b == Mapped(r, g)
             v == <<g[e]>>
  <2>3. /\ c \in Seq(S) /\ a \in Seq(T) /\ b \in Seq(T) /\ v \in Seq(T)
        /\ Mapped(c, g) = Cat(a, b)
    BY <1>0, <2>1, <2>2
  <2>4. Cat(s, Append(r, e)) = Append(c, e)
    BY <2>1, CatMore DEF Cat
  <2>5. Mapped(Append(r, e), g) = Cat(b, v)
    BY <2>1, MappedMore
  <2> HIDE DEF c
  <2>6. Mapped(Append(c, e), g) = Cat(Mapped(c, g), v)
    BY <2>3, MappedMore
  <2> HIDE DEF a, b, v, Q
  <2>7. Cat(Cat(a, b), v) = Cat(a, Cat(b, v))
    BY <2>3, CatAssociates
  <2>8. Mapped(Cat(s, Append(r, e)), g) = Cat(a, Mapped(Append(r, e), g))
    BY <2>3, <2>4, <2>5, <2>6, <2>7
  <2>9. QED BY <2>1, <2>8 DEF a, Q
<1> HIDE DEF Q
<1>3. Q = Seq(S)
  <2>1. Q \in SUBSET Seq(S)
    BY DEF Q
  <2>2. QED BY <1>1, <1>2, <2>1, AppendInduction
<1>4. QED BY <1>3 DEF Q

LEMMA SpreadMapped ==
    ASSUME NEW S, NEW T, NEW U, NEW s \in Seq(S), NEW g, Maps(g, S, Seq(T)), NEW f, Maps(f, T, U)
    PROVE  Mapped(Spread(s, g), f) = Spread(s, [x \in S |-> Mapped(g[x], f)])
<1> DEFINE h == [x \in S |-> Mapped(g[x], f)]
           Q == {r \in Seq(S) : Mapped(Spread(r, g), f) = Spread(r, h)}
<1>0. Maps(h, S, Seq(U)) /\ \A x \in S : h[x] = Mapped(g[x], f)
  <2>1. \A x \in S : g[x] \in Seq(T)
    BY DEF Maps
  <2>2. QED BY <2>1, MappedType DEF Maps
<1> HIDE DEF h
<1>1. <<>> \in Q
  BY SpreadNone, MappedNone, EmptySeq
<1>2. ASSUME NEW r \in Q, NEW e \in S PROVE Append(r, e) \in Q
  <2>1. r \in Seq(S) /\ Append(r, e) \in Seq(S) /\ Mapped(Spread(r, g), f) = Spread(r, h)
    BY AppendProperties
  <2>2. Spread(r, g) \in Seq(T) /\ g[e] \in Seq(T)
    BY <2>1, SpreadType DEF Maps
  <2>3. Spread(Append(r, e), g) = Cat(Spread(r, g), g[e])
    BY <2>1, SpreadMore
  <2>4. Spread(Append(r, e), h) = Cat(Spread(r, h), h[e])
    BY <1>0, <2>1, SpreadMore
  <2>5. Mapped(Cat(Spread(r, g), g[e]), f) = Cat(Mapped(Spread(r, g), f), Mapped(g[e], f))
    BY <2>2, MappedCat
  <2>6. QED BY <1>0, <2>1, <2>3, <2>4, <2>5
<1> HIDE DEF Q
<1>3. Q = Seq(S)
  <2>1. Q \in SUBSET Seq(S)
    BY DEF Q
  <2>2. QED BY <1>1, <1>2, <2>1, AppendInduction
<1>4. QED BY <1>3 DEF Q, h

(* A part each is the sequence,                                            *)
LEMMA SpreadSelf ==
    ASSUME NEW S, NEW s \in Seq(S), NEW g, \A x \in ToSet(s) : g[x] = <<x>>
    PROVE  Spread(s, g) = s
<1>1. \A x \in ToSet(s) : x \in S
  BY LenProperties, ElementOfSeq DEF ToSet
<1>2. Spread(s, g) = Spread(s, [x \in S |-> SiftOne(x, S)])
  <2>1. \A x \in ToSet(s) : g[x] = [y \in S |-> SiftOne(y, S)][x]
    BY <1>1 DEF SiftOne
  <2>2. QED BY <2>1, SpreadAlike
<1>3. Sift(s, S) = s
  BY SiftAll
<1>4. Sift(s, S) = Spread(s, [x \in S |-> SiftOne(x, S)])
  BY SiftIsSpread
<1>5. QED BY <1>2, <1>3, <1>4

(* no part at all nothing,                                                 *)
LEMMA SpreadNothing ==
    ASSUME NEW S, NEW s \in Seq(S), NEW g, \A x \in ToSet(s) : g[x] = <<>>
    PROVE  Spread(s, g) = <<>>
<1>1. \A x \in ToSet(s) : x \in S
  BY LenProperties, ElementOfSeq DEF ToSet
<1>2. Spread(s, g) = Spread(s, [x \in S |-> SiftOne(x, {})])
  <2>1. \A x \in ToSet(s) : g[x] = [y \in S |-> SiftOne(y, {})][x]
    BY <1>1 DEF SiftOne
  <2>2. QED BY <2>1, SpreadAlike
<1>3. S \intersect {} = {}
  OBVIOUS
<1>4. Sift(s, {}) = <<>>
  BY <1>3, SiftNothing
<1>5. Sift(s, {}) = Spread(s, [x \in S |-> SiftOne(x, {})])
  BY SiftIsSpread
<1>6. QED BY <1>2, <1>4, <1>5

\* No element is there twice.
Distinct(s) == \A i, j \in DOMAIN s : s[i] = s[j] => i = j

LEMMA DistinctMore ==
    ASSUME NEW S, NEW s \in Seq(S), NEW e \in S
    PROVE  Distinct(Append(s, e)) <=> Distinct(s) /\ e \notin ToSet(s)
<1> DEFINE n == Len(s)
           r == Append(s, e)
<1>1. /\ n \in Nat /\ DOMAIN s = 1 .. n /\ DOMAIN r = 1 .. n + 1
      /\ \A i \in 1 .. n : r[i] = s[i]
      /\ r[n + 1] = e
  BY AppendProperties, LenProperties
<1> HIDE DEF n, r
<1>2. \A i \in 1 .. n : i \in DOMAIN s /\ i \in DOMAIN r /\ i # n + 1
  BY <1>1
<1>3. n + 1 \in DOMAIN r /\ \A i \in DOMAIN r : i \in DOMAIN s \/ i = n + 1
  BY <1>1
<1>4. QED BY <1>1, <1>2, <1>3 DEF Distinct, ToSet, r

(* and one part that part.                                                 *)
LEMMA SpreadOnly ==
    ASSUME NEW S, NEW T, NEW s \in Seq(S), Distinct(s), NEW e \in ToSet(s), NEW g, Maps(g, S, Seq(T)),
           \A x \in ToSet(s) : x # e => g[x] = <<>>
    PROVE  Spread(s, g) = g[e]
<1> DEFINE h == [x \in S |-> IF x = e THEN g[x] ELSE <<>>]
           Q == {r \in Seq(S) : Distinct(r) => Spread(r, h) = IF e \in ToSet(r) THEN g[e] ELSE <<>>}
<1>0. e \in S /\ \A x \in ToSet(s) : x \in S
  BY LenProperties, ElementOfSeq DEF ToSet
<1>1. /\ Maps(h, S, Seq(T)) /\ h[e] = g[e] /\ g[e] \in Seq(T) /\ <<>> \in Seq(T)
      /\ \A x \in S : x # e => h[x] = <<>>
  BY <1>0, EmptySeq DEF Maps
<1>2. Spread(s, g) = Spread(s, h)
  BY <1>0, SpreadAlike
<1> HIDE DEF h
<1>3. <<>> \in Q
  BY SpreadNone, AmongNone, EmptySeq
<1>4. ASSUME NEW r \in Q, NEW x \in S PROVE Append(r, x) \in Q
  <2>1. r \in Seq(S) /\ Append(r, x) \in Seq(S) /\ ToSet(Append(r, x)) = ToSet(r) \union {x}
    BY AppendProperties, AmongMore
  <2> SUFFICES ASSUME Distinct(Append(r, x))
               PROVE  Spread(Append(r, x), h) = IF e \in ToSet(Append(r, x)) THEN g[e] ELSE <<>>
    BY <2>1
  <2>2. Distinct(r) /\ x \notin ToSet(r)
    BY <2>1, DistinctMore
  <2>3. Spread(r, h) = IF e \in ToSet(r) THEN g[e] ELSE <<>>
    BY <2>2
  <2>4. Spread(Append(r, x), h) = Cat(Spread(r, h), h[x])
    BY <1>1, <2>1, SpreadMore
  <2>5. CASE x = e
    <3>1. Spread(r, h) = <<>> /\ Cat(<<>>, g[e]) = g[e]
      BY <1>1, <2>2, <2>3, <2>5, CatNothing
    <3>2. QED BY <1>1, <2>1, <2>4, <2>5, <3>1
  <2>6. CASE x # e
    <3>1. h[x] = <<>> /\ Spread(r, h) \in Seq(T)
      BY <1>1, <2>1, <2>6, SpreadType
    <3>2. Cat(Spread(r, h), <<>>) = Spread(r, h)
      BY <3>1, CatNothing
    <3>3. QED BY <2>1, <2>3, <2>4, <2>6, <3>1, <3>2
  <2>7. QED BY <2>5, <2>6
<1> HIDE DEF Q
<1>5. Q = Seq(S)
  <2>1. Q \in SUBSET Seq(S)
    BY DEF Q
  <2>2. QED BY <1>3, <1>4, <2>1, AppendInduction
<1>6. s \in Q
  BY <1>5
<1>7. Spread(s, h) = g[e]
  BY <1>6 DEF Q
<1>8. QED BY <1>2, <1>7

-----------------------------------------------------------------------------
(* Firsts.                                                                 *)

FirstParts(s) ==
    [i \in DOMAIN s |-> IF \A j \in 1 .. i - 1 : s[j] # s[i] THEN <<s[i]>> ELSE <<>>]

LEMMA FirstPartsType ==
    ASSUME NEW S, NEW s \in Seq(S)
    PROVE  FirstParts(s) \in Seq(Seq(S)) /\ Len(FirstParts(s)) = Len(s)
<1>1. DOMAIN s = 1 .. Len(s) /\ Len(s) \in Nat /\ \A i \in 1 .. Len(s) : s[i] \in S
  BY LenProperties, ElementOfSeq
<1>2. \A x \in S : <<x>> \in Seq(S) /\ <<>> \in Seq(S)
  BY EmptySeq
<1>3. FirstParts(s) \in [1 .. Len(s) -> Seq(S)]
  BY <1>1, <1>2 DEF FirstParts
<1>4. QED BY <1>1, <1>3, SeqDef, LenProperties

LEMMA FirstsType == ASSUME NEW S, NEW s \in Seq(S) PROVE Firsts(s) \in Seq(S)
<1>1. Firsts(s) = FlattenSeq(FirstParts(s))
  BY DEF Firsts, FirstParts
<1>2. QED BY <1>1, FirstPartsType, FlattenType

LEMMA FirstsNone == Firsts(<<>>) = <<>>
<1>1. FirstParts(<<>>) = <<>>
  BY DEF FirstParts
<1>2. QED BY <1>1, FlattenNone DEF Firsts, FirstParts

(* An element more has its first place at the end, or has one.             *)
LEMMA FirstsMore ==
    ASSUME NEW S, NEW s \in Seq(S), NEW e \in S
    PROVE  Firsts(Append(s, e)) = IF e \in ToSet(s) THEN Firsts(s) ELSE Append(Firsts(s), e)
<1> DEFINE n == Len(s)
           r == Append(s, e)
           p == FirstParts(s)
           t == IF e \in ToSet(s) THEN <<>> ELSE <<e>>
           q == Append(p, t)
<1>1. /\ r \in Seq(S) /\ Len(r) = n + 1 /\ DOMAIN r = 1 .. n + 1
      /\ DOMAIN s = 1 .. n /\ n \in Nat
      /\ \A i \in 1 .. n : r[i] = s[i]
      /\ r[n + 1] = e
  BY AppendProperties, LenProperties
<1>2. t \in Seq(S) /\ p \in Seq(Seq(S)) /\ Len(p) = n
  BY FirstPartsType, EmptySeq
<1> HIDE DEF p, t
<1>3. /\ q \in Seq(Seq(S)) /\ Len(q) = n + 1
      /\ \A i \in 1 .. n : q[i] = p[i]
      /\ q[n + 1] = t
  BY <1>2, AppendProperties
<1> HIDE DEF n, r, q
<1>4. FirstParts(r) \in Seq(Seq(S)) /\ Len(FirstParts(r)) = n + 1
  BY <1>1, FirstPartsType
<1>5. ASSUME NEW i \in 1 .. n + 1 PROVE FirstParts(r)[i] = q[i]
  <2>1. FirstParts(r)[i] = IF \A j \in 1 .. i - 1 : r[j] # r[i] THEN <<r[i]>> ELSE <<>>
    BY <1>1 DEF FirstParts
  <2>2. CASE i \in 1 .. n
    <3>1. p[i] = IF \A j \in 1 .. i - 1 : s[j] # s[i] THEN <<s[i]>> ELSE <<>>
      BY <1>1, <2>2 DEF p, FirstParts
    <3>2. r[i] = s[i] /\ \A j \in 1 .. i - 1 : r[j] = s[j]
      BY <1>1, <2>2
    <3>3. FirstParts(r)[i] = p[i]
      BY <2>1, <3>1, <3>2
    <3>4. QED BY <1>3, <2>2, <3>3
  <2>3. CASE i = n + 1
    <3>1. i - 1 = n
      BY <1>1, <2>3
    <3>2. (\A j \in 1 .. i - 1 : r[j] # r[i]) <=> e \notin ToSet(s)
      BY <1>1, <2>3, <3>1 DEF ToSet
    <3>3. QED BY <1>1, <1>3, <2>1, <2>3, <3>2 DEF t
  <2>4. QED BY <1>1, <2>2, <2>3
<1>6. FirstParts(r) = q
  BY <1>3, <1>4, <1>5, SeqEqual
<1>7. FlattenSeq(q) = FlattenSeq(p) \o t
  BY <1>2, FlattenMore DEF q
<1>8. Firsts(r) = FlattenSeq(FirstParts(r)) /\ Firsts(s) = FlattenSeq(p)
  BY DEF Firsts, FirstParts, p
<1>9. Firsts(r) = Cat(Firsts(s), t) /\ Firsts(s) \in Seq(S)
  BY <1>6, <1>7, <1>8, FirstsType DEF Cat
<1> DEFINE f == Firsts(s)
<1> HIDE DEF f
<1>10. Cat(f, <<>>) = f /\ Append(f, e) = Cat(f, <<e>>)
  BY <1>9, CatNothing, CatAppend DEF f
<1>11. QED BY <1>9, <1>10 DEF f, t, r

LEMMA FirstsHave ==
    ASSUME NEW S, NEW s \in Seq(S)
    PROVE  ToSet(Firsts(s)) = ToSet(s) /\ Distinct(Firsts(s))
<1> DEFINE Q == {r \in Seq(S) : ToSet(Firsts(r)) = ToSet(r) /\ Distinct(Firsts(r))}
<1>1. <<>> \in Q
  <2>1. Distinct(<<>>)
    BY DEF Distinct
  <2>2. QED BY <2>1, FirstsNone, EmptySeq
<1>2. ASSUME NEW r \in Q, NEW e \in S PROVE Append(r, e) \in Q
  <2>1. r \in Seq(S) /\ Append(r, e) \in Seq(S) /\ ToSet(Firsts(r)) = ToSet(r) /\ Distinct(Firsts(r))
        /\ ToSet(Append(r, e)) = ToSet(r) \union {e}
    BY AppendProperties, AmongMore
  <2>2. Firsts(Append(r, e)) = IF e \in ToSet(r) THEN Firsts(r) ELSE Append(Firsts(r), e)
    BY <2>1, FirstsMore
  <2>3. CASE e \in ToSet(r)
    BY <2>1, <2>2, <2>3
  <2>4. CASE e \notin ToSet(r)
    <3>1. Firsts(r) \in Seq(S)
      BY <2>1, FirstsType
    <3>2. ToSet(Append(Firsts(r), e)) = ToSet(Firsts(r)) \union {e} /\ Distinct(Append(Firsts(r), e))
      BY <2>1, <2>4, <3>1, AmongMore, DistinctMore
    <3>3. QED BY <2>1, <2>2, <2>4, <3>2
  <2>5. QED BY <2>3, <2>4
<1> HIDE DEF Q
<1>3. Q = Seq(S)
  <2>1. Q \in SUBSET Seq(S)
    BY DEF Q
  <2>2. QED BY <1>1, <1>2, <2>1, AppendInduction
<1>4. QED BY <1>3 DEF Q

(* As many are left of a sequence as it has places with what is wanted.    *)
LEMMA SiftCounts ==
    ASSUME NEW S, NEW s \in Seq(S), NEW T
    PROVE  /\ IsFiniteSet({i \in DOMAIN s : s[i] \in T})
           /\ Cardinality({i \in DOMAIN s : s[i] \in T}) = Len(Sift(s, T))
<1> DEFINE At(r) == {i \in DOMAIN r : r[i] \in T}
           Q == {r \in Seq(S) : IsFiniteSet(At(r)) /\ Cardinality(At(r)) = Len(Sift(r, T))}
<1>1. <<>> \in Q
  <2>1. At(<<>>) = {} /\ Sift(<<>>, T) = <<>> /\ Len(<<>>) = 0 /\ <<>> \in Seq(S)
    BY SiftNone, EmptySeq
  <2>2. QED BY <2>1, FS_EmptySet
<1>2. ASSUME NEW r \in Q, NEW e \in S PROVE Append(r, e) \in Q
  <2> DEFINE n == Len(r)
             t == Append(r, e)
             f == Sift(r, T)
  <2>1. /\ r \in Seq(S) /\ t \in Seq(S) /\ f \in Seq(S) /\ n \in Nat
        /\ IsFiniteSet(At(r)) /\ Cardinality(At(r)) = Len(f)
        /\ DOMAIN r = 1 .. n /\ DOMAIN t = 1 .. n + 1
        /\ \A i \in 1 .. n : t[i] = r[i]
        /\ t[n + 1] = e
    BY AppendProperties, LenProperties, SiftType
  <2>2. Sift(t, T) = IF e \in T THEN Append(f, e) ELSE f
    BY <2>1, SiftMore
  <2>3. Len(Append(f, e)) = Len(f) + 1
    BY <2>1, AppendProperties
  <2> HIDE DEF n, t, f
  <2>4. n + 1 \notin At(r)
    BY <2>1
  <2>5. At(t) = IF e \in T THEN At(r) \union {n + 1} ELSE At(r)
    <3>1. \A i \in DOMAIN t : i \in DOMAIN r \/ i = n + 1
      BY <2>1
    <3>2. DOMAIN r \subseteq DOMAIN t /\ n + 1 \in DOMAIN t
      BY <2>1
    <3>3. QED BY <2>1, <3>1, <3>2
  <2> HIDE DEF At
  <2>6. IsFiniteSet(At(r) \union {n + 1}) /\ Cardinality(At(r) \union {n + 1}) = Cardinality(At(r)) + 1
    BY <2>1, <2>4, FS_AddElement
  <2>7. IsFiniteSet(At(t)) /\ Cardinality(At(t)) = Len(Sift(t, T))
    BY <2>1, <2>2, <2>3, <2>5, <2>6
  <2>8. QED BY <2>1, <2>7 DEF t
<1> HIDE DEF Q
<1>3. Q = Seq(S)
  <2>1. Q \in SUBSET Seq(S)
    BY DEF Q
  <2>2. QED BY <1>1, <1>2, <2>1, AppendInduction
<1>4. QED BY <1>3 DEF Q

-----------------------------------------------------------------------------
(* What comes first in a sequence comes before what comes later among      *)
(* Firsts(s): wherever b is, an a is ahead of it.                          *)
Ahead(s, a, b) == \A q \in DOMAIN s : s[q] = b => \E p \in DOMAIN s : p < q /\ s[p] = a

LEMMA AheadMore ==
    ASSUME NEW S, NEW s \in Seq(S), NEW e \in S, NEW a \in ToSet(s), NEW b,
           b \in ToSet(s) => Ahead(s, a, b)
    PROVE  Ahead(Append(s, e), a, b)
<1> DEFINE n == Len(s)
           r == Append(s, e)
<1>1. /\ n \in Nat /\ DOMAIN s = 1 .. n /\ DOMAIN r = 1 .. n + 1
      /\ \A i \in 1 .. n : r[i] = s[i]
  BY AppendProperties, LenProperties
<1> HIDE DEF n, r
<1>2. PICK x \in 1 .. n : s[x] = a
  BY <1>1 DEF ToSet
<1>3. SUFFICES ASSUME NEW q \in 1 .. n + 1, r[q] = b PROVE \E p \in DOMAIN r : p < q /\ r[p] = a
  BY <1>1 DEF Ahead, r
<1>4. CASE q \in 1 .. n
  <2>1. s[q] = b /\ b \in ToSet(s)
    BY <1>1, <1>3, <1>4 DEF ToSet
  <2>2. PICK p \in 1 .. n : p < q /\ s[p] = a
    BY <1>1, <1>4, <2>1 DEF Ahead
  <2>3. QED BY <1>1, <2>2
<1>5. CASE q = n + 1
  <2>1. x \in DOMAIN r /\ x < q /\ r[x] = a
    BY <1>1, <1>2, <1>5
  <2>2. QED BY <2>1
<1>6. QED BY <1>1, <1>3, <1>4, <1>5

FirstsAhead(s) ==
    \A i, j \in DOMAIN Firsts(s) : i < j => Ahead(s, Firsts(s)[i], Firsts(s)[j])

LEMMA FirstsAheadMore ==
    ASSUME NEW S, NEW s \in Seq(S), FirstsAhead(s), NEW e \in S
    PROVE  FirstsAhead(Append(s, e))
<1> DEFINE f == Firsts(s)
           r == Append(s, e)
           g == Firsts(r)
           n == Len(f)
<1>1. f \in Seq(S) /\ ToSet(f) = ToSet(s) /\ n \in Nat /\ DOMAIN f = 1 .. n
  BY FirstsType, FirstsHave, LenProperties
<1>2. g = IF e \in ToSet(s) THEN f ELSE Append(f, e)
  BY FirstsMore
<1>3. \A i, j \in DOMAIN f : i < j => Ahead(s, f[i], f[j])
  BY DEF FirstsAhead
<1>4. Len(Append(f, e)) = n + 1 /\ DOMAIN Append(f, e) = 1 .. n + 1
      /\ Append(f, e)[n + 1] = e
      /\ \A i \in 1 .. n : Append(f, e)[i] = f[i]
  BY <1>1, AppendProperties, LenProperties
<1>5. \A i \in 1 .. n : f[i] \in ToSet(s)
  BY <1>1 DEF ToSet
<1> HIDE DEF f, g, n
<1>6. ASSUME NEW i \in 1 .. n, NEW j \in 1 .. n, i < j PROVE Ahead(r, f[i], f[j])
  <2>1. Ahead(s, f[i], f[j]) /\ f[i] \in ToSet(s)
    BY <1>1, <1>3, <1>5, <1>6
  <2>2. QED BY <2>1, AheadMore
<1>7. ASSUME NEW i \in 1 .. n, e \notin ToSet(s) PROVE Ahead(r, f[i], e)
  BY <1>5, <1>7, AheadMore
<1>8. CASE e \in ToSet(s)
  BY <1>1, <1>2, <1>6, <1>8 DEF FirstsAhead, g
<1>9. CASE e \notin ToSet(s)
  <2>1. DOMAIN g = 1 .. n + 1 /\ g[n + 1] = e /\ \A i \in 1 .. n : g[i] = f[i]
    BY <1>2, <1>4, <1>9
  <2> HIDE DEF r
  <2>2. ASSUME NEW i \in 1 .. n + 1, NEW j \in 1 .. n + 1, i < j PROVE Ahead(r, g[i], g[j])
    <3>1. i \in 1 .. n /\ (j \in 1 .. n \/ j = n + 1)
      BY <1>1, <2>2
    <3>2. g[i] = f[i] /\ (j \in 1 .. n => g[j] = f[j])
      BY <2>1, <3>1
    <3>3. QED BY <1>6, <1>7, <1>9, <2>1, <2>2, <3>1, <3>2
  <2>3. QED BY <2>1, <2>2 DEF FirstsAhead, g, r
<1>10. QED BY <1>8, <1>9

LEMMA FirstsOrdered == ASSUME NEW S, NEW s \in Seq(S) PROVE FirstsAhead(s)
<1> DEFINE Q == {r \in Seq(S) : FirstsAhead(r)}
<1>1. <<>> \in Q
  <2>1. DOMAIN Firsts(<<>>) = {}
    BY FirstsNone
  <2>2. QED BY <2>1, EmptySeq DEF FirstsAhead
<1>2. ASSUME NEW r \in Q, NEW e \in S PROVE Append(r, e) \in Q
  BY AppendProperties, FirstsAheadMore
<1> HIDE DEF Q
<1>3. Q = Seq(S)
  <2>1. Q \in SUBSET Seq(S)
    BY DEF Q
  <2>2. QED BY <1>1, <1>2, <2>1, AppendInduction
<1>4. QED BY <1>3 DEF Q

(* and so of parts: wherever b is, an a is in it or in one ahead of it.    *)
AheadInParts(ss, a, b) ==
    \A k \in DOMAIN ss : b \in ToSet(ss[k]) => \E m \in 1 .. k : a \in ToSet(ss[m])

LEMMA PartsAhead ==
    ASSUME NEW S, NEW ss \in Seq(Seq(S)), NEW a, NEW b, Ahead(FlattenSeq(ss), a, b)
    PROVE  AheadInParts(ss, a, b)
<1> DEFINE Q == {rr \in Seq(Seq(S)) : Ahead(FlattenSeq(rr), a, b) => AheadInParts(rr, a, b)}
<1>1. <<>> \in Q
  BY EmptySeq DEF AheadInParts
<1>2. ASSUME NEW rr \in Q, NEW t \in Seq(S) PROVE Append(rr, t) \in Q
  <2> DEFINE uu == Append(rr, t)
             f == FlattenSeq(rr)
             g == FlattenSeq(uu)
             k == Len(rr)
             n == Len(f)
             l == Len(t)
  <2>1. /\ uu \in Seq(Seq(S)) /\ DOMAIN uu = 1 .. k + 1 /\ DOMAIN rr = 1 .. k /\ k \in Nat
        /\ uu[k + 1] = t /\ \A i \in 1 .. k : uu[i] = rr[i]
    BY AppendProperties, LenProperties
  <2>2. f \in Seq(S) /\ g \in Seq(S) /\ g = f \o t
    BY <2>1, FlattenType, FlattenMore
  <2>3. /\ DOMAIN f = 1 .. n /\ DOMAIN t = 1 .. l /\ n \in Nat /\ l \in Nat
        /\ Len(g) = n + l
        /\ \A i \in 1 .. n + l : g[i] = IF i <= n THEN f[i] ELSE t[i - n]
    BY <2>2, ConcatProperties, LenProperties
  <2>4. DOMAIN g = 1 .. n + l
    BY <2>2, <2>3, LenProperties
  <2>5. ToSet(g) = UNION {ToSet(u) : u \in ToSet(uu)}
    BY <2>1, FlattenHas
  <2>6. Ahead(f, a, b) => AheadInParts(rr, a, b)
    OBVIOUS
  <2> HIDE DEF uu, f, g, k, n, l, Q
  <2>7. ASSUME Ahead(g, a, b) PROVE AheadInParts(uu, a, b)
    <3>1. Ahead(f, a, b)
      <4> SUFFICES ASSUME NEW q \in 1 .. n, f[q] = b PROVE \E p \in 1 .. n : p < q /\ f[p] = a
        BY <2>3 DEF Ahead
      <4>1. q \in 1 .. n + l /\ g[q] = b
        BY <2>3
      <4>2. PICK p \in 1 .. n + l : p < q /\ g[p] = a
        BY <2>4, <2>7, <4>1 DEF Ahead
      <4>3. p \in 1 .. n
        BY <2>3, <4>2
      <4>4. QED BY <2>3, <4>2, <4>3
    <3>2. AheadInParts(rr, a, b)
      BY <2>6, <3>1
    <3>3. ASSUME b \in ToSet(t) PROVE \E m \in 1 .. k + 1 : a \in ToSet(uu[m])
      <4>1. PICK x \in 1 .. l : t[x] = b
        BY <2>3, <3>3 DEF ToSet
      <4>2. n + x \in 1 .. n + l /\ ~(n + x <= n) /\ n + x - n = x
        BY <2>3
      <4>3. g[n + x] = b
        BY <2>3, <4>1, <4>2
      <4>4. PICK p \in DOMAIN g : g[p] = a
        BY <2>4, <2>7, <4>2, <4>3 DEF Ahead
      <4>5. a \in ToSet(g)
        BY <4>4 DEF ToSet
      <4>6. PICK u \in ToSet(uu) : a \in ToSet(u)
        BY <2>5, <4>5
      <4>7. QED BY <2>1, <4>6 DEF ToSet
    <3>4. ASSUME NEW i \in 1 .. k + 1, b \in ToSet(uu[i]) PROVE \E m \in 1 .. i : a \in ToSet(uu[m])
      <4>1. CASE i = k + 1
        BY <2>1, <3>3, <3>4, <4>1
      <4>2. CASE i \in 1 .. k
        <5>1. PICK m \in 1 .. i : a \in ToSet(rr[m])
          BY <2>1, <3>2, <3>4, <4>2 DEF AheadInParts
        <5>2. m \in 1 .. k
          BY <2>1, <4>2
        <5>3. QED BY <2>1, <5>1, <5>2
      <4>3. QED BY <2>1, <4>1, <4>2
    <3>5. QED BY <2>1, <3>4 DEF AheadInParts
  <2>8. QED BY <2>1, <2>7 DEF Q, uu, g
<1>3. Q = Seq(Seq(S))
  <2>1. Q \in SUBSET Seq(Seq(S))
    OBVIOUS
  <2> HIDE DEF Q
  <2>2. QED BY <1>1, <1>2, <2>1, AppendInduction
<1>4. QED BY <1>3

-----------------------------------------------------------------------------
(* Counting in sequences.                                                  *)

(* A sequence has an element a finite number of times,                     *)
LEMMA TimesNat ==
    ASSUME NEW S, NEW s \in Seq(S), NEW e
    PROVE  /\ IsFiniteSet({i \in DOMAIN s : s[i] = e})
           /\ Times(e, s) \in Nat
<1>1. DOMAIN s = 1 .. Len(s) /\ Len(s) \in Nat
  BY LenProperties
<1>2. IsFiniteSet(1 .. Len(s))
  BY <1>1, FS_Interval
<1>3. IsFiniteSet({i \in DOMAIN s : s[i] = e})
  BY <1>1, <1>2, FS_Subset
<1>4. QED BY <1>3, FS_CardinalityType DEF Times

(* as often in a concatenation as in its parts together,                   *)
LEMMA TimesCat ==
    ASSUME NEW S, NEW s \in Seq(S), NEW t \in Seq(S), NEW e
    PROVE  Times(e, s \o t) = Times(e, s) + Times(e, t)
<1> DEFINE A == {i \in DOMAIN s : s[i] = e}
           B == {i \in DOMAIN t : t[i] = e}
           C == {i \in DOMAIN (s \o t) : (s \o t)[i] = e}
           D == {i \in Len(s) + 1 .. Len(s) + Len(t) : t[i - Len(s)] = e}
           shift == [i \in B |-> i + Len(s)]
<1>1. /\ Len(s) \in Nat /\ Len(t) \in Nat
      /\ DOMAIN s = 1 .. Len(s) /\ DOMAIN t = 1 .. Len(t)
      /\ DOMAIN (s \o t) = 1 .. Len(s) + Len(t)
      /\ \A i \in 1 .. Len(s) + Len(t) :
            (s \o t)[i] = IF i <= Len(s) THEN s[i] ELSE t[i - Len(s)]
  <2>1. s \o t \in Seq(S) /\ Len(s \o t) = Len(s) + Len(t)
    BY ConcatProperties
  <2>2. QED BY <2>1, LenProperties, ConcatProperties
<1>2. C = A \cup D /\ A \cap D = {}
  BY <1>1
<1>3. IsFiniteSet(A) /\ IsFiniteSet(B)
  BY TimesNat
<1>4. IsFiniteSet(D) /\ Cardinality(D) = Cardinality(B)
  <2>1. shift \in [B -> D]
    BY <1>1
  <2>2. \A i, j \in B : shift[i] = shift[j] => i = j
    BY <1>1
  <2>3. \A d \in D : \E i \in B : shift[i] = d
    <3> SUFFICES ASSUME NEW d \in D PROVE \E i \in B : shift[i] = d
      OBVIOUS
    <3>1. d - Len(s) \in B
      BY <1>1
    <3>2. shift[d - Len(s)] = d
      BY <1>1, <3>1
    <3>3. QED BY <3>1, <3>2
  <2>4. shift \in Bijection(B, D)
    BY <2>1, <2>2, <2>3, Fun_IsBij
  <2>5. QED BY <1>3, <2>4, FS_Bijection, Fun_ExistsBij
<1>5. Cardinality(C) = Cardinality(A) + Cardinality(D) - Cardinality(A \cap D)
  BY <1>2, <1>3, <1>4, FS_Union
<1>6. Cardinality(A \cap D) = 0
  BY <1>2, FS_EmptySet
<1>7. Cardinality(A) \in Nat /\ Cardinality(D) \in Nat
  BY <1>3, <1>4, FS_CardinalityType
<1>8. Cardinality(C) = Cardinality(A) + Cardinality(B)
  <2> HIDE DEF A, B, C, D
  <2>1. QED BY <1>4, <1>5, <1>6, <1>7
<1>9. QED BY <1>8 DEF Times

LEMMA TimesNone ==
    ASSUME NEW S, NEW s \in Seq(S), NEW e, \A i \in DOMAIN s : s[i] # e
    PROVE  Times(e, s) = 0
<1>1. {i \in DOMAIN s : s[i] = e} = {}
  OBVIOUS
<1>2. QED BY <1>1, FS_EmptySet DEF Times

LEMMA TimesOne ==
    ASSUME NEW x, NEW e
    PROVE  Times(e, <<x>>) = IF x = e THEN 1 ELSE 0
<1>1. DOMAIN <<x>> = {1} /\ <<x>>[1] = x
  OBVIOUS
<1>2. CASE x = e
  <2>1. {i \in DOMAIN <<x>> : <<x>>[i] = e} = {1}
    BY <1>1, <1>2
  <2>2. QED BY <1>2, <2>1, FS_Singleton DEF Times
<1>3. CASE x # e
  <2>1. {i \in DOMAIN <<x>> : <<x>>[i] = e} = {}
    BY <1>1, <1>3
  <2>2. QED BY <1>3, <2>1, FS_EmptySet DEF Times
<1>4. QED BY <1>2, <1>3

LEMMA TimesAppend ==
    ASSUME NEW S, NEW s \in Seq(S), NEW x \in S, NEW e
    PROVE  Times(e, Append(s, x)) = Times(e, s) + (IF x = e THEN 1 ELSE 0)
<1>1. Append(s, x) = s \o <<x>> /\ <<x>> \in Seq(S)
  BY AppendIsConcat
<1>2. Times(e, s \o <<x>>) = Times(e, s) + Times(e, <<x>>)
  BY <1>1, TimesCat
<1>3. QED BY <1>1, <1>2, TimesOne

-----------------------------------------------------------------------------
(* One element of a sequence replaced.                                     *)

Replaced(s, k, x) == [s EXCEPT ![k] = x]

\* p is s but for its k-th place, where it has x.
Differ(p, s, k, x) ==
    /\ Len(p) = Len(s) /\ DOMAIN p = DOMAIN s
    /\ p[k] = x
    /\ \A i \in DOMAIN s : i # k => p[i] = s[i]

LEMMA ReplacedIs ==
    ASSUME NEW S, NEW s \in Seq(S), NEW k \in DOMAIN s, NEW x \in S
    PROVE  Replaced(s, k, x) \in Seq(S) /\ Differ(Replaced(s, k, x), s, k, x)
<1>1. Replaced(s, k, x) \in Seq(S) /\ Len(Replaced(s, k, x)) = Len(s)
  BY ExceptSeq DEF Replaced
<1>2. QED BY <1>1, LenProperties DEF Replaced, Differ


LEMMA ReplacedMore ==
    ASSUME NEW S, NEW s \in Seq(S), NEW e \in S, NEW k \in DOMAIN s, NEW x \in S
    PROVE  Replaced(Append(s, e), k, x) = Append(Replaced(s, k, x), e)
<1> DEFINE r == Append(s, e)
           c == Replaced(s, k, x)
           p == Replaced(r, k, x)
           q == Append(c, e)
           n == Len(s)
<1>1. /\ r \in Seq(S) /\ Len(r) = n + 1 /\ n \in Nat
      /\ DOMAIN s = 1 .. n /\ DOMAIN r = 1 .. n + 1
      /\ \A i \in 1 .. n : r[i] = s[i]
      /\ r[n + 1] = e
  BY AppendProperties, LenProperties
<1>2. c \in Seq(S) /\ Differ(c, s, k, x)
  BY ReplacedIs
<1>3. k \in DOMAIN r /\ k # n + 1
  BY <1>1
<1>4. p \in Seq(S) /\ Differ(p, r, k, x)
  <2> HIDE DEF r
  <2>1. QED BY <1>1, <1>3, ReplacedIs
<1> HIDE DEF c
<1>5. /\ q \in Seq(S) /\ Len(q) = Len(c) + 1 /\ q[Len(c) + 1] = e
      /\ \A i \in 1 .. Len(c) : q[i] = c[i]
  BY <1>2, AppendProperties
<1> HIDE DEF r, p, q
<1>6. Len(c) = n /\ Len(p) = n + 1 /\ DOMAIN c = 1 .. n
  BY <1>1, <1>2, <1>4 DEF Differ
<1> HIDE DEF n
<1>7. \A i \in 1 .. n + 1 : p[i] = q[i]
  <2> SUFFICES ASSUME NEW i \in 1 .. n + 1 PROVE p[i] = q[i]
    OBVIOUS
  <2>1. CASE i = n + 1
    <3>1. p[i] = r[i]
      BY <1>1, <1>3, <1>4, <2>1 DEF Differ
    <3>2. QED BY <1>1, <1>5, <1>6, <2>1, <3>1
  <2>2. CASE i # n + 1
    <3>1. i \in 1 .. n /\ i \in DOMAIN r /\ i \in DOMAIN s
      BY <1>1, <2>2
    <3>2. q[i] = c[i] /\ r[i] = s[i]
      BY <1>1, <1>5, <1>6, <3>1
    <3>3. QED BY <1>2, <1>4, <3>1, <3>2 DEF Differ
  <2>3. QED BY <2>1, <2>2
<1>8. p = q
  BY <1>1, <1>4, <1>5, <1>6, <1>7, SeqEqual
<1>9. QED BY <1>8 DEF p, q, r, c

LEMMA AroundLast ==
    ASSUME NEW S, NEW s \in Seq(S), NEW e \in S, NEW x \in S
    PROVE  Replaced(Append(s, e), Len(s) + 1, x) = Append(s, x)
<1> DEFINE r == Append(s, e)
           p == Replaced(r, Len(s) + 1, x)
           q == Append(s, x)
<1>1. /\ r \in Seq(S) /\ Len(r) = Len(s) + 1 /\ Len(s) \in Nat
      /\ DOMAIN s = 1 .. Len(s) /\ DOMAIN r = 1 .. Len(s) + 1
      /\ \A i \in 1 .. Len(s) : r[i] = s[i]
      /\ q \in Seq(S) /\ Len(q) = Len(s) + 1 /\ DOMAIN q = 1 .. Len(s) + 1
      /\ \A i \in 1 .. Len(s) : q[i] = s[i]
      /\ q[Len(s) + 1] = x
  BY AppendProperties, LenProperties
<1> HIDE DEF r, q
<1>2. /\ p \in Seq(S) /\ Len(p) = Len(r) /\ DOMAIN p = DOMAIN r /\ p[Len(s) + 1] = x
      /\ \A i \in DOMAIN r : i # Len(s) + 1 => p[i] = r[i]
  <2>1. p \in Seq(S) /\ Differ(p, r, Len(s) + 1, x)
    BY <1>1, ReplacedIs
  <2>2. QED BY <2>1 DEF Differ
<1> HIDE DEF p
<1>3. \A i \in 1 .. Len(s) + 1 : p[i] = q[i]
  <2> SUFFICES ASSUME NEW i \in 1 .. Len(s) + 1 PROVE p[i] = q[i]
    OBVIOUS
  <2>1. CASE i = Len(s) + 1
    BY <1>1, <1>2, <2>1
  <2>2. CASE i # Len(s) + 1
    <3>1. i \in 1 .. Len(s)
      BY <1>1, <2>2
    <3>2. QED BY <1>1, <1>2, <2>2, <3>1
  <2>3. QED BY <2>1, <2>2
<1>4. p = q
  BY <1>1, <1>2, <1>3, SeqEqual
<1>5. QED BY <1>4 DEF p, q, r

\* The parts of a sequence around one of its places.
Parted(s, k, f, t, S) == \A x \in S : Replaced(s, k, x) = Cat(f, Cat(<<x>>, t))

LEMMA PartsAround ==
    ASSUME NEW S, NEW s \in Seq(S), NEW k \in DOMAIN s
    PROVE  \E f \in Seq(S), t \in Seq(S) : Parted(s, k, f, t, S)
<1> DEFINE Q == {r \in Seq(S) : \A n \in DOMAIN r : \E f \in Seq(S), t \in Seq(S) : Parted(r, n, f, t, S)}
<1>1. <<>> \in Q
  BY EmptySeq
<1>2. ASSUME NEW r \in Q, NEW e \in S PROVE Append(r, e) \in Q
  <2>1. /\ r \in Seq(S) /\ Append(r, e) \in Seq(S) /\ Len(r) \in Nat
        /\ DOMAIN r = 1 .. Len(r) /\ DOMAIN Append(r, e) = 1 .. Len(r) + 1
    BY AppendProperties, LenProperties
  <2>2. ASSUME NEW n \in DOMAIN Append(r, e)
        PROVE  \E f \in Seq(S), t \in Seq(S) : Parted(Append(r, e), n, f, t, S)
    <3>1. CASE n = Len(r) + 1
      <4>1. \A x \in S : <<x>> \in Seq(S) /\ Append(r, x) = Cat(r, <<x>>) /\ Cat(<<x>>, <<>>) = <<x>>
        BY <2>1, CatAppend, CatNothing
      <4>2. Parted(Append(r, e), n, r, <<>>, S)
        BY <2>1, <3>1, <4>1, AroundLast DEF Parted
      <4>3. QED BY <2>1, <4>2, EmptySeq
    <3>2. CASE n # Len(r) + 1
      <4>1. n \in DOMAIN r
        BY <2>1, <3>2
      <4>2. PICK f \in Seq(S), t \in Seq(S) : Parted(r, n, f, t, S)
        BY <4>1
      <4> DEFINE w == <<e>>
                 u == Cat(t, w)
      <4>3. w \in Seq(S)
        OBVIOUS
      <4> HIDE DEF w
      <4>4. ASSUME NEW x \in S PROVE Replaced(Append(r, e), n, x) = Cat(f, Cat(<<x>>, u))
        <5> DEFINE v == <<x>>
                   z == Cat(v, t)
                   m == Replaced(r, n, x)
        <5>1. Replaced(Append(r, e), n, x) = Append(m, e) /\ m \in Seq(S)
          BY <2>1, <4>1, ReplacedMore, ReplacedIs
        <5>2. m = Cat(f, z)
          BY <4>2 DEF Parted
        <5> HIDE DEF m
        <5>3. Append(m, e) = Cat(m, w)
          BY <5>1, CatAppend DEF w
        <5>4. v \in Seq(S)
          OBVIOUS
        <5> HIDE DEF v
        <5>5. z \in Seq(S) /\ Cat(z, w) = Cat(v, u)
          BY <4>3, <5>4, CatType, CatAssociates
        <5> HIDE DEF z
        <5>6. Cat(Cat(f, z), w) = Cat(f, Cat(z, w))
          BY <4>3, <5>5, CatAssociates
        <5>7. QED BY <5>1, <5>2, <5>3, <5>5, <5>6 DEF v
      <4>5. u \in Seq(S)
        BY <4>3, CatType
      <4>6. QED BY <4>4, <4>5 DEF Parted
    <3>3. QED BY <3>1, <3>2
  <2>3. QED BY <2>1, <2>2
<1> HIDE DEF Q
<1>3. Q = Seq(S)
  <2>1. Q \in SUBSET Seq(S)
    BY DEF Q
  <2>2. QED BY <1>1, <1>2, <2>1, AppendInduction
<1>4. QED BY <1>3 DEF Q

LEMMA SpreadCat ==
    ASSUME NEW S, NEW T, NEW s \in Seq(S), NEW t \in Seq(S), NEW g, Maps(g, S, Seq(T))
    PROVE  Spread(Cat(s, t), g) = Cat(Spread(s, g), Spread(t, g))
<1> DEFINE m == Mapped(s, g)
           n == Mapped(t, g)
<1>1. m \in Seq(Seq(T)) /\ n \in Seq(Seq(T)) /\ Mapped(Cat(s, t), g) = Cat(m, n)
  BY MappedType, MappedCat
<1> HIDE DEF m, n
<1>2. FlattenSeq(Cat(m, n)) = Cat(FlattenSeq(m), FlattenSeq(n))
  BY <1>1, FlattenCat DEF Cat
<1>3. QED BY <1>1, <1>2 DEF Spread, m, n

LEMMA SpreadSingle ==
    ASSUME NEW S, NEW T, NEW x \in S, NEW g, Maps(g, S, Seq(T))
    PROVE  Spread(<<x>>, g) = g[x]
<1>1. g[x] \in Seq(T)
  BY DEF Maps
<1>2. Mapped(<<x>>, g) = <<g[x]>>
  BY MappedOne
<1>3. FlattenSeq(<<g[x]>>) = g[x]
  BY <1>1, FlattenOne
<1>4. QED BY <1>2, <1>3 DEF Spread

(* What makes nothing can be left out.                                     *)
LEMMA SpreadSifted ==
    ASSUME NEW S, NEW T, NEW s \in Seq(S), NEW g, Maps(g, S, Seq(T)), NEW W,
           \A x \in S : x \in W \/ g[x] = <<>>
    PROVE  Spread(Sift(s, W), g) = Spread(s, g)
<1> DEFINE Q == {r \in Seq(S) : Spread(Sift(r, W), g) = Spread(r, g)}
<1>1. <<>> \in Q
  BY SiftNone, EmptySeq
<1>2. ASSUME NEW r \in Q, NEW e \in S PROVE Append(r, e) \in Q
  <2>1. r \in Seq(S) /\ Append(r, e) \in Seq(S) /\ Sift(r, W) \in Seq(S)
    BY AppendProperties, SiftType
  <2>2. Spread(Append(r, e), g) = Cat(Spread(r, g), g[e])
    BY <2>1, SpreadMore
  <2> DEFINE f == Sift(r, W)
  <2>3. f \in Seq(S) /\ Spread(f, g) = Spread(r, g)
    BY <2>1
  <2>4. Sift(Append(r, e), W) = IF e \in W THEN Append(f, e) ELSE f
    BY <2>1, SiftMore
  <2> HIDE DEF f
  <2>5. Spread(Append(f, e), g) = Cat(Spread(f, g), g[e])
    BY <2>3, SpreadMore
  <2>6. CASE e \in W
    <3>1. Spread(Sift(Append(r, e), W), g) = Spread(Append(r, e), g)
      BY <2>2, <2>3, <2>4, <2>5, <2>6
    <3>2. QED BY <2>1, <3>1
  <2>7. CASE e \notin W
    <3>1. Spread(r, g) \in Seq(T) /\ g[e] = <<>>
      BY <2>1, <2>7, SpreadType
    <3>2. Cat(Spread(r, g), g[e]) = Spread(r, g)
      BY <3>1, CatNothing
    <3>3. Spread(Sift(Append(r, e), W), g) = Spread(Append(r, e), g)
      BY <2>2, <2>3, <2>4, <2>7, <3>2
    <3>4. QED BY <2>1, <3>3
  <2>8. QED BY <2>6, <2>7
<1> HIDE DEF Q
<1>3. Q = Seq(S)
  <2>1. Q \in SUBSET Seq(S)
    BY DEF Q
  <2>2. QED BY <1>1, <1>2, <2>1, AppendInduction
<1>4. QED BY <1>3 DEF Q

\* No two elements that f is about are the same to it.
Apart(s, f) ==
    \A i, j \in DOMAIN s : s[i] \in DOMAIN f /\ s[j] \in DOMAIN f /\ f[s[i]] = f[s[j]] => i = j

LEMMA ApartMore ==
    ASSUME NEW S, NEW s \in Seq(S), NEW e \in S, NEW f
    PROVE  Apart(Append(s, e), f) <=>
             /\ Apart(s, f)
             /\ e \in DOMAIN f => \A x \in ToSet(s) : x \in DOMAIN f => f[x] # f[e]
<1> DEFINE n == Len(s)
           r == Append(s, e)
<1>1. /\ n \in Nat /\ DOMAIN s = 1 .. n /\ DOMAIN r = 1 .. n + 1
      /\ \A i \in 1 .. n : r[i] = s[i]
      /\ r[n + 1] = e
  BY AppendProperties, LenProperties
<1> HIDE DEF n, r
<1>2. \A i \in 1 .. n : i \in DOMAIN s /\ i \in DOMAIN r /\ i # n + 1
  BY <1>1
<1>3. \A i \in DOMAIN r : i \in DOMAIN s \/ i = n + 1
  BY <1>1
<1>4. n + 1 \in DOMAIN r /\ DOMAIN s = 1 .. n
  BY <1>1
<1>5. \A x \in ToSet(s) : \E i \in DOMAIN s : s[i] = x
  BY DEF ToSet
<1>6. \A i \in DOMAIN s : s[i] \in ToSet(s) /\ r[i] = s[i]
  BY <1>1 DEF ToSet
<1> DEFINE d == n + 1
<1>7. r[d] = e /\ d \in DOMAIN r /\ (\A i \in DOMAIN s : i \in DOMAIN r /\ i # d) /\ \A i \in DOMAIN r : i \in DOMAIN s \/ i = d
  BY <1>1, <1>2, <1>3, <1>4
<1> HIDE DEF d
<1>8. QED BY <1>5, <1>6, <1>7 DEF Apart, r

LEMMA ApartSifted ==
    ASSUME NEW S, NEW s \in Seq(S), NEW f, Apart(s, f), NEW W
    PROVE  Apart(Sift(s, W), f)
<1> DEFINE Q == {r \in Seq(S) : Apart(r, f) => Apart(Sift(r, W), f)}
<1>1. <<>> \in Q
  BY SiftNone, EmptySeq
<1>2. ASSUME NEW r \in Q, NEW e \in S PROVE Append(r, e) \in Q
  <2> DEFINE g == Sift(r, W)
  <2>1. /\ r \in Seq(S) /\ Append(r, e) \in Seq(S) /\ g \in Seq(S)
        /\ Apart(r, f) => Apart(g, f)
    BY AppendProperties, SiftType
  <2>2. ToSet(g) \subseteq ToSet(r)
    BY <2>1, SiftHas
  <2>3. Sift(Append(r, e), W) = IF e \in W THEN Append(g, e) ELSE g
    BY <2>1, SiftMore
  <2> HIDE DEF g
  <2>4. SUFFICES ASSUME Apart(Append(r, e), f) PROVE Apart(Sift(Append(r, e), W), f)
    BY <2>1
  <2>5. Apart(r, f) /\ (e \in DOMAIN f => \A x \in ToSet(r) : x \in DOMAIN f => f[x] # f[e])
    BY <2>1, <2>4, ApartMore
  <2>6. Apart(Append(g, e), f)
    BY <2>1, <2>2, <2>5, ApartMore
  <2>7. QED BY <2>1, <2>3, <2>5, <2>6
<1> HIDE DEF Q
<1>3. Q = Seq(S)
  <2>1. Q \in SUBSET Seq(S)
    BY DEF Q
  <2>2. QED BY <1>1, <1>2, <2>1, AppendInduction
<1>4. QED BY <1>3 DEF Q

\* The places up to the i-th that have an element of T.
UpTo(s, T, i) == {j \in 1 .. i : s[j] \in T}

(* The i-th element is where the count of those before it says.            *)
LEMMA SiftPlace ==
    ASSUME NEW S, NEW s \in Seq(S), NEW T, NEW i \in DOMAIN s, s[i] \in T
    PROVE  /\ Cardinality(UpTo(s, T, i)) \in DOMAIN Sift(s, T)
           /\ Sift(s, T)[Cardinality(UpTo(s, T, i))] = s[i]
<1> DEFINE Found(r, n) == /\ Cardinality(UpTo(r, T, n)) \in DOMAIN Sift(r, T)
                          /\ Sift(r, T)[Cardinality(UpTo(r, T, n))] = r[n]
           Q == {r \in Seq(S) : \A n \in DOMAIN r : r[n] \in T => Found(r, n)}
<1>1. <<>> \in Q
  BY EmptySeq
<1>2. ASSUME NEW r \in Q, NEW e \in S PROVE Append(r, e) \in Q
  <2> DEFINE t == Append(r, e)
             f == Sift(r, T)
             m == Len(r)
  <2>1. /\ r \in Seq(S) /\ t \in Seq(S) /\ f \in Seq(S) /\ m \in Nat /\ Len(t) = m + 1
        /\ DOMAIN r = 1 .. m /\ DOMAIN t = 1 .. m + 1
        /\ \A n \in 1 .. m : t[n] = r[n]
        /\ t[m + 1] = e
    BY AppendProperties, LenProperties, SiftType
  <2>2. Sift(t, T) = IF e \in T THEN Append(f, e) ELSE f
    BY <2>1, SiftMore
  <2>3. /\ Append(f, e) \in Seq(S) /\ Len(Append(f, e)) = Len(f) + 1 /\ Len(f) \in Nat
        /\ DOMAIN f = 1 .. Len(f) /\ DOMAIN Append(f, e) = 1 .. Len(f) + 1
        /\ \A n \in 1 .. Len(f) : Append(f, e)[n] = f[n]
        /\ Append(f, e)[Len(f) + 1] = e
    BY <2>1, AppendProperties, LenProperties
  <2>4. ASSUME NEW n \in DOMAIN t, t[n] \in T PROVE Found(t, n)
    <3>1. CASE n = m + 1
      <4>1. UpTo(t, T, n) = {j \in DOMAIN t : t[j] \in T}
        BY <2>1, <3>1 DEF UpTo
      <4>2. Cardinality(UpTo(t, T, n)) = Len(Sift(t, T))
        BY <2>1, <4>1, SiftCounts
      <4>3. Sift(t, T) = Append(f, e)
        BY <2>1, <2>2, <2>4, <3>1
      <4>4. Cardinality(UpTo(t, T, n)) = Len(f) + 1
        BY <2>3, <4>2, <4>3
      <4> HIDE DEF t, f
      <4>5. QED BY <2>1, <2>3, <3>1, <4>3, <4>4
    <3>2. CASE n # m + 1
      <4>1. n \in 1 .. m
        BY <2>1, <3>2
      <4>2. r[n] \in T /\ t[n] = r[n]
        BY <2>1, <2>4, <4>1
      <4>3. Found(r, n)
        BY <2>1, <4>1, <4>2
      <4>4. UpTo(t, T, n) = UpTo(r, T, n)
        <5>1. \A j \in 1 .. n : t[j] = r[j]
          BY <2>1, <4>1
        <5>2. QED BY <5>1 DEF UpTo
      <4> DEFINE k == Cardinality(UpTo(r, T, n))
      <4>5. k \in DOMAIN f /\ f[k] = r[n]
        BY <4>3
      <4> HIDE DEF k, t, f
      <4>6. k \in DOMAIN Sift(t, T) /\ Sift(t, T)[k] = r[n]
        <5>1. k \in 1 .. Len(f) /\ k \in 1 .. Len(f) + 1
          BY <2>3, <4>5
        <5>2. k \in DOMAIN Append(f, e) /\ Append(f, e)[k] = f[k]
          BY <2>3, <5>1
        <5>3. QED BY <2>2, <4>5, <5>2
      <4>7. QED BY <4>2, <4>4, <4>6 DEF k
    <3>3. QED BY <3>1, <3>2
  <2>5. QED BY <2>1, <2>4
<1> HIDE DEF Q
<1>3. Q = Seq(S)
  <2>1. Q \in SUBSET Seq(S)
    BY DEF Q
  <2>2. QED BY <1>1, <1>2, <2>1, AppendInduction
<1>4. QED BY <1>3 DEF Q
===============================================================================

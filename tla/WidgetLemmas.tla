----------------------------- MODULE WidgetLemmas -----------------------------
(***************************************************************************)
(* What the proofs about the widgets need to know of the operators their   *)
(* models are written with: least and greatest elements of sets of         *)
(* naturals, induction over the naturals as a statement about a set, and   *)
(* items put in, taken out of and exchanged in a sequence.                 *)
(***************************************************************************)
EXTENDS Integers, Sequences, FiniteSetsExt, SequencesExt, FiniteSetTheorems,
        NaturalsInduction, SequenceTheorems, WellFoundedInduction, TLAPS

-----------------------------------------------------------------------------
\* Naturals.

Below == {ss \in Nat \X Nat : ss[1] < ss[2]}

\* No sequence of naturals decreases for ever.
LEMMA BelowWF == IsWellFoundedOn(Below, Nat)
  BY NatLessThanWellFounded DEF Below, OpToRel

\* A set of naturals has a least element.
LEMMA LeastNat ==
    ASSUME NEW S \in SUBSET Nat, S # {}
    PROVE  \E m \in S : \A k \in S : m <= k
  <1>1. \E x \in S : \A y \in S : ~(<<y, x>> \in Below)
    BY BelowWF, WFMin
  <1>2. PICK x \in S : \A y \in S : ~(<<y, x>> \in Below)
    BY <1>1
  <1>3. ASSUME NEW y \in S PROVE x <= y
    <2>1. x \in Nat /\ y \in Nat
      OBVIOUS
    <2>2. y < x => <<y, x>> \in Below
      BY <2>1 DEF Below
    <2>. QED
      BY <1>2, <2>1, <2>2
  <1>. QED
    BY <1>3

\* Induction: a set with 0 and every successor holds all the naturals.
LEMMA InSet ==
    ASSUME NEW P \in SUBSET Nat, 0 \in P, \A n \in P : n + 1 \in P
    PROVE  P = Nat
  <1>. SUFFICES ASSUME NEW n0 \in Nat \ P PROVE FALSE
    OBVIOUS
  <1>. DEFINE Out == Nat \ P
  <1>1. PICK m \in Out : \A k \in Out : m <= k
    BY LeastNat
  <1>2. m # 0 /\ m - 1 \in Nat
    OBVIOUS
  <1>3. m - 1 \in P
    BY <1>1, <1>2
  <1>. QED
    BY <1>1, <1>2, <1>3

\* Min of a set of naturals is its least element.
LEMMA MinOf ==
    ASSUME NEW S \in SUBSET Nat, S # {}
    PROVE  Min(S) \in S /\ \A k \in S : Min(S) <= k
  BY LeastNat DEF Min

\* Max of a bounded set of naturals is its greatest element.
LEMMA MaxOf ==
    ASSUME NEW S \in SUBSET Nat, S # {}, NEW n \in Nat, \A k \in S : k <= n
    PROVE  Max(S) \in S /\ \A k \in S : k <= Max(S)
  <1>. DEFINE T == {n - k : k \in S}
  <1>1. T \in SUBSET Nat /\ T # {}
    <2>1. PICK x \in S : TRUE
      OBVIOUS
    <2>2. n - x \in T
      OBVIOUS
    <2>3. \A k \in S : n - k \in Nat
      OBVIOUS
    <2>. QED
      BY <2>2, <2>3
  <1>2. PICK m \in T : \A k \in T : m <= k
    BY <1>1, LeastNat
  <1>3. PICK x \in S : m = n - x
    BY <1>2
  <1>4. \A k \in S : x >= k
    BY <1>2, <1>3
  <1>. QED
    BY <1>4 DEF Max
\* Max and Min of two integers.
LEMMA MaxOfTwo ==
    ASSUME NEW a \in Int, NEW b \in Int
    PROVE  Max({a, b}) = IF a >= b THEN a ELSE b
  <1>1. \E x \in {a, b} : \A y \in {a, b} : x >= y
    OBVIOUS
  <1>2. Max({a, b}) \in {a, b} /\ \A y \in {a, b} : Max({a, b}) >= y
    BY <1>1 DEF Max
  <1>. QED
    BY <1>2

\* Min of two numbers is the smaller.
LEMMA MinOfTwo ==
    ASSUME NEW a \in Int, NEW b \in Int
    PROVE  Min({a, b}) = IF a <= b THEN a ELSE b
  <1>1. \E x \in {a, b} : \A y \in {a, b} : x <= y
    OBVIOUS
  <1>2. Min({a, b}) \in {a, b} /\ \A y \in {a, b} : Min({a, b}) <= y
    BY <1>1 DEF Min
  <1>. QED
    BY <1>2

-----------------------------------------------------------------------------
\* Sequences.

\* A piece of a sequence.
LEMMA PieceOf ==
    ASSUME NEW S, NEW s \in Seq(S), NEW m \in Nat \ {0}, NEW n \in Nat,
           n <= Len(s)
    PROVE  /\ SubSeq(s, m, n) \in Seq(S)
           /\ Len(SubSeq(s, m, n)) = IF m <= n THEN n - m + 1 ELSE 0
           /\ \A i \in 1..(n - m + 1) : SubSeq(s, m, n)[i] = s[m + i - 1]
  <1>1. Len(s) \in Nat
    BY LenProperties
  <1>2. \A i \in m..n : i \in 1..Len(s)
    BY <1>1
  <1>3. \A i \in m..n : s[i] \in S
    BY <1>2, ElementOfSeq
  <1>4. m \in Int /\ n \in Int
    OBVIOUS
  <1>. QED
    BY <1>3, <1>4, SubSeqProperties

\* InsertAt puts an element before the one at a position, or at the end.
LEMMA InsertedAt ==
    ASSUME NEW S, NEW s \in Seq(S), NEW e \in S, NEW i \in 1..(Len(s) + 1)
    PROVE  /\ InsertAt(s, i, e) \in Seq(S)
           /\ Len(InsertAt(s, i, e)) = Len(s) + 1
           /\ \A j \in 1..(Len(s) + 1) :
                InsertAt(s, i, e)[j] =
                  IF j < i THEN s[j] ELSE IF j = i THEN e ELSE s[j - 1]
  <1>. DEFINE left == SubSeq(s, 1, i - 1)
              right == SubSeq(s, i, Len(s))
              most == left \o <<e>>
  <1>0. Len(s) \in Nat /\ i \in Nat \ {0} /\ i - 1 \in Nat /\ i - 1 <= Len(s)
    BY LenProperties
  <1>1. /\ left \in Seq(S) /\ Len(left) = i - 1
        /\ \A j \in 1..(i - 1) : left[j] = s[j]
    <2>1. /\ left \in Seq(S)
          /\ Len(left) = IF 1 <= i - 1 THEN i - 1 - 1 + 1 ELSE 0
          /\ \A j \in 1..(i - 1 - 1 + 1) : left[j] = s[1 + j - 1]
      BY <1>0, PieceOf
    <2>. QED
      BY <1>0, <2>1
  <1>2. /\ right \in Seq(S) /\ Len(right) = Len(s) - i + 1
        /\ \A j \in 1..(Len(s) - i + 1) : right[j] = s[i + j - 1]
    <2>1. /\ right \in Seq(S)
          /\ Len(right) = IF i <= Len(s) THEN Len(s) - i + 1 ELSE 0
          /\ \A j \in 1..(Len(s) - i + 1) : right[j] = s[i + j - 1]
      BY <1>0, PieceOf
    <2>. QED
      BY <1>0, <2>1
  <1>3. <<e>> \in Seq(S) /\ Len(<<e>>) = 1 /\ <<e>>[1] = e
    OBVIOUS
  <1>. HIDE DEF left, right
  <1>4. /\ most \in Seq(S) /\ Len(most) = i
        /\ \A j \in 1..i : most[j] = IF j < i THEN s[j] ELSE e
    <2>1. /\ most \in Seq(S)
          /\ Len(most) = Len(left) + Len(<<e>>)
          /\ \A j \in 1..(Len(left) + Len(<<e>>)) :
               most[j] = IF j <= Len(left) THEN left[j] ELSE <<e>>[j - Len(left)]
      BY <1>1, <1>3, ConcatProperties
    <2>. QED
      BY <1>0, <1>1, <1>3, <2>1
  <1>. HIDE DEF most
  <1>5. /\ most \o right \in Seq(S)
        /\ Len(most \o right) = Len(most) + Len(right)
        /\ \A j \in 1..(Len(most) + Len(right)) :
             (most \o right)[j] =
               IF j <= Len(most) THEN most[j] ELSE right[j - Len(most)]
    BY <1>2, <1>4, ConcatProperties
  <1>6. InsertAt(s, i, e) = most \o right
    BY DEF InsertAt, most, left, right
  <1>7. Len(most) + Len(right) = Len(s) + 1
    BY <1>0, <1>2, <1>4
  <1>8. ASSUME NEW j \in 1..(Len(s) + 1)
        PROVE  (most \o right)[j] =
                 IF j < i THEN s[j] ELSE IF j = i THEN e ELSE s[j - 1]
    <2>1. CASE j <= i
      BY <2>1, <1>0, <1>4, <1>5, <1>7
    <2>2. CASE ~(j <= i)
      <3>1. j - i \in 1..(Len(s) - i + 1) /\ i + (j - i) - 1 = j - 1
        BY <2>2, <1>0
      <3>2. right[j - i] = s[j - 1]
        BY <3>1, <1>2
      <3>3. (most \o right)[j] = right[j - i]
        BY <2>2, <1>0, <1>4, <1>5, <1>7
      <3>. QED
        BY <2>2, <3>2, <3>3, <1>0
    <2>. QED
      BY <2>1, <2>2, <1>0
  <1>. QED
    BY <1>5, <1>6, <1>7, <1>8

\* RemoveAt takes out the element at a position.
LEMMA RemovedAt ==
    ASSUME NEW S, NEW s \in Seq(S), NEW i \in 1..Len(s)
    PROVE  /\ RemoveAt(s, i) \in Seq(S)
           /\ Len(RemoveAt(s, i)) = Len(s) - 1
           /\ \A j \in 1..(Len(s) - 1) :
                RemoveAt(s, i)[j] = IF j < i THEN s[j] ELSE s[j + 1]
  <1>. DEFINE left == SubSeq(s, 1, i - 1)
              right == SubSeq(s, i + 1, Len(s))
  <1>0. Len(s) \in Nat /\ i \in Nat \ {0} /\ i - 1 \in Nat /\ i <= Len(s)
    BY LenProperties
  <1>1. /\ left \in Seq(S) /\ Len(left) = i - 1
        /\ \A j \in 1..(i - 1) : left[j] = s[j]
    <2>1. /\ left \in Seq(S)
          /\ Len(left) = IF 1 <= i - 1 THEN i - 1 - 1 + 1 ELSE 0
          /\ \A j \in 1..(i - 1 - 1 + 1) : left[j] = s[1 + j - 1]
      BY <1>0, PieceOf
    <2>. QED
      BY <1>0, <2>1
  <1>2. /\ right \in Seq(S) /\ Len(right) = Len(s) - i
        /\ \A j \in 1..(Len(s) - i) : right[j] = s[i + j]
    <2>1. /\ right \in Seq(S)
          /\ Len(right) = IF i + 1 <= Len(s) THEN Len(s) - (i + 1) + 1 ELSE 0
          /\ \A j \in 1..(Len(s) - (i + 1) + 1) : right[j] = s[(i + 1) + j - 1]
      BY <1>0, PieceOf
    <2>2. Len(right) = Len(s) - i /\ Len(s) - (i + 1) + 1 = Len(s) - i
      BY <1>0, <2>1
    <2>3. \A j \in 1..(Len(s) - i) : (i + 1) + j - 1 = i + j
      BY <1>0
    <2>. QED
      BY <2>1, <2>2, <2>3
  <1>. HIDE DEF left, right
  <1>5. /\ left \o right \in Seq(S)
        /\ Len(left \o right) = Len(left) + Len(right)
        /\ \A j \in 1..(Len(left) + Len(right)) :
             (left \o right)[j] =
               IF j <= Len(left) THEN left[j] ELSE right[j - Len(left)]
    BY <1>1, <1>2, ConcatProperties
  <1>6. RemoveAt(s, i) = left \o right
    BY DEF RemoveAt, left, right
  <1>7. Len(left) + Len(right) = Len(s) - 1
    BY <1>0, <1>1, <1>2
  <1>8. ASSUME NEW j \in 1..(Len(s) - 1)
        PROVE  (left \o right)[j] = IF j < i THEN s[j] ELSE s[j + 1]
    <2>1. CASE j < i
      BY <2>1, <1>0, <1>1, <1>5, <1>7
    <2>2. CASE ~(j < i)
      <3>1. j - (i - 1) \in 1..(Len(s) - i) /\ i + (j - (i - 1)) = j + 1
        BY <2>2, <1>0
      <3>2. right[j - (i - 1)] = s[j + 1]
        BY <3>1, <1>2
      <3>3. (left \o right)[j] = right[j - (i - 1)]
        BY <2>2, <1>0, <1>1, <1>5, <1>7
      <3>. QED
        BY <2>2, <3>2, <3>3, <1>0
    <2>. QED
      BY <2>1, <2>2, <1>0
  <1>. QED
    BY <1>5, <1>6, <1>7, <1>8

-----------------------------------------------------------------------------
\* Recursion: for every step there is a function that takes it again and again.
Iterable(X, first, step, last) ==
    \E f \in [0..last -> X] :
      /\ f[0] = first
      /\ \A n \in 0..last : n # 0 => f[n] = step[<<n, f[n - 1]>>]

\* A function defined by recursion up to a bound exists.
LEMMA RecursionExists ==
    ASSUME NEW X, NEW first \in X, NEW step \in [Nat \X X -> X], NEW last \in Nat
    PROVE  Iterable(X, first, step, last)
  <1>. DEFINE Takes(f, m) == /\ f[0] = first
                             /\ \A n \in 0..m : n # 0 => f[n] = step[<<n, f[n - 1]>>]
              Reached == {m \in Nat : \E f \in [0..m -> X] : Takes(f, m)}
  <1>1. 0 \in Reached
    <2>. DEFINE g == [n \in 0..0 |-> first]
    <2>1. g \in [0..0 -> X] /\ Takes(g, 0)
      OBVIOUS
    <2>. QED
      BY <2>1
  <1>2. ASSUME NEW m \in Reached PROVE m + 1 \in Reached
    <2>1. PICK f \in [0..m -> X] : Takes(f, m)
      OBVIOUS
    <2>. DEFINE g == [n \in 0..(m + 1) |-> IF n = m + 1 THEN step[<<n, f[m]>>] ELSE f[n]]
    <2>2. m \in Nat /\ f[m] \in X
      OBVIOUS
    <2>3. step[<<m + 1, f[m]>>] \in X
      BY <2>2
    <2>4. g \in [0..(m + 1) -> X]
      BY <2>2, <2>3
    <2>5. g[m + 1] = step[<<m + 1, f[m]>>] /\ \A n \in 0..m : g[n] = f[n]
      BY <2>2
    <2>. HIDE DEF g
    <2>6. g[0] = first
      BY <2>1, <2>2, <2>5
    <2>7. ASSUME NEW n \in 0..(m + 1), n # 0 PROVE g[n] = step[<<n, g[n - 1]>>]
      <3>1. CASE n = m + 1
        <4>1. m \in 0..m /\ n - 1 = m
          BY <2>2, <3>1
        <4>2. g[n - 1] = f[m]
          BY <2>5, <4>1
        <4>. QED
          BY <2>5, <3>1, <4>2
      <3>2. CASE n # m + 1
        <4>1. n \in 0..m /\ n - 1 \in 0..m
          BY <2>2, <2>7, <3>2
        <4>. QED
          BY <2>1, <2>5, <2>7, <4>1
      <3>. QED
        BY <3>1, <3>2
    <2>8. Takes(g, m + 1)
      BY <2>6, <2>7
    <2>. HIDE DEF Takes
    <2>. QED
      BY <2>2, <2>4, <2>8
  <1>. HIDE DEF Takes
  <1>3. Reached = Nat
    <2>1. Reached \in SUBSET Nat
      OBVIOUS
    <2>. HIDE DEF Reached
    <2>. QED
      BY <1>1, <1>2, <2>1, InSet
  <1>. QED
    BY <1>3 DEF Takes, Iterable

-----------------------------------------------------------------------------
\* Lists that have an item once.

\* A list has what it is a list of.
LEMMA ItemsOfList ==
    ASSUME NEW S, NEW s \in Seq(S)
    PROVE  Range(s) \subseteq S
  BY LenProperties, ElementOfSeq DEF Range

\* A list of S with only items of K is one of K.
LEMMA ListOf ==
    ASSUME NEW S, NEW K, NEW s \in Seq(S), Range(s) \subseteq K
    PROVE  s \in Seq(K)
  <1>1. Len(s) \in Nat /\ DOMAIN s = 1..Len(s) /\ s \in [1..Len(s) -> S]
    BY LenProperties
  <1>2. s \in [1..Len(s) -> K]
    BY <1>1 DEF Range
  <1>. QED
    BY <1>1, <1>2, SeqDef

\* A list of nothing is empty.
LEMMA NoList ==
    ASSUME NEW S, NEW s \in Seq(S), Range(s) = {}
    PROVE  s = <<>>
  <1>1. Len(s) \in Nat /\ DOMAIN s = 1..Len(s)
    BY LenProperties
  <1>2. Len(s) = 0
    <2>1. Len(s) # 0 => 1 \in DOMAIN s
      BY <1>1
    <2>. QED
      BY <2>1 DEF Range
  <1>. QED
    BY <1>2, EmptySeq

\* A list with one more record, that it does not have.
LEMMA AppendIs ==
    ASSUME NEW S, NEW s \in Seq(S), IsInjective(s), NEW e \in S, e \notin Range(s)
    PROVE  Append(s, e) \in Seq(S) /\ IsInjective(Append(s, e))
  <1>. DEFINE t == Append(s, e)
  <1>1. /\ t \in Seq(S) /\ Len(t) = Len(s) + 1
        /\ \A i \in 1..Len(s) : t[i] = s[i]
        /\ t[Len(s) + 1] = e
    BY AppendProperties
  <1>. HIDE DEF t
  <1>2. DOMAIN s = 1..Len(s) /\ DOMAIN t = 1..Len(t) /\ Len(s) \in Nat
    BY <1>1, LenProperties
  <1>3. \A i \in 1..Len(t) : i \in 1..Len(s) \/ i = Len(s) + 1
    BY <1>1, <1>2
  <1>4. \A i \in 1..Len(s) : t[i] = s[i] /\ s[i] # e
    BY <1>1, <1>2 DEF Range
  <1>5. ASSUME NEW i \in 1..Len(t), NEW j \in 1..Len(t), t[i] = t[j] PROVE i = j
    BY <1>1, <1>2, <1>3, <1>4, <1>5 DEF IsInjective
  <1>6. IsInjective(t)
    BY <1>2, <1>5 DEF IsInjective
  <1>. QED
    BY <1>1, <1>6 DEF t

\* Two lists with nothing in common, one after the other.
LEMMA ConcatIs ==
    ASSUME NEW S, NEW s \in Seq(S), NEW t \in Seq(S), IsInjective(s), IsInjective(t),
           Range(s) \cap Range(t) = {}
    PROVE  s \o t \in Seq(S) /\ IsInjective(s \o t) /\ Range(s \o t) = Range(s) \cup Range(t)
  <1>. DEFINE c == s \o t
  <1>1. /\ c \in Seq(S) /\ Len(c) = Len(s) + Len(t)
        /\ \A i \in 1..(Len(s) + Len(t)) : c[i] = IF i <= Len(s) THEN s[i] ELSE t[i - Len(s)]
    BY ConcatProperties
  <1>2. /\ DOMAIN s = 1..Len(s) /\ DOMAIN t = 1..Len(t) /\ DOMAIN c = 1..Len(c)
        /\ Len(s) \in Nat /\ Len(t) \in Nat
    BY <1>1, LenProperties
  <1>. HIDE DEF c
  <1>3. \A i \in 1..Len(c) : \/ i \in 1..Len(s) /\ c[i] = s[i]
                             \/ i - Len(s) \in 1..Len(t) /\ c[i] = t[i - Len(s)]
    BY <1>1, <1>2
  <1>4. IsInjective(c)
    <2>. SUFFICES ASSUME NEW i \in 1..Len(c), NEW j \in 1..Len(c), c[i] = c[j] PROVE i = j
      BY <1>2 DEF IsInjective
    <2>1. \A k \in 1..Len(s), n \in 1..Len(t) : s[k] # t[n]
      BY <1>2 DEF Range
    <2>2. CASE i \in 1..Len(s) /\ c[i] = s[i]
      <3>1. j \in 1..Len(s) /\ c[j] = s[j]
        BY <1>3, <2>1, <2>2
      <3>. QED
        BY <1>2, <2>2, <3>1 DEF IsInjective
    <2>3. CASE i - Len(s) \in 1..Len(t) /\ c[i] = t[i - Len(s)]
      <3>1. j - Len(s) \in 1..Len(t) /\ c[j] = t[j - Len(s)]
        BY <1>3, <2>1, <2>3
      <3>2. i - Len(s) = j - Len(s)
        BY <1>2, <2>3, <3>1 DEF IsInjective
      <3>. QED
        BY <1>2, <3>2
    <2>. QED
      BY <1>3, <2>2, <2>3
  <1>5. Range(c) \subseteq Range(s) \cup Range(t)
    BY <1>2, <1>3 DEF Range
  <1>6. Range(s) \subseteq Range(c)
    <2>1. \A k \in 1..Len(s) : k \in 1..Len(c) /\ c[k] = s[k]
      BY <1>1, <1>2
    <2>. QED
      BY <1>2, <2>1 DEF Range
  <1>7. Range(t) \subseteq Range(c)
    <2>1. ASSUME NEW k \in 1..Len(t)
          PROVE  Len(s) + k \in 1..Len(c) /\ c[Len(s) + k] = t[k]
      <3>. DEFINE p == Len(s)
                  q == Len(t)
                  i == p + k
      <3>1. p \in Nat /\ q \in Nat /\ k \in 1..q /\ Len(c) = p + q
        BY <1>1, <1>2
      <3>. HIDE DEF p, q
      <3>2. i \in 1..(p + q) /\ ~(i <= p) /\ i - p = k
        BY <3>1
      <3>. HIDE DEF i
      <3>3. c[i] = t[i - p]
        BY <1>1, <3>2 DEF p, q
      <3>. QED
        BY <3>1, <3>2, <3>3 DEF i, p
    <2>. QED
      BY <1>2, <2>1 DEF Range
  <1>. QED
    BY <1>1, <1>4, <1>5, <1>6, <1>7 DEF c

\* A list cut in two.
LEMMA CutIs ==
    ASSUME NEW S, NEW s \in Seq(S), IsInjective(s), NEW at \in 1..(Len(s) + 1)
    PROVE  /\ SubSeq(s, 1, at - 1) \in Seq(S) /\ SubSeq(s, at, Len(s)) \in Seq(S)
           /\ IsInjective(SubSeq(s, 1, at - 1)) /\ IsInjective(SubSeq(s, at, Len(s)))
           /\ Range(SubSeq(s, 1, at - 1)) \cap Range(SubSeq(s, at, Len(s))) = {}
           /\ Range(SubSeq(s, 1, at - 1)) \cup Range(SubSeq(s, at, Len(s))) = Range(s)
  <1>. DEFINE left == SubSeq(s, 1, at - 1)
              right == SubSeq(s, at, Len(s))
  <1>1. Len(s) \in Nat /\ DOMAIN s = 1..Len(s)
    BY LenProperties
  <1>. DEFINE n == at - 1
              m == Len(s) - n
  <1>2. n \in Nat /\ m \in Nat /\ n + m = Len(s) /\ n <= Len(s) /\ at = n + 1
    <2>. DEFINE whole == Len(s)
    <2>1. whole \in Nat /\ at \in 1..(whole + 1)
      BY <1>1
    <2>. HIDE DEF whole
    <2>2. at - 1 \in Nat /\ whole - (at - 1) \in Nat /\ (at - 1) + (whole - (at - 1)) = whole
          /\ at - 1 <= whole /\ at = (at - 1) + 1
      BY <2>1
    <2>. QED
      BY <2>2 DEF whole
  <1>3. left \in Seq(S) /\ DOMAIN left = 1..n /\ \A j \in 1..n : left[j] = s[j]
    <2>1. left = SubSeq(s, 1, n)
      BY <1>2
    <2>. HIDE DEF left, n, m
    <2>2. /\ left \in Seq(S) /\ Len(left) = IF 1 <= n THEN n - 1 + 1 ELSE 0
          /\ \A i \in 1..(n - 1 + 1) : left[i] = s[1 + i - 1]
      BY <1>2, <2>1, PieceOf
    <2>3. Len(left) = n
      BY <1>2, <2>2
    <2>4. \A j \in 1..n : left[j] = s[j]
      BY <1>2, <2>2
    <2>. QED
      BY <2>2, <2>3, <2>4, LenProperties
  <1>4. right \in Seq(S) /\ DOMAIN right = 1..m /\ \A j \in 1..m : right[j] = s[n + j]
    <2>1. right = SubSeq(s, n + 1, Len(s)) /\ n + 1 \in Nat \ {0}
      BY <1>2
    <2>. HIDE DEF right, n, m
    <2>2. /\ right \in Seq(S) /\ Len(right) = IF n + 1 <= Len(s) THEN Len(s) - (n + 1) + 1 ELSE 0
          /\ \A i \in 1..(Len(s) - (n + 1) + 1) : right[i] = s[n + 1 + i - 1]
      BY <1>1, <1>2, <2>1, PieceOf
    <2>. DEFINE whole == Len(s)
    <2>3. whole \in Nat /\ n + m = whole
      BY <1>1, <1>2
    <2>4. /\ Len(right) = IF n + 1 <= whole THEN whole - (n + 1) + 1 ELSE 0
          /\ \A i \in 1..(whole - (n + 1) + 1) : right[i] = s[n + 1 + i - 1]
      BY <2>2
    <2>. HIDE DEF whole
    <2>5. Len(right) = m
      BY <1>2, <2>3, <2>4
    <2>6. whole - (n + 1) + 1 = m
      BY <1>2, <2>3
    <2>7. \A j \in 1..m : right[j] = s[n + j]
      <3>. SUFFICES ASSUME NEW j \in 1..m PROVE right[j] = s[n + j]
        OBVIOUS
      <3>1. right[j] = s[n + 1 + j - 1]
        BY <2>4, <2>6
      <3>2. n + 1 + j - 1 = n + j
        BY <1>2
      <3>. QED
        BY <3>1, <3>2
    <2>. QED
      BY <2>2, <2>5, <2>7, LenProperties
  <1>. HIDE DEF left, right, n, m
  <1>5. IsInjective(left) /\ IsInjective(right)
    <2>1. IsInjective(left)
      BY <1>1, <1>2, <1>3 DEF IsInjective
    <2>2. ASSUME NEW i \in DOMAIN right, NEW j \in DOMAIN right, right[i] = right[j] PROVE i = j
      <3>. DEFINE whole == Len(s)
      <3>1. i \in 1..m /\ j \in 1..m /\ s[n + i] = s[n + j]
        BY <1>4, <2>2
      <3>2. whole \in Nat /\ n + m = whole /\ DOMAIN s = 1..whole
        BY <1>1, <1>2
      <3>. HIDE DEF whole
      <3>3. n + i \in 1..whole /\ n + j \in 1..whole
        BY <1>2, <3>1, <3>2
      <3>4. n + i = n + j
        BY <3>1, <3>2, <3>3 DEF IsInjective
      <3>. QED
        BY <1>2, <3>1, <3>4
    <2>. QED
      BY <2>1, <2>2 DEF IsInjective
  <1>6. ASSUME NEW i \in DOMAIN left, NEW j \in DOMAIN right PROVE left[i] # right[j]
    <2>1. i \in DOMAIN s /\ n + j \in DOMAIN s /\ i # n + j
      BY <1>1, <1>2, <1>3, <1>4
    <2>2. left[i] = s[i] /\ right[j] = s[n + j]
      BY <1>3, <1>4
    <2>. QED
      BY <2>1, <2>2 DEF IsInjective
  <1>7. Range(left) \cup Range(right) \subseteq Range(s)
    <2>1. \A i \in DOMAIN left : i \in DOMAIN s /\ left[i] = s[i]
      BY <1>1, <1>2, <1>3
    <2>2. \A j \in DOMAIN right : n + j \in DOMAIN s /\ right[j] = s[n + j]
      BY <1>1, <1>2, <1>4
    <2>. QED
      BY <2>1, <2>2 DEF Range
  <1>8. Range(s) \subseteq Range(left) \cup Range(right)
    <2>. SUFFICES ASSUME NEW k \in DOMAIN s PROVE s[k] \in Range(left) \cup Range(right)
      BY DEF Range
    <2>1. CASE k <= n
      <3>1. k \in DOMAIN left /\ left[k] = s[k]
        BY <1>1, <1>2, <1>3, <2>1
      <3>. QED
        BY <3>1 DEF Range
    <2>2. CASE k > n
      <3>. DEFINE j == k - n
      <3>1. j \in 1..m /\ n + j = k
        BY <1>1, <1>2, <2>2
      <3>. HIDE DEF j
      <3>2. j \in DOMAIN right /\ right[j] = s[k]
        BY <1>4, <3>1
      <3>. QED
        BY <3>2 DEF Range
    <2>. QED
      BY <1>1, <1>2, <2>1, <2>2
  <1>9. Range(left) \cap Range(right) = {}
    BY <1>6 DEF Range
  <1>. QED
    BY <1>3, <1>4, <1>5, <1>7, <1>8, <1>9 DEF left, right

===============================================================================

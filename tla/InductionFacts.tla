---------------------------- MODULE InductionFacts ----------------------------
(***************************************************************************)
(* Induction over the natural numbers, and what it gives for recursive     *)
(* functions and for the extrema of sets, stated with sets in the place of *)
(* predicates: the provers can instantiate a set, but no operator.         *)
(***************************************************************************)
EXTENDS Integers, FiniteSetsExt, SequencesExt, SequenceTheorems, WellFoundedInduction, TLAPS

-----------------------------------------------------------------------------
(* Induction *)

\* A set of natural numbers that is not empty has a least element.
LEMMA LeastNumber ==
  ASSUME NEW T, T \subseteq Nat, T # {}
  PROVE  \E x \in T : \A y \in T : x <= y
<1>1. PICK x \in T : \A y \in T : <<y, x>> \notin OpToRel(<, Nat)
  BY WFMin, NatLessThanWellFounded, Zenon
<1>2. ASSUME NEW y \in T
      PROVE  x <= y
  <2>1. ~ (y < x)
    BY <1>1, Zenon DEF OpToRel
  <2>2. x \in Nat /\ y \in Nat
    OBVIOUS
  <2> QED
    BY <2>1, <2>2
<1> QED
  BY <1>2

\* A set that holds 0, and with a number its successor, holds them all.
LEMMA SetInduction ==
  ASSUME NEW T, 0 \in T, \A n \in Nat : n \in T => n + 1 \in T
  PROVE  \A n \in Nat : n \in T
<1> SUFFICES ASSUME Nat \ T # {}
             PROVE  FALSE
  OBVIOUS
<1>1. PICK x \in Nat \ T : \A y \in Nat \ T : x <= y
  BY LeastNumber
<1>2. x # 0 /\ x - 1 \in Nat /\ x - 1 \in T
  BY <1>1
<1> QED
  BY <1>1, <1>2

-----------------------------------------------------------------------------
(* Recursive functions *)

\* f starts at c and applies step[i] to reach f[i].
IsChain(f, c, m, step) == f[0] = c /\ \A i \in 1..m : f[i] = step[i][f[i - 1]]

\* A function that is computed step by step from its first value exists.
LEMMA ChainExists ==
  ASSUME NEW S, NEW c \in S, NEW m \in Nat, NEW step \in [1..m -> [S -> S]]
  PROVE  \E f \in [0..m -> S] : IsChain(f, c, m, step)
<1> DEFINE P(n) == \E f \in [0..n -> S] : IsChain(f, c, n, step)
           T == {n \in Nat : n <= m => P(n)}
<1>1. 0 \in T
  <2> DEFINE f == [i \in 0..0 |-> c]
  <2>1. f \in [0..0 -> S] /\ f[0] = c /\ \A i \in 1..0 : f[i] = step[i][f[i - 1]]
    OBVIOUS
  <2>2. P(0)
    BY <2>1 DEF IsChain
  <2> QED
    BY <2>2
<1>2. ASSUME NEW n \in Nat, n \in T
      PROVE  n + 1 \in T
  <2> SUFFICES ASSUME n + 1 <= m
               PROVE  P(n + 1)
    OBVIOUS
  <2>1. PICK f \in [0..n -> S] : f[0] = c /\ \A i \in 1..n : f[i] = step[i][f[i - 1]]
    BY <1>2 DEF IsChain
  <2> DEFINE g == [i \in 0..(n + 1) |-> IF i = n + 1 THEN step[n + 1][f[n]] ELSE f[i]]
  <2>2. g \in [0..(n + 1) -> S]
    OBVIOUS
  <2>3. g[0] = c /\ \A i \in 1..(n + 1) : g[i] = step[i][g[i - 1]]
    BY <2>1
  <2> QED
    BY <2>2, <2>3 DEF IsChain
<1>3. \A n \in Nat : n \in T
  <2> HIDE DEF T
  <2> QED
    BY <1>1, <1>2, SetInduction
<1> QED
  BY <1>3

\* There is no other one.
LEMMA ChainUnique ==
  ASSUME NEW m \in Nat, NEW step, NEW c, NEW f, NEW g,
         IsChain(f, c, m, step), IsChain(g, c, m, step)
  PROVE  \A i \in 0..m : f[i] = g[i]
<1> USE DEF IsChain
<1> DEFINE T == {n \in Nat : n <= m => f[n] = g[n]}
<1>1. 0 \in T
  OBVIOUS
<1>2. ASSUME NEW n \in Nat, n \in T
      PROVE  n + 1 \in T
  <2> SUFFICES ASSUME n + 1 <= m
               PROVE  f[n + 1] = g[n + 1]
    OBVIOUS
  <2>1. f[n] = g[n]
    BY <1>2
  <2>2. n + 1 \in 1..m /\ (n + 1) - 1 = n
    OBVIOUS
  <2> QED
    BY <2>1, <2>2
<1>3. \A n \in Nat : n \in T
  <2> HIDE DEF T
  <2> QED
    BY <1>1, <1>2, SetInduction
<1> QED
  BY <1>3

\* f[n] is in I[n] for every n.
StaysIn(f, I, m) == \A n \in 0..m : f[n] \in I[n]

\* What holds of the first value and of each value if it does of the one before
\* holds of them all.
LEMMA ChainStays ==
  ASSUME NEW m \in Nat, NEW I, NEW f, f[0] \in I[0], \A n \in 1..m : f[n - 1] \in I[n - 1] => f[n] \in I[n]
  PROVE  StaysIn(f, I, m)
<1> DEFINE T == {n \in Nat : n <= m => f[n] \in I[n]}
<1>1. 0 \in T
  OBVIOUS
<1>2. ASSUME NEW n \in Nat, n \in T
      PROVE  n + 1 \in T
  <2> SUFFICES ASSUME n + 1 <= m
               PROVE  f[n + 1] \in I[n + 1]
    OBVIOUS
  <2>1. n + 1 \in 1..m /\ (n + 1) - 1 = n /\ f[n] \in I[n]
    BY <1>2
  <2> QED
    BY <2>1
<1>3. \A n \in Nat : n \in T
  <2> HIDE DEF T
  <2> QED
    BY <1>1, <1>2, SetInduction
<1> QED
  BY <1>3 DEF StaysIn

\* A function exists too if each step is known to lead from I[n - 1] to I[n] only.
LEMMA ChainWithin ==
  ASSUME NEW m \in Nat, NEW I, NEW c \in I[0], NEW step,
         \A n \in 1..m : \A x \in I[n - 1] : step[n][x] \in I[n]
  PROVE  \E f : /\ f = [n \in 0..m |-> f[n]]
                /\ IsChain(f, c, m, step)
                /\ StaysIn(f, I, m)
<1> DEFINE S == UNION {I[n] : n \in 0..m}
           within == [n \in 1..m |-> [x \in S |-> IF x \in I[n - 1] THEN step[n][x] ELSE c]]
<1>1. c \in S /\ \A n \in 0..m : \A x \in I[n] : x \in S
  OBVIOUS
<1>2. \A n \in 1..m : n - 1 \in 0..m /\ n \in 0..m
  OBVIOUS
<1>3. within \in [1..m -> [S -> S]]
  <2>1. \A n \in 1..m, x \in S : (IF x \in I[n - 1] THEN step[n][x] ELSE c) \in S
    <3> HIDE DEF S
    <3> QED
      BY <1>1, <1>2
  <2> HIDE DEF S
  <2> QED
    BY <2>1
<1>4. \A n \in 1..m, x \in S : within[n][x] = IF x \in I[n - 1] THEN step[n][x] ELSE c
  <2> HIDE DEF S
  <2> QED
    OBVIOUS
<1> HIDE DEF S, within
<1>5. PICK f \in [0..m -> S] : IsChain(f, c, m, within)
  BY <1>1, <1>3, ChainExists
<1>6. f[0] = c /\ \A n \in 1..m : f[n] = within[n][f[n - 1]]
  BY <1>5 DEF IsChain
<1>7. \A n \in 1..m : f[n - 1] \in I[n - 1] => f[n] = step[n][f[n - 1]] /\ f[n] \in I[n]
  BY <1>2, <1>4, <1>6
<1>8. StaysIn(f, I, m)
  BY <1>6, <1>7, ChainStays
<1>9. IsChain(f, c, m, step)
  BY <1>2, <1>6, <1>7, <1>8 DEF IsChain, StaysIn
<1> QED
  BY <1>8, <1>9

-----------------------------------------------------------------------------
(* Extrema *)

\* Min is the least element of a set of natural numbers.
LEMMA MinIsLeast ==
  ASSUME NEW T, T \subseteq Nat, T # {}
  PROVE  Min(T) \in T /\ \A y \in T : Min(T) <= y
BY LeastNumber DEF Min

\* Max is the greatest element of a set of natural numbers that has a bound.
LEMMA MaxIsGreatest ==
  ASSUME NEW T, T \subseteq Nat, T # {}, NEW u \in Nat, \A y \in T : y <= u
  PROVE  Max(T) \in T /\ \A y \in T : y <= Max(T)
<1> DEFINE R == {x \in Nat : x <= u /\ u - x \in T}
<1>1. R \subseteq Nat /\ R # {}
  <2>1. PICK y \in T : TRUE
    OBVIOUS
  <2>2. u - y \in Nat /\ u - y <= u /\ u - (u - y) = y
    BY <2>1
  <2> QED
    BY <2>2
<1>2. PICK x \in R : \A y \in R : x <= y
  <2> HIDE DEF R
  <2> QED
    BY <1>1, LeastNumber
<1>3. ASSUME NEW y \in T
      PROVE  u - x >= y
  <2>1. y \in Nat /\ y <= u
    OBVIOUS
  <2>2. u - y \in Nat /\ u - y <= u /\ u - (u - y) = y
    BY <2>1
  <2>3. u - y \in R
    BY <2>2
  <2> QED
    BY <1>2, <2>1, <2>3
<1>4. \E z \in T : \A y \in T : z >= y
  BY <1>2, <1>3
<1>5. Max(T) \in T /\ \A y \in T : Max(T) >= y
  BY <1>4, Zenon DEF Max
<1> QED
  BY <1>5

\* The lesser and the greater of two integers.
LEMMA MinOfTwo ==
  ASSUME NEW a \in Int, NEW b \in Int
  PROVE  Min({a, b}) = IF a <= b THEN a ELSE b
<1>1. \E x \in {a, b} : \A y \in {a, b} : x <= y
  OBVIOUS
<1>2. Min({a, b}) \in {a, b} /\ \A y \in {a, b} : Min({a, b}) <= y
  BY <1>1, Zenon DEF Min
<1> QED
  BY <1>2

\* The same for Max.
LEMMA MaxOfTwo ==
  ASSUME NEW a \in Int, NEW b \in Int
  PROVE  Max({a, b}) = IF a >= b THEN a ELSE b
<1>1. \E x \in {a, b} : \A y \in {a, b} : x >= y
  OBVIOUS
<1>2. Max({a, b}) \in {a, b} /\ \A y \in {a, b} : Max({a, b}) >= y
  BY <1>1, Zenon DEF Max
<1> QED
  BY <1>2
-----------------------------------------------------------------------------
(* Flattened sequences *)

\* FlattenSeq puts one sequence after the other, prefix by prefix.
LEMMA FlattenStep ==
  ASSUME NEW S, NEW seqs \in Seq(Seq(S))
  PROVE  /\ FlattenSeq(SubSeq(seqs, 1, 0)) = <<>>
         /\ \A i \in 1..Len(seqs) :
              FlattenSeq(SubSeq(seqs, 1, i)) = FlattenSeq(SubSeq(seqs, 1, i - 1)) \o seqs[i]
         /\ \A i \in 0..Len(seqs) : FlattenSeq(SubSeq(seqs, 1, i)) \in Seq(S)
<1> DEFINE n == Len(seqs)
           Q == Seq(S)
           step == [i \in 1..n |-> [s \in Q |-> s \o seqs[i]]]
<1>1. n \in Nat /\ \A i \in 1..n : seqs[i] \in Seq(S)
  OBVIOUS
<1>2. step \in [1..n -> [Q -> Q]]
  BY <1>1
<1>3. <<>> \in Q
  OBVIOUS
<1>4. PICK g \in [0..n -> Q] : g[0] = <<>> /\ \A i \in 1..n : g[i] = step[i][g[i - 1]]
  <2>1. n \in Nat
    BY <1>1
  <2>2. \E g \in [0..n -> Q] : IsChain(g, <<>>, n, step)
    <3> HIDE DEF step, n, Q
    <3> QED
      BY <1>2, <1>3, <2>1, ChainExists
  <2> QED
    BY <2>2 DEF IsChain
<1>5. ASSUME NEW i \in 1..n
      PROVE  g[i - 1] \in Q /\ g[i] = g[i - 1] \o seqs[i]
  <2> HIDE DEF Q, n
  <2>1. i - 1 \in 0..n /\ g[i - 1] \in Q
    BY <1>1
  <2> QED
    BY <1>4, <2>1
<1>f. n >= 1 => g[1] = seqs[1]
  <2> SUFFICES ASSUME n >= 1
               PROVE  g[1] = seqs[1]
    OBVIOUS
  <2>1. 1 \in 1..n /\ 1 - 1 = 0
    BY <1>1
  <2>2. g[1] = g[0] \o seqs[1]
    BY <1>5, <2>1
  <2>3. seqs[1] \in Seq(S)
    BY <1>1, <2>1
  <2>4. <<>> \o seqs[1] = seqs[1]
    BY <2>3
  <2> QED
    BY <1>4, <2>2, <2>4
<1>6. FlattenSeq(SubSeq(seqs, 1, 0)) = <<>>
  <2>1. SubSeq(seqs, 1, 0) = <<>> /\ Len(<<>>) = 0
    OBVIOUS
  <2> QED
    BY <2>1 DEF FlattenSeq
<1>7. ASSUME NEW i \in 1..n
      PROVE  FlattenSeq(SubSeq(seqs, 1, i)) = g[i]
  <2> DEFINE t == SubSeq(seqs, 1, i)
             Flattens(f) == f = [j \in 1..i |-> IF j = 1 THEN t[j] ELSE f[j - 1] \o t[j]]
             flatten == CHOOSE f : Flattens(f)
             f0 == [j \in 1..i |-> g[j]]
  <2>1. Len(t) = i /\ i # 0 /\ \A j \in 1..i : t[j] = seqs[j]
    OBVIOUS
  <2>2. ASSUME NEW j \in 1..i
        PROVE  f0[j] = IF j = 1 THEN t[j] ELSE f0[j - 1] \o t[j]
    <3>2. g[1] = seqs[1]
      BY <1>1, <1>f
    <3>3. CASE j = 1
      BY <2>1, <3>2, <3>3
    <3>4. CASE j # 1
      <4>1. j - 1 \in 1..i /\ j \in 1..n
        BY <3>4
      <4> QED
        BY <1>5, <2>1, <3>4, <4>1
    <3> QED
      BY <3>3, <3>4
  <2>3. Flattens(f0)
    <3> HIDE DEF t
    <3> QED
      BY <2>2
  <2>4. Flattens(flatten)
    <3> HIDE DEF Flattens, f0
    <3> QED
      BY <2>3
  <2>5. \A j \in 1..i : flatten[j] = IF j = 1 THEN t[j] ELSE flatten[j - 1] \o t[j]
    <3> DEFINE h == flatten
    <3>1. h = [j \in 1..i |-> IF j = 1 THEN t[j] ELSE h[j - 1] \o t[j]]
      BY <2>4
    <3> HIDE DEF h, t
    <3>2. \A j \in 1..i : h[j] = IF j = 1 THEN t[j] ELSE h[j - 1] \o t[j]
      BY <3>1
    <3> QED
      BY <3>2 DEF h
  <2>6. FlattenSeq(t) = flatten[i]
    BY <2>1 DEF FlattenSeq
  <2> HIDE DEF flatten, Flattens, f0
  <2> DEFINE T == {j \in Nat : j + 1 <= i => flatten[j + 1] = g[j + 1]}
  <2>7. 0 \in T
    <3>1. flatten[1] = seqs[1]
      BY <2>1, <2>5
    <3>2. g[1] = seqs[1]
      BY <1>1, <1>f
    <3> QED
      BY <3>1, <3>2
  <2>8. ASSUME NEW j \in Nat, j \in T
        PROVE  j + 1 \in T
    <3> SUFFICES ASSUME (j + 1) + 1 <= i
                 PROVE  flatten[(j + 1) + 1] = g[(j + 1) + 1]
      OBVIOUS
    <3>1. j + 1 \in 1..i /\ (j + 1) + 1 \in 1..i /\ ((j + 1) + 1) - 1 = j + 1 /\ (j + 1) + 1 # 1
      OBVIOUS
    <3>2. flatten[(j + 1) + 1] = flatten[j + 1] \o t[(j + 1) + 1]
      BY <2>5, <3>1
    <3>3. flatten[j + 1] = g[j + 1]
      BY <2>8, <3>1
    <3>4. g[(j + 1) + 1] = g[j + 1] \o seqs[(j + 1) + 1]
      <4>1. (j + 1) + 1 \in 1..n
        BY <1>1, <3>1
      <4> HIDE DEF n
      <4> QED
        BY <1>5, <3>1, <4>1
    <3> QED
      BY <2>1, <3>1, <3>2, <3>3, <3>4
  <2>9. i - 1 \in T
    <3>1. i - 1 \in Nat
      BY <1>1
    <3> HIDE DEF T
    <3>2. \A j \in Nat : j \in T
      BY <2>7, <2>8, SetInduction
    <3> QED
      BY <3>1, <3>2
  <2> QED
    BY <2>6, <2>9
<1>8. \A i \in 0..n : FlattenSeq(SubSeq(seqs, 1, i)) = g[i]
  BY <1>4, <1>6, <1>7
<1>9. \A i \in 1..n : i - 1 \in 0..n /\ i \in 0..n
  BY <1>1
<1> HIDE DEF step, Q
<1> QED
  BY <1>5, <1>6, <1>8, <1>9 DEF Q
=============================================================================

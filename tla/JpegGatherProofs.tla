--------------------------- MODULE JpegGatherProofs ---------------------------
(***************************************************************************)
(* The tables of JpegGather are sound for all symbols, counts and scripts. *)
(*                                                                         *)
(* A set of codes is complete when it uses all strings of bits up: the     *)
(* Kraft sum of its lengths is one.  The trees of Huffman's algorithm are  *)
(* complete at every step; to shorten a pair keeps them so; the            *)
(* pseudo-symbol leaves a string unused; and codes that are numbered by    *)
(* their length have no prefixes among them as long as their sum is at     *)
(* most one, and no code of all ones as long as it is less.  The sums are  *)
(* kept as functions of the length, which the lemmas take from their       *)
(* recursive definitions by the chains of InductionFacts.                  *)
(***************************************************************************)
EXTENDS JpegGather, InductionFacts, FiniteSetTheorems

-----------------------------------------------------------------------------
(* Powers of two *)

\* The recursive function has the values its definition asks for.
LEMMA PowerSolved ==
  /\ PowerOf2 \in [0..MAX_CLEN -> Nat]
  /\ PowerOf2[0] = 1
  /\ \A n \in 1..MAX_CLEN : PowerOf2[n] = 2 * PowerOf2[n - 1]
<1> DEFINE Solves(f) == f = [n \in 0..MAX_CLEN |-> IF n = 0 THEN 1 ELSE 2 * f[n - 1]]
           double == [x \in Nat |-> 2 * x]
           step == [n \in 1..MAX_CLEN |-> double]
           h == CHOOSE f : Solves(f)
<1>0. MAX_CLEN \in Nat
  BY LengthsAssumption
<1>1. step \in [1..MAX_CLEN -> [Nat -> Nat]] /\ \A x \in Nat : double[x] = 2 * x
  OBVIOUS
<1>2. PICK g \in [0..MAX_CLEN -> Nat] : IsChain(g, 1, MAX_CLEN, step)
  <2> HIDE DEF step
  <2> QED
    BY <1>0, <1>1, ChainExists
<1>3. \A n \in 1..MAX_CLEN : n - 1 \in 0..MAX_CLEN /\ n \in 0..MAX_CLEN /\ n # 0
  BY <1>0
<1>4. g[0] = 1 /\ \A n \in 1..MAX_CLEN : g[n] = 2 * g[n - 1]
  BY <1>1, <1>2, <1>3 DEF IsChain
<1>5. Solves(g)
  BY <1>4
<1>6. Solves(h)
  <2> HIDE DEF Solves
  <2> QED
    BY <1>5
<1>7. PowerOf2 = h
  BY DEF PowerOf2
<1> HIDE DEF h
<1>8. h[0] = 1 /\ \A n \in 1..MAX_CLEN : h[n] = 2 * h[n - 1]
  BY <1>0, <1>3, <1>6
<1>9. \A n \in 0..MAX_CLEN : h[n] \in Nat
  <2> DEFINE I == [n \in 0..MAX_CLEN |-> Nat]
  <2>1. \A n \in 1..MAX_CLEN : h[n - 1] \in I[n - 1] => h[n] \in I[n]
    BY <1>3, <1>8
  <2>2. h[0] \in I[0]
    BY <1>0, <1>8
  <2>3. StaysIn(h, I, MAX_CLEN)
    <3> HIDE DEF I
    <3> QED
      BY <1>0, <2>1, <2>2, ChainStays
  <2> QED
    BY <2>3 DEF StaysIn
<1> QED
  BY <1>6, <1>7, <1>8, <1>9

\* A power of two is at least one.
LEMMA PowerPositive == \A n \in 0..MAX_CLEN : PowerOf2[n] \in Nat \ {0}
<1> DEFINE T == {n \in Nat : n <= MAX_CLEN => PowerOf2[n] \in Nat \ {0}}
<1>0. MAX_CLEN \in Nat
  BY LengthsAssumption
<1>1. 0 \in T
  BY PowerSolved
<1>2. ASSUME NEW n \in Nat, n \in T
      PROVE  n + 1 \in T
  <2> SUFFICES ASSUME n + 1 <= MAX_CLEN
               PROVE  PowerOf2[n + 1] \in Nat \ {0}
    OBVIOUS
  <2>1. n + 1 \in 1..MAX_CLEN /\ (n + 1) - 1 = n /\ PowerOf2[n] \in Nat \ {0}
    BY <1>0, <1>2
  <2>2. PowerOf2[n + 1] = 2 * PowerOf2[n]
    BY <2>1, PowerSolved
  <2> QED
    BY <2>1, <2>2
<1>3. \A n \in Nat : n \in T
  <2> HIDE DEF T
  <2> QED
    BY <1>1, <1>2, SetInduction
<1> QED
  BY <1>3

\* Shifts add up.
LEMMA PowerOfSum ==
  ASSUME NEW a \in Nat, NEW b \in Nat, a + b <= MAX_CLEN
  PROVE  PowerOf2[a + b] = PowerOf2[a] * PowerOf2[b]
<1> DEFINE T == {n \in Nat : a + n <= MAX_CLEN => PowerOf2[a + n] = PowerOf2[a] * PowerOf2[n]}
<1>0. MAX_CLEN \in Nat /\ a \in 0..MAX_CLEN
  BY LengthsAssumption
<1>1. 0 \in T
  BY <1>0, PowerSolved, PowerPositive
<1>2. ASSUME NEW n \in Nat, n \in T
      PROVE  n + 1 \in T
  <2> SUFFICES ASSUME a + (n + 1) <= MAX_CLEN
               PROVE  PowerOf2[a + (n + 1)] = PowerOf2[a] * PowerOf2[n + 1]
    OBVIOUS
  <2>1. /\ n + 1 \in 1..MAX_CLEN /\ (n + 1) - 1 = n /\ n \in 0..MAX_CLEN
        /\ a + (n + 1) \in 1..MAX_CLEN /\ (a + (n + 1)) - 1 = a + n /\ a + n <= MAX_CLEN
    BY <1>0
  <2>2. PowerOf2[a + n] = PowerOf2[a] * PowerOf2[n]
    BY <1>2, <2>1, Zenon
  <2>3. PowerOf2[n + 1] = 2 * PowerOf2[n] /\ PowerOf2[a + (n + 1)] = 2 * PowerOf2[a + n]
    BY <2>1, PowerSolved
  <2>4. PowerOf2[a] \in Int /\ PowerOf2[n] \in Int
    BY <1>0, <2>1, PowerPositive
  <2>5. \A x, y \in Int : 2 * (x * y) = x * (2 * y)
    OBVIOUS
  <2> QED
    BY <2>2, <2>3, <2>4, <2>5
<1>3. \A n \in Nat : n \in T
  <2> HIDE DEF T
  <2> QED
    BY <1>1, <1>2, SetInduction
<1> QED
  BY <1>3

-----------------------------------------------------------------------------
(* The codes of at most l bits, of which bits[i] have i bits: total[l] is   *)
(* their number, c for no bits, and kraft[l] the number of strings of l     *)
(* bits that begin with one of them, if none begins with another.           *)

IsTotal(t, c, bits, m) == t[0] = c /\ \A l \in 1..m : t[l] = t[l - 1] + bits[l]
IsKraft(k, c, bits, m) == k[0] = c /\ \A l \in 1..m : k[l] = 2 * k[l - 1] + bits[l]

\* Any numbers of codes have a total.
LEMMA TotalExists ==
  ASSUME NEW m \in Nat, NEW c \in Nat, NEW bits, \A l \in 1..m : bits[l] \in Nat
  PROVE  \E t \in [0..m -> Nat] : IsTotal(t, c, bits, m)
<1> DEFINE step == [l \in 1..m |-> [x \in Nat |-> x + bits[l]]]
<1>1. step \in [1..m -> [Nat -> Nat]]
  OBVIOUS
<1>2. PICK t \in [0..m -> Nat] : IsChain(t, c, m, step)
  <2> HIDE DEF step
  <2> QED
    BY <1>1, ChainExists
<1>3. \A l \in 1..m : l - 1 \in 0..m
  OBVIOUS
<1>4. IsTotal(t, c, bits, m)
  BY <1>2, <1>3 DEF IsChain, IsTotal
<1> QED
  BY <1>4

\* And a count of the strings that begin with them.
LEMMA KraftExists ==
  ASSUME NEW m \in Nat, NEW c \in Nat, NEW bits, \A l \in 1..m : bits[l] \in Nat
  PROVE  \E k \in [0..m -> Nat] : IsKraft(k, c, bits, m)
<1> DEFINE step == [l \in 1..m |-> [x \in Nat |-> 2 * x + bits[l]]]
<1>1. step \in [1..m -> [Nat -> Nat]]
  OBVIOUS
<1>2. PICK k \in [0..m -> Nat] : IsChain(k, c, m, step)
  <2> HIDE DEF step
  <2> QED
    BY <1>1, ChainExists
<1>3. \A l \in 1..m : l - 1 \in 0..m
  OBVIOUS
<1>4. IsKraft(k, c, bits, m)
  BY <1>2, <1>3 DEF IsChain, IsKraft
<1> QED
  BY <1>4

SameTo(t, u, m) == \A l \in 0..m : t[l] = u[l]

\* The numbers of codes determine the total.
LEMMA TotalUnique ==
  ASSUME NEW m \in Nat, NEW c, NEW bits, NEW t, NEW u,
         IsTotal(t, c, bits, m), IsTotal(u, c, bits, m)
  PROVE  SameTo(t, u, m)
<1> DEFINE T == {n \in Nat : n <= m => t[n] = u[n]}
<1>1. 0 \in T
  BY DEF IsTotal
<1>2. ASSUME NEW n \in Nat, n \in T
      PROVE  n + 1 \in T
  <2>1. n + 1 <= m => n + 1 \in 1..m /\ (n + 1) - 1 = n
    OBVIOUS
  <2> QED
    BY <1>2, <2>1 DEF IsTotal
<1>3. \A n \in Nat : n \in T
  <2> HIDE DEF T
  <2> QED
    BY <1>1, <1>2, SetInduction
<1> QED
  BY <1>3 DEF SameTo

\* And the count of strings.
LEMMA KraftUnique ==
  ASSUME NEW m \in Nat, NEW c, NEW bits, NEW k, NEW h,
         IsKraft(k, c, bits, m), IsKraft(h, c, bits, m)
  PROVE  SameTo(k, h, m)
<1> DEFINE T == {n \in Nat : n <= m => k[n] = h[n]}
<1>1. 0 \in T
  BY DEF IsKraft
<1>2. ASSUME NEW n \in Nat, n \in T
      PROVE  n + 1 \in T
  <2>1. n + 1 <= m => n + 1 \in 1..m /\ (n + 1) - 1 = n
    OBVIOUS
  <2> QED
    BY <1>2, <2>1 DEF IsKraft
<1>3. \A n \in Nat : n \in T
  <2> HIDE DEF T
  <2> QED
    BY <1>1, <1>2, SetInduction
<1> QED
  BY <1>3 DEF SameTo

\* Between a and b, both up to m, total grows unless there are no codes there.
Grows(t, bits, m) ==
  \A a, b \in Nat :
    a <= b /\ b <= m =>
      /\ t[a] <= t[b]
      /\ (\A l \in a + 1..b : bits[l] = 0) <=> t[a] = t[b]

\* Where there are none, kraft doubles.
Doubles(k, bits, m) ==
  \A a, b \in Nat :
    a <= b /\ b <= m /\ (\A l \in a + 1..b : bits[l] = 0) => k[b] = k[a] * PowerOf2[b - a]

\* The total tells where there are codes.
LEMMA TotalOverGap ==
  ASSUME NEW m \in Nat, NEW bits, \A l \in 1..m : bits[l] \in Nat,
         NEW t \in [0..m -> Nat], NEW c, IsTotal(t, c, bits, m)
  PROVE  Grows(t, bits, m)
<1> SUFFICES ASSUME NEW a \in Nat, NEW b \in Nat, a <= b, b <= m
             PROVE  t[a] <= t[b] /\ ((\A l \in a + 1..b : bits[l] = 0) <=> t[a] = t[b])
  BY DEF Grows
<1> DEFINE Zeros(n) == \A l \in a + 1..a + n : bits[l] = 0
           T == {n \in Nat : a + n <= m => /\ t[a] <= t[a + n]
                                           /\ Zeros(n) <=> t[a] = t[a + n]}
<1>1. 0 \in T
  OBVIOUS
<1>2. ASSUME NEW n \in Nat, n \in T
      PROVE  n + 1 \in T
  <2> SUFFICES ASSUME a + (n + 1) <= m
               PROVE  t[a] <= t[a + (n + 1)] /\ (Zeros(n + 1) <=> t[a] = t[a + (n + 1)])
    OBVIOUS
  <2> DEFINE e == a + (n + 1)
  <2>1. e \in 1..m /\ e - 1 = a + n /\ a + n \in 0..m /\ e \in 0..m
    OBVIOUS
  <2>2. t[e] = t[a + n] + bits[e] /\ bits[e] \in Nat
    BY <2>1 DEF IsTotal
  <2>3. t[a] <= t[a + n] /\ (Zeros(n) <=> t[a] = t[a + n])
    BY <1>2, <2>1
  <2>4. Zeros(n + 1) <=> Zeros(n) /\ bits[e] = 0
    <3>1. \A l : l \in a + 1..e <=> l \in a + 1..a + n \/ l = e
      BY <2>1
    <3> HIDE DEF e
    <3>2. Zeros(n + 1) <=> \A l \in a + 1..e : bits[l] = 0
      BY DEF e
    <3> QED
      BY <3>1, <3>2
  <2>5. t[a] \in Nat /\ t[a + n] \in Nat /\ t[e] \in Nat
    BY <2>1
  <2> HIDE DEF Zeros, e
  <2>6. t[a] <= t[e] /\ (t[a] = t[e] <=> t[a] = t[a + n] /\ bits[e] = 0)
    BY <2>2, <2>3, <2>5
  <2> QED
    BY <2>3, <2>4, <2>6 DEF e
<1>3. \A n \in Nat : n \in T
  <2> HIDE DEF T
  <2> QED
    BY <1>1, <1>2, SetInduction
<1>4. b - a \in Nat /\ a + (b - a) = b
  OBVIOUS
<1>5. b - a \in T
  <2> HIDE DEF T
  <2> QED
    BY <1>3, <1>4
<1>6. t[a] <= t[a + (b - a)] /\ (Zeros(b - a) <=> t[a] = t[a + (b - a)])
  BY <1>4, <1>5
<1> QED
  BY <1>4, <1>6

\* Strings without a code of their length double with each bit.
LEMMA KraftOverGap ==
  ASSUME NEW m \in Nat, m <= MAX_CLEN, NEW bits, NEW k \in [0..m -> Nat], NEW c, IsKraft(k, c, bits, m)
  PROVE  Doubles(k, bits, m)
<1> SUFFICES ASSUME NEW a \in Nat, NEW b \in Nat, a <= b, b <= m, \A l \in a + 1..b : bits[l] = 0
             PROVE  k[b] = k[a] * PowerOf2[b - a]
  BY DEF Doubles
<1> DEFINE T == {n \in Nat : a + n <= b => k[a + n] = k[a] * PowerOf2[n]}
<1>0. MAX_CLEN \in Nat /\ k[a] \in Nat
  BY LengthsAssumption
<1>1. 0 \in T
  BY <1>0, PowerSolved
<1>2. ASSUME NEW n \in Nat, n \in T
      PROVE  n + 1 \in T
  <2> SUFFICES ASSUME a + (n + 1) <= b
               PROVE  k[a + (n + 1)] = k[a] * PowerOf2[n + 1]
    OBVIOUS
  <2>1. /\ a + (n + 1) \in 1..m /\ (a + (n + 1)) - 1 = a + n /\ a + (n + 1) \in a + 1..b
        /\ n + 1 \in 1..MAX_CLEN /\ (n + 1) - 1 = n /\ n \in 0..MAX_CLEN
    BY <1>0
  <2>2. k[a + (n + 1)] = 2 * k[a + n] + 0
    BY <2>1 DEF IsKraft
  <2>3. k[a + n] = k[a] * PowerOf2[n]
    BY <1>2, <2>1
  <2>4. PowerOf2[n + 1] = 2 * PowerOf2[n] /\ PowerOf2[n] \in Nat
    BY <2>1, PowerSolved
  <2>5. \A x, y \in Int : 2 * (x * y) + 0 = x * (2 * y)
    OBVIOUS
  <2> QED
    BY <1>0, <2>2, <2>3, <2>4, <2>5
<1>3. \A n \in Nat : n \in T
  <2> HIDE DEF T
  <2> QED
    BY <1>1, <1>2, SetInduction
<1>4. b - a \in Nat /\ a + (b - a) = b
  OBVIOUS
<1>5. b - a \in T
  <2> HIDE DEF T
  <2> QED
    BY <1>3, <1>4
<1> QED
  BY <1>4, <1>5

\* Neither codes nor strings are there before the shortest code.
NoneOfNone(k, bits, m) == \A b \in Nat : b <= m /\ (\A l \in 1..b : bits[l] = 0) => k[b] = 0
LEMMA KraftOfNone ==
  ASSUME NEW m \in Nat, NEW bits, NEW k, IsKraft(k, 0, bits, m)
  PROVE  NoneOfNone(k, bits, m)
<1> SUFFICES ASSUME NEW b \in Nat, b <= m, \A l \in 1..b : bits[l] = 0
             PROVE  k[b] = 0
  BY DEF NoneOfNone
<1> DEFINE T == {n \in Nat : n <= b => k[n] = 0}
<1>1. 0 \in T
  BY DEF IsKraft
<1>2. ASSUME NEW n \in Nat, n \in T
      PROVE  n + 1 \in T
  <2> SUFFICES ASSUME n + 1 <= b
               PROVE  k[n + 1] = 0
    OBVIOUS
  <2>1. n + 1 \in 1..m /\ n + 1 \in 1..b /\ (n + 1) - 1 = n
    OBVIOUS
  <2>2. k[n + 1] = 2 * k[n] + bits[n + 1] /\ bits[n + 1] = 0
    BY <2>1 DEF IsKraft
  <2> QED
    BY <1>2, <2>2
<1>3. \A n \in Nat : n \in T
  <2> HIDE DEF T
  <2> QED
    BY <1>1, <1>2, SetInduction
<1> QED
  BY <1>3

\* The same, of the number of codes.
LEMMA TotalOfNone ==
  ASSUME NEW m \in Nat, NEW bits, NEW k, IsTotal(k, 0, bits, m)
  PROVE  NoneOfNone(k, bits, m)
<1> SUFFICES ASSUME NEW b \in Nat, b <= m, \A l \in 1..b : bits[l] = 0
             PROVE  k[b] = 0
  BY DEF NoneOfNone
<1> DEFINE T == {n \in Nat : n <= b => k[n] = 0}
<1>1. 0 \in T
  BY DEF IsTotal
<1>2. ASSUME NEW n \in Nat, n \in T
      PROVE  n + 1 \in T
  <2> SUFFICES ASSUME n + 1 <= b
               PROVE  k[n + 1] = 0
    OBVIOUS
  <2>1. n + 1 \in 1..m /\ n + 1 \in 1..b /\ (n + 1) - 1 = n
    OBVIOUS
  <2>2. k[n + 1] = k[n] + bits[n + 1] /\ bits[n + 1] = 0
    BY <2>1 DEF IsTotal
  <2> QED
    BY <1>2, <2>2
<1>3. \A n \in Nat : n \in T
  <2> HIDE DEF T
  <2> QED
    BY <1>1, <1>2, SetInduction
<1> QED
  BY <1>3

\* A longer shift is no smaller.
LEMMA PowerMonotone ==
  ASSUME NEW a \in Nat, NEW b \in Nat, a <= b, b <= MAX_CLEN
  PROVE  PowerOf2[a] <= PowerOf2[b]
<1>1. MAX_CLEN \in Nat /\ a \in Nat /\ b - a \in Nat /\ a + (b - a) = b /\ b <= MAX_CLEN /\ b - a \in 0..MAX_CLEN
  BY LengthsAssumption
<1>2. PowerOf2[b] = PowerOf2[a] * PowerOf2[b - a]
  BY <1>1, PowerOfSum
<1>3. PowerOf2[a] \in Nat \ {0} /\ PowerOf2[b - a] \in Nat \ {0}
  BY <1>1, PowerPositive
<1>4. \A x, y \in Nat \ {0} : x <= x * y
  OBVIOUS
<1> QED
  BY <1>2, <1>3, <1>4

-----------------------------------------------------------------------------
(* Shortening *)

\* Two different elements are changed at once.
LEMMA TwoUpdates ==
  ASSUME NEW D, NEW f \in [D -> Int], NEW x \in D, NEW y \in D, x # y, NEW v \in Int, NEW w \in Int
  PROVE  LET g == [f EXCEPT ![x] = v, ![y] = w]
         IN  g \in [D -> Int] /\ g[x] = v /\ g[y] = w /\ \A l \in D : l \notin {x, y} => g[l] = f[l]
OBVIOUS

\* The assignments of one round of the loop at jchuff.c:1358: the lengths i - 1 and
\* j + 1 may be the same.
LEMMA FourUpdates ==
  ASSUME NEW D, NEW f \in [D -> Int], NEW i \in D, NEW h \in D, NEW e \in D, NEW j \in D,
         i \notin {h, e, j}, j \notin {h, e}, NEW f1, NEW g,
         f1 = [f EXCEPT ![i] = @ - 2, ![h] = @ + 1],
         g = [f1 EXCEPT ![e] = @ + 2, ![j] = @ - 1]
  PROVE  /\ g \in [D -> Int]
         /\ g[i] = f[i] - 2
         /\ g[j] = f[j] - 1
         /\ h = e => g[h] = f[h] + 3
         /\ h # e => g[h] = f[h] + 1 /\ g[e] = f[e] + 2
         /\ \A l \in D : l \notin {i, h, e, j} => g[l] = f[l]
<1>1. f1 \in [D -> Int] /\ f1[i] = f[i] - 2 /\ f1[h] = f[h] + 1 /\ \A l \in D : l \notin {i, h} => f1[l] = f[l]
  OBVIOUS
<1>2. g \in [D -> Int] /\ g[e] = f1[e] + 2 /\ g[j] = f1[j] - 1 /\ \A l \in D : l \notin {e, j} => g[l] = f1[l]
  BY <1>1
<1>3. f[i] \in Int /\ f[h] \in Int /\ f[e] \in Int /\ f[j] \in Int
  OBVIOUS
<1> QED
  BY <1>1, <1>2, <1>3

KraftIs(bits, i, x) == \E k \in [0..MAX_CLEN -> Nat] : IsKraft(k, 0, bits, MAX_CLEN) /\ k[i] = x
TotalIs(bits, i, x) == \E t \in [0..MAX_CLEN -> Nat] : IsTotal(t, 0, bits, MAX_CLEN) /\ t[i] = x

\* n codes of at most i bits, none of which begins another, that use all strings
\* of bits up.
Complete(bits, i, n) ==
  /\ bits \in [1..MAX_CLEN -> Nat]
  /\ \A l \in 1..MAX_CLEN : l > i => bits[l] = 0
  /\ KraftIs(bits, i, PowerOf2[i])
  /\ TotalIs(bits, i, n)

\* Codes of the greatest length come in pairs, and there is a code shorter than
\* their prefixes.
LEMMA PairAndShorter ==
  ASSUME NEW i \in Nat, MaxCodeLength < i, i <= MAX_CLEN, NEW n \in Nat, n <= PowerOf2[MaxCodeLength],
         NEW bits, Complete(bits, i, n), bits[i] > 0
  PROVE  bits[i] >= 2 /\ \E l \in 1..i - 2 : bits[l] > 0
<1> DEFINE p == PowerOf2[i - 1]
           k2 == i - 2
           k1 == i - 1
<1>0. /\ MAX_CLEN \in Nat /\ MaxCodeLength \in Nat \ {0} /\ i \in 1..MAX_CLEN /\ k1 \in 1..MAX_CLEN
      /\ k2 \in Nat /\ k2 \in 0..MAX_CLEN /\ k1 - 1 = k2 /\ MaxCodeLength \in 0..MAX_CLEN
      /\ k1 \in 0..MAX_CLEN /\ i \in 0..MAX_CLEN /\ 0 \in 0..MAX_CLEN /\ MaxCodeLength <= k1 /\ k2 <= MAX_CLEN
      /\ k1 \in Nat /\ k1 <= MAX_CLEN /\ k2 - 0 = k2 /\ i - 1 = k1 /\ 0 <= k2 /\ MAX_CLEN <= MAX_CLEN
      /\ \A l \in 0 + 1..k2 : l \in 1..i - 2 /\ l \in 1..MAX_CLEN
  BY LengthsAssumption
<1>1. PICK k \in [0..MAX_CLEN -> Nat] : IsKraft(k, 0, bits, MAX_CLEN) /\ k[i] = PowerOf2[i]
  BY DEF Complete, KraftIs
<1>2. PICK t \in [0..MAX_CLEN -> Nat] : IsTotal(t, 0, bits, MAX_CLEN) /\ t[i] = n
  BY DEF Complete, TotalIs
<1>3. bits[i] \in Nat /\ bits[k1] \in Nat /\ \A l \in 1..MAX_CLEN : bits[l] \in Nat
  BY <1>0 DEF Complete
<1>4. PowerOf2[i] = 2 * p /\ p \in Nat /\ PowerOf2[k2] \in Nat
  BY <1>0, PowerSolved
<1> HIDE DEF p, k1, k2
<1>5. k[i] = 2 * k[k1] + bits[i] /\ k[k1] = 2 * k[k2] + bits[k1] /\ k[0] = 0
  BY <1>0, <1>1 DEF IsKraft
<1>6. t[i] = t[k1] + bits[i] /\ t[k1] = t[k2] + bits[k1] /\ t[0] = 0
  BY <1>0, <1>2 DEF IsTotal
<1>7. k[k1] \in Nat /\ k[k2] \in Nat /\ t[k1] \in Nat /\ t[k2] \in Nat
  BY <1>0
<1>8. bits[i] >= 2
  <2>1. \A x, y, z \in Nat : 2 * x = 2 * y + z /\ z > 0 => z >= 2
    OBVIOUS
  <2>2. 2 * p = 2 * k[k1] + bits[i]
    BY <1>1, <1>4, <1>5
  <2> QED
    BY <1>3, <1>4, <1>7, <2>1, <2>2
<1>9. ASSUME \A l \in 1..i - 2 : bits[l] = 0
      PROVE  FALSE
  <2>1. \A l \in 1..k2 : bits[l] = 0
    BY <1>0, <1>9
  <2>3. k[k2] = 0
    <3>1. MAX_CLEN \in Nat /\ k2 \in Nat /\ k2 <= MAX_CLEN
      BY <1>0
    <3>2. NoneOfNone(k, bits, MAX_CLEN)
      BY <1>0, <1>1, KraftOfNone
    <3> QED
      BY <1>1, <2>1, <3>1, <3>2 DEF NoneOfNone
  <2>4. t[0] = t[k2]
    <3>1. MAX_CLEN \in Nat /\ k2 \in Nat /\ k2 <= MAX_CLEN
      BY <1>0
    <3>2. NoneOfNone(t, bits, MAX_CLEN)
      BY <1>0, <1>2, <1>6, TotalOfNone
    <3> QED
      BY <1>2, <1>6, <2>1, <3>1, <3>2 DEF NoneOfNone
  <2>5. n > p
    <3>1. \A x, y, z, w \in Nat : 2 * x = 2 * y + z /\ y = 0 + w /\ z >= 2 => w + z > x
      OBVIOUS
    <3>2. n = bits[k1] + bits[i] /\ 2 * p = 2 * k[k1] + bits[i] /\ k[k1] = 0 + bits[k1]
      BY <1>1, <1>2, <1>3, <1>4, <1>5, <1>6, <1>7, <2>3, <2>4
    <3> QED
      BY <1>3, <1>4, <1>7, <1>8, <3>1, <3>2
  <2>6. PowerOf2[MaxCodeLength] <= p
    <3>1. MaxCodeLength \in Nat
      BY <1>0
    <3>2. PowerOf2[MaxCodeLength] <= PowerOf2[k1]
      BY <1>0, <3>1, PowerMonotone, Zenon
    <3> QED
      BY <1>0, <3>2 DEF p
  <2>7. PowerOf2[MaxCodeLength] \in Nat
    BY <1>0, PowerSolved
  <2> QED
    BY <1>4, <2>5, <2>6, <2>7
<1>10. \E l \in 1..i - 2 : bits[l] > 0
  <2>1. PICK l \in 1..i - 2 : bits[l] # 0
    BY <1>9
  <2>2. l \in 1..MAX_CLEN
    BY <1>0
  <2> QED
    BY <1>3, <2>1, <2>2
<1> QED
  BY <1>8, <1>10

\* Where the numbers of codes differ by giving way of a pair of length i.
PairMoved(bits, b, i, j) ==
  \A l \in 1..MAX_CLEN :
    /\ l = i => b[l] = bits[l] - 2
    /\ l = j => b[l] = bits[l] - 1
    /\ l = j + 1 /\ l = i - 1 => b[l] = bits[l] + 3
    /\ l = j + 1 /\ l # i - 1 => b[l] = bits[l] + 2
    /\ l # j + 1 /\ l = i - 1 => b[l] = bits[l] + 1
    /\ l \notin {i, j, j + 1, i - 1} => b[l] = bits[l]

\* The strings of length i that begin with a code are as many as before.
LEMMA KraftMoved ==
  ASSUME NEW i \in Nat, i <= MAX_CLEN, NEW j \in Nat \ {0}, j <= i - 2,
         NEW bits \in [1..MAX_CLEN -> Nat], NEW b \in [1..MAX_CLEN -> Nat], PairMoved(bits, b, i, j),
         bits[j] > 0, NEW k \in [0..MAX_CLEN -> Nat], IsKraft(k, 0, bits, MAX_CLEN)
  PROVE  KraftIs(b, i, k[i])
<1> DEFINE v(l) == IF l = j THEN k[l] - 1 ELSE IF l = i - 1 THEN k[l] + 1 ELSE k[l]
           h == [l \in 0..MAX_CLEN |-> v(l)]
<1>0. MAX_CLEN \in Nat /\ j \in 1..MAX_CLEN /\ j - 1 \in 0..MAX_CLEN /\ i - 1 # 0 /\ j # 0 /\ i # j /\ i - 1 # i
      /\ j # i - 1 /\ i \in 0..MAX_CLEN /\ 0 \in 0..MAX_CLEN
  BY LengthsAssumption
<1>1. k[j] = 2 * k[j - 1] + bits[j] /\ k[j - 1] \in Nat /\ bits[j] \in Nat /\ k[0] = 0
  BY <1>0 DEF IsKraft
<1>2. k[j] - 1 \in Nat
  BY <1>1
<1>3. \A l \in 0..MAX_CLEN : v(l) \in Nat
  BY <1>2
<1>4. h \in [0..MAX_CLEN -> Nat] /\ h[0] = 0 /\ h[i] = k[i]
  BY <1>0, <1>1, <1>3
<1>5. ASSUME NEW l \in 1..MAX_CLEN
      PROVE  h[l] = 2 * h[l - 1] + b[l]
  <2> DEFINE x == l - 1
             bl == b[l]
             kl == k[l]
             kx == k[x]
             ol == bits[l]
  <2>1. kl = 2 * kx + ol /\ kl \in Nat /\ kx \in Nat /\ ol \in Nat /\ bl \in Nat /\ l \in 0..MAX_CLEN /\ x \in 0..MAX_CLEN
    <3>1. l \in 0..MAX_CLEN /\ x \in 0..MAX_CLEN
      BY <1>0
    <3>2. kl = 2 * kx + ol
      BY DEF IsKraft
    <3> HIDE DEF x
    <3> QED
      BY <3>1, <3>2
  <2>2. h[l] = v(l) /\ h[x] = v(x)
    BY <2>1
  <2>3. /\ v(l) = IF l = j THEN kl - 1 ELSE IF l = i - 1 THEN kl + 1 ELSE kl
        /\ v(x) = IF l = j + 1 THEN kx - 1 ELSE IF l = i THEN kx + 1 ELSE kx
    BY <1>0, <2>1
  <2>4. /\ l = i => bl = ol - 2
        /\ l = j => bl = ol - 1
        /\ l = j + 1 /\ l = i - 1 => bl = ol + 3
        /\ l = j + 1 /\ l # i - 1 => bl = ol + 2
        /\ l # j + 1 /\ l = i - 1 => bl = ol + 1
        /\ l # i /\ l # j /\ l # j + 1 /\ l # i - 1 => bl = ol
    BY DEF PairMoved
  <2> HIDE DEF x, bl, kl, kx, ol, v, h
  <2>5. v(l) = 2 * v(x) + bl
    <3>1. l \in Nat /\ i \in Nat /\ j \in Nat /\ j <= i - 2
      BY <1>0
    <3> QED
      BY <2>1, <2>3, <2>4, <3>1
  <2> QED
    BY <2>2, <2>5 DEF x, bl
<1> HIDE DEF h
<1>6. IsKraft(h, 0, b, MAX_CLEN)
  BY <1>4, <1>5 DEF IsKraft
<1> QED
  BY <1>4, <1>6 DEF KraftIs

\* And so are the codes.
LEMMA TotalMoved ==
  ASSUME NEW i \in Nat, i <= MAX_CLEN, NEW j \in Nat \ {0}, j <= i - 2,
         NEW bits \in [1..MAX_CLEN -> Nat], NEW b \in [1..MAX_CLEN -> Nat], PairMoved(bits, b, i, j),
         bits[j] > 0, NEW t \in [0..MAX_CLEN -> Nat], IsTotal(t, 0, bits, MAX_CLEN)
  PROVE  TotalIs(b, i, t[i])
<1> DEFINE v(l) == IF l < j \/ l >= i THEN t[l] ELSE IF l = j THEN t[l] - 1
                   ELSE IF l = i - 1 THEN t[l] + 2 ELSE t[l] + 1
           u == [l \in 0..MAX_CLEN |-> v(l)]
<1>0. MAX_CLEN \in Nat /\ j \in 1..MAX_CLEN /\ j - 1 \in 0..MAX_CLEN /\ i - 1 # 0 /\ j # 0 /\ i # j /\ i - 1 # i
      /\ j # i - 1 /\ i \in 0..MAX_CLEN /\ 0 \in 0..MAX_CLEN /\ 0 < j /\ i >= i
  BY LengthsAssumption
<1>1. t[j] = t[j - 1] + bits[j] /\ t[j - 1] \in Nat /\ bits[j] \in Nat /\ t[0] = 0
  BY <1>0 DEF IsTotal
<1>2. t[j] - 1 \in Nat
  BY <1>1
<1>3. \A l \in 0..MAX_CLEN : v(l) \in Nat
  BY <1>2
<1>4. u \in [0..MAX_CLEN -> Nat] /\ u[0] = 0 /\ u[i] = t[i]
  BY <1>0, <1>1, <1>3
<1>5. ASSUME NEW l \in 1..MAX_CLEN
      PROVE  u[l] = u[l - 1] + b[l]
  <2> DEFINE x == l - 1
             bl == b[l]
             kl == t[l]
             kx == t[x]
             ol == bits[l]
  <2>1. kl = kx + ol /\ kl \in Nat /\ kx \in Nat /\ ol \in Nat /\ bl \in Nat /\ l \in 0..MAX_CLEN /\ x \in 0..MAX_CLEN
    <3>1. l \in 0..MAX_CLEN /\ x \in 0..MAX_CLEN
      BY <1>0
    <3>2. kl = kx + ol
      BY DEF IsTotal
    <3> HIDE DEF x
    <3> QED
      BY <3>1, <3>2
  <2>2. u[l] = v(l) /\ u[x] = v(x)
    BY <2>1
  <2>3. /\ v(l) = IF l < j \/ l >= i THEN kl ELSE IF l = j THEN kl - 1 ELSE IF l = i - 1 THEN kl + 2 ELSE kl + 1
        /\ v(x) = IF l < j + 1 \/ l >= i + 1 THEN kx ELSE IF l = j + 1 THEN kx - 1 ELSE IF l = i THEN kx + 2 ELSE kx + 1
    BY <1>0, <2>1
  <2>4. /\ l = i => bl = ol - 2
        /\ l = j => bl = ol - 1
        /\ l = j + 1 /\ l = i - 1 => bl = ol + 3
        /\ l = j + 1 /\ l # i - 1 => bl = ol + 2
        /\ l # j + 1 /\ l = i - 1 => bl = ol + 1
        /\ l # i /\ l # j /\ l # j + 1 /\ l # i - 1 => bl = ol
    BY DEF PairMoved
  <2> HIDE DEF x, bl, kl, kx, ol, v, u
  <2>5. v(l) = v(x) + bl
    <3>1. l \in Nat /\ i \in Nat /\ j \in Nat /\ j <= i - 2
      BY <1>0
    <3> QED
      BY <2>1, <2>3, <2>4, <3>1
  <2> QED
    BY <2>2, <2>5 DEF x, bl
<1> HIDE DEF u
<1>6. IsTotal(u, 0, b, MAX_CLEN)
  BY <1>4, <1>5 DEF IsTotal
<1> QED
  BY <1>4, <1>6 DEF TotalIs

\* A pair of codes gives way, and the codes stay complete.
LEMMA PairShortened ==
  ASSUME NEW i \in Nat, MaxCodeLength < i, i <= MAX_CLEN, NEW n \in Nat, n <= PowerOf2[MaxCodeLength],
         NEW bits, Complete(bits, i, n), bits[i] > 0
  PROVE  Complete(ShortenPair(bits, i), i, n) /\ ShortenPair(bits, i)[i] = bits[i] - 2
<1> DEFINE J == {l \in 1..i - 2 : bits[l] > 0}
           j == Max(J)
           b == ShortenPair(bits, i)
<1>0. MAX_CLEN \in Nat /\ MaxCodeLength \in Nat \ {0} /\ i \in 1..MAX_CLEN /\ i - 1 \in 1..MAX_CLEN
  BY LengthsAssumption
<1>1. bits[i] >= 2 /\ J # {}
  BY PairAndShorter
<1>2. j \in 1..i - 2 /\ bits[j] > 0
  <2>1. J \subseteq Nat /\ \A l \in J : l <= i
    BY <1>0
  <2>2. j \in J
    <3> HIDE DEF J
    <3> QED
      BY <1>1, <2>1, MaxIsGreatest
  <2> QED
    BY <2>2
<1>3. bits \in [1..MAX_CLEN -> Nat] /\ \A l \in 1..MAX_CLEN : l > i => bits[l] = 0
  BY DEF Complete
<1> DEFINE f1 == [bits EXCEPT ![i] = @ - 2, ![i - 1] = @ + 1]
<1>4. b = [f1 EXCEPT ![j + 1] = @ + 2, ![j] = @ - 1]
  BY DEF ShortenPair
<1>5. j \in Nat \ {0} /\ j <= i - 2 /\ j \in 1..MAX_CLEN /\ j + 1 \in 1..MAX_CLEN
      /\ i \notin {i - 1, j + 1, j} /\ j \notin {i - 1, j + 1}
  <2> HIDE DEF j
  <2> QED
    BY <1>0, <1>2
<1> HIDE DEF j, b, J, f1
<1>6. PairMoved(bits, b, i, j) /\ b \in [1..MAX_CLEN -> Int]
  <2> DEFINE D == 1..MAX_CLEN
             h == i - 1
             e == j + 1
  <2>1. bits \in [D -> Int]
    BY <1>3
  <2>2. i \in D /\ h \in D /\ e \in D /\ j \in D /\ i \notin {h, e, j} /\ j \notin {h, e}
    BY <1>0, <1>5
  <2>3. f1 = [bits EXCEPT ![i] = @ - 2, ![h] = @ + 1] /\ b = [f1 EXCEPT ![e] = @ + 2, ![j] = @ - 1]
    BY <1>4 DEF f1
  <2> HIDE DEF D, h, e
  <2>4. /\ b \in [D -> Int]
        /\ b[i] = bits[i] - 2
        /\ b[j] = bits[j] - 1
        /\ h = e => b[h] = bits[h] + 3
        /\ h # e => b[h] = bits[h] + 1 /\ b[e] = bits[e] + 2
        /\ \A l \in D : l \notin {i, h, e, j} => b[l] = bits[l]
    BY <2>1, <2>2, <2>3, FourUpdates
  <2>5. \A l \in D : /\ l = i => b[l] = bits[l] - 2
                     /\ l = j => b[l] = bits[l] - 1
                     /\ l = e /\ l = h => b[l] = bits[l] + 3
                     /\ l = e /\ l # h => b[l] = bits[l] + 2
                     /\ l # e /\ l = h => b[l] = bits[l] + 1
                     /\ l \notin {i, j, e, h} => b[l] = bits[l]
    BY <2>4
  <2> QED
    BY <2>4, <2>5 DEF PairMoved, D, h, e
<1>7. b \in [1..MAX_CLEN -> Nat] /\ b[i] = bits[i] - 2 /\ \A l \in 1..MAX_CLEN : l > i => b[l] = 0
  <2>1. \A l \in 1..MAX_CLEN : b[l] \in Nat
    <3> SUFFICES ASSUME NEW l \in 1..MAX_CLEN
                 PROVE  b[l] \in Nat
      OBVIOUS
    <3>1. bits[l] \in Nat /\ bits[j] \in Nat /\ bits[i] \in Nat
      BY <1>0, <1>3, <1>5
    <3>2. b[l] \in {bits[l], bits[l] + 1, bits[l] + 2, bits[l] + 3} \/ (l = i /\ b[l] = bits[l] - 2) \/ (l = j /\ b[l] = bits[l] - 1)
      BY <1>6 DEF PairMoved
    <3> QED
      BY <1>1, <1>2, <3>1, <3>2
  <2>2. b[i] = bits[i] - 2
    BY <1>0, <1>6 DEF PairMoved
  <2>3. ASSUME NEW l \in 1..MAX_CLEN, l > i
        PROVE  b[l] = 0
    <3>1. l \notin {i, j, j + 1, i - 1}
      BY <1>5, <2>3
    <3> QED
      BY <1>3, <1>6, <2>3, <3>1 DEF PairMoved
  <2> QED
    BY <1>6, <2>1, <2>2, <2>3
<1>8. KraftIs(b, i, PowerOf2[i])
  <2>1. PICK k \in [0..MAX_CLEN -> Nat] : IsKraft(k, 0, bits, MAX_CLEN) /\ k[i] = PowerOf2[i]
    BY DEF Complete, KraftIs
  <2>2. KraftIs(b, i, k[i])
    BY <1>2, <1>3, <1>5, <1>6, <1>7, <2>1, KraftMoved
  <2> QED
    BY <2>1, <2>2
<1>9. TotalIs(b, i, n)
  <2>1. PICK t \in [0..MAX_CLEN -> Nat] : IsTotal(t, 0, bits, MAX_CLEN) /\ t[i] = n
    BY DEF Complete, TotalIs
  <2>2. TotalIs(b, i, t[i])
    BY <1>2, <1>3, <1>5, <1>6, <1>7, <2>1, TotalMoved
  <2> QED
    BY <2>1, <2>2
<1>10. Complete(b, i, n)
  BY <1>7, <1>8, <1>9 DEF Complete
<1> QED
  BY <1>7, <1>10 DEF b

\* Until no code of length i is left.
LEMMA LengthShortened ==
  ASSUME NEW i \in Nat, MaxCodeLength < i, i <= MAX_CLEN, NEW n \in Nat, n <= PowerOf2[MaxCodeLength],
         NEW bits, Complete(bits, i, n)
  PROVE  Complete(ShortenLength(bits, i), i - 1, n)
<1> DEFINE m == bits[i]
           B(x) == IF x[i] > 0 THEN ShortenPair(x, i) ELSE x
           Q == [1..MAX_CLEN -> Nat]
           I == [r \in 0..m |-> {b \in Q : Complete(b, i, n) /\ (b[i] = 0 \/ b[i] + r <= m)}]
           step == [r \in 1..m |-> [x \in Q |-> B(x)]]
           Solves(f) == f = [r \in 0..m |-> IF r = 0 THEN bits ELSE B(f[r - 1])]
           h == CHOOSE f : Solves(f)
<1>0. /\ bits \in Q /\ i \in 1..MAX_CLEN /\ i - 1 \in 1..MAX_CLEN /\ i \in Nat \ {0} /\ MAX_CLEN \in Nat
      /\ i - 1 \in Nat
  BY LengthsAssumption DEF Complete
<1>1. m \in Nat
  BY <1>0
<1>2. ASSUME NEW r \in 1..m, NEW x \in I[r - 1]
      PROVE  B(x) \in I[r]
  <2>1. r - 1 \in 0..m /\ r \in 0..m
    BY <1>1
  <2>2. x \in Q /\ Complete(x, i, n) /\ (x[i] = 0 \/ x[i] + (r - 1) <= m)
    BY <2>1
  <2>3. x[i] \in Nat
    BY <1>0, <2>2
  <2>4. CASE x[i] > 0
    <3>1. Complete(ShortenPair(x, i), i, n) /\ ShortenPair(x, i)[i] = x[i] - 2
      BY <2>2, <2>4, PairShortened
    <3>2. ShortenPair(x, i) \in Q
      BY <3>1 DEF Complete
    <3>3. ShortenPair(x, i)[i] + r <= m
      BY <1>1, <2>1, <2>2, <2>3, <2>4, <3>1
    <3>4. B(x) = ShortenPair(x, i)
      BY <2>4
    <3> HIDE DEF B, Q
    <3> QED
      BY <2>1, <3>1, <3>2, <3>3, <3>4
  <2>5. CASE ~ x[i] > 0
    <3>1. B(x) = x /\ x[i] = 0
      BY <2>3, <2>5
    <3> HIDE DEF B, Q
    <3> QED
      BY <2>1, <2>2, <3>1
  <2> QED
    BY <2>4, <2>5
<1>3. \A r \in 0..m : I[r] \subseteq Q
  OBVIOUS
<1>4. \A r \in 1..m : r - 1 \in 0..m /\ r \in 0..m /\ r # 0
  BY <1>1
<1>5. \A r \in 1..m : \A x \in Q : step[r][x] = B(x)
  <2> HIDE DEF B, Q
  <2> QED
    OBVIOUS
<1>6. bits \in I[0]
  BY <1>0, <1>1
<1> HIDE DEF m, I, step, Q
<1>7. PICK g : /\ g = [r \in 0..m |-> g[r]]
               /\ IsChain(g, bits, m, step)
               /\ StaysIn(g, I, m)
  <2>1. \A r \in 1..m : \A x \in I[r - 1] : step[r][x] \in I[r]
    <3> HIDE DEF B
    <3> QED
      BY <1>2, <1>3, <1>4, <1>5
  <2> HIDE DEF B
  <2> QED
    BY <1>1, <1>6, <2>1, ChainWithin
<1>8. Solves(g)
  <2>1. g[0] = bits /\ \A r \in 1..m : g[r] = B(g[r - 1])
    <3> HIDE DEF B
    <3> QED
      BY <1>3, <1>4, <1>5, <1>7 DEF IsChain, StaysIn
  <2>2. \A r \in 0..m : r = 0 \/ r \in 1..m
    BY <1>1
  <2>3. \A r \in 0..m : g[r] = IF r = 0 THEN bits ELSE B(g[r - 1])
    <3> HIDE DEF B
    <3> QED
      BY <2>1, <2>2
  <2> HIDE DEF B
  <2> QED
    BY <1>7, <2>3
<1>9. Solves(h)
  <2> HIDE DEF Solves
  <2> QED
    BY <1>8
<1>10. ShortenLength(bits, i) = h[m]
  BY DEF ShortenLength, m
<1> HIDE DEF h
<1>11. h[0] = bits /\ \A r \in 1..m : h[r] = B(h[r - 1])
  <2> HIDE DEF B
  <2>1. 0 \in 0..m
    BY <1>1
  <2> QED
    BY <1>4, <1>9, <2>1
<1>12. StaysIn(h, I, m)
  <2>1. \A r \in 1..m : h[r - 1] \in I[r - 1] => h[r] \in I[r]
    <3> HIDE DEF B
    <3> QED
      BY <1>2, <1>11
  <2>2. h[0] \in I[0]
    BY <1>6, <1>11
  <2> HIDE DEF B, Solves
  <2> QED
    BY <1>1, <2>1, <2>2, ChainStays
<1>13. /\ h[m] \in [1..MAX_CLEN -> Nat] /\ Complete(h[m], i, n) /\ h[m][i] = 0
  <2>1. m \in 0..m
    BY <1>1
  <2>2. h[m] \in I[m]
    BY <1>12, <2>1 DEF StaysIn
  <2>3. h[m] \in Q /\ Complete(h[m], i, n) /\ (h[m][i] = 0 \/ h[m][i] + m <= m)
    BY <2>1, <2>2 DEF I
  <2>4. h[m][i] \in Nat
    BY <1>0, <2>3 DEF Q
  <2> QED
    BY <1>1, <2>3, <2>4 DEF Q
<1> DEFINE b == h[m]
<1> HIDE DEF b
<1>14. KraftIs(b, i - 1, PowerOf2[i - 1])
  <2>1. PICK k \in [0..MAX_CLEN -> Nat] : IsKraft(k, 0, b, MAX_CLEN) /\ k[i] = PowerOf2[i]
    BY <1>13 DEF Complete, KraftIs, b
  <2>2. k[i] = 2 * k[i - 1] + b[i] /\ PowerOf2[i] = 2 * PowerOf2[i - 1]
    BY <1>0, <2>1, PowerSolved DEF IsKraft
  <2>3. k[i - 1] \in Nat /\ PowerOf2[i - 1] \in Nat /\ b[i] = 0
    <3>1. i - 1 \in 0..MAX_CLEN
      BY <1>0
    <3> QED
      BY <1>13, <3>1, PowerSolved DEF b
  <2>4. k[i - 1] = PowerOf2[i - 1]
    <3>1. \A x, y, z \in Nat : 2 * x = 2 * y + z /\ z = 0 => y = x
      OBVIOUS
    <3>2. 2 * PowerOf2[i - 1] = 2 * k[i - 1] + b[i]
      BY <2>1, <2>2
    <3> QED
      BY <2>3, <3>1, <3>2
  <2> QED
    BY <2>1, <2>4, Zenon DEF KraftIs
<1>15. TotalIs(b, i - 1, n)
  <2>1. PICK t \in [0..MAX_CLEN -> Nat] : IsTotal(t, 0, b, MAX_CLEN) /\ t[i] = n
    BY <1>13 DEF Complete, TotalIs, b
  <2>2. t[i] = t[i - 1] + b[i] /\ t[i - 1] \in Nat /\ b[i] = 0
    <3>1. i - 1 \in 0..MAX_CLEN
      BY <1>0
    <3> QED
      BY <1>0, <1>13, <2>1, <3>1 DEF b, IsTotal
  <2>3. t[i - 1] = n
    BY <2>1, <2>2
  <2> QED
    BY <2>1, <2>3, Zenon DEF TotalIs
<1>16. b \in [1..MAX_CLEN -> Nat] /\ \A l \in 1..MAX_CLEN : l > i - 1 => b[l] = 0
  <2>1. b \in [1..MAX_CLEN -> Nat] /\ b[i] = 0 /\ \A l \in 1..MAX_CLEN : l > i => b[l] = 0
    BY <1>13 DEF Complete, b
  <2>2. \A l \in 1..MAX_CLEN : l > i - 1 => l > i \/ l = i
    BY <1>0
  <2> QED
    BY <2>1, <2>2
<1>17. Complete(b, i - 1, n)
  BY <1>14, <1>15, <1>16 DEF Complete
<1> QED
  BY <1>10, <1>17 DEF b

\* The codes end up with no more than MaxCodeLength bits, as many as they were.
LEMMA AllShortened ==
  ASSUME NEW n \in Nat, n <= PowerOf2[MaxCodeLength], NEW bits, Complete(bits, MAX_CLEN, n)
  PROVE  Complete(Shorten(bits), MaxCodeLength, n)
<1> DEFINE m == MAX_CLEN - MaxCodeLength
           B(r, x) == ShortenLength(x, MAX_CLEN + 1 - r)
           Q == [1..MAX_CLEN -> Nat]
           I == [r \in 0..m |-> {b \in Q : Complete(b, MAX_CLEN - r, n)}]
           step == [r \in 1..m |-> [x \in Q |-> B(r, x)]]
           Solves(f) == f = [r \in 0..m |-> IF r = 0 THEN bits ELSE B(r, f[r - 1])]
           h == CHOOSE f : Solves(f)
<1>0. /\ bits \in Q /\ MAX_CLEN \in Nat /\ MaxCodeLength \in Nat \ {0} /\ m \in Nat /\ MAX_CLEN - 0 = MAX_CLEN
      /\ MAX_CLEN - m = MaxCodeLength
  BY LengthsAssumption DEF Complete
<1>1. \A r \in 1..m : r - 1 \in 0..m /\ r \in 0..m /\ r # 0
  BY <1>0
<1>2. ASSUME NEW r \in 1..m, NEW x \in I[r - 1]
      PROVE  B(r, x) \in I[r]
  <2> DEFINE i == MAX_CLEN + 1 - r
  <2>1. i \in Nat /\ MaxCodeLength < i /\ i <= MAX_CLEN /\ i - 1 = MAX_CLEN - r /\ MAX_CLEN - (r - 1) = i
    BY <1>0
  <2>2. Complete(x, i, n)
    BY <1>1, <2>1
  <2> HIDE DEF i
  <2>3. Complete(ShortenLength(x, i), i - 1, n)
    BY <2>1, <2>2, LengthShortened
  <2>4. ShortenLength(x, i) \in Q
    BY <2>3 DEF Complete
  <2> HIDE DEF Q
  <2>5. ShortenLength(x, i) \in I[r]
    BY <1>1, <2>1, <2>3, <2>4
  <2> QED
    BY <2>5 DEF i
<1>3. \A r \in 0..m : I[r] \subseteq Q
  OBVIOUS
<1>4. bits \in I[0]
  BY <1>0
<1>5. \A r \in 1..m : \A x \in Q : step[r][x] = B(r, x)
  <2> HIDE DEF B, Q
  <2> QED
    OBVIOUS
<1>6. \A b \in I[m] : Complete(b, MaxCodeLength, n)
  BY <1>0
<1> HIDE DEF I, step, Q
<1>7. PICK g : /\ g = [r \in 0..m |-> g[r]]
               /\ IsChain(g, bits, m, step)
               /\ StaysIn(g, I, m)
  <2> HIDE DEF m
  <2>1. \A r \in 1..m : \A x \in I[r - 1] : step[r][x] \in I[r]
    <3> HIDE DEF B
    <3> QED
      BY <1>1, <1>2, <1>3, <1>5
  <2> HIDE DEF B
  <2> QED
    BY <1>0, <1>4, <2>1, ChainWithin
<1>8. Solves(g)
  <2> HIDE DEF m
  <2>1. g[0] = bits /\ \A r \in 1..m : g[r] = B(r, g[r - 1])
    <3> HIDE DEF B
    <3> QED
      BY <1>1, <1>3, <1>5, <1>7 DEF IsChain, StaysIn
  <2>2. \A r \in 0..m : r = 0 \/ r \in 1..m
    BY <1>0
  <2>3. \A r \in 0..m : g[r] = IF r = 0 THEN bits ELSE B(r, g[r - 1])
    <3> HIDE DEF B
    <3> QED
      BY <2>1, <2>2
  <2> HIDE DEF B
  <2> QED
    BY <1>7, <2>3
<1>9. Solves(h)
  <2> HIDE DEF Solves
  <2> QED
    BY <1>8
<1>10. Shorten(bits) = h[m]
  BY DEF Shorten
<1> HIDE DEF h, m
<1>11. h[0] = bits /\ \A r \in 1..m : h[r] = B(r, h[r - 1])
  <2> HIDE DEF B
  <2>1. 0 \in 0..m
    BY <1>0
  <2> QED
    BY <1>1, <1>9, <2>1
<1>12. StaysIn(h, I, m)
  <2>1. \A r \in 1..m : h[r - 1] \in I[r - 1] => h[r] \in I[r]
    <3> HIDE DEF B
    <3> QED
      BY <1>2, <1>11
  <2>2. h[0] \in I[0]
    BY <1>4, <1>11
  <2> HIDE DEF B, Solves
  <2> QED
    BY <1>0, <2>1, <2>2, ChainStays
<1>13. h[m] \in I[m]
  <2>1. m \in 0..m
    BY <1>0
  <2> QED
    BY <1>12, <2>1 DEF StaysIn
<1> QED
  BY <1>6, <1>10, <1>13

-----------------------------------------------------------------------------
(* The pseudo-symbol *)

\* Codes of at most MaxCodeLength bits that leave a string of bits unused, and n
\* of them.
HasRoom(bits, n) ==
  /\ bits \in [1..MaxCodeLength -> Nat]
  /\ \E t \in [0..MaxCodeLength -> Nat] : IsTotal(t, 0, bits, MaxCodeLength) /\ t[MaxCodeLength] = n
  /\ \E k \in [0..MaxCodeLength -> Nat] :
       IsKraft(k, 0, bits, MaxCodeLength) /\ k[MaxCodeLength] < PowerOf2[MaxCodeLength]

\* Without the code of the pseudo-symbol, one of the longest, there is room.
LEMMA PseudoRemoved ==
  ASSUME NEW n \in Nat, NEW bits, Complete(bits, MaxCodeLength, n)
  PROVE  HasRoom(WithoutPseudo(bits), n - 1)
<1> DEFINE m == MaxCodeLength
           J == {l \in 1..m : bits[l] > 0}
           j == Max(J)
           b == WithoutPseudo(bits)
<1>0. m \in Nat \ {0} /\ MAX_CLEN \in Nat /\ m <= MAX_CLEN /\ 0 \in 0..m /\ m \in 0..m /\ 1..m \subseteq 1..MAX_CLEN
      /\ 0..m \subseteq 0..MAX_CLEN /\ m <= m
  BY LengthsAssumption
<1>1. PICK k \in [0..MAX_CLEN -> Nat] : IsKraft(k, 0, bits, MAX_CLEN) /\ k[m] = PowerOf2[m]
  BY DEF Complete, KraftIs
<1>2. PICK t \in [0..MAX_CLEN -> Nat] : IsTotal(t, 0, bits, MAX_CLEN) /\ t[m] = n
  BY DEF Complete, TotalIs
<1>3. bits \in [1..MAX_CLEN -> Nat]
  BY DEF Complete
<1>4. J # {}
  <2> SUFFICES ASSUME \A l \in 1..m : bits[l] = 0
               PROVE  FALSE
    <3>1. \A l \in 1..m : bits[l] = 0 \/ bits[l] > 0
      BY <1>0, <1>3
    <3> QED
      BY <3>1, Zenon
  <2>1. NoneOfNone(k, bits, MAX_CLEN)
    BY <1>0, <1>1, KraftOfNone
  <2>2. k[m] = 0
    BY <1>0, <2>1 DEF NoneOfNone
  <2>3. PowerOf2[m] \in Nat \ {0}
    <3>1. m \in 0..MAX_CLEN
      BY <1>0
    <3> HIDE DEF m
    <3> QED
      BY <3>1, PowerPositive
  <2> QED
    BY <1>1, <2>2, <2>3
<1>5. j \in 1..m /\ bits[j] > 0
  <2>1. J \subseteq Nat /\ \A l \in J : l <= m
    BY <1>0
  <2>2. j \in J
    <3> HIDE DEF J, m
    <3> QED
      BY <1>0, <1>4, <2>1, MaxIsGreatest
  <2> QED
    BY <2>2
<1>6. b = [l \in 1..m |-> IF l = j THEN bits[l] - 1 ELSE bits[l]]
  BY DEF WithoutPseudo
<1> HIDE DEF j, J, b, m
<1>7. b \in [1..m -> Nat]
  <2>1. \A l \in 1..m : (IF l = j THEN bits[l] - 1 ELSE bits[l]) \in Nat
    BY <1>0, <1>3, <1>5
  <2> QED
    BY <1>6, <2>1
<1>8. PICK h \in [0..m -> Nat] : IsKraft(h, 0, b, m)
  BY <1>0, <1>7, KraftExists
<1>9. PICK u \in [0..m -> Nat] : IsTotal(u, 0, b, m)
  BY <1>0, <1>7, TotalExists
<1> DEFINE T == {l \in Nat : l <= m => /\ h[l] <= k[l] /\ (l >= j => h[l] < k[l])
                                       /\ u[l] = IF l >= j THEN t[l] - 1 ELSE t[l]}
<1>10. 0 \in T
  BY <1>0, <1>1, <1>2, <1>5, <1>8, <1>9 DEF IsKraft, IsTotal
<1>11. ASSUME NEW l \in Nat, l \in T
       PROVE  l + 1 \in T
  <2> SUFFICES ASSUME l + 1 <= m
               PROVE  /\ h[l + 1] <= k[l + 1] /\ (l + 1 >= j => h[l + 1] < k[l + 1])
                      /\ u[l + 1] = IF l + 1 >= j THEN t[l + 1] - 1 ELSE t[l + 1]
    OBVIOUS
  <2> DEFINE e == l + 1
  <2>1. e \in 1..m /\ e - 1 = l /\ e \in 1..MAX_CLEN /\ l \in 0..m /\ l \in 0..MAX_CLEN /\ e \in 0..m /\ e \in 0..MAX_CLEN
    BY <1>0
  <2>2. /\ h[e] = 2 * h[l] + b[e] /\ k[e] = 2 * k[l] + bits[e]
        /\ u[e] = u[l] + b[e] /\ t[e] = t[l] + bits[e]
    BY <1>1, <1>2, <1>8, <1>9, <2>1 DEF IsKraft, IsTotal
  <2>3. /\ h[l] <= k[l] /\ (l >= j => h[l] < k[l])
        /\ u[l] = IF l >= j THEN t[l] - 1 ELSE t[l]
    BY <1>11, <2>1
  <2>4. b[e] = IF e = j THEN bits[e] - 1 ELSE bits[e]
    BY <1>6, <2>1
  <2>5. /\ h[l] \in Nat /\ k[l] \in Nat /\ u[l] \in Nat /\ t[l] \in Nat /\ bits[e] \in Nat
        /\ h[e] \in Nat /\ k[e] \in Nat /\ u[e] \in Nat /\ t[e] \in Nat
    BY <1>3, <2>1
  <2>6. e >= j <=> (l >= j \/ e = j)
    BY <1>5
  <2>7. ~ (l >= j /\ e = j)
    BY <1>5
  <2> DEFINE he == h[e]
             hl == h[l]
             ke == k[e]
             kl == k[l]
             te == t[e]
             tl == t[l]
             be == bits[e]
             ue == u[e]
  <2>8. /\ he \in Nat /\ hl \in Nat /\ ke \in Nat /\ kl \in Nat /\ te \in Nat /\ tl \in Nat /\ be \in Nat
        /\ ke = 2 * kl + be /\ te = tl + be /\ hl <= kl
        /\ he = 2 * hl + (IF e = j THEN be - 1 ELSE be) /\ (l >= j => hl < kl)
        /\ ue = (IF l >= j THEN tl - 1 ELSE tl) + (IF e = j THEN be - 1 ELSE be)
    BY <2>2, <2>3, <2>4, <2>5
  <2> HIDE DEF e, he, hl, ke, kl, te, tl, be, ue
  <2>9. he <= ke /\ (e >= j => he < ke) /\ ue = IF e >= j THEN te - 1 ELSE te
    BY <2>6, <2>7, <2>8
  <2> QED
    BY <2>9 DEF e, he, ke, te, ue
<1>12. m \in T
  <2>1. \A l \in Nat : l \in T
    <3> HIDE DEF T
    <3> QED
      BY <1>10, <1>11, SetInduction
  <2> HIDE DEF T
  <2> QED
    BY <1>0, <2>1
<1>13. h[m] < PowerOf2[m] /\ u[m] = n - 1
  <2>1. m >= j
    BY <1>0, <1>5
  <2> QED
    BY <1>0, <1>1, <1>2, <1>12, <2>1
<1>14. HasRoom(b, n - 1)
  BY <1>7, <1>8, <1>9, <1>13 DEF HasRoom, m
<1> QED
  BY <1>14 DEF b

\* Then no code is all ones.
LEMMA KraftBelow ==
  ASSUME NEW m \in Nat, m <= MAX_CLEN, NEW bits, \A l \in 1..m : bits[l] \in Nat,
         NEW k \in [0..m -> Nat], IsKraft(k, 0, bits, m), k[m] < PowerOf2[m]
  PROVE  \A l \in 0..m : k[l] < PowerOf2[l]
<1> SUFFICES ASSUME NEW l \in 0..m, k[l] >= PowerOf2[l]
             PROVE  FALSE
  <2>1. \A l \in 0..m : k[l] \in Nat /\ PowerOf2[l] \in Nat
    BY LengthsAssumption, PowerSolved
  <2> QED
    BY <2>1
<1> DEFINE T == {n \in Nat : l + n <= m => k[l + n] >= PowerOf2[l + n]}
<1>1. 0 \in T
  OBVIOUS
<1>2. ASSUME NEW n \in Nat, n \in T
      PROVE  n + 1 \in T
  <2> SUFFICES ASSUME l + (n + 1) <= m
               PROVE  k[l + (n + 1)] >= PowerOf2[l + (n + 1)]
    OBVIOUS
  <2> DEFINE e == l + (n + 1)
             d == l + n
  <2>1. e \in 1..m /\ e - 1 = d /\ e \in 1..MAX_CLEN /\ d \in 0..m /\ d <= m /\ d \in 0..MAX_CLEN
    BY LengthsAssumption
  <2>2. k[d] >= PowerOf2[d]
    BY <1>2, <2>1
  <2> HIDE DEF e, d
  <2>3. k[e] = 2 * k[d] + bits[e] /\ bits[e] \in Nat /\ k[d] \in Nat
    BY <2>1 DEF IsKraft
  <2>4. PowerOf2[e] = 2 * PowerOf2[d] /\ PowerOf2[d] \in Nat
    BY <2>1, PowerSolved
  <2>5. k[e] >= PowerOf2[e]
    BY <2>2, <2>3, <2>4
  <2> QED
    BY <2>5 DEF e
<1>3. \A n \in Nat : n \in T
  <2> HIDE DEF T
  <2> QED
    BY <1>1, <1>2, SetInduction
<1>4. m - l \in Nat /\ l + (m - l) = m
  OBVIOUS
<1>5. m - l \in T
  <2> HIDE DEF T
  <2> QED
    BY <1>3, <1>4
<1>6. k[m] >= PowerOf2[m]
  BY <1>4, <1>5
<1>7. k[m] \in Nat /\ PowerOf2[m] \in Nat
  BY LengthsAssumption, PowerSolved
<1> QED
  BY <1>6, <1>7

-----------------------------------------------------------------------------
(* The codes *)

\* The positions of huffsize are counted by the total.
LEMMA UptoIsTotal ==
  ASSUME NEW bits \in [1..MaxCodeLength -> Nat]
  PROVE  Upto(bits) \in [0..MaxCodeLength -> Nat] /\ IsTotal(Upto(bits), 0, bits, MaxCodeLength)
<1> DEFINE m == MaxCodeLength
           Solves(f) == f = [l \in 0..m |-> IF l = 0 THEN 0 ELSE f[l - 1] + bits[l]]
           h == CHOOSE f : Solves(f)
<1>0. m \in Nat /\ \A l \in 1..m : l - 1 \in 0..m /\ l \in 0..m /\ l # 0
  BY LengthsAssumption
<1>1. PICK t \in [0..m -> Nat] : IsTotal(t, 0, bits, m)
  BY <1>0, TotalExists
<1>2. Solves(t)
  BY <1>0, <1>1 DEF IsTotal
<1>3. Solves(h)
  <2> HIDE DEF Solves
  <2> QED
    BY <1>2
<1>4. Upto(bits) = h
  BY DEF Upto
<1> HIDE DEF h
<1>5. IsTotal(h, 0, bits, m)
  <2>1. 0 \in 0..m
    BY <1>0
  <2> QED
    BY <1>0, <1>3, <2>1 DEF IsTotal
<1> HIDE DEF m
<1>6. SameTo(t, h, m)
  <2> HIDE DEF Solves
  <2> QED
    BY <1>0, <1>1, <1>5, TotalUnique
<1>7. h \in [0..m -> Nat]
  BY <1>1, <1>3, <1>6 DEF SameTo
<1> QED
  BY <1>4, <1>5, <1>7 DEF m

\* The code at position p of the codes of a bits, of which those at positions up to
\* t[a - 1] are shorter.
Nth(t, k, a, p) == 2 * k[a - 1] + (p - t[a - 1] - 1)
At(t, a, p) == t[a - 1] < p /\ p <= t[a]

\* A code is the next number of the code before it, and zeros where it is longer.
Follows(t, k, a, b, p) == a <= b /\ Nth(t, k, b, p + 1) = (Nth(t, k, a, p) + 1) * PowerOf2[b - a]
LEMMA CodeStep ==
  ASSUME NEW m \in Nat, m <= MAX_CLEN, NEW bits, \A l \in 1..m : bits[l] \in Nat,
         NEW t \in [0..m -> Nat], IsTotal(t, 0, bits, m), NEW k \in [0..m -> Nat], IsKraft(k, 0, bits, m),
         NEW p \in Nat, NEW a \in Nat \ {0}, a <= m, At(t, a, p), NEW b \in Nat \ {0}, b <= m, At(t, b, p + 1)
  PROVE  Follows(t, k, a, b, p)
<1> SUFFICES a <= b /\ Nth(t, k, b, p + 1) = (Nth(t, k, a, p) + 1) * PowerOf2[b - a]
  BY DEF Follows
<1>0. /\ MAX_CLEN \in Nat /\ a \in 1..m /\ b \in 1..m /\ a \in 0..m /\ b \in 0..m /\ a - 1 \in Nat /\ b - 1 \in Nat
      /\ a - 1 \in 0..m /\ b - 1 \in 0..m /\ a - 1 <= m /\ b - 1 <= m /\ a \in Nat /\ b \in Nat
  BY LengthsAssumption
<1>1. Grows(t, bits, m)
  BY TotalOverGap
<1>2. Doubles(k, bits, m)
  BY KraftOverGap
<1> DEFINE ta == t[a]
           tb == t[b]
           ta1 == t[a - 1]
           tb1 == t[b - 1]
           ka == k[a]
           ka1 == k[a - 1]
           kb1 == k[b - 1]
           ba == bits[a]
<1>3. /\ ta \in Nat /\ tb \in Nat /\ ta1 \in Nat /\ tb1 \in Nat /\ ka \in Nat /\ ka1 \in Nat /\ kb1 \in Nat /\ ba \in Nat
      /\ ta = ta1 + ba /\ ka = 2 * ka1 + ba
      /\ ta1 < p /\ p <= ta /\ tb1 < p + 1 /\ p + 1 <= tb
  BY <1>0 DEF IsTotal, IsKraft, At
<1>4. a <= b
  <2> SUFFICES ASSUME b < a
               PROVE  FALSE
    BY <1>0
  <2>1. b <= a - 1
    BY <1>0
  <2>2. tb <= ta1
    BY <1>0, <1>1, <2>1 DEF Grows
  <2> HIDE DEF ta, tb, ta1, tb1
  <2> QED
    BY <1>3, <2>2
<1>5. CASE a = b
  <2>1. PowerOf2[b - a] = 1 /\ ta1 = tb1 /\ ka1 = kb1
    BY <1>0, <1>5, PowerSolved
  <2>2. Nth(t, k, b, p + 1) = 2 * kb1 + ((p + 1) - tb1 - 1) /\ Nth(t, k, a, p) = 2 * ka1 + (p - ta1 - 1)
    BY DEF Nth
  <2> DEFINE x == PowerOf2[b - a]
             y == Nth(t, k, b, p + 1)
             z == Nth(t, k, a, p)
  <2>3. x = 1 /\ ta1 = tb1 /\ ka1 = kb1 /\ y = 2 * kb1 + ((p + 1) - tb1 - 1) /\ z = 2 * ka1 + (p - ta1 - 1)
    BY <2>1, <2>2
  <2> HIDE DEF ta, tb, ta1, ka1, tb1, kb1, ka, ba, x, y, z
  <2>4. y = (z + 1) * x
    BY <1>3, <2>3
  <2> QED
    BY <1>4, <2>4 DEF x, y, z
<1>6. CASE a < b
  <2>1. a <= b - 1 /\ b - a \in 1..MAX_CLEN /\ (b - a) - 1 = (b - 1) - a /\ (b - 1) - a \in 0..MAX_CLEN
    BY <1>0, <1>6
  <2>2. ta <= tb1 /\ ((\A l \in a + 1..b - 1 : bits[l] = 0) <=> ta = tb1)
    BY <1>0, <1>1, <2>1 DEF Grows
  <2>3. ta = p /\ tb1 = p
    <3> HIDE DEF ta, tb, ta1, tb1, ka, ka1, kb1, ba
    <3> QED
      BY <1>3, <2>2
  <2>4. kb1 = ka * PowerOf2[(b - 1) - a]
    BY <1>0, <1>2, <2>1, <2>2, <2>3 DEF Doubles
  <2>5. PowerOf2[b - a] = 2 * PowerOf2[(b - 1) - a] /\ PowerOf2[(b - 1) - a] \in Nat
    BY <2>1, PowerSolved
  <2>6. Nth(t, k, b, p + 1) = 2 * kb1 + ((p + 1) - tb1 - 1) /\ Nth(t, k, a, p) = 2 * ka1 + (p - ta1 - 1)
    BY DEF Nth
  <2> DEFINE x == PowerOf2[(b - 1) - a]
  <2> HIDE DEF ta, tb, ta1, tb1, ka, ka1, kb1, ba, x
  <2>7. Nth(t, k, b, p + 1) = 2 * kb1 /\ Nth(t, k, a, p) + 1 = ka
    BY <1>3, <2>3, <2>6
  <2>8. \A y, z \in Nat : 2 * (y * z) = y * (2 * z)
    OBVIOUS
  <2>9. 2 * (ka * x) = ka * (2 * x)
    BY <1>3, <2>5, <2>8 DEF x
  <2> QED
    BY <1>4, <2>4, <2>5, <2>7, <2>9 DEF x
<1> QED
  BY <1>0, <1>4, <1>5, <1>6

\* No code is as great as the number of strings that begin with codes.
IsBelow(x, y) == x \in Nat /\ x + 1 <= y
LEMMA CodeBelow ==
  ASSUME NEW m \in Nat, NEW bits, \A l \in 1..m : bits[l] \in Nat,
         NEW t \in [0..m -> Nat], IsTotal(t, 0, bits, m), NEW k \in [0..m -> Nat], IsKraft(k, 0, bits, m),
         NEW p \in Nat, NEW a \in Nat \ {0}, a <= m, At(t, a, p)
  PROVE  IsBelow(Nth(t, k, a, p), k[a])
<1>0. a \in 1..m /\ a \in 0..m /\ a - 1 \in 0..m
  OBVIOUS
<1> DEFINE ta == t[a]
           ta1 == t[a - 1]
           ka == k[a]
           ka1 == k[a - 1]
           ba == bits[a]
<1>1. /\ ta \in Nat /\ ta1 \in Nat /\ ka \in Nat /\ ka1 \in Nat /\ ba \in Nat
      /\ ta = ta1 + ba /\ ka = 2 * ka1 + ba /\ ta1 < p /\ p <= ta
      /\ Nth(t, k, a, p) = 2 * ka1 + (p - ta1 - 1)
  BY <1>0 DEF IsTotal, IsKraft, At, Nth
<1>2. Nth(t, k, a, p) \in Nat /\ Nth(t, k, a, p) + 1 <= ka
  <2> HIDE DEF ta, ta1, ka, ka1, ba
  <2> QED
    BY <1>1
<1> QED
  BY <1>2 DEF IsBelow

\* The lengths of n codes, by position.
Sized(size, t, m, n) ==
  /\ size = [p \in 1..n |-> size[p]]
  /\ \A p \in 1..n : size[p] \in 1..m /\ At(t, size[p], p)

\* huffsize has the lengths in their order.
LEMMA SizeIsSized ==
  ASSUME NEW tbl, tbl.bits \in [1..MaxCodeLength -> Nat],
         NEW t \in [0..MaxCodeLength -> Nat], IsTotal(t, 0, tbl.bits, MaxCodeLength)
  PROVE  Sized(SizeOf(tbl), t, MaxCodeLength, t[MaxCodeLength])
<1> DEFINE m == MaxCodeLength
           u == Upto(tbl.bits)
           J(p) == {l \in 1..m : p <= u[l]}
           size == [p \in 1..u[m] |-> Min(J(p))]
<1>0. m \in Nat \ {0} /\ m \in 0..m /\ m \in 1..m
  BY LengthsAssumption
<1>1. SizeOf(tbl) = size
  BY DEF SizeOf
<1>2. u \in [0..m -> Nat] /\ IsTotal(u, 0, tbl.bits, m)
  BY UptoIsTotal
<1>t. t \in [0..m -> Nat] /\ IsTotal(t, 0, tbl.bits, m)
  OBVIOUS
<1> HIDE DEF u, m
<1>3. SameTo(t, u, m)
  BY <1>0, <1>2, <1>t, TotalUnique
<1>4. u = t
  <2> DEFINE D == 0..m
  <2>1. u \in [D -> Nat] /\ t \in [D -> Nat] /\ \A l \in D : t[l] = u[l]
    BY <1>2, <1>3, <1>t DEF SameTo
  <2> HIDE DEF D
  <2>2. u = [l \in D |-> u[l]] /\ t = [l \in D |-> t[l]]
    BY <2>1
  <2>3. [l \in D |-> u[l]] = [l \in D |-> t[l]]
    BY <2>1
  <2> QED
    BY <2>2, <2>3, Zenon
<1> USE DEF m
<1>5. ASSUME NEW p \in 1..u[m]
      PROVE  Min(J(p)) \in 1..m /\ At(t, Min(J(p)), p)
  <2>1. J(p) \subseteq Nat /\ J(p) # {}
    BY <1>0
  <2> DEFINE s == Min(J(p))
  <2>2. s \in J(p) /\ \A y \in J(p) : s <= y
    <3> HIDE DEF J
    <3> QED
      BY <2>1, MinIsLeast
  <2>3. s \in 1..m /\ p <= u[s] /\ \A y \in 1..m : p <= u[y] => s <= y
    <3> HIDE DEF s
    <3> QED
      BY <2>2
  <2> HIDE DEF s
  <2>4. u[s - 1] < p
    <3>1. CASE s = 1
      <4>1. u[0] = 0
        BY <1>2 DEF IsTotal
      <4> QED
        BY <3>1, <4>1
    <3>2. CASE s # 1
      <4>1. s - 1 \in 1..m /\ ~ s <= s - 1 /\ u[s - 1] \in Nat
        BY <1>0, <1>2, <2>3, <3>2
      <4>2. ~ p <= u[s - 1]
        BY <2>3, <4>1
      <4>3. p \in Nat
        OBVIOUS
      <4> QED
        BY <4>1, <4>2, <4>3
    <3> QED
      BY <3>1, <3>2
  <2>5. s \in 1..m /\ At(t, s, p)
    BY <1>4, <2>3, <2>4 DEF At
  <2> QED
    BY <2>5 DEF s
<1>6. \A p \in 1..u[m] : size[p] = Min(J(p))
  <2> HIDE DEF J
  <2> QED
    OBVIOUS
<1>7. size = [p \in 1..u[m] |-> size[p]]
  <2> HIDE DEF J
  <2> QED
    OBVIOUS
<1> HIDE DEF size, m
<1>8. Sized(size, t, m, u[m])
  BY <1>5, <1>6, <1>7 DEF Sized
<1> QED
  BY <1>1, <1>4, <1>8 DEF m

Coded(code, size, t, k, n) ==
  /\ code = [p \in 1..n |-> code[p]]
  /\ \A p \in 1..n : code[p] = Nth(t, k, size[p], p)

\* huffcode has the codes in the order of their lengths.
LEMMA CodeIsNth ==
  ASSUME NEW m \in Nat, m <= MAX_CLEN, NEW bits, \A l \in 1..m : bits[l] \in Nat,
         NEW t \in [0..m -> Nat], IsTotal(t, 0, bits, m), NEW k \in [0..m -> Nat], IsKraft(k, 0, bits, m),
         NEW n \in Nat, NEW size, Sized(size, t, m, n)
  PROVE  Coded(CodeOf(size), size, t, k, n)
<1> DEFINE c(p) == Nth(t, k, size[p], p)
           f == [p \in 1..n |-> c(p)]
           Solves(g) == g = [p \in DOMAIN size |->
                              IF p = 1 THEN 0 ELSE (g[p - 1] + 1) * PowerOf2[size[p] - size[p - 1]]]
           h == CHOOSE g : Solves(g)
<1>0. DOMAIN size = 1..n
  BY Zenon DEF Sized
<1>1. \A p \in 1..n : size[p] \in 1..m /\ size[p] \in Nat \ {0} /\ size[p] <= m /\ At(t, size[p], p)
  BY DEF Sized
<1>2. 1 \in 1..n => c(1) = 0
  <2> SUFFICES ASSUME 1 \in 1..n
               PROVE  c(1) = 0
    OBVIOUS
  <2> DEFINE a == size[1]
  <2>1. a \in Nat \ {0} /\ a <= m /\ At(t, a, 1)
    BY <1>1
  <2> HIDE DEF a
  <2>2. a - 1 \in Nat /\ a - 1 <= m /\ 0 <= a - 1 /\ a - 1 \in 0..m /\ (a - 1) - 0 = a - 1 /\ a - 1 \in 0..MAX_CLEN
        /\ 0 \in Nat
    BY <2>1, LengthsAssumption
  <2>3. t[0] = 0 /\ k[0] = 0
    BY DEF IsTotal, IsKraft
  <2>4. t[a - 1] = 0
    BY <2>1, <2>2 DEF At
  <2>5. \A l \in 0 + 1..a - 1 : bits[l] = 0
    <3>1. Grows(t, bits, m)
      BY TotalOverGap
    <3> QED
      BY <2>2, <2>3, <2>4, <3>1 DEF Grows
  <2>6. k[a - 1] = 0 * PowerOf2[a - 1]
    <3>1. Doubles(k, bits, m)
      BY KraftOverGap
    <3>2. k[a - 1] = k[0] * PowerOf2[(a - 1) - 0]
      BY <2>2, <2>5, <3>1 DEF Doubles
    <3> QED
      BY <2>2, <2>3, <3>2
  <2>7. PowerOf2[a - 1] \in Nat
    BY <2>2, PowerSolved
  <2>8. k[a - 1] = 0
    BY <2>6, <2>7
  <2>9. Nth(t, k, a, 1) = 0
    BY <2>4, <2>8 DEF Nth
  <2> QED
    BY <2>9 DEF a
<1>3. ASSUME NEW p \in 1..n, p # 1
      PROVE  c(p) = (c(p - 1) + 1) * PowerOf2[size[p] - size[p - 1]]
  <2> DEFINE q == p - 1
             a == size[q]
             b == size[p]
  <2>1. q \in 1..n /\ q \in Nat /\ q + 1 = p
    BY <1>3
  <2> HIDE DEF q
  <2>2. a \in Nat \ {0} /\ a <= m /\ At(t, a, q) /\ b \in Nat \ {0} /\ b <= m /\ At(t, b, q + 1)
    BY <1>1, <2>1
  <2> HIDE DEF a, b
  <2>3. Follows(t, k, a, b, q)
    BY <2>1, <2>2, CodeStep
  <2>4. Nth(t, k, b, q + 1) = (Nth(t, k, a, q) + 1) * PowerOf2[b - a]
    BY <2>3 DEF Follows
  <2> QED
    BY <2>1, <2>4 DEF a, b, q
<1>4. \A p \in 1..n : p = 1 \/ p - 1 \in 1..n
  OBVIOUS
<1> HIDE DEF c
<1>5. Solves(f)
  BY <1>0, <1>2, <1>3, <1>4
<1>6. Solves(h)
  <2> HIDE DEF Solves
  <2> QED
    BY <1>5
<1>7. CodeOf(size) = h
  BY DEF CodeOf
<1> HIDE DEF h
<1> DEFINE T == {q \in Nat : q + 1 <= n => h[q + 1] = c(q + 1)}
<1>8. 0 \in T
  <2>1. 1 <= n => 1 \in DOMAIN size
    BY <1>0
  <2>2. 1 <= n => h[1] = 0
    BY <1>6, <2>1
  <2> QED
    BY <1>2, <2>2
<1>9. ASSUME NEW q \in Nat, q \in T
      PROVE  q + 1 \in T
  <2> SUFFICES ASSUME (q + 1) + 1 <= n
               PROVE  h[(q + 1) + 1] = c((q + 1) + 1)
    OBVIOUS
  <2> DEFINE p == (q + 1) + 1
  <2>1. p \in 1..n /\ p # 1 /\ p - 1 = q + 1 /\ q + 1 \in 1..n /\ q + 1 <= n
    OBVIOUS
  <2>2. h[p - 1] = c(p - 1)
    BY <1>9, <2>1
  <2> HIDE DEF p
  <2>3. h[p] = (h[p - 1] + 1) * PowerOf2[size[p] - size[p - 1]]
    BY <1>0, <1>6, <2>1
  <2>4. h[p] = c(p)
    BY <1>3, <2>1, <2>2, <2>3
  <2> QED
    BY <2>4 DEF p
<1>10. \A p \in 1..n : h[p] = c(p)
  <2> SUFFICES ASSUME NEW p \in 1..n
               PROVE  h[p] = c(p)
    OBVIOUS
  <2>1. \A q \in Nat : q \in T
    <3> HIDE DEF T, Solves
    <3> QED
      BY <1>8, <1>9, SetInduction
  <2>2. p - 1 \in Nat /\ (p - 1) + 1 = p /\ p <= n
    OBVIOUS
  <2>3. p - 1 \in T
    BY <2>1, <2>2
  <2> HIDE DEF Solves
  <2> QED
    BY <2>2, <2>3
<1>11. h = [p \in 1..n |-> h[p]]
  BY <1>0, <1>6
<1> QED
  BY <1>7, <1>10, <1>11 DEF c, Coded

\* A number beyond the strings that begin with c does not begin with it.
LEMMA QuotientAbove ==
  ASSUME NEW x \in Nat, NEW c \in Nat, NEW d \in Nat \ {0}, x >= (c + 1) * d
  PROVE  x \div d # c
<1>1. x = (x \div d) * d + (x % d) /\ x % d < d /\ x \div d \in Nat /\ x % d \in Nat
  OBVIOUS
<1>2. (c + 1) * d = c * d + d /\ c * d \in Nat
  OBVIOUS
<1> SUFFICES ASSUME x \div d = c
             PROVE  FALSE
  OBVIOUS
<1>3. x = c * d + (x % d)
  BY <1>1
<1> DEFINE y == c * d
           z == (c + 1) * d
           r == x % d
<1>4. y \in Nat /\ r \in Nat /\ x = y + r /\ r < d /\ z = y + d /\ x >= z
  BY <1>1, <1>2, <1>3
<1> HIDE DEF y, z, r
<1> QED
  BY <1>4

\* The codes of a table that leaves a string unused: none is all ones, and none
\* begins another.
LEMMA CodesArePrefixFree ==
  ASSUME NEW n \in Nat, NEW tbl, HasRoom(tbl.bits, n)
  PROVE  PrefixFree(Codes(tbl)) /\ Len(Codes(tbl)) = n
<1> DEFINE m == MaxCodeLength
           bits == tbl.bits
           size == SizeOf(tbl)
           code == CodeOf(size)
<1>0. m \in Nat /\ m <= MAX_CLEN /\ MAX_CLEN \in Nat
  BY LengthsAssumption
<1>1. bits \in [1..m -> Nat]
  BY DEF HasRoom
<1>2. PICK t \in [0..m -> Nat] : IsTotal(t, 0, bits, m) /\ t[m] = n
  BY DEF HasRoom
<1>3. PICK k \in [0..m -> Nat] : IsKraft(k, 0, bits, m) /\ k[m] < PowerOf2[m]
  BY DEF HasRoom
<1>4. Sized(size, t, m, n)
  BY <1>1, <1>2, SizeIsSized
<1>5. \A l \in 1..m : bits[l] \in Nat
  BY <1>1
<1> HIDE DEF m, bits, size
<1>6. /\ \A p \in 1..n : code[p] = Nth(t, k, size[p], p)
      /\ code = [p \in 1..n |-> code[p]]
  <2>1. Coded(code, size, t, k, n)
    BY <1>0, <1>2, <1>3, <1>4, <1>5, CodeIsNth
  <2> HIDE DEF code
  <2> QED
    BY <2>1 DEF Coded
<1>7. DOMAIN size = 1..n
  BY <1>4, Zenon DEF Sized
<1>8. Codes(tbl) = [p \in 1..n |-> [size |-> size[p], code |-> code[p]]]
  BY <1>7 DEF Codes, size
<1>9. \A p \in 1..n : /\ size[p] \in 1..m /\ size[p] \in Nat \ {0} /\ size[p] <= m /\ At(t, size[p], p)
                      /\ size[p] \in 0..m /\ size[p] \in 0..MAX_CLEN
  BY <1>0, <1>4 DEF Sized
<1> HIDE DEF code
<1>10. \A l \in 0..m : k[l] < PowerOf2[l]
  BY <1>0, <1>3, <1>5, KraftBelow
<1>11. ASSUME NEW p \in 1..n
       PROVE  code[p] \in Nat /\ code[p] + 1 < PowerOf2[size[p]]
  <2> DEFINE a == size[p]
  <2>1. a \in Nat \ {0} /\ a <= m /\ At(t, a, p) /\ a \in 0..m /\ a \in 0..MAX_CLEN
    BY <1>9
  <2>2. code[p] = Nth(t, k, a, p)
    BY <1>6
  <2> HIDE DEF a
  <2>3. Nth(t, k, a, p) \in Nat /\ Nth(t, k, a, p) + 1 <= k[a]
    <3>1. p \in Nat
      OBVIOUS
    <3>2. IsBelow(Nth(t, k, a, p), k[a])
      BY <1>0, <1>2, <1>3, <1>5, <2>1, <3>1, CodeBelow
    <3> QED
      BY <3>2 DEF IsBelow
  <2>4. k[a] < PowerOf2[a] /\ k[a] \in Nat /\ PowerOf2[a] \in Nat
    BY <1>10, <2>1, PowerSolved
  <2> QED
    BY <2>2, <2>3, <2>4 DEF a
<1>12. ASSUME NEW p \in 1..n, p + 1 \in 1..n
       PROVE  size[p] <= size[p + 1] /\ code[p + 1] = (code[p] + 1) * PowerOf2[size[p + 1] - size[p]]
  <2> DEFINE a == size[p]
             b == size[p + 1]
  <2>1. a \in Nat \ {0} /\ a <= m /\ At(t, a, p) /\ b \in Nat \ {0} /\ b <= m /\ At(t, b, p + 1)
    BY <1>9, <1>12
  <2>2. code[p] = Nth(t, k, a, p) /\ code[p + 1] = Nth(t, k, b, p + 1)
    BY <1>6, <1>12
  <2> HIDE DEF a, b
  <2>3. Follows(t, k, a, b, p)
    <3>1. p \in Nat
      OBVIOUS
    <3> QED
      BY <1>0, <1>2, <1>3, <1>5, <2>1, <3>1, CodeStep
  <2>4. a <= b /\ Nth(t, k, b, p + 1) = (Nth(t, k, a, p) + 1) * PowerOf2[b - a]
    BY <2>3 DEF Follows
  <2> QED
    BY <2>2, <2>4 DEF a, b
<1>13. ASSUME NEW p \in 1..n
       PROVE  \A q \in p + 1..n : /\ size[p] <= size[q]
                                  /\ code[q] >= (code[p] + 1) * PowerOf2[size[q] - size[p]]
  <2> DEFINE Above(q) == size[p] <= size[q] /\ code[q] >= (code[p] + 1) * PowerOf2[size[q] - size[p]]
             T == {d \in Nat : p + 1 + d <= n => Above(p + 1 + d)}
  <2>1. 0 \in T
    <3> SUFFICES ASSUME p + 1 <= n
                 PROVE  Above(p + 1)
      OBVIOUS
    <3>1. p + 1 \in 1..n
      OBVIOUS
    <3>2. code[p + 1] \in Nat
      BY <1>11, <3>1
    <3> QED
      BY <1>12, <3>1, <3>2
  <2>2. ASSUME NEW d \in Nat, d \in T
        PROVE  d + 1 \in T
    <3> SUFFICES ASSUME p + 1 + (d + 1) <= n
                 PROVE  Above(p + 1 + (d + 1))
      OBVIOUS
    <3> DEFINE q == p + 1 + d
               a == size[p]
               b == size[q]
               e == size[q + 1]
               x == PowerOf2[b - a]
               y == PowerOf2[e - b]
               z == PowerOf2[e - a]
               cp == code[p]
               cq == code[q]
               ce == code[q + 1]
    <3>1. q \in 1..n /\ q + 1 \in 1..n /\ q <= n /\ q + 1 = p + 1 + (d + 1)
      OBVIOUS
    <3>2. a <= b /\ cq >= (cp + 1) * x
      BY <2>2, <3>1
    <3>3. b <= e /\ ce = (cq + 1) * y
      BY <1>12, <3>1
    <3>4. a \in Nat /\ b \in Nat /\ e \in Nat /\ e <= m /\ cp \in Nat /\ cq \in Nat
      BY <1>9, <1>11, <3>1
    <3>5. b - a \in Nat /\ e - b \in Nat /\ (b - a) + (e - b) = e - a /\ (b - a) + (e - b) <= MAX_CLEN
          /\ b - a \in 0..MAX_CLEN /\ e - b \in 0..MAX_CLEN
      <4> HIDE DEF a, b, e
      <4> QED
        BY <1>0, <3>2, <3>3, <3>4
    <3>6. z = x * y
      <4> HIDE DEF a, b, e
      <4> QED
        BY <3>5, PowerOfSum
    <3>7. x \in Nat /\ y \in Nat
      <4> HIDE DEF a, b, e
      <4> QED
        BY <3>5, PowerSolved
    <3> HIDE DEF a, b, e, x, y, z, cp, cq, ce
    <3>8. ce >= (cp + 1) * z
      <4>1. \A u, v, w \in Nat : u >= v => (u + 1) * w >= v * w
        OBVIOUS
      <4>2. (cp + 1) * x \in Nat /\ ((cp + 1) * x) * y = (cp + 1) * (x * y)
        BY <3>4, <3>7
      <4>3. (cq + 1) * y >= ((cp + 1) * x) * y
        BY <3>2, <3>4, <3>7, <4>1, <4>2
      <4> QED
        BY <3>3, <3>6, <4>2, <4>3
    <3>9. a <= e
      BY <3>2, <3>3, <3>4
    <3> QED
      BY <3>1, <3>8, <3>9 DEF a, e, z, cp, ce
  <2>3. \A d \in Nat : d \in T
    <3> HIDE DEF T
    <3> QED
      BY <2>1, <2>2, SetInduction
  <2> SUFFICES ASSUME NEW q \in p + 1..n
               PROVE  Above(q)
    OBVIOUS
  <2>4. q - (p + 1) \in Nat /\ p + 1 + (q - (p + 1)) = q /\ q <= n
    OBVIOUS
  <2>5. q - (p + 1) \in T
    <3> HIDE DEF T
    <3> QED
      BY <2>3, <2>4
  <2> HIDE DEF Above
  <2> QED
    BY <2>4, <2>5
<1>14. /\ DOMAIN Codes(tbl) = 1..n /\ Len(Codes(tbl)) = n
       /\ \A p \in 1..n : Codes(tbl)[p].size = size[p] /\ Codes(tbl)[p].code = code[p]
  BY <1>8
<1>15. ASSUME NEW p \in 1..n, NEW q \in p + 1..n
       PROVE  code[q] \div PowerOf2[size[q] - size[p]] # code[p]
  <2> DEFINE a == size[p]
             b == size[q]
             c == code[p]
             x == code[q]
             d == PowerOf2[b - a]
  <2>1. q \in 1..n
    OBVIOUS
  <2>2. a <= b /\ x >= (c + 1) * d
    BY <1>13
  <2>3. a \in 0..MAX_CLEN /\ b \in 0..MAX_CLEN /\ c \in Nat /\ x \in Nat
    BY <1>9, <1>11, <2>1
  <2> HIDE DEF a, b, c, x
  <2>4. d \in Nat \ {0}
    <3>1. b - a \in 0..MAX_CLEN
      BY <1>0, <2>2, <2>3
    <3> QED
      BY <3>1, PowerPositive
  <2> HIDE DEF d
  <2>5. x \div d # c
    BY <2>2, <2>3, <2>4, QuotientAbove
  <2> QED
    BY <2>5 DEF a, b, c, x, d
<1>16. PrefixFree(Codes(tbl))
  BY <1>11, <1>14, <1>15 DEF PrefixFree
<1> QED
  BY <1>14, <1>16

-----------------------------------------------------------------------------
(* Huffman's algorithm *)

\* The rarest of some trees is one of them.
LEMMA RarestIsOne ==
  ASSUME NEW S, NEW freq \in [S -> Nat], NEW among, among \subseteq S, among \subseteq Nat, among # {},
         NEW u \in Nat, \A y \in among : y <= u
  PROVE  Rarest(freq, among) \in among
<1> DEFINE F == {freq[i] : i \in among}
           J == {i \in among : \A j \in among : freq[i] <= freq[j]}
<1>1. F \subseteq Nat /\ F # {}
  OBVIOUS
<1>2. PICK x \in F : \A y \in F : x <= y
  <2> HIDE DEF F
  <2> QED
    BY <1>1, LeastNumber
<1>3. J # {}
  BY <1>2
<1>4. J \subseteq Nat /\ \A y \in J : y <= u
  OBVIOUS
<1>5. Max(J) \in J
  <2> HIDE DEF J
  <2> QED
    BY <1>3, <1>4, MaxIsGreatest
<1>6. Rarest(freq, among) = Max(J)
  BY DEF Rarest
<1>7. \A i \in J : i \in among
  OBVIOUS
<1> QED
  BY <1>5, <1>6, <1>7, Zenon

\* The codes of the symbols in R use all strings of bits up: however long strings
\* are considered, as many as there are begin with a code.
Level(R, codesize, l) == Cardinality({i \in R : codesize[i] = l})
IsFull(R, codesize) ==
  \A h \in Nat :
    h <= MAX_CLEN /\ (\A i \in R : codesize[i] <= h) =>
      \E k \in [0..h -> Nat] :
        /\ k[0] = Level(R, codesize, 0)
        /\ \A l \in 1..h : k[l] = 2 * k[l - 1] + Level(R, codesize, l)
        /\ k[h] = PowerOf2[h]

\* They do so with one symbol, which gets the empty code.
LEMMA LeafIsFull ==
  ASSUME NEW i, NEW codesize, codesize[i] = 0
  PROVE  IsFull({i}, codesize)
<1> SUFFICES ASSUME NEW h \in Nat, h <= MAX_CLEN
             PROVE  \E k \in [0..h -> Nat] :
                      /\ k[0] = Level({i}, codesize, 0)
                      /\ \A l \in 1..h : k[l] = 2 * k[l - 1] + Level({i}, codesize, l)
                      /\ k[h] = PowerOf2[h]
  BY DEF IsFull
<1> DEFINE k == [l \in 0..h |-> PowerOf2[l]]
<1>0. MAX_CLEN \in Nat /\ h \in 0..h /\ 0 \in 0..h /\ \A l \in 1..h : l \in 0..h /\ l - 1 \in 0..h /\ l \in 1..MAX_CLEN /\ l # 0
  BY LengthsAssumption
<1>1. \A l \in 0..h : PowerOf2[l] \in Nat
  BY <1>0, PowerSolved
<1>2. Level({i}, codesize, 0) = 1
  <2>1. {x \in {i} : codesize[x] = 0} = {i}
    OBVIOUS
  <2> QED
    BY <2>1, FS_Singleton DEF Level
<1>3. \A l \in 1..h : Level({i}, codesize, l) = 0
  <2>1. \A l \in 1..h : {x \in {i} : codesize[x] = l} = {}
    BY <1>0
  <2> QED
    BY <2>1, FS_EmptySet DEF Level
<1>4. k \in [0..h -> Nat] /\ \A l \in 0..h : k[l] = PowerOf2[l]
  BY <1>1
<1> HIDE DEF k
<1>5. k[0] = Level({i}, codesize, 0) /\ k[h] = PowerOf2[h]
  BY <1>0, <1>2, <1>4, PowerSolved
<1>6. ASSUME NEW l \in 1..h
      PROVE  k[l] = 2 * k[l - 1] + Level({i}, codesize, l)
  <2>1. l \in 0..h /\ l - 1 \in 0..h /\ l \in 1..MAX_CLEN
    BY <1>0
  <2>2. k[l] = 2 * k[l - 1] /\ k[l - 1] \in Nat
    BY <1>1, <1>4, <2>1, PowerSolved
  <2>3. Level({i}, codesize, l) = 0
    BY <1>3
  <2> QED
    BY <2>2, <2>3
<1> QED
  BY <1>4, <1>5, <1>6, Zenon

\* And still do when two such trees become one.
LEMMA JoinIsFull ==
  ASSUME NEW R1, NEW R2, IsFiniteSet(R1), IsFiniteSet(R2), R1 \cap R2 = {}, R1 # {},
         NEW c, \A i \in R1 \cup R2 : c[i] \in Nat,
         IsFull(R1, c), IsFull(R2, c),
         NEW d, \A i \in R1 \cup R2 : d[i] = c[i] + 1
  PROVE  IsFull(R1 \cup R2, d)
<1> DEFINE R == R1 \cup R2
<1> SUFFICES ASSUME NEW h \in Nat, h <= MAX_CLEN, \A i \in R : d[i] <= h
             PROVE  \E k \in [0..h -> Nat] :
                      /\ k[0] = Level(R, d, 0)
                      /\ \A l \in 1..h : k[l] = 2 * k[l - 1] + Level(R, d, l)
                      /\ k[h] = PowerOf2[h]
  BY DEF IsFull
<1> DEFINE g == h - 1
<1>0. MAX_CLEN \in Nat /\ h # 0 /\ g \in Nat /\ g <= MAX_CLEN /\ h \in 1..MAX_CLEN /\ \A i \in R : c[i] <= g
  BY LengthsAssumption
<1>1. PICK k1 \in [0..g -> Nat] :
        /\ k1[0] = Level(R1, c, 0)
        /\ \A l \in 1..g : k1[l] = 2 * k1[l - 1] + Level(R1, c, l)
        /\ k1[g] = PowerOf2[g]
  <2> HIDE DEF g
  <2> QED
    BY <1>0 DEF IsFull
<1>2. PICK k2 \in [0..g -> Nat] :
        /\ k2[0] = Level(R2, c, 0)
        /\ \A l \in 1..g : k2[l] = 2 * k2[l - 1] + Level(R2, c, l)
        /\ k2[g] = PowerOf2[g]
  <2> HIDE DEF g
  <2> QED
    BY <1>0 DEF IsFull
<1>3. ASSUME NEW l \in Nat
      PROVE  /\ Level(R, d, l + 1) = Level(R1, c, l) + Level(R2, c, l)
             /\ Level(R1, c, l) \in Nat /\ Level(R2, c, l) \in Nat
  <2> DEFINE L1 == {i \in R1 : c[i] = l}
             L2 == {i \in R2 : c[i] = l}
  <2>1. {i \in R : d[i] = l + 1} = L1 \cup L2
    <3>1. ASSUME NEW i \in R
          PROVE  d[i] = l + 1 <=> c[i] = l
      <4>1. d[i] = c[i] + 1 /\ c[i] \in Nat
        OBVIOUS
      <4> QED
        BY <4>1
    <3>2. L1 \cup L2 = {i \in R : c[i] = l}
      OBVIOUS
    <3> HIDE DEF R, L1, L2
    <3> QED
      BY <3>1, <3>2
  <2>2. L1 \subseteq R1 /\ L2 \subseteq R2 /\ L1 \cap L2 = {}
    OBVIOUS
  <2> HIDE DEF L1, L2
  <2>3. IsFiniteSet(L1) /\ IsFiniteSet(L2)
    BY <2>2, FS_Subset
  <2>4. Cardinality(L1) \in Nat /\ Cardinality(L2) \in Nat
    BY <2>3, FS_CardinalityType
  <2>5. Cardinality(L1 \cup L2) = Cardinality(L1) + Cardinality(L2) - Cardinality(L1 \cap L2)
    BY <2>3, FS_Union
  <2>6. Cardinality(L1 \cap L2) = 0
    BY <2>2, FS_EmptySet
  <2>7. Cardinality(L1 \cup L2) = Cardinality(L1) + Cardinality(L2)
    BY <2>4, <2>5, <2>6
  <2> QED
    BY <2>1, <2>4, <2>7 DEF Level, L1, L2
<1>4. Level(R, d, 0) = 0
  <2>1. {i \in R : d[i] = 0} = {}
    OBVIOUS
  <2> QED
    BY <2>1, FS_EmptySet DEF Level
<1> DEFINE k == [l \in 0..h |-> IF l = 0 THEN 0 ELSE k1[l - 1] + k2[l - 1]]
<1>5. \A l \in 0..g : k1[l] \in Nat /\ k2[l] \in Nat
  OBVIOUS
<1>6. \A l \in 1..h : l - 1 \in 0..g /\ l \in 0..h /\ l # 0 /\ l - 1 \in 0..h /\ (l - 1 # 0 => l - 1 \in 1..g /\ (l - 1) - 1 \in 0..g)
                      /\ l - 1 \in Nat /\ (l - 1) + 1 = l
  BY <1>0
<1>7. k \in [0..h -> Nat]
  BY <1>5, <1>6
<1>8. k[0] = 0 /\ \A l \in 1..h : k[l] = k1[l - 1] + k2[l - 1]
  BY <1>6
<1> HIDE DEF k, R
<1>9. ASSUME NEW l \in 1..h
      PROVE  k[l] = 2 * k[l - 1] + Level(R, d, l)
  <2> DEFINE e == l - 1
  <2>1. k[l] = k1[e] + k2[e] /\ e \in 0..g /\ e \in Nat /\ e + 1 = l
    BY <1>6, <1>8
  <2>2. Level(R, d, l) = Level(R1, c, e) + Level(R2, c, e) /\ Level(R1, c, e) \in Nat /\ Level(R2, c, e) \in Nat
    <3> HIDE DEF e
    <3> QED
      BY <1>3, <2>1
  <2>3. CASE e = 0
    BY <1>1, <1>2, <1>8, <2>1, <2>2, <2>3
  <2>4. CASE e # 0
    <3>1. e \in 1..g /\ e - 1 \in 0..g /\ e \in 1..h
      BY <1>6, <2>4
    <3> HIDE DEF e, g
    <3>2. k1[e] = 2 * k1[e - 1] + Level(R1, c, e) /\ k2[e] = 2 * k2[e - 1] + Level(R2, c, e)
      BY <1>1, <1>2, <3>1
    <3>3. k[e] = k1[e - 1] + k2[e - 1] /\ k1[e - 1] \in Nat /\ k2[e - 1] \in Nat
      BY <1>5, <1>8, <3>1
    <3>4. k[l] = 2 * k[e] + Level(R, d, l)
      <4> DEFINE x1 == k1[e - 1]
                 x2 == k2[e - 1]
                 l1 == Level(R1, c, e)
                 l2 == Level(R2, c, e)
      <4>1. k[l] = (2 * x1 + l1) + (2 * x2 + l2) /\ k[e] = x1 + x2 /\ Level(R, d, l) = l1 + l2
        BY <2>1, <2>2, <3>2, <3>3
      <4>2. x1 \in Nat /\ x2 \in Nat /\ l1 \in Nat /\ l2 \in Nat
        BY <2>2, <3>3
      <4> HIDE DEF x1, x2, l1, l2
      <4> QED
        BY <4>1, <4>2
    <3> QED
      BY <3>4 DEF e
  <2> QED
    BY <2>3, <2>4
<1>10. k[h] = PowerOf2[h]
  <2>1. h \in 1..h /\ g \in 0..MAX_CLEN
    BY <1>0
  <2>2. k[h] = k1[g] + k2[g]
    BY <1>8, <2>1
  <2>3. PowerOf2[h] = 2 * PowerOf2[g] /\ PowerOf2[g] \in Nat
    <3>1. h \in 1..MAX_CLEN /\ g = h - 1
      BY <1>0
    <3> HIDE DEF g
    <3> QED
      BY <2>1, <3>1, PowerSolved
  <2> QED
    BY <1>1, <1>2, <2>2, <2>3
<1> QED
  <2>1. /\ k[0] = Level(R, d, 0)
        /\ \A l \in 1..h : k[l] = 2 * k[l - 1] + Level(R, d, l)
        /\ k[h] = PowerOf2[h]
    BY <1>4, <1>8, <1>9, <1>10
  <2> QED
    BY <1>7, <2>1, Zenon DEF R

\* Only the lengths of its own symbols matter to a tree.
LEMMA SameIsFull ==
  ASSUME NEW R, NEW c, NEW d, \A i \in R : d[i] = c[i], IsFull(R, c)
  PROVE  IsFull(R, d)
<1>1. \A l : Level(R, d, l) = Level(R, c, l)
  <2> SUFFICES ASSUME NEW l
               PROVE  {i \in R : d[i] = l} = {i \in R : c[i] = l}
    BY DEF Level
  <2> QED
    OBVIOUS
<1>2. \A h : (\A i \in R : d[i] <= h) => \A i \in R : c[i] <= h
  OBVIOUS
<1> SUFFICES ASSUME NEW h \in Nat, h <= MAX_CLEN, \A i \in R : d[i] <= h
             PROVE  \E k \in [0..h -> Nat] :
                      /\ k[0] = Level(R, d, 0)
                      /\ \A l \in 1..h : k[l] = 2 * k[l - 1] + Level(R, d, l)
                      /\ k[h] = PowerOf2[h]
  BY DEF IsFull
<1>3. PICK k \in [0..h -> Nat] :
        /\ k[0] = Level(R, c, 0)
        /\ \A l \in 1..h : k[l] = 2 * k[l - 1] + Level(R, c, l)
        /\ k[h] = PowerOf2[h]
  BY <1>2 DEF IsFull
<1>4. /\ k[0] = Level(R, d, 0)
      /\ \A l \in 1..h : k[l] = 2 * k[l - 1] + Level(R, d, l)
      /\ k[h] = PowerOf2[h]
  BY <1>1, <1>3
<1> QED
  BY <1>4, Zenon

\* The counted symbols U, of the symbols S, in n trees.
Members(t, U, r) == {i \in U : t.root[i] = r}
Forest(t, U, S, n) ==
  /\ t.freq \in [S -> Nat] /\ t.root \in [S -> S] /\ t.codesize \in [S -> Nat]
  /\ Trees(t.freq) \subseteq U /\ Cardinality(Trees(t.freq)) = n
  /\ \A i \in U : t.root[i] \in Trees(t.freq)
  /\ \A i \in S \ U : t.root[i] \notin U /\ t.codesize[i] = 0
  /\ \A r \in Trees(t.freq) : t.root[r] = r /\ IsFull(Members(t, U, r), t.codesize)
  /\ \A i, j \in U : t.codesize[i] = 0 /\ t.root[i] = t.root[j] => i = j

\* The two rarest trees become one.
LEMMA MergeForest ==
  ASSUME NEW S, S \subseteq Nat, NEW u \in Nat, \A y \in S : y <= u,
         NEW U, U \subseteq S, IsFiniteSet(U), NEW n \in Nat, n >= 2, NEW t, Forest(t, U, S, n)
  PROVE  Forest(Merge(t), U, S, n - 1)
<1> DEFINE T == Trees(t.freq)
           c1 == Rarest(t.freq, T)
           c2 == Rarest(t.freq, T \ {c1})
           v == Merge(t)
<1>1. /\ t.freq \in [S -> Nat] /\ t.root \in [S -> S] /\ t.codesize \in [S -> Nat]
      /\ T \subseteq U /\ Cardinality(T) = n
  BY DEF Forest
<1>2. /\ \A i \in U : t.root[i] \in T
      /\ \A i \in S \ U : t.root[i] \notin U /\ t.codesize[i] = 0
      /\ \A r \in T : t.root[r] = r /\ IsFull(Members(t, U, r), t.codesize)
      /\ \A i, j \in U : t.codesize[i] = 0 /\ t.root[i] = t.root[j] => i = j
  BY DEF Forest
<1>t. /\ v.freq = [t.freq EXCEPT ![c1] = @ + t.freq[c2], ![c2] = 0]
      /\ v.root = [i \in S |-> IF t.root[i] = c2 THEN c1 ELSE t.root[i]]
      /\ v.codesize = [i \in S |-> t.codesize[i] + IF t.root[i] \in {c1, c2} THEN 1 ELSE 0]
  <2>1. DOMAIN t.root = S /\ DOMAIN t.codesize = S
    BY <1>1
  <2> HIDE DEF c1, c2
  <2> QED
    BY <2>1 DEF Merge, c1, c2, T
<1>3. T = {i \in S : t.freq[i] > 0} /\ IsFiniteSet(T) /\ T \subseteq S
  <2>1. T = {i \in S : t.freq[i] > 0}
    BY <1>1 DEF Trees
  <2> HIDE DEF T
  <2> QED
    BY <1>1, <2>1, FS_Subset
<1> HIDE DEF T, v
<1>4. c1 \in T
  <2>1. T # {}
    BY <1>1, FS_EmptySet
  <2>2. T \subseteq Nat /\ \A y \in T : y <= u
    BY <1>3
  <2> QED
    BY <1>1, <1>3, <2>1, <2>2, RarestIsOne
<1> HIDE DEF c1
<1>5. c2 \in T /\ c2 # c1
  <2>1. Cardinality(T \ {c1}) = n - 1 /\ IsFiniteSet(T \ {c1})
    BY <1>1, <1>3, <1>4, FS_RemoveElement
  <2>2. T \ {c1} # {}
    BY <2>1, FS_EmptySet
  <2>3. T \ {c1} \subseteq Nat /\ (\A y \in T \ {c1} : y <= u) /\ T \ {c1} \subseteq S
    BY <1>3
  <2>4. c2 \in T \ {c1}
    BY <1>1, <2>2, <2>3, RarestIsOne
  <2> HIDE DEF c2
  <2> QED
    BY <2>4
<1> HIDE DEF c2
<1>6. /\ v.freq \in [S -> Nat] /\ v.freq[c1] = t.freq[c1] + t.freq[c2] /\ v.freq[c2] = 0
      /\ \A i \in S : i \notin {c1, c2} => v.freq[i] = t.freq[i]
  BY <1>1, <1>3, <1>4, <1>5, <1>t
<1>7. /\ v.root \in [S -> S] /\ v.codesize \in [S -> Nat]
      /\ \A i \in S : t.root[i] = c2 => v.root[i] = c1
      /\ \A i \in S : t.root[i] # c2 => v.root[i] = t.root[i]
      /\ \A i \in S : t.root[i] \in {c1, c2} => v.codesize[i] = t.codesize[i] + 1
      /\ \A i \in S : t.root[i] \notin {c1, c2} => v.codesize[i] = t.codesize[i]
  <2>1. c1 \in S
    BY <1>3, <1>4
  <2>2. \A i \in S : t.root[i] \in S /\ t.codesize[i] \in Nat
    BY <1>1
  <2> QED
    BY <1>t, <2>1, <2>2
<1>8. Trees(v.freq) = T \ {c2}
  <2>1. \A i \in S : v.freq[i] > 0 <=> t.freq[i] > 0 /\ i # c2
    <3>1. \A i \in S : t.freq[i] \in Nat
      BY <1>1
    <3>2. c1 \in S /\ c2 \in S /\ t.freq[c1] > 0
      BY <1>3, <1>4, <1>5
    <3>3. t.freq[c1] + t.freq[c2] > 0
      BY <3>1, <3>2
    <3> QED
      BY <1>5, <1>6, <3>2, <3>3
  <2>2. DOMAIN v.freq = S
    BY <1>6
  <2> QED
    BY <1>3, <2>1, <2>2 DEF Trees
<1> DEFINE W == T \ {c2}
<1>9. Cardinality(W) = n - 1 /\ W \subseteq U
  BY <1>1, <1>3, <1>5, FS_RemoveElement
<1>10. \A i \in U : v.root[i] \in W
  BY <1>2, <1>4, <1>5, <1>7
<1>11. \A i \in S \ U : v.root[i] \notin U /\ v.codesize[i] = 0
  BY <1>1, <1>2, <1>4, <1>5, <1>7
<1>12. \A r \in W : v.root[r] = r
  BY <1>2, <1>3, <1>7
<1>13. ASSUME NEW i \in U, NEW j \in U, v.codesize[i] = 0, v.root[i] = v.root[j]
       PROVE  i = j
  <2>1. i \in S /\ j \in S /\ t.codesize[i] \in Nat
    BY <1>1
  <2>2. t.root[i] \notin {c1, c2} /\ t.codesize[i] = 0
    BY <1>7, <1>13, <2>1
  <2>3. t.root[j] = t.root[i]
    BY <1>7, <1>13, <2>1, <2>2
  <2> QED
    BY <1>2, <2>2, <2>3
<1>14. IsFull(Members(v, U, c1), v.codesize)
  <2> DEFINE R1 == Members(t, U, c1)
             R2 == Members(t, U, c2)
  <2>1. Members(v, U, c1) = R1 \cup R2
    <3>1. \A i \in U : v.root[i] = c1 <=> t.root[i] = c1 \/ t.root[i] = c2
      BY <1>5, <1>7
    <3> QED
      BY <3>1 DEF Members
  <2>2. R1 \cap R2 = {} /\ c1 \in R1 /\ R1 \subseteq U /\ R2 \subseteq U
    <3>1. t.root[c1] = c1 /\ c1 \in U
      BY <1>1, <1>2, <1>4
    <3> QED
      BY <1>5, <3>1 DEF Members
  <2>3. \A i \in R1 \cup R2 : t.root[i] \in {c1, c2} /\ i \in S
    BY DEF Members
  <2>4. IsFull(R1, t.codesize) /\ IsFull(R2, t.codesize)
    BY <1>2, <1>4, <1>5
  <2> DEFINE c == t.codesize
             d == v.codesize
  <2> HIDE DEF R1, R2
  <2>5. \A i \in R1 \cup R2 : c[i] \in Nat /\ d[i] = c[i] + 1
    BY <1>1, <1>7, <2>3
  <2>6. IsFiniteSet(R1) /\ IsFiniteSet(R2)
    BY <2>2, FS_Subset
  <2> HIDE DEF c, d
  <2>7. IsFull(R1 \cup R2, d)
    <3>1. R1 # {} /\ R1 \cap R2 = {}
      BY <2>2
    <3>2. IsFull(R1, c) /\ IsFull(R2, c)
      BY <2>4 DEF c
    <3> QED
      BY <2>5, <2>6, <3>1, <3>2, JoinIsFull
  <2> QED
    BY <2>1, <2>7 DEF d
<1>15. ASSUME NEW r \in W, r # c1
       PROVE  IsFull(Members(v, U, r), v.codesize)
  <2> DEFINE R == Members(t, U, r)
             c == t.codesize
             d == v.codesize
  <2>1. Members(v, U, r) = R
    <3>1. \A i \in U : v.root[i] = r <=> t.root[i] = r
      BY <1>7, <1>15
    <3> QED
      BY <3>1 DEF Members
  <2>2. \A i \in R : d[i] = c[i]
    BY <1>7, <1>15 DEF Members
  <2>3. IsFull(R, c)
    BY <1>2
  <2> HIDE DEF R, c, d
  <2>4. IsFull(R, d)
    BY <2>2, <2>3, SameIsFull
  <2> QED
    BY <2>1, <2>4 DEF d
<1>16. \A r \in W : v.root[r] = r /\ IsFull(Members(v, U, r), v.codesize)
  BY <1>12, <1>14, <1>15
<1> QED
  <2> HIDE DEF W
  <2>1. Trees(v.freq) = W
    BY <1>8 DEF W
  <2> QED
    BY <1>6, <1>7, <1>9, <1>10, <1>11, <1>13, <1>16, <2>1 DEF Forest, v

\* Each counted symbol, and the pseudo-symbol, is a tree at first.
LEMMA LeavesForest ==
  ASSUME NEW D, NEW counts \in [D -> Nat], IsFiniteSet(D)
  PROVE  LET U == Trees(Leaves(counts).freq)
         IN  /\ IsFiniteSet(U) /\ U \subseteq D \cup {PSEUDO} /\ PSEUDO \in U
             /\ \A i \in D : counts[i] > 0 => i \in U
             /\ Cardinality(U) \in Nat \ {0}
             /\ Forest(Leaves(counts), U, D \cup {PSEUDO}, Cardinality(U))
<1> DEFINE S == D \cup {PSEUDO}
           t == Leaves(counts)
           U == Trees(t.freq)
<1>1. /\ t.freq = [i \in S |-> IF i = PSEUDO THEN 1 ELSE counts[i]]
      /\ t.root = [i \in S |-> i] /\ t.codesize = [i \in S |-> 0]
  BY Zenon DEF Leaves
<1> HIDE DEF t, S
<1>2. t.freq \in [S -> Nat] /\ t.root \in [S -> S] /\ t.codesize \in [S -> Nat]
  BY <1>1 DEF S
<1>3. PSEUDO \in S /\ D \subseteq S /\ IsFiniteSet(S)
  BY FS_AddElement DEF S
<1>4. U = {i \in S : t.freq[i] > 0}
  BY <1>2 DEF Trees
<1> HIDE DEF U
<1>5. U \subseteq S /\ PSEUDO \in U /\ \A i \in D : counts[i] > 0 => i \in U
  BY <1>1, <1>3, <1>4
<1>6. IsFiniteSet(U)
  BY <1>3, <1>5, FS_Subset
<1>7. Cardinality(U) \in Nat \ {0}
  BY <1>5, <1>6, FS_CardinalityType, FS_EmptySet
<1>8. ASSUME NEW r \in U
      PROVE  t.root[r] = r /\ IsFull(Members(t, U, r), t.codesize)
  <2>1. t.root[r] = r /\ t.codesize[r] = 0
    BY <1>1, <1>5
  <2>2. Members(t, U, r) = {r}
    BY <1>1, <1>5 DEF Members
  <2>3. IsFull({r}, t.codesize)
    BY <2>1, LeafIsFull
  <2> QED
    BY <2>1, <2>2, <2>3
<1>9. \A i \in S : t.root[i] = i /\ t.codesize[i] = 0
  BY <1>1
<1>10. Forest(t, U, S, Cardinality(U))
  BY <1>2, <1>5, <1>8, <1>9 DEF Forest, U
<1> QED
  BY <1>5, <1>6, <1>7, <1>10 DEF U, t, S

\* All counted symbols end up in one tree.
LEMMA HuffmanForest ==
  ASSUME NEW D, NEW counts \in [D -> Nat], D \subseteq Nat, NEW u \in Nat, \A y \in D : y <= u, IsFiniteSet(D)
  PROVE  Forest(Huffman(counts), Trees(Leaves(counts).freq), D \cup {PSEUDO}, 1)
<1> DEFINE S == D \cup {PSEUDO}
           U == Trees(Leaves(counts).freq)
           first == Leaves(counts)
           size == Cardinality(U)
           m == Merges(counts)
           Q == [freq : [S -> Nat], root : [S -> S], codesize : [S -> Nat]]
           I == [k \in 0..m |-> {t \in Q : Forest(t, U, S, size - k)}]
           step == [k \in 1..m |-> [t \in Q |-> Merge(t)]]
           Solves(f) == f = [k \in 0..m |-> IF k = 0 THEN first ELSE Merge(f[k - 1])]
           h == CHOOSE f : Solves(f)
<1>0. /\ IsFiniteSet(U) /\ U \subseteq S /\ size \in Nat \ {0} /\ Forest(first, U, S, size)
  BY LeavesForest
<1>1. m = size - 1
  BY DEF Merges
<1>2. S \subseteq Nat /\ \E w \in Nat : \A y \in S : y <= w
  <2> DEFINE w == u + PSEUDO
  <2>1. w \in Nat /\ \A y \in S : y <= w
    BY DEF PSEUDO
  <2> HIDE DEF w
  <2>2. S \subseteq Nat
    BY DEF PSEUDO
  <2> QED
    BY <2>1, <2>2
<1>q. first \in Q
  BY Zenon DEF Leaves, Q
<1>r. ASSUME NEW t \in Q, NEW n, Forest(Merge(t), U, S, n)
      PROVE  Merge(t) \in Q
  <2>1. /\ Merge(t).freq \in [S -> Nat] /\ Merge(t).root \in [S -> S] /\ Merge(t).codesize \in [S -> Nat]
    BY <1>r DEF Forest
  <2>2. \E x, y, z : Merge(t) = [freq |-> x, root |-> y, codesize |-> z]
    BY Zenon DEF Merge
  <2> QED
    BY <2>1, <2>2
<1> HIDE DEF m, S, U, Q, first, size
<1>3. m \in Nat /\ \A k \in 1..m : k - 1 \in 0..m /\ k \in 0..m /\ k # 0
  BY <1>0, <1>1
<1>4. ASSUME NEW k \in 1..m, NEW t \in I[k - 1]
      PROVE  Merge(t) \in I[k]
  <2> DEFINE n == size - (k - 1)
  <2>1. n \in Nat /\ n >= 2 /\ n - 1 = size - k
    BY <1>0, <1>1
  <2>2. t \in Q /\ Forest(t, U, S, n)
    BY <1>3
  <2> HIDE DEF n
  <2>3. PICK w \in Nat : \A y \in S : y <= w
    BY <1>2
  <2>4. Forest(Merge(t), U, S, n - 1)
    BY <1>0, <1>2, <2>1, <2>2, <2>3, MergeForest
  <2>5. Merge(t) \in Q
    BY <1>r, <2>2, <2>4
  <2> QED
    BY <1>3, <2>1, <2>4, <2>5
<1>5. \A k \in 0..m : I[k] \subseteq Q
  OBVIOUS
<1>6. first \in I[0]
  <2>1. size - 0 = size /\ 0 \in 0..m
    BY <1>0, <1>3
  <2> QED
    BY <1>0, <1>q, <2>1
<1>7. \A k \in 1..m : \A t \in Q : step[k][t] = Merge(t)
  OBVIOUS
<1>8. \A t \in I[m] : Forest(t, U, S, 1)
  <2>1. size - m = 1 /\ m \in 0..m
    BY <1>0, <1>1, <1>3
  <2> QED
    BY <2>1
<1> HIDE DEF I, step
<1>9. PICK g : /\ g = [k \in 0..m |-> g[k]]
               /\ IsChain(g, first, m, step)
               /\ StaysIn(g, I, m)
  <2>1. \A k \in 1..m : \A t \in I[k - 1] : step[k][t] \in I[k]
    BY <1>3, <1>4, <1>5, <1>7
  <2> QED
    BY <1>3, <1>6, <2>1, ChainWithin
<1>10. Solves(g)
  <2>1. g[0] = first /\ \A k \in 1..m : g[k] = Merge(g[k - 1])
    BY <1>3, <1>5, <1>7, <1>9 DEF IsChain, StaysIn
  <2>2. \A k \in 0..m : k = 0 \/ k \in 1..m
    BY <1>3
  <2>3. \A k \in 0..m : g[k] = IF k = 0 THEN first ELSE Merge(g[k - 1])
    BY <2>1, <2>2
  <2> QED
    BY <1>9, <2>3
<1>11. Solves(h)
  <2> HIDE DEF Solves
  <2> QED
    BY <1>10
<1>12. Huffman(counts) = h[m]
  BY DEF Huffman, m, first
<1> HIDE DEF h
<1>13. h[0] = first /\ \A k \in 1..m : h[k] = Merge(h[k - 1])
  <2>1. 0 \in 0..m
    BY <1>3
  <2> QED
    BY <1>3, <1>11, <2>1
<1>14. StaysIn(h, I, m)
  <2>1. \A k \in 1..m : h[k - 1] \in I[k - 1] => h[k] \in I[k]
    BY <1>4, <1>13
  <2>2. h[0] \in I[0]
    BY <1>6, <1>13
  <2> HIDE DEF Solves
  <2> QED
    BY <1>3, <2>1, <2>2, ChainStays
<1>15. h[m] \in I[m]
  <2>1. m \in 0..m
    BY <1>3
  <2> QED
    BY <1>14, <2>1 DEF StaysIn
<1> QED
  BY <1>8, <1>12, <1>15 DEF U, S

\* Their codes are complete, unless one is too long to be represented.
LEMMA LengthsComplete ==
  ASSUME NEW S, NEW U, U \subseteq S, IsFiniteSet(U), Cardinality(U) >= 2, NEW t, Forest(t, U, S, 1),
         ~ Overflows(t.codesize)
  PROVE  /\ Complete(Lengths(t.codesize), MAX_CLEN, Cardinality(U))
         /\ \A i \in S : t.codesize[i] > 0 <=> i \in U
<1> DEFINE c == t.codesize
           bits == Lengths(c)
           M == MAX_CLEN
           n == Cardinality(U)
<1>0. M \in Nat /\ 0 \in 0..M /\ M \in 0..M /\ n \in Nat
  BY LengthsAssumption, FS_CardinalityType
<1>1. c \in [S -> Nat] /\ \A i \in S : c[i] <= M
  BY <1>0 DEF Forest, Overflows
<1>2. /\ Trees(t.freq) \subseteq U /\ Cardinality(Trees(t.freq)) = 1
      /\ \A i \in U : t.root[i] \in Trees(t.freq)
      /\ \A i \in S \ U : c[i] = 0
      /\ \A x \in Trees(t.freq) : IsFull(Members(t, U, x), c)
      /\ \A i, j \in U : c[i] = 0 /\ t.root[i] = t.root[j] => i = j
  BY DEF Forest
<1>3. PICK r : Trees(t.freq) = {r}
  BY <1>2, FS_Subset, FS_Singleton
<1>4. Members(t, U, r) = U /\ IsFull(U, c)
  <2>1. Members(t, U, r) = U
    BY <1>2, <1>3 DEF Members
  <2>2. IsFull(Members(t, U, r), c)
    BY <1>2, <1>3
  <2> QED
    BY <2>1, <2>2
<1>5. \A i \in U : c[i] \in Nat \ {0}
  <2> SUFFICES ASSUME NEW i \in U, c[i] = 0
               PROVE  FALSE
    BY <1>1
  <2>1. \A j \in U : t.root[i] = t.root[j]
    BY <1>2, <1>3
  <2>2. U = {i}
    BY <1>2, <2>1
  <2>3. Cardinality(U) = 1
    BY <2>2, FS_Singleton
  <2> QED
    BY <2>3
<1>6. \A i \in S : c[i] > 0 <=> i \in U
  BY <1>2, <1>5
<1> HIDE DEF c, bits, M, n
<1>7. \A l \in 1..M : bits[l] = Level(U, c, l)
  <2>1. bits = [l \in 1..M |-> Cardinality({i \in S : c[i] = l})]
    <3>1. DOMAIN c = S
      BY <1>1
    <3> QED
      BY <3>1 DEF bits, Lengths, M
  <2>2. \A l \in 1..M : {i \in S : c[i] = l} = {i \in U : c[i] = l}
    BY <1>6
  <2> QED
    BY <2>1, <2>2 DEF Level
<1>8. \A l : Level(U, c, l) \in Nat
  <2> SUFFICES ASSUME NEW l
               PROVE  Level(U, c, l) \in Nat
    OBVIOUS
  <2>1. IsFiniteSet({i \in U : c[i] = l})
    BY FS_Subset
  <2> QED
    BY <2>1, FS_CardinalityType DEF Level
<1>9. bits \in [1..M -> Nat]
  <2>1. bits = [l \in 1..M |-> Cardinality({i \in DOMAIN c : c[i] = l})]
    BY DEF bits, Lengths, M
  <2>2. \A l \in 1..M : Cardinality({i \in DOMAIN c : c[i] = l}) \in Nat
    BY <1>7, <1>8, <2>1
  <2> QED
    BY <2>1, <2>2
<1>10. Level(U, c, 0) = 0
  <2>1. {i \in U : c[i] = 0} = {}
    BY <1>5
  <2> QED
    BY <2>1, FS_EmptySet DEF Level
<1>11. KraftIs(bits, M, PowerOf2[M])
  <2>1. PICK k \in [0..M -> Nat] :
          /\ k[0] = Level(U, c, 0)
          /\ \A l \in 1..M : k[l] = 2 * k[l - 1] + Level(U, c, l)
          /\ k[M] = PowerOf2[M]
    <3>1. \A i \in U : c[i] <= M
      BY <1>1
    <3>2. M \in Nat /\ M <= MAX_CLEN
      BY <1>0 DEF M
    <3> QED
      BY <1>4, <3>1, <3>2 DEF IsFull
  <2>2. IsKraft(k, 0, bits, M)
    BY <1>7, <1>10, <2>1 DEF IsKraft
  <2> QED
    BY <2>1, <2>2, Zenon DEF KraftIs, M
<1>12. TotalIs(bits, M, n)
  <2> DEFINE R(l) == {i \in U : c[i] <= l}
             s == [l \in 0..M |-> Cardinality(R(l))]
  <2>1. \A l : IsFiniteSet(R(l)) /\ Cardinality(R(l)) \in Nat
    <3> SUFFICES ASSUME NEW l
                 PROVE  IsFiniteSet(R(l)) /\ Cardinality(R(l)) \in Nat
      OBVIOUS
    <3>1. IsFiniteSet(R(l))
      BY FS_Subset
    <3> QED
      BY <3>1, FS_CardinalityType
  <2>2. ASSUME NEW l \in 1..M
        PROVE  Cardinality(R(l)) = Cardinality(R(l - 1)) + bits[l]
    <3> DEFINE A == R(l - 1)
               E == {i \in U : c[i] = l}
    <3>1. R(l) = A \cup E /\ A \cap E = {}
      <4>1. \A i \in U : c[i] <= l <=> c[i] <= l - 1 \/ c[i] = l
        BY <1>5
      <4>2. \A i \in U : ~ (c[i] <= l - 1 /\ c[i] = l)
        BY <1>5
      <4> QED
        BY <4>1, <4>2
    <3>2. IsFiniteSet(A) /\ IsFiniteSet(E) /\ Cardinality(A) \in Nat
      BY <2>1, FS_Subset
    <3> HIDE DEF A, E
    <3>3. Cardinality(A \cup E) = Cardinality(A) + Cardinality(E) - Cardinality(A \cap E)
      BY <3>2, FS_Union
    <3>4. Cardinality(A \cap E) = 0 /\ Cardinality(E) \in Nat
      BY <3>1, <3>2, FS_EmptySet, FS_CardinalityType
    <3>5. bits[l] = Cardinality(E)
      BY <1>7 DEF Level, E
    <3> HIDE DEF R
    <3> QED
      BY <3>1, <3>2, <3>3, <3>4, <3>5 DEF A
  <2>3. R(0) = {}
    BY <1>5
  <2>4. R(M) = U
    BY <1>1
  <2> HIDE DEF R
  <2>5. s \in [0..M -> Nat] /\ \A l \in 0..M : s[l] = Cardinality(R(l))
    BY <2>1
  <2>6. \A l \in 1..M : l - 1 \in 0..M /\ l \in 0..M
    BY <1>0
  <2> HIDE DEF s
  <2>7. IsTotal(s, 0, bits, M) /\ s[M] = n
    BY <1>0, <2>2, <2>3, <2>4, <2>5, <2>6, FS_EmptySet DEF IsTotal, n
  <2> QED
    BY <2>5, <2>7, Zenon DEF TotalIs, M
<1>13. Complete(bits, M, n)
  <2>1. \A l \in 1..M : ~ l > M
    BY <1>0
  <2> QED
    BY <1>9, <1>11, <1>12, <2>1 DEF Complete, M
<1> QED
  BY <1>6, <1>13 DEF bits, M, n, c

-----------------------------------------------------------------------------
(* The order of the symbols *)

\* f lists the elements of R, each once.
Lists(f, R) ==
  /\ Len(f) = Cardinality(R) /\ DOMAIN f = 1..Cardinality(R) /\ f \in Seq(R)
  /\ \A i \in R : \E p \in DOMAIN f : f[p] = i
  /\ \A p, q \in DOMAIN f : f[p] = f[q] => p = q

\* The symbols with codes are listed once each.
LEMMA SortedLists ==
  ASSUME NEW S, S \subseteq Nat, NEW codesize \in [S -> Nat], NEW R, IsFiniteSet(R),
         R = {i \in S \ {PSEUDO} : codesize[i] > 0}
  PROVE  Lists(Sorted(codesize), R)
<1> DEFINE n == Cardinality(R)
           Below(i) == {j \in R : Earlier(codesize, j, i)}
           Rank(i) == Cardinality(Below(i))
           rank == [i \in R |-> Rank(i)]
           f == [p \in 1..n |-> CHOOSE i \in R : Rank(i) = p - 1]
<1>1. Sorted(codesize) = f
  <2>1. DOMAIN codesize = S
    OBVIOUS
  <2> QED
    BY <2>1 DEF Sorted
<1>2. n \in Nat
  BY FS_CardinalityType
<1>3. \A i \in R : i \in Nat /\ codesize[i] \in Nat
  OBVIOUS
<1>4. ASSUME NEW i \in R
      PROVE  IsFiniteSet(Below(i)) /\ Rank(i) \in 0..n - 1
  <2>1. i \notin Below(i)
    BY <1>3 DEF Earlier
  <2>2. Below(i) \subseteq R
    OBVIOUS
  <2> HIDE DEF Below
  <2>3. IsFiniteSet(Below(i)) /\ Rank(i) <= n /\ (n = Rank(i) => R = Below(i))
    BY <2>2, FS_Subset
  <2>4. Rank(i) \in Nat
    BY <2>3, FS_CardinalityType
  <2>5. n # Rank(i)
    BY <2>1, <2>3
  <2> HIDE DEF n
  <2> QED
    BY <1>2, <2>3, <2>4, <2>5
<1>5. ASSUME NEW i \in R, NEW j \in R, Earlier(codesize, i, j)
      PROVE  Rank(i) < Rank(j)
  <2>1. Below(i) \subseteq Below(j)
    <3> SUFFICES ASSUME NEW x \in R, Earlier(codesize, x, i)
                 PROVE  Earlier(codesize, x, j)
      OBVIOUS
    <3> DEFINE a == codesize[x]
               b == codesize[i]
               c == codesize[j]
    <3>1. a \in Nat /\ b \in Nat /\ c \in Nat /\ x \in Nat /\ i \in Nat /\ j \in Nat
      BY <1>3
    <3>2. a < b \/ (a = b /\ x < i)
      BY DEF Earlier
    <3>3. b < c \/ (b = c /\ i < j)
      BY <1>5 DEF Earlier
    <3> HIDE DEF a, b, c
    <3>4. a < c \/ (a = c /\ x < j)
      BY <3>1, <3>2, <3>3
    <3> QED
      BY <3>4 DEF a, c, Earlier
  <2>2. i \notin Below(i) /\ i \in Below(j)
    BY <1>3, <1>5 DEF Earlier
  <2> HIDE DEF Below
  <2>3. IsFiniteSet(Below(j))
    BY <1>4
  <2>4. Rank(i) <= Rank(j) /\ (Rank(j) = Rank(i) => Below(j) = Below(i))
    BY <2>1, <2>3, FS_Subset
  <2>5. Rank(i) # Rank(j)
    BY <2>2, <2>4
  <2>6. Rank(i) \in Nat /\ Rank(j) \in Nat
    BY <1>4
  <2> HIDE DEF Rank
  <2> QED
    BY <2>4, <2>5, <2>6
<1> HIDE DEF Below, Rank
<1>6. \A i, j \in R : Rank(i) = Rank(j) => i = j
  <2> SUFFICES ASSUME NEW i \in R, NEW j \in R, i # j
               PROVE  Rank(i) # Rank(j)
    OBVIOUS
  <2>1. Earlier(codesize, i, j) \/ Earlier(codesize, j, i)
    BY <1>3 DEF Earlier
  <2>2. Rank(i) \in Nat /\ Rank(j) \in Nat
    BY <1>4
  <2>3. Rank(i) < Rank(j) \/ Rank(j) < Rank(i)
    BY <1>5, <2>1
  <2> QED
    BY <2>2, <2>3
<1>7. rank \in Injection(R, 0..n - 1)
  BY <1>4, <1>6 DEF Injection, IsInjective
<1>8. rank \in Surjection(R, 0..n - 1)
  <2>1. IsFiniteSet(0..n - 1) /\ Cardinality(0..n - 1) = n
    <3> HIDE DEF n
    <3>1. 0 \in Int /\ n - 1 \in Int /\ (0 > n - 1 => n = 0) /\ n - 1 - 0 + 1 = n
      BY <1>2
    <3> QED
      BY <3>1, FS_Interval
  <2> HIDE DEF rank, n
  <2>2. Cardinality(R) = n
    BY DEF n
  <2> QED
    BY <1>7, <2>1, <2>2, FS_Injection
<1>9. \A x \in 0..n - 1 : \E i \in R : Rank(i) = x
  BY <1>8 DEF Surjection
<1>10. \A p \in 1..n : f[p] \in R /\ Rank(f[p]) = p - 1
  <2> SUFFICES ASSUME NEW p \in 1..n
               PROVE  f[p] \in R /\ Rank(f[p]) = p - 1
    OBVIOUS
  <2>1. p - 1 \in 0..n - 1
    BY <1>2
  <2>2. \E i \in R : Rank(i) = p - 1
    BY <1>9, <2>1
  <2>3. f[p] = CHOOSE i \in R : Rank(i) = p - 1
    OBVIOUS
  <2> HIDE DEF f
  <2> QED
    BY <2>2, <2>3
<1>11. DOMAIN f = 1..n /\ Len(f) = n /\ f \in Seq(R)
  <2>1. DOMAIN f = 1..n /\ f = [p \in 1..n |-> f[p]]
    OBVIOUS
  <2> HIDE DEF f, n
  <2>2. f \in [1..n -> R]
    BY <1>10, <2>1
  <2> QED
    BY <1>2, <2>1, <2>2
<1> HIDE DEF f, rank, n
<1>12. ASSUME NEW i \in R
       PROVE  \E p \in 1..n : f[p] = i
  <2> DEFINE p == Rank(i) + 1
  <2>1. p \in 1..n /\ p - 1 = Rank(i)
    BY <1>2, <1>4
  <2> HIDE DEF p
  <2> QED
    BY <1>6, <1>10, <2>1
<1>13. \A p, q \in 1..n : f[p] = f[q] => p = q
  <2> SUFFICES ASSUME NEW p \in 1..n, NEW q \in 1..n, f[p] = f[q]
               PROVE  p = q
    OBVIOUS
  <2>1. p - 1 = q - 1
    BY <1>10
  <2>2. p \in Int /\ q \in Int
    OBVIOUS
  <2> QED
    BY <2>1, <2>2
<1> QED
  BY <1>1, <1>11, <1>12, <1>13 DEF Lists, n

\* The table made of the counts of at least one symbol.
IsSound(tbl, syms) == PrefixFree(Codes(tbl)) /\ Covers(tbl, syms)

LEMMA TableIsSound ==
  ASSUME NEW D, NEW counts \in [D -> Nat], D \subseteq Nat, NEW u \in Nat, \A y \in D : y <= u, IsFiniteSet(D),
         Cardinality(D \cup {PSEUDO}) <= PowerOf2[MaxCodeLength],
         NEW syms, syms \subseteq D \ {PSEUDO}, syms # {}, \A sym \in syms : counts[sym] > 0,
         ~ Overflows(Huffman(counts).codesize)
  PROVE  /\ IsSound(TableOf(Huffman(counts).codesize), syms)
         /\ TableOf(Huffman(counts).codesize) \in
              [bits : [1..MaxCodeLength -> Nat], huffval : Seq(D \ {PSEUDO})]
<1> DEFINE S == D \cup {PSEUDO}
           U == Trees(Leaves(counts).freq)
           n == Cardinality(U)
           t == Huffman(counts)
           c == t.codesize
           R == {i \in S \ {PSEUDO} : c[i] > 0}
           tbl == TableOf(c)
<1>0. MaxCodeLength \in 0..MAX_CLEN
  BY LengthsAssumption
<1>1. /\ IsFiniteSet(U) /\ U \subseteq S /\ PSEUDO \in U /\ n \in Nat \ {0}
      /\ \A i \in D : counts[i] > 0 => i \in U
  BY LeavesForest
<1>2. Forest(t, U, S, 1)
  BY HuffmanForest
<1>3. IsFiniteSet(S) /\ S \subseteq Nat
  BY FS_AddElement DEF PSEUDO
<1> HIDE DEF U, n, t, S
<1>4. syms \subseteq U \ {PSEUDO}
  BY <1>1
<1>5. IsFiniteSet(U \ {PSEUDO}) /\ Cardinality(U \ {PSEUDO}) = n - 1
  BY <1>1, FS_RemoveElement DEF n
<1>6. n >= 2
  <2>1. n - 1 # 0
    BY <1>4, <1>5, FS_EmptySet
  <2> QED
    BY <1>1, <2>1
<1>7. n <= PowerOf2[MaxCodeLength]
  <2>1. n <= Cardinality(S) /\ Cardinality(S) \in Nat
    BY <1>1, <1>3, FS_Subset, FS_CardinalityType DEF n
  <2>2. PowerOf2[MaxCodeLength] \in Nat
    BY <1>0, PowerSolved
  <2>3. Cardinality(S) <= PowerOf2[MaxCodeLength]
    BY DEF S
  <2> QED
    BY <1>1, <2>1, <2>2, <2>3
<1>8. Complete(Lengths(c), MAX_CLEN, n) /\ \A i \in S : c[i] > 0 <=> i \in U
  <2>1. ~ Overflows(t.codesize)
    BY DEF t
  <2> QED
    BY <1>1, <1>2, <1>6, <2>1, LengthsComplete DEF n
<1>9. Complete(Shorten(Lengths(c)), MaxCodeLength, n)
  <2>1. n \in Nat
    BY <1>1
  <2> HIDE DEF c
  <2> QED
    BY <1>7, <1>8, <2>1, AllShortened
<1>10. HasRoom(tbl.bits, n - 1)
  <2>1. n \in Nat
    BY <1>1
  <2>2. tbl.bits = WithoutPseudo(Shorten(Lengths(c)))
    BY DEF TableOf
  <2> HIDE DEF c, tbl
  <2> QED
    BY <1>9, <2>1, <2>2, PseudoRemoved
<1>11. R = U \ {PSEUDO}
  BY <1>1, <1>8
<1>12. Lists(tbl.huffval, R)
  <2>1. tbl.huffval = Sorted(c)
    BY DEF TableOf
  <2>2. c \in [S -> Nat]
    BY <1>2 DEF Forest
  <2>3. IsFiniteSet(R)
    BY <1>5, <1>11
  <2> HIDE DEF c, tbl
  <2>4. R = {i \in S \ {PSEUDO} : c[i] > 0}
    OBVIOUS
  <2> HIDE DEF R
  <2> QED
    BY <1>3, <2>1, <2>2, <2>3, <2>4, SortedLists
<1>r. tbl \in [bits : [1..MaxCodeLength -> Nat], huffval : Seq(D \ {PSEUDO})]
  <2>1. tbl.bits \in [1..MaxCodeLength -> Nat]
    <3> HIDE DEF tbl
    <3> QED
      BY <1>10 DEF HasRoom
  <2>2. tbl.huffval \in Seq(D \ {PSEUDO})
    <3>1. R \subseteq D \ {PSEUDO}
      BY DEF S
    <3> DEFINE f == tbl.huffval
    <3> HIDE DEF f, R
    <3>2. f \in Seq(R)
      BY <1>12 DEF Lists, f
    <3>3. Len(f) \in Nat /\ f \in [1..Len(f) -> R]
      BY <3>2
    <3>4. f \in [1..Len(f) -> D \ {PSEUDO}]
      BY <3>1, <3>3
    <3>5. f \in Seq(D \ {PSEUDO})
      BY <3>3, <3>4
    <3> QED
      BY <3>5 DEF f
  <2>3. tbl = [bits |-> tbl.bits, huffval |-> tbl.huffval]
    BY DEF TableOf
  <2> HIDE DEF tbl
  <2> QED
    BY <2>1, <2>2, <2>3
<1> HIDE DEF c, tbl, R
<1>13. PrefixFree(Codes(tbl)) /\ Len(Codes(tbl)) = n - 1
  <2>1. n - 1 \in Nat
    BY <1>1
  <2> QED
    BY <1>10, <2>1, CodesArePrefixFree
<1>14. Cardinality(R) = n - 1 /\ syms \subseteq R
  BY <1>4, <1>5, <1>11
<1>15. Covers(tbl, syms)
  BY <1>12, <1>13, <1>14 DEF Covers, Lists
<1> QED
  BY <1>13, <1>15, <1>r DEF IsSound, tbl, c, t

-----------------------------------------------------------------------------
(* The passes *)

CountsType == [Symbols \cup {PSEUDO} -> Nat] \cup {NULL}
TableType == [bits : [1..MaxCodeLength -> Nat], huffval : Seq(Symbols)]

\* The counts of table t are there, and hold each symbol of the scan that uses it.
IsCounted(counts, syms, t) ==
  counts[t] \in [Symbols \cup {PSEUDO} -> Nat] /\ \A sym \in syms[t] : counts[t][sym] > 0

\* The records of MakeTables: after the tables of did were made, unless one was impossible.
MadeType ==
  [did : SUBSET Tables, counts : [Tables -> CountsType], tables : [Tables -> TableType \cup {NULL}], ok : BOOLEAN]
IsMade(m, counts, syms) ==
  m.ok => /\ \A t \in m.did : m.tables[t] \in TableType /\ IsSound(m.tables[t], syms[t])
          /\ \A t \in Tables \ m.did : m.counts[t] = counts[t]

\* There is a code of MaxCodeLength bits for every symbol.
LEMMA SymbolsBounded ==
  /\ IsFiniteSet(Symbols \cup {PSEUDO}) /\ Symbols \cup {PSEUDO} \subseteq Nat
  /\ \A y \in Symbols \cup {PSEUDO} : y <= PSEUDO
  /\ Cardinality((Symbols \cup {PSEUDO}) \cup {PSEUDO}) <= PowerOf2[MaxCodeLength]
  /\ PSEUDO \notin Symbols /\ PSEUDO \in Nat
<1>1. \A y \in Symbols : y \in Nat /\ y <= 255
  BY GatherAssumption
<1>2. IsFiniteSet(Symbols)
  <2>1. Symbols \in SUBSET Nat /\ 255 \in Nat /\ \A y \in Symbols : y <= 255
    BY <1>1
  <2> QED
    BY <2>1, FS_BoundedSetOfNaturals
<1>3. PSEUDO \notin Symbols /\ PSEUDO \in Nat /\ \A y \in Symbols : y <= PSEUDO
  BY <1>1 DEF PSEUDO
<1>4. IsFiniteSet(Symbols \cup {PSEUDO}) /\ Cardinality(Symbols \cup {PSEUDO}) = Cardinality(Symbols) + 1
  BY <1>2, <1>3, FS_AddElement
<1>5. Cardinality(Symbols) + 1 <= PowerOf2[MaxCodeLength]
  BY GatherAssumption
<1>6. (Symbols \cup {PSEUDO}) \cup {PSEUDO} = Symbols \cup {PSEUDO}
  OBVIOUS
<1> HIDE DEF PSEUDO
<1> QED
  BY <1>1, <1>3, <1>4, <1>5, <1>6

\* One round of the loop of finish_pass_gather spoils no counts that are still needed.
LEMMA OneMade ==
  ASSUME NEW counts, NEW syms, NEW m \in MadeType, IsMade(m, counts, syms), NEW t \in Tables,
         IsCounted(counts, syms, t), syms[t] \subseteq Symbols, syms[t] # {}
  PROVE  LET v == MakeTable(m, t)
         IN  v \in MadeType /\ IsMade(v, counts, syms) /\ m.did \subseteq v.did /\ (v.ok => t \in v.did)
<1> DEFINE v == MakeTable(m, t)
           h == Huffman(m.counts[t])
           D == Symbols \cup {PSEUDO}
           Goal(x) == x \in MadeType /\ IsMade(x, counts, syms) /\ m.did \subseteq x.did /\ (x.ok => t \in x.did)
<1>1. CASE t \in m.did \/ ~ m.ok
  <2>1. v = m
    BY <1>1 DEF MakeTable
  <2> QED
    BY <1>1, <2>1
<1>2. CASE t \notin m.did /\ m.ok
  <2>1. m.counts[t] = counts[t] /\ m.counts[t] \in [D -> Nat] /\ \A sym \in syms[t] : m.counts[t][sym] > 0
    BY <1>2 DEF IsMade, IsCounted
  <2>2. D \cup {PSEUDO} = D /\ D \ {PSEUDO} = Symbols
    BY SymbolsBounded
  <2>3. IsFiniteSet(D) /\ D \subseteq Nat /\ PSEUDO \in Nat /\ \A y \in D : y <= PSEUDO
    BY SymbolsBounded
  <2>4. Cardinality(D \cup {PSEUDO}) <= PowerOf2[MaxCodeLength]
    BY SymbolsBounded
  <2> DEFINE c == m.counts[t]
             U == Trees(Leaves(c).freq)
  <2>5. h.freq \in [D -> Nat]
    <3> HIDE DEF D, c
    <3>1. c \in [D -> Nat]
      BY <2>1 DEF c
    <3>2. Forest(Huffman(c), U, D \cup {PSEUDO}, 1)
      BY <2>3, <3>1, HuffmanForest
    <3>3. Huffman(c).freq \in [D -> Nat]
      BY <2>2, <3>2 DEF Forest
    <3> QED
      BY <3>3 DEF c
  <2>6. [m.counts EXCEPT ![t] = h.freq] \in [Tables -> CountsType]
    <3>1. h.freq \in CountsType /\ m.counts \in [Tables -> CountsType]
      BY <2>5 DEF CountsType, MadeType
    <3> HIDE DEF h
    <3> QED
      BY <3>1
  <2>7. CASE Overflows(h.codesize)
    <3>1. v = [m EXCEPT !.ok = FALSE, !.counts[t] = h.freq]
      BY <1>2, <2>7 DEF MakeTable
    <3> HIDE DEF h, v
    <3>2. v.did = m.did /\ v.tables = m.tables /\ v.ok = FALSE /\ v.counts = [m.counts EXCEPT ![t] = h.freq]
          /\ v \in MadeType
      BY <2>6, <3>1 DEF MadeType
    <3> QED
      BY <3>2 DEF IsMade, v
  <2>8. CASE ~ Overflows(h.codesize)
    <3> DEFINE tbl == TableOf(h.codesize)
    <3>1. v = [m EXCEPT !.did = @ \cup {t}, !.counts[t] = h.freq, !.tables[t] = tbl]
      BY <1>2, <2>8 DEF MakeTable
    <3>2. IsSound(tbl, syms[t]) /\ tbl \in TableType
      <4> DEFINE s == syms[t]
      <4>1. c \in [D -> Nat] /\ s \subseteq D \ {PSEUDO} /\ s # {} /\ \A sym \in s : c[sym] > 0
        BY <2>1, <2>2
      <4>2. ~ Overflows(Huffman(c).codesize)
        BY <2>8
      <4> HIDE DEF D, c, s
      <4>3. /\ IsSound(TableOf(Huffman(c).codesize), s)
            /\ TableOf(Huffman(c).codesize) \in [bits : [1..MaxCodeLength -> Nat], huffval : Seq(D \ {PSEUDO})]
        BY <2>3, <2>4, <4>1, <4>2, TableIsSound
      <4> QED
        BY <2>2, <4>3 DEF c, s, TableType
    <3> HIDE DEF h, v, tbl
    <3>3. /\ v.did = m.did \cup {t} /\ v.ok = m.ok /\ v.counts = [m.counts EXCEPT ![t] = h.freq]
          /\ v.tables = [m.tables EXCEPT ![t] = tbl] /\ v \in MadeType
      <4>1. [m.tables EXCEPT ![t] = tbl] \in [Tables -> TableType \cup {NULL}]
        BY <3>2 DEF MadeType
      <4> QED
        BY <2>6, <3>1, <4>1 DEF MadeType
    <3>4. v.tables[t] = tbl /\ \A x \in m.did : v.tables[x] = m.tables[x]
      BY <1>2, <3>3 DEF MadeType
    <3>5. \A x \in Tables \ v.did : v.counts[x] = m.counts[x] /\ x \in Tables \ m.did
      BY <3>3 DEF MadeType
    <3>6. IsMade(v, counts, syms)
      <4>1. \A x \in v.did : v.tables[x] \in TableType /\ IsSound(v.tables[x], syms[x])
        BY <1>2, <3>2, <3>3, <3>4 DEF IsMade
      <4>2. \A x \in Tables \ v.did : v.counts[x] = counts[x]
        BY <1>2, <3>5 DEF IsMade
      <4> QED
        BY <4>1, <4>2 DEF IsMade
    <3> QED
      BY <3>3, <3>6 DEF v
  <2> QED
    BY <2>7, <2>8
<1> QED
  <2>1. m.ok \in BOOLEAN
    BY DEF MadeType
  <2> QED
    BY <1>1, <1>2, <2>1

\* After the last, the table of every component of the scan is made.
LEMMA AllMade ==
  ASSUME scan \in Nat, Script[scan] \in Seq(Tables),
         NEW counts \in [Tables -> CountsType], huff_tbl_ptrs \in [Tables -> TableType \cup {NULL}],
         NEW syms \in [Tables -> SUBSET Symbols],
         \A t \in TablesOf(scan) : IsCounted(counts, syms, t) /\ syms[t] # {}
  PROVE  LET m == MakeTables(counts)
         IN  m \in MadeType /\ IsMade(m, counts, syms) /\ (m.ok => TablesOf(scan) \subseteq m.did)
<1> DEFINE s == Script[scan]
           n == Len(s)
           first == [did |-> {}, counts |-> counts, tables |-> huff_tbl_ptrs, ok |-> TRUE]
           B(k, x) == MakeTable(x, s[k])
           I == [k \in 0..n |-> {m \in MadeType : /\ IsMade(m, counts, syms)
                                                  /\ m.ok => \A j \in 1..k : s[j] \in m.did}]
           step == [k \in 1..n |-> [m \in MadeType |-> B(k, m)]]
           Solves(f) == f = [k \in 0..n |-> IF k = 0 THEN first ELSE B(k, f[k - 1])]
           h == CHOOSE f : Solves(f)
<1>0. n \in Nat /\ \A k \in 1..n : s[k] \in Tables /\ s[k] \in TablesOf(scan)
  BY DEF TablesOf
<1>1. \A k \in 1..n : k - 1 \in 0..n /\ k \in 0..n /\ k # 0
  BY <1>0
<1>2. ASSUME NEW k \in 1..n, NEW x \in I[k - 1]
      PROVE  B(k, x) \in I[k]
  <2> DEFINE t == s[k]
             v == MakeTable(x, t)
  <2>1. x \in MadeType /\ IsMade(x, counts, syms) /\ (x.ok => \A j \in 1..k - 1 : s[j] \in x.did)
    BY <1>1
  <2>2. t \in Tables /\ IsCounted(counts, syms, t) /\ syms[t] \subseteq Symbols /\ syms[t] # {}
    <3>1. t \in Tables /\ t \in TablesOf(scan)
      BY <1>0
    <3> HIDE DEF t
    <3> QED
      BY <3>1
  <2> HIDE DEF t
  <2>3. v \in MadeType /\ IsMade(v, counts, syms) /\ x.did \subseteq v.did /\ (v.ok => t \in v.did)
    BY <2>1, <2>2, OneMade
  <2>4. v.ok => x.ok
    BY DEF MakeTable
  <2>5. \A j \in 1..k : j \in 1..k - 1 \/ j = k
    BY <1>0
  <2> HIDE DEF v
  <2>6. v.ok => \A j \in 1..k : s[j] \in v.did
    BY <2>1, <2>3, <2>4, <2>5 DEF t
  <2>7. v \in I[k]
    <3> HIDE DEF s, n
    <3> QED
      BY <1>1, <2>3, <2>6
  <2> QED
    BY <2>7 DEF v, t
<1>3. \A k \in 0..n : I[k] \subseteq MadeType
  <2> HIDE DEF s, n
  <2> QED
    OBVIOUS
<1>4. first \in I[0]
  <2>1. first \in MadeType
    BY DEF MadeType
  <2>2. IsMade(first, counts, syms)
    BY DEF IsMade
  <2>3. \A j \in 1..0 : FALSE
    OBVIOUS
  <2>4. 0 \in 0..n
    BY <1>0
  <2> HIDE DEF first, s, n
  <2> QED
    BY <2>1, <2>2, <2>3, <2>4
<1>5. \A k \in 1..n : \A x \in MadeType : step[k][x] = B(k, x)
  <2> HIDE DEF B, s, n
  <2> QED
    OBVIOUS
<1>6. \A m \in I[n] : m \in MadeType /\ IsMade(m, counts, syms) /\ (m.ok => \A j \in 1..n : s[j] \in m.did)
  <2>1. n \in 0..n
    BY <1>0
  <2> HIDE DEF s, n
  <2> QED
    BY <2>1
<1>7. MakeTables(counts) = h[n]
  BY DEF MakeTables
<1> HIDE DEF I, step, first
<1>8. PICK g : /\ g = [k \in 0..n |-> g[k]]
               /\ IsChain(g, first, n, step)
               /\ StaysIn(g, I, n)
  <2> HIDE DEF n, s
  <2>1. \A k \in 1..n : \A x \in I[k - 1] : step[k][x] \in I[k]
    <3> HIDE DEF B
    <3> QED
      BY <1>1, <1>2, <1>3, <1>5
  <2> HIDE DEF B
  <2> QED
    BY <1>0, <1>4, <2>1, ChainWithin
<1>9. Solves(g)
  <2> HIDE DEF n, s
  <2>1. g[0] = first /\ \A k \in 1..n : g[k] = B(k, g[k - 1])
    <3> HIDE DEF B
    <3> QED
      BY <1>1, <1>3, <1>5, <1>8 DEF IsChain, StaysIn
  <2>2. \A k \in 0..n : k = 0 \/ k \in 1..n
    BY <1>0
  <2>3. \A k \in 0..n : g[k] = IF k = 0 THEN first ELSE B(k, g[k - 1])
    <3> HIDE DEF B
    <3> QED
      BY <2>1, <2>2
  <2> HIDE DEF B
  <2> QED
    BY <1>8, <2>3
<1>10. Solves(h)
  <2> HIDE DEF Solves
  <2> QED
    BY <1>9
<1> HIDE DEF h, n, s
<1>11. h[0] = first /\ \A k \in 1..n : h[k] = B(k, h[k - 1])
  <2> HIDE DEF B
  <2>1. 0 \in 0..n
    BY <1>0
  <2> QED
    BY <1>1, <1>10, <2>1
<1>12. StaysIn(h, I, n)
  <2>1. \A k \in 1..n : h[k - 1] \in I[k - 1] => h[k] \in I[k]
    <3> HIDE DEF B
    <3> QED
      BY <1>2, <1>11
  <2>2. h[0] \in I[0]
    BY <1>4, <1>11
  <2> HIDE DEF B, Solves
  <2> QED
    BY <1>0, <2>1, <2>2, ChainStays
<1>13. h[n] \in I[n]
  <2>1. n \in 0..n
    BY <1>0
  <2> QED
    BY <1>12, <2>1 DEF StaysIn
<1>14. TablesOf(scan) = {s[j] : j \in 1..n}
  BY DEF TablesOf, s, n
<1> QED
  BY <1>6, <1>7, <1>13, <1>14

-----------------------------------------------------------------------------
(* The inductive invariant *)

IndInv ==
  /\ TypeOK
  /\ pass = "gather" => \A t \in TablesOf(scan) : IsCounted(count_ptrs, written, t)
  /\ pass = "output" => \A t \in TablesOf(scan) : huff_tbl_ptrs[t] # NULL /\ IsSound(huff_tbl_ptrs[t], written[t])

\* The tables of the scans are tables.
LEMMA ScriptTyped == \A n \in 1..Len(Script) : Script[n] \in Seq(Tables) /\ TablesOf(n) \subseteq Tables
<1>1. \A n \in 1..Len(Script) : Script[n] \in Seq(Tables)
  BY GatherAssumption
<1>2. ASSUME NEW n \in 1..Len(Script)
      PROVE  TablesOf(n) \subseteq Tables
  <2> DEFINE s == Script[n]
  <2>1. s \in Seq(Tables)
    BY <1>1
  <2>2. TablesOf(n) = {s[ci] : ci \in DOMAIN s}
    BY DEF TablesOf
  <2> HIDE DEF s
  <2> QED
    BY <2>1, <2>2
<1> QED
  BY <1>1, <1>2

\* Before the first scan the invariant holds.
LEMMA InitInv == Init => IndInv
<1> SUFFICES ASSUME Init
             PROVE  IndInv
  OBVIOUS
<1>1. Len(Script) \in Nat
  BY GatherAssumption
<1>2. TypeOK
  BY <1>1 DEF Init, TypeOK
<1> QED
  BY <1>2 DEF Init, IndInv

\* One symbol more, at its table.
LEMMA StillCounted ==
  ASSUME NEW counts \in [Tables -> CountsType], NEW syms \in [Tables -> SUBSET Symbols],
         NEW T, T \subseteq Tables, \A t \in T : IsCounted(counts, syms, t), NEW x \in T, NEW sym \in Symbols
  PROVE  /\ Counted(counts, x, sym) \in [Tables -> CountsType]
         /\ Wrote(syms, x, sym) \in [Tables -> SUBSET Symbols]
         /\ \A t \in T : IsCounted(Counted(counts, x, sym), Wrote(syms, x, sym), t)
<1> DEFINE c == counts[x]
           d == [c EXCEPT ![sym] = @ + 1]
           v == Counted(counts, x, sym)
           w == Wrote(syms, x, sym)
           D == Symbols \cup {PSEUDO}
<1>1. x \in Tables /\ c \in [D -> Nat] /\ \A y \in syms[x] : c[y] > 0
  BY DEF IsCounted
<1>2. v = [counts EXCEPT ![x] = d] /\ w = [syms EXCEPT ![x] = @ \cup {sym}]
  BY DEF Counted, Wrote
<1> HIDE DEF v, w, c, D
<1>3. d \in [D -> Nat] /\ d[sym] = c[sym] + 1 /\ \A y \in D : y # sym => d[y] = c[y]
  <2>1. sym \in D
    BY DEF D
  <2>2. c[sym] \in Nat
    BY <1>1, <2>1
  <2> QED
    BY <1>1, <2>1, <2>2
<1> HIDE DEF d
<1>4. v \in [Tables -> CountsType]
  <2>1. d \in CountsType
    BY <1>3 DEF CountsType, D
  <2> QED
    BY <1>2, <2>1
<1>5. w \in [Tables -> SUBSET Symbols] /\ w[x] = syms[x] \cup {sym} /\ \A t \in Tables : t # x => w[t] = syms[t]
  BY <1>1, <1>2
<1>6. v[x] = d /\ \A t \in Tables : t # x => v[t] = counts[t]
  BY <1>1, <1>2
<1>7. IsCounted(v, w, x)
  <2>1. \A y \in syms[x] : y \in D /\ c[y] \in Nat /\ c[y] > 0
    <3>1. \A y \in syms[x] : y \in D
      BY <1>1 DEF D
    <3> QED
      BY <1>1, <3>1
  <2>2. c[sym] \in Nat
    BY <1>1 DEF D
  <2>3. \A y \in w[x] : d[y] > 0
    BY <1>3, <1>5, <2>1, <2>2
  <2> QED
    BY <1>3, <1>6, <2>3 DEF IsCounted, D
<1>8. \A t \in T : t # x => IsCounted(v, w, t)
  BY <1>5, <1>6 DEF IsCounted
<1> QED
  BY <1>4, <1>5, <1>7, <1>8 DEF v, w

\* It holds when the tables are made.
LEMMA MakeInv ==
  ASSUME IndInv, pass = "gather", NEW counts \in [Tables -> CountsType], NEW syms \in [Tables -> SUBSET Symbols],
         \A t \in TablesOf(scan) : IsCounted(counts, syms, t),
         Make(counts, syms), UNCHANGED <<scan, symbols>>
  PROVE  IndInv'
<1>1. /\ scan \in 1..Len(Script) /\ scan \in Nat /\ symbols \in Nat
      /\ huff_tbl_ptrs \in [Tables -> TableType \cup {NULL}]
  BY DEF IndInv, TypeOK, TableType
<1>2. Script[scan] \in Seq(Tables) /\ TablesOf(scan) \subseteq Tables
  BY <1>1, ScriptTyped
<1> DEFINE m == MakeTables(counts)
<1>3. /\ \A t \in TablesOf(scan) : syms[t] # {}
      /\ pass' = IF m.ok THEN "output" ELSE "error"
      /\ count_ptrs' = m.counts /\ huff_tbl_ptrs' = m.tables /\ written' = syms
  BY DEF Make
<1>4. m \in MadeType /\ IsMade(m, counts, syms) /\ (m.ok => TablesOf(scan) \subseteq m.did)
  BY <1>1, <1>2, <1>3, AllMade
<1> HIDE DEF m
<1>5. m.counts \in [Tables -> CountsType] /\ m.tables \in [Tables -> TableType \cup {NULL}]
  BY <1>4 DEF MadeType
<1>6. scan' = scan /\ symbols' = symbols /\ TablesOf(scan)' = TablesOf(scan)
  BY DEF TablesOf
<1>7. TypeOK'
  <2>1. count_ptrs' \in [Tables -> CountsType] /\ huff_tbl_ptrs' \in [Tables -> TableType \cup {NULL}]
    BY <1>3, <1>5
  <2>2. pass' \in {"output", "error"} /\ written' \in [Tables -> SUBSET Symbols]
    BY <1>3
  <2>3. scan' \in 0..Len(Script) /\ scan' # 0 /\ symbols' \in Nat
    BY <1>1, <1>6
  <2> QED
    BY <2>1, <2>2, <2>3 DEF TypeOK, CountsType, TableType
<1>8. NULL \notin TableType
  BY GatherAssumption DEF TableType
<1>9. pass' = "output" => \A t \in TablesOf(scan)' : huff_tbl_ptrs'[t] # NULL /\ IsSound(huff_tbl_ptrs'[t], written'[t])
  <2> SUFFICES ASSUME pass' = "output", NEW t \in TablesOf(scan)
               PROVE  huff_tbl_ptrs'[t] # NULL /\ IsSound(huff_tbl_ptrs'[t], written'[t])
    BY <1>6
  <2>1. m.ok
    BY <1>3
  <2>2. m.tables[t] \in TableType /\ IsSound(m.tables[t], syms[t])
    BY <1>4, <2>1 DEF IsMade
  <2> QED
    BY <1>3, <1>8, <2>2
<1> QED
  BY <1>3, <1>6, <1>7, <1>9 DEF IndInv

\* Every step keeps it.
LEMMA StepInv == IndInv /\ [Next]_vars => IndInv'
<1> SUFFICES ASSUME IndInv, [Next]_vars
             PROVE  IndInv'
  OBVIOUS
<1>1. /\ scan \in 0..Len(Script) /\ (pass # "none" => scan # 0) /\ symbols \in Nat
      /\ written \in [Tables -> SUBSET Symbols] /\ count_ptrs \in [Tables -> CountsType]
      /\ huff_tbl_ptrs \in [Tables -> TableType \cup {NULL}] /\ pass \in {"none", "gather", "output", "error"}
  BY DEF IndInv, TypeOK, CountsType, TableType
<1>l. Len(Script) \in Nat
  BY GatherAssumption
<1>t. ASSUME /\ scan' \in 0..Len(Script) /\ (pass' # "none" => scan' # 0) /\ symbols' \in Nat
             /\ written' \in [Tables -> SUBSET Symbols] /\ count_ptrs' \in [Tables -> CountsType]
             /\ huff_tbl_ptrs' \in [Tables -> TableType \cup {NULL}] /\ pass' \in {"none", "gather", "output", "error"}
      PROVE  TypeOK'
  BY <1>t DEF TypeOK, CountsType, TableType
<1>2. CASE StartGather
  <2>1. /\ pass = "none" /\ scan < Len(Script) /\ pass' = "gather" /\ scan' = scan + 1
        /\ count_ptrs' = [t \in Tables |-> IF t \in TablesOf(scan + 1) THEN NoCounts ELSE count_ptrs[t]]
        /\ written' = [t \in Tables |-> {}] /\ symbols' = 0 /\ huff_tbl_ptrs' = huff_tbl_ptrs
    BY <1>2 DEF StartGather
  <2>2. Len(Script) \in Nat /\ scan \in Nat /\ scan + 1 \in 1..Len(Script)
    BY <1>1, <1>l, <2>1
  <2>3. TablesOf(scan)' = TablesOf(scan + 1) /\ TablesOf(scan + 1) \subseteq Tables
    BY <2>1, <2>2, ScriptTyped DEF TablesOf
  <2>4. NoCounts \in [Symbols \cup {PSEUDO} -> Nat]
    BY DEF NoCounts
  <2>5. count_ptrs' \in [Tables -> CountsType]
    <3>1. \A t \in Tables : count_ptrs[t] \in CountsType
      BY <1>1
    <3>2. NoCounts \in CountsType
      BY <2>4 DEF CountsType
    <3> QED
      BY <2>1, <3>1, <3>2
  <2>6. TypeOK'
    <3>1. scan' \in 0..Len(Script) /\ scan' # 0
      BY <2>1, <2>2
    <3>2. symbols' \in Nat /\ written' \in [Tables -> SUBSET Symbols]
      BY <2>1
    <3> QED
      BY <1>1, <1>t, <2>1, <2>5, <3>1, <3>2
  <2>7. \A t \in TablesOf(scan)' : IsCounted(count_ptrs', written', t)
    BY <2>1, <2>3, <2>4 DEF IsCounted
  <2> QED
    BY <2>1, <2>6, <2>7 DEF IndInv, IsCounted
<1>3. CASE CountSymbol
  <2>1. /\ pass = "gather" /\ symbols' = symbols + 1
        /\ pass' = pass /\ scan' = scan /\ huff_tbl_ptrs' = huff_tbl_ptrs
    BY <1>3 DEF CountSymbol
  <2>2. PICK x \in TablesOf(scan), sym \in Symbols :
          count_ptrs' = Counted(count_ptrs, x, sym) /\ written' = Wrote(written, x, sym)
    BY <1>3 DEF CountSymbol
  <2>3. /\ count_ptrs \in [Tables -> CountsType] /\ written \in [Tables -> SUBSET Symbols]
        /\ scan \in 1..Len(Script) /\ symbols \in Nat
    BY <1>1, <1>l, <2>1
  <2>4. TablesOf(scan) \subseteq Tables /\ TablesOf(scan)' = TablesOf(scan)
    BY <2>1, <2>3, ScriptTyped DEF TablesOf
  <2>5. \A t \in TablesOf(scan) : IsCounted(count_ptrs, written, t)
    BY <2>1 DEF IndInv
  <2>6. /\ count_ptrs' \in [Tables -> CountsType] /\ written' \in [Tables -> SUBSET Symbols]
        /\ \A t \in TablesOf(scan) : IsCounted(count_ptrs', written', t)
    <3> DEFINE T == TablesOf(scan)
    <3> HIDE DEF T
    <3> QED
      BY <2>2, <2>3, <2>4, <2>5, StillCounted DEF T
  <2>7. TypeOK'
    <3>1. symbols' \in Nat /\ scan' \in 0..Len(Script) /\ scan' # 0
      BY <1>1, <2>1
    <3> QED
      BY <1>1, <1>t, <2>1, <2>6, <3>1
  <2> QED
    BY <2>1, <2>4, <2>6, <2>7 DEF IndInv, IsCounted
<1>4. CASE FinishGather
  <2>1. pass = "gather" /\ UNCHANGED <<scan, symbols>>
    BY <1>4 DEF FinishGather
  <2>3. /\ count_ptrs \in [Tables -> CountsType] /\ written \in [Tables -> SUBSET Symbols]
        /\ scan \in 1..Len(Script) /\ symbols \in Nat
    BY <1>1, <1>l, <2>1
  <2>4. TablesOf(scan) \subseteq Tables
    BY <2>3, ScriptTyped
  <2>5. \A t \in TablesOf(scan) : IsCounted(count_ptrs, written, t)
    BY <2>1 DEF IndInv
  <2>6. CASE Make(count_ptrs, written)
    BY <2>1, <2>3, <2>5, <2>6, MakeInv
  <2>7. ASSUME NEW x \in TablesOf(scan), NEW sym \in LastRuns,
               Make(Counted(count_ptrs, x, sym), Wrote(written, x, sym))
        PROVE  IndInv'
    <3> DEFINE c == Counted(count_ptrs, x, sym)
               w == Wrote(written, x, sym)
    <3>1. sym \in Symbols
      BY DEF LastRuns
    <3>2. /\ c \in [Tables -> CountsType] /\ w \in [Tables -> SUBSET Symbols]
          /\ \A t \in TablesOf(scan) : IsCounted(c, w, t)
      <4> DEFINE T == TablesOf(scan)
      <4> HIDE DEF T
      <4> QED
        BY <2>3, <2>4, <2>5, <3>1, StillCounted DEF T
    <3>3. Make(c, w)
      BY <2>7
    <3> HIDE DEF c, w
    <3> QED
      BY <2>1, <3>2, <3>3, MakeInv
  <2> QED
    BY <1>4, <2>6, <2>7 DEF FinishGather
<1>5. CASE FinishOutput
  BY <1>5 DEF FinishOutput, IndInv, TypeOK, TablesOf, IsCounted
<1>6. CASE UNCHANGED vars
  BY <1>6 DEF vars, IndInv, TypeOK, TablesOf, IsCounted
<1> QED
  BY <1>2, <1>3, <1>4, <1>5, <1>6 DEF Next

\* So it holds throughout.
LEMMA IndInvHolds == Spec => []IndInv
BY InitInv, StepInv, PTL DEF Spec

\* The state of the passes is what the code's declarations say.
THEOREM GatherTypeCorrect == Spec => []TypeOK
<1>1. IndInv => TypeOK
  BY DEF IndInv
<1> QED
  BY <1>1, IndInvHolds, PTL

\* However often each symbol of a scan occurs and however its components share
\* tables, jpeg_gen_optimal_table and finish_pass_gather give every symbol a code
\* that fits and can be told from all others.
THEOREM TablesAlwaysSound == Spec => []TablesSound
<1>1. IndInv => TablesSound
  BY DEF IndInv, TablesSound, IsSound
<1> QED
  BY <1>1, IndInvHolds, PTL
=============================================================================

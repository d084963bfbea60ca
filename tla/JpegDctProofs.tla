---------------------------- MODULE JpegDctProofs ----------------------------
(***************************************************************************)
(* Machine-checked theorems about JpegDct: the decompressor hands every    *)
(* transform its own multipliers, the compressor keeps every DC term, the  *)
(* transforms give blocks and samples, and what has no data yet is grey,   *)
(* for any quantization tables, any sizes of the components and any order  *)
(* of scans, passes and methods.                                           *)
(***************************************************************************)
EXTENDS JpegDct, TLAPS

-----------------------------------------------------------------------------
(* What the forward transforms compute *)

\* Powers of two up to the greatest shift.
LEMMA PowersOfTwo == \A n \in 1..18 : 2^n \in Nat \ {0} /\ 2^(n - 1) \in Nat
<1> SUFFICES ASSUME NEW n \in 1..18
             PROVE  2^n \in Nat \ {0} /\ 2^(n - 1) \in Nat
  OBVIOUS
<1>1. CASE n = 1
  BY <1>1
<1>2. CASE n = 2
  BY <1>2
<1>3. CASE n = 3
  BY <1>3
<1>4. CASE n = 4
  BY <1>4
<1>5. CASE n = 5
  BY <1>5
<1>6. CASE n = 6
  BY <1>6
<1>7. CASE n = 7
  BY <1>7
<1>8. CASE n = 8
  BY <1>8
<1>9. CASE n = 9
  BY <1>9
<1>10. CASE n = 10
  BY <1>10
<1>11. CASE n = 11
  BY <1>11
<1>12. CASE n = 12
  BY <1>12
<1>13. CASE n = 13
  BY <1>13
<1>14. CASE n = 14
  BY <1>14
<1>15. CASE n = 15
  BY <1>15
<1>16. CASE n = 16
  BY <1>16
<1>17. CASE n = 17
  BY <1>17
<1>18. CASE n = 18
  BY <1>18
<1> QED
  BY <1>1, <1>2, <1>3, <1>4, <1>5, <1>6, <1>7, <1>8, <1>9, <1>10, <1>11, <1>12, <1>13, <1>14, <1>15, <1>16, <1>17, <1>18

\* A shift of an integer is one.
LEMMA DescaleInt ==
  ASSUME NEW x \in Int, NEW n \in 1..18
  PROVE  DESCALE(x, n) \in Int
<1> DEFINE p == 2^n
           r == 2^(n - 1)
<1>1. p \in Nat \ {0} /\ r \in Nat
  BY PowersOfTwo
<1> HIDE DEF p, r
<1>2. (x + r) \div p \in Int
  BY <1>1
<1> QED
  BY <1>2 DEF DESCALE, p, r

\* What ForwardN needs of its factors.
FactorsFit(n, k) ==
  \A i \in 1..(CASE n = 3 -> 3
               [] n = 5 -> 6
               [] n = 6 -> 4
               [] n = 7 -> 11
               [] n = 9 -> 9
               [] n = 10 -> 14
               [] n = 11 -> 20
               [] n = 12 -> 14
               [] n = 13 -> 26
               [] n = 14 -> 21
               [] n = 15 -> 21
               [] OTHER -> 0) : k[i] \in Int

\* Integers go to integers, in the transform of every size.
LEMMA ForwardInt ==
  ASSUME NEW n \in 1..16, NEW x, \A i \in 0..n - 1 : x[i] \in Int, NEW k, FactorsFit(n, k)
  PROVE  \A i \in 1..8 : i <= n => ForwardN(n, x, k)[i] \in Int
<1>1. CASE n = 1
  <2>1. \A i \in 0..0 : x[i] \in Int
    BY <1>1
  <2>3. \A i \in 1..1 : Forward1(x, k)[i] \in Int
    BY <2>1 DEF Forward1, ONE, CONST_BITS
  <2> QED
    BY <1>1, <2>3 DEF ForwardN
<1>2. CASE n = 2
  <2>1. \A i \in 0..1 : x[i] \in Int
    BY <1>2
  <2>3. \A i \in 1..2 : Forward2(x, k)[i] \in Int
    BY <2>1 DEF Forward2, ONE, CONST_BITS
  <2> QED
    BY <1>2, <2>3 DEF ForwardN
<1>3. CASE n = 3
  <2>1. \A i \in 0..2 : x[i] \in Int
    BY <1>3
  <2>2. \A i \in 1..3 : k[i] \in Int
    BY <1>3 DEF FactorsFit
  <2>3. \A i \in 1..3 : Forward3(x, k)[i] \in Int
    BY <2>1, <2>2 DEF Forward3, ONE, CONST_BITS
  <2> QED
    BY <1>3, <2>3 DEF ForwardN
<1>4. CASE n = 4
  <2>1. \A i \in 0..3 : x[i] \in Int
    BY <1>4
  <2>3. \A i \in 1..4 : Forward4(x, k)[i] \in Int
    BY <2>1 DEF Forward4, ONE, CONST_BITS
  <2> QED
    BY <1>4, <2>3 DEF ForwardN
<1>5. CASE n = 5
  <2>1. \A i \in 0..4 : x[i] \in Int
    BY <1>5
  <2>2. \A i \in 1..6 : k[i] \in Int
    BY <1>5 DEF FactorsFit
  <2>3. \A i \in 1..5 : Forward5(x, k)[i] \in Int
    BY <2>1, <2>2 DEF Forward5, ONE, CONST_BITS
  <2> QED
    BY <1>5, <2>3 DEF ForwardN
<1>6. CASE n = 6
  <2>1. \A i \in 0..5 : x[i] \in Int
    BY <1>6
  <2>2. \A i \in 1..4 : k[i] \in Int
    BY <1>6 DEF FactorsFit
  <2>3. \A i \in 1..6 : Forward6(x, k)[i] \in Int
    BY <2>1, <2>2 DEF Forward6, ONE, CONST_BITS
  <2> QED
    BY <1>6, <2>3 DEF ForwardN
<1>7. CASE n = 7
  <2>1. \A i \in 0..6 : x[i] \in Int
    BY <1>7
  <2>2. \A i \in 1..11 : k[i] \in Int
    BY <1>7 DEF FactorsFit
  <2>3. \A i \in 1..7 : Forward7(x, k)[i] \in Int
    BY <2>1, <2>2 DEF Forward7, ONE, CONST_BITS
  <2> QED
    BY <1>7, <2>3 DEF ForwardN
<1>8. CASE n = 8
  <2>1. \A i \in 0..7 : x[i] \in Int
    BY <1>8
  <2>3. \A i \in 1..8 : Forward8(x, k)[i] \in Int
    BY <2>1 DEF Forward8, ONE, CONST_BITS
  <2> QED
    BY <1>8, <2>3 DEF ForwardN
<1>9. CASE n = 9
  <2>1. \A i \in 0..8 : x[i] \in Int
    BY <1>9
  <2>2. \A i \in 1..9 : k[i] \in Int
    BY <1>9 DEF FactorsFit
  <2> DEFINE out == Forward9(x, k)
  <2>3. out[1] \in Int /\ out[2] \in Int
    BY <2>1, <2>2 DEF Forward9, ONE, CONST_BITS
  <2>4. out[3] \in Int /\ out[4] \in Int
    BY <2>1, <2>2 DEF Forward9, ONE, CONST_BITS
  <2>5. out[5] \in Int /\ out[6] \in Int
    BY <2>1, <2>2 DEF Forward9, ONE, CONST_BITS
  <2>6. out[7] \in Int /\ out[8] \in Int
    BY <2>1, <2>2 DEF Forward9, ONE, CONST_BITS
  <2> HIDE DEF out
  <2>7. \A i \in 1..8 : out[i] \in Int
    BY <2>3, <2>4, <2>5, <2>6
  <2> QED
    BY <1>9, <2>7 DEF ForwardN, out
<1>10. CASE n = 10
  <2>1. \A i \in 0..9 : x[i] \in Int
    BY <1>10
  <2>2. \A i \in 1..14 : k[i] \in Int
    BY <1>10 DEF FactorsFit
  <2> DEFINE out == Forward10(x, k)
  <2>3. out[1] \in Int /\ out[2] \in Int
    BY <2>1, <2>2 DEF Forward10, ONE, CONST_BITS
  <2>4. out[3] \in Int /\ out[4] \in Int
    BY <2>1, <2>2 DEF Forward10, ONE, CONST_BITS
  <2>5. out[5] \in Int /\ out[6] \in Int
    BY <2>1, <2>2 DEF Forward10, ONE, CONST_BITS
  <2>6. out[7] \in Int /\ out[8] \in Int
    BY <2>1, <2>2 DEF Forward10, ONE, CONST_BITS
  <2> HIDE DEF out
  <2>7. \A i \in 1..8 : out[i] \in Int
    BY <2>3, <2>4, <2>5, <2>6
  <2> QED
    BY <1>10, <2>7 DEF ForwardN, out
<1>11. CASE n = 11
  <2>1. x[0] \in Int /\ x[1] \in Int /\ x[2] \in Int /\ x[3] \in Int /\ x[4] \in Int /\ x[5] \in Int /\ x[6] \in Int /\ x[7] \in Int /\ x[8] \in Int /\ x[9] \in Int /\ x[10] \in Int
    BY <1>11
  <2>2. \A i \in 1..20 : k[i] \in Int
    BY <1>11 DEF FactorsFit
  <2> DEFINE out == Forward11(x, k)
  <2>3. out[1] \in Int /\ out[2] \in Int
    BY <2>1, <2>2 DEF Forward11
  <2>4. out[3] \in Int /\ out[4] \in Int
    BY <2>1, <2>2 DEF Forward11
  <2>5. out[5] \in Int /\ out[6] \in Int
    BY <2>1, <2>2 DEF Forward11
  <2>6. out[7] \in Int /\ out[8] \in Int
    BY <2>1, <2>2 DEF Forward11
  <2> HIDE DEF out
  <2>7. \A i \in 1..8 : out[i] \in Int
    BY <2>3, <2>4, <2>5, <2>6
  <2> QED
    BY <1>11, <2>7 DEF ForwardN, out
<1>12. CASE n = 12
  <2>1. \A i \in 0..11 : x[i] \in Int
    BY <1>12
  <2>2. \A i \in 1..14 : k[i] \in Int
    BY <1>12 DEF FactorsFit
  <2> DEFINE out == Forward12(x, k)
  <2>3. out[1] \in Int /\ out[2] \in Int
    BY <2>1, <2>2 DEF Forward12, ONE, CONST_BITS
  <2>4. out[3] \in Int /\ out[4] \in Int
    BY <2>1, <2>2 DEF Forward12, ONE, CONST_BITS
  <2>5. out[5] \in Int /\ out[6] \in Int
    BY <2>1, <2>2 DEF Forward12, ONE, CONST_BITS
  <2>6. out[7] \in Int /\ out[8] \in Int
    BY <2>1, <2>2 DEF Forward12, ONE, CONST_BITS
  <2> HIDE DEF out
  <2>7. \A i \in 1..8 : out[i] \in Int
    BY <2>3, <2>4, <2>5, <2>6
  <2> QED
    BY <1>12, <2>7 DEF ForwardN, out
<1>13. CASE n = 13
  <2>1. x[0] \in Int /\ x[1] \in Int /\ x[2] \in Int /\ x[3] \in Int /\ x[4] \in Int /\ x[5] \in Int /\ x[6] \in Int /\ x[7] \in Int /\ x[8] \in Int /\ x[9] \in Int /\ x[10] \in Int /\ x[11] \in Int /\ x[12] \in Int
    BY <1>13
  <2>2. \A i \in 1..26 : k[i] \in Int
    BY <1>13 DEF FactorsFit
  <2> DEFINE out == Forward13(x, k)
  <2>3. out[1] \in Int /\ out[2] \in Int
    BY <2>1, <2>2 DEF Forward13
  <2>4. out[3] \in Int /\ out[4] \in Int
    BY <2>1, <2>2 DEF Forward13
  <2>5. out[5] \in Int /\ out[6] \in Int
    BY <2>1, <2>2 DEF Forward13
  <2>6. out[7] \in Int /\ out[8] \in Int
    BY <2>1, <2>2 DEF Forward13
  <2> HIDE DEF out
  <2>7. \A i \in 1..8 : out[i] \in Int
    BY <2>3, <2>4, <2>5, <2>6
  <2> QED
    BY <1>13, <2>7 DEF ForwardN, out
<1>14. CASE n = 14
  <2>1. \A i \in 0..13 : x[i] \in Int
    BY <1>14
  <2>2. \A i \in 1..21 : k[i] \in Int
    BY <1>14 DEF FactorsFit
  <2> DEFINE out == Forward14(x, k)
  <2>3. out[1] \in Int /\ out[2] \in Int
    BY <2>1, <2>2 DEF Forward14, ONE, CONST_BITS
  <2>4. out[3] \in Int /\ out[4] \in Int
    BY <2>1, <2>2 DEF Forward14, ONE, CONST_BITS
  <2>5. out[5] \in Int /\ out[6] \in Int
    BY <2>1, <2>2 DEF Forward14, ONE, CONST_BITS
  <2>6. out[7] \in Int /\ out[8] \in Int
    BY <2>1, <2>2 DEF Forward14, ONE, CONST_BITS
  <2> HIDE DEF out
  <2>7. \A i \in 1..8 : out[i] \in Int
    BY <2>3, <2>4, <2>5, <2>6
  <2> QED
    BY <1>14, <2>7 DEF ForwardN, out
<1>15. CASE n = 15
  <2>1. \A i \in 0..14 : x[i] \in Int
    BY <1>15
  <2>2. \A i \in 1..21 : k[i] \in Int
    BY <1>15 DEF FactorsFit
  <2> DEFINE out == Forward15(x, k)
  <2>3. out[1] \in Int /\ out[2] \in Int
    BY <2>1, <2>2 DEF Forward15, ONE, CONST_BITS
  <2>4. out[3] \in Int /\ out[4] \in Int
    BY <2>1, <2>2 DEF Forward15, ONE, CONST_BITS
  <2>5. out[5] \in Int /\ out[6] \in Int
    BY <2>1, <2>2 DEF Forward15, ONE, CONST_BITS
  <2>6. out[7] \in Int /\ out[8] \in Int
    BY <2>1, <2>2 DEF Forward15, ONE, CONST_BITS
  <2> HIDE DEF out
  <2>7. \A i \in 1..8 : out[i] \in Int
    BY <2>3, <2>4, <2>5, <2>6
  <2> QED
    BY <1>15, <2>7 DEF ForwardN, out
<1>16. CASE n = 16
  <2>1. \A i \in 0..15 : x[i] \in Int
    BY <1>16
  <2> DEFINE out == Forward16(x, k)
  <2>3. out[1] \in Int /\ out[2] \in Int
    BY <2>1 DEF Forward16, ONE, CONST_BITS
  <2>4. out[3] \in Int /\ out[4] \in Int
    BY <2>1 DEF Forward16, ONE, CONST_BITS
  <2>5. out[5] \in Int /\ out[6] \in Int
    BY <2>1 DEF Forward16, ONE, CONST_BITS
  <2>6. out[7] \in Int /\ out[8] \in Int
    BY <2>1 DEF Forward16, ONE, CONST_BITS
  <2> HIDE DEF out
  <2>7. \A i \in 1..8 : out[i] \in Int
    BY <2>3, <2>4, <2>5, <2>6
  <2> QED
    BY <1>16, <2>7 DEF ForwardN, out
<1> QED
  BY <1>1, <1>2, <1>3, <1>4, <1>5, <1>6, <1>7, <1>8, <1>9, <1>10, <1>11, <1>12, <1>13, <1>14, <1>15, <1>16
\* Both passes give a block of integers.
LEMMA ForwardBlockInt ==
  ASSUME NEW w \in 1..16, NEW h \in 1..16, NEW x \in Samples(<<w, h>>),
         NEW k1, FactorsFit(w, k1), NEW k2, FactorsFit(h, k2), NEW s1 \in 1..18, NEW s2 \in 1..18
  PROVE  ForwardBlock(Passes(k1, s1, k2, s2, w, h), x) \in Block
<1> DEFINE n == IF w < 8 THEN w ELSE 8
           m == IF h < 8 THEN h ELSE 8
           line(i) == [j \in 0..w - 1 |-> x[i][j] - CENTERJSAMPLE]
           row(i) == [u \in 0..n - 1 |-> DESCALE(ForwardN(w, line(i), k1)[u + 1], s1)]
           workspace == [i \in 0..h - 1 |-> row(i)]
           file(u) == [i \in 0..h - 1 |-> workspace[i][u]]
           column(u) == [v \in 0..m - 1 |-> DESCALE(ForwardN(h, file(u), k2)[v + 1], s2)]
           columns == [u \in 0..n - 1 |-> column(u)]
<1>1. n \in 1..8 /\ n <= w /\ m \in 1..8 /\ m <= h
  OBVIOUS
<1>2. ASSUME NEW i \in 0..h - 1, NEW u \in 0..n - 1
      PROVE  row(i)[u] \in Int
  <2>0. x[i] \in [0..w - 1 -> 0..MAXJSAMPLE]
    BY DEF Samples
  <2>1. ASSUME NEW j \in 0..w - 1
        PROVE  line(i)[j] \in Int
    <3>1. x[i][j] \in Int
      BY <2>0
    <3>2. line(i)[j] = x[i][j] - CENTERJSAMPLE
      OBVIOUS
    <3> QED
      BY <3>1, <3>2 DEF CENTERJSAMPLE
  <2> HIDE DEF line, n
  <2>2. u + 1 \in 1..8 /\ u + 1 <= w
    BY <1>1
  <2>3. ForwardN(w, line(i), k1)[u + 1] \in Int
    BY <2>1, <2>2, ForwardInt
  <2> QED
    BY <2>3, DescaleInt
<1>3. ASSUME NEW i \in 0..h - 1, NEW u \in 0..n - 1
      PROVE  workspace[i][u] \in Int
  BY <1>2
<1> HIDE DEF workspace
<1>4. ASSUME NEW u \in 0..n - 1, NEW v \in 0..m - 1
      PROVE  column(u)[v] \in Int
  <2>1. \A i \in 0..h - 1 : file(u)[i] \in Int
    BY <1>3
  <2> HIDE DEF file, m
  <2>2. v + 1 \in 1..8 /\ v + 1 <= h
    BY <1>1
  <2>3. ForwardN(h, file(u), k2)[v + 1] \in Int
    BY <2>1, <2>2, ForwardInt
  <2> QED
    BY <2>3, DescaleInt
<1>5. \A u \in 0..n - 1 : \A v \in 0..m - 1 : columns[u][v] \in Int
  BY <1>4
<1>6. ForwardBlock(Passes(k1, s1, k2, s2, w, h), x)
        = [v \in 0..7 |-> [u \in 0..7 |-> IF u < n /\ v < m THEN columns[u][v] ELSE 0]]
  BY DEF ForwardBlock, Passes, workspace
<1> HIDE DEF columns, n, m
<1>7. \A v \in 0..7 : \A u \in 0..7 : (IF u < n /\ v < m THEN columns[u][v] ELSE 0) \in Int
  BY <1>1, <1>5
<1> QED
  BY <1>6, <1>7 DEF Block

\* Eight bits of fraction are cut off.
LEMMA MultiplyInt ==
  ASSUME NEW x \in Int, NEW const \in Int
  PROVE  Multiply(x, const) \in Int
BY DEF Multiply

\* The arithmetic of the fast method.
LEMMA FastPartsInt ==
  ASSUME NEW s0 \in Int, NEW s1 \in Int, NEW s2 \in Int, NEW s3 \in Int,
         NEW d0 \in Int, NEW d1 \in Int, NEW d2 \in Int, NEW d3 \in Int
  PROVE  \A i \in 1..8 : FastParts(s0, s1, s2, s3, d0, d1, d2, d3)[i] \in Int
<1> DEFINE z1 == Multiply(s1 - s2 + s0 - s3, 181)
           z5 == Multiply(d3 + d2 - d1 - d0, 98)
           a2 == Multiply(d3 + d2, 139)
           a4 == Multiply(d1 + d0, 334)
           z3 == Multiply(d2 + d1, 181)
           out == <<s0 + s3 + s1 + s2, d0 + z3 + (a4 + z5), s0 - s3 + z1, d0 - z3 - (a2 + z5),
                    s0 + s3 - s1 - s2, d0 - z3 + (a2 + z5), s0 - s3 - z1, d0 + z3 - (a4 + z5)>>
<1>1. FastParts(s0, s1, s2, s3, d0, d1, d2, d3) = out
  BY DEF FastParts
<1>2. z1 \in Int /\ z5 \in Int /\ a2 \in Int /\ a4 \in Int /\ z3 \in Int
  <2>1. /\ s1 - s2 + s0 - s3 \in Int /\ d3 + d2 - d1 - d0 \in Int /\ d3 + d2 \in Int
        /\ d1 + d0 \in Int /\ d2 + d1 \in Int
        /\ 181 \in Int /\ 98 \in Int /\ 139 \in Int /\ 334 \in Int
    OBVIOUS
  <2>2. z1 \in Int /\ z5 \in Int
    BY <2>1, MultiplyInt, Zenon
  <2>3. a2 \in Int /\ a4 \in Int
    BY <2>1, MultiplyInt, Zenon
  <2>4. z3 \in Int
    BY <2>1, MultiplyInt, Zenon
  <2> QED
    BY <2>2, <2>3, <2>4
<1> HIDE DEF z1, z5, a2, a4, z3
<1>3. \A i \in 1..8 : out[i] \in Int
  BY <1>2
<1> QED
  BY <1>1, <1>3

LEMMA ForwardFastInt ==
  ASSUME NEW y, \A i \in 0..7 : y[i] \in Int
  PROVE  \A i \in 1..8 : ForwardFast(y)[i] \in Int
<1>0. /\ y[0] \in Int /\ y[1] \in Int /\ y[2] \in Int /\ y[3] \in Int
      /\ y[4] \in Int /\ y[5] \in Int /\ y[6] \in Int /\ y[7] \in Int
  OBVIOUS
<1>1. /\ y[0] + y[7] \in Int /\ y[1] + y[6] \in Int /\ y[2] + y[5] \in Int /\ y[3] + y[4] \in Int
      /\ y[0] - y[7] \in Int /\ y[1] - y[6] \in Int /\ y[2] - y[5] \in Int /\ y[3] - y[4] \in Int
  BY <1>0
<1> QED
  BY <1>1, FastPartsInt DEF ForwardFast

\* The fast transform.
LEMMA FastForwardInt ==
  ASSUME NEW x \in Samples(<<8, 8>>)
  PROVE  jpeg_fdct_ifast(x) \in Block
<1> DEFINE line(i) == [j \in 0..7 |-> x[i][j] - CENTERJSAMPLE]
           row(i) == ForwardFast(line(i))
           workspace == <<row(0), row(1), row(2), row(3), row(4), row(5), row(6), row(7)>>
           file(u) == [i \in 0..7 |-> workspace[i + 1][u + 1]]
           column(u) == ForwardFast(file(u))
           columns == [u \in 0..7 |-> column(u)]
<1>1. ASSUME NEW y, \A i \in 0..7 : y[i] \in Int
      PROVE  \A i \in 1..8 : ForwardFast(y)[i] \in Int
  BY <1>1, ForwardFastInt
<1>2. ASSUME NEW i \in 0..7, NEW u \in 1..8
      PROVE  row(i)[u] \in Int
  <2>1. x[i] \in [0..7 -> 0..MAXJSAMPLE]
    BY DEF Samples
  <2>2. ASSUME NEW j \in 0..7
        PROVE  line(i)[j] \in Int
    <3>1. x[i][j] \in Int
      BY <2>1
    <3>2. line(i)[j] = x[i][j] - CENTERJSAMPLE
      OBVIOUS
    <3> QED
      BY <3>1, <3>2 DEF CENTERJSAMPLE
  <2> HIDE DEF line
  <2> QED
    BY <1>1, <2>2
<1>3. ASSUME NEW i \in 1..8, NEW u \in 1..8
      PROVE  workspace[i][u] \in Int
  <2> HIDE DEF row
  <2>1. workspace[i] = row(i - 1) /\ i - 1 \in 0..7
    OBVIOUS
  <2> HIDE DEF workspace
  <2> QED
    BY <1>2, <2>1
<1> HIDE DEF workspace
<1>4. ASSUME NEW u \in 0..7, NEW v \in 0..7
      PROVE  columns[u][v + 1] \in Int
  <2>1. \A i \in 0..7 : file(u)[i] \in Int
    <3>1. \A i \in 0..7 : i + 1 \in 1..8 /\ u + 1 \in 1..8
      OBVIOUS
    <3> QED
      BY <1>3, <3>1
  <2> HIDE DEF file
  <2>2. v + 1 \in 1..8
    OBVIOUS
  <2> QED
    BY <1>1, <2>1, <2>2
<1>5. jpeg_fdct_ifast(x) = [v \in 0..7 |-> [u \in 0..7 |-> columns[u][v + 1]]]
  BY DEF jpeg_fdct_ifast, workspace
<1> HIDE DEF columns
<1> QED
  BY <1>4, <1>5 DEF Block

\* The forward transform of every size and of both methods gives a block.
LEMMA FdctBlock ==
  ASSUME NEW size \in DctSizes, NEW method, NEW x \in Samples(size)
  PROVE  Fdct(size, method, x) \in Block
<1>1. CASE size = <<8, 8>> /\ method = ISLOW
  <2>1. 8 \in 1..16 /\ FactorsFit(8, <<>>)
    BY DEF FactorsFit
  <2>2. x \in Samples(<<8, 8>>)
    BY <1>1
  <2>3. CONST_BITS - PASS1_BITS \in 1..18 /\ CONST_BITS + PASS1_BITS \in 1..18
    BY DEF CONST_BITS, PASS1_BITS
  <2>4. ForwardBlock(jpeg_fdct_islow, x) \in Block
    BY <2>1, <2>2, <2>3, ForwardBlockInt, Zenon DEF jpeg_fdct_islow
  <2> QED
    BY <1>1, <2>4 DEF Fdct, FdctPasses
<1>2. CASE size = <<7, 7>>
  <2>1. 7 \in 1..16 /\ FactorsFit(7, K7) /\ FactorsFit(7, S7)
    BY DEF FactorsFit, K7, S7
  <2>2. x \in Samples(<<7, 7>>)
    BY <1>2
  <2>3. CONST_BITS - PASS1_BITS \in 1..18 /\ CONST_BITS + PASS1_BITS \in 1..18
    BY DEF CONST_BITS, PASS1_BITS
  <2>4. ForwardBlock(jpeg_fdct_7x7, x) \in Block
    BY <2>1, <2>2, <2>3, ForwardBlockInt, Zenon DEF jpeg_fdct_7x7
  <2> QED
    BY <1>2, <2>4 DEF Fdct, FdctPasses
<1>3. CASE size = <<6, 6>>
  <2>1. 6 \in 1..16 /\ FactorsFit(6, K6) /\ FactorsFit(6, S6)
    BY DEF FactorsFit, K6, S6
  <2>2. x \in Samples(<<6, 6>>)
    BY <1>3
  <2>3. CONST_BITS - PASS1_BITS \in 1..18 /\ CONST_BITS + PASS1_BITS \in 1..18
    BY DEF CONST_BITS, PASS1_BITS
  <2>4. ForwardBlock(jpeg_fdct_6x6, x) \in Block
    BY <2>1, <2>2, <2>3, ForwardBlockInt, Zenon DEF jpeg_fdct_6x6
  <2> QED
    BY <1>3, <2>4 DEF Fdct, FdctPasses
<1>4. CASE size = <<5, 5>>
  <2>1. 5 \in 1..16 /\ FactorsFit(5, K5) /\ FactorsFit(5, S5)
    BY DEF FactorsFit, K5, S5
  <2>2. x \in Samples(<<5, 5>>)
    BY <1>4
  <2>3. CONST_BITS + PASS1_BITS \in 1..18 /\ CONST_BITS - PASS1_BITS - 1 \in 1..18
    BY DEF CONST_BITS, PASS1_BITS
  <2>4. ForwardBlock(jpeg_fdct_5x5, x) \in Block
    BY <2>1, <2>2, <2>3, ForwardBlockInt, Zenon DEF jpeg_fdct_5x5
  <2> QED
    BY <1>4, <2>4 DEF Fdct, FdctPasses
<1>5. CASE size = <<4, 4>>
  <2>1. 4 \in 1..16 /\ FactorsFit(4, <<>>)
    BY DEF FactorsFit
  <2>2. x \in Samples(<<4, 4>>)
    BY <1>5
  <2>3. CONST_BITS - PASS1_BITS - 2 \in 1..18 /\ CONST_BITS + PASS1_BITS \in 1..18
    BY DEF CONST_BITS, PASS1_BITS
  <2>4. ForwardBlock(jpeg_fdct_4x4, x) \in Block
    BY <2>1, <2>2, <2>3, ForwardBlockInt, Zenon DEF jpeg_fdct_4x4
  <2> QED
    BY <1>5, <2>4 DEF Fdct, FdctPasses
<1>6. CASE size = <<3, 3>>
  <2>1. 3 \in 1..16 /\ FactorsFit(3, K3) /\ FactorsFit(3, S3)
    BY DEF FactorsFit, K3, S3
  <2>2. x \in Samples(<<3, 3>>)
    BY <1>6
  <2>3. CONST_BITS - PASS1_BITS - 2 \in 1..18 /\ CONST_BITS + PASS1_BITS \in 1..18
    BY DEF CONST_BITS, PASS1_BITS
  <2>4. ForwardBlock(jpeg_fdct_3x3, x) \in Block
    BY <2>1, <2>2, <2>3, ForwardBlockInt, Zenon DEF jpeg_fdct_3x3
  <2> QED
    BY <1>6, <2>4 DEF Fdct, FdctPasses
<1>7. CASE size = <<2, 2>>
  <2>1. 2 \in 1..16 /\ FactorsFit(2, <<>>)
    BY DEF FactorsFit
  <2>2. x \in Samples(<<2, 2>>)
    BY <1>7
  <2>3. CONST_BITS - PASS1_BITS - 2 \in 1..18 /\ CONST_BITS \in 1..18
    BY DEF CONST_BITS, PASS1_BITS
  <2>4. ForwardBlock(jpeg_fdct_2x2, x) \in Block
    BY <2>1, <2>2, <2>3, ForwardBlockInt, Zenon DEF jpeg_fdct_2x2
  <2> QED
    BY <1>7, <2>4 DEF Fdct, FdctPasses
<1>8. CASE size = <<1, 1>>
  <2>1. 1 \in 1..16 /\ FactorsFit(1, <<>>)
    BY DEF FactorsFit
  <2>2. x \in Samples(<<1, 1>>)
    BY <1>8
  <2>3. CONST_BITS - PASS1_BITS - 4 \in 1..18 /\ CONST_BITS \in 1..18
    BY DEF CONST_BITS, PASS1_BITS
  <2>4. ForwardBlock(jpeg_fdct_1x1, x) \in Block
    BY <2>1, <2>2, <2>3, ForwardBlockInt, Zenon DEF jpeg_fdct_1x1
  <2> QED
    BY <1>8, <2>4 DEF Fdct, FdctPasses
<1>9. CASE size = <<9, 9>>
  <2>1. 9 \in 1..16 /\ FactorsFit(9, K9) /\ FactorsFit(9, S9)
    BY DEF FactorsFit, K9, S9
  <2>2. x \in Samples(<<9, 9>>)
    BY <1>9
  <2>3. CONST_BITS - 1 \in 1..18 /\ CONST_BITS + PASS1_BITS \in 1..18
    BY DEF CONST_BITS, PASS1_BITS
  <2>4. ForwardBlock(jpeg_fdct_9x9, x) \in Block
    BY <2>1, <2>2, <2>3, ForwardBlockInt, Zenon DEF jpeg_fdct_9x9
  <2> QED
    BY <1>9, <2>4 DEF Fdct, FdctPasses
<1>10. CASE size = <<10, 10>>
  <2>1. 10 \in 1..16 /\ FactorsFit(10, K10) /\ FactorsFit(10, S10)
    BY DEF FactorsFit, K10, S10
  <2>2. x \in Samples(<<10, 10>>)
    BY <1>10
  <2>3. CONST_BITS - 1 \in 1..18 /\ CONST_BITS + PASS1_BITS \in 1..18
    BY DEF CONST_BITS, PASS1_BITS
  <2>4. ForwardBlock(jpeg_fdct_10x10, x) \in Block
    BY <2>1, <2>2, <2>3, ForwardBlockInt, Zenon DEF jpeg_fdct_10x10
  <2> QED
    BY <1>10, <2>4 DEF Fdct, FdctPasses
<1>11. CASE size = <<11, 11>>
  <2>1. 11 \in 1..16 /\ FactorsFit(11, K11) /\ FactorsFit(11, S11)
    BY DEF FactorsFit, K11, S11
  <2>2. x \in Samples(<<11, 11>>)
    BY <1>11
  <2>3. CONST_BITS - 1 \in 1..18 /\ CONST_BITS + PASS1_BITS \in 1..18
    BY DEF CONST_BITS, PASS1_BITS
  <2>4. ForwardBlock(jpeg_fdct_11x11, x) \in Block
    BY <2>1, <2>2, <2>3, ForwardBlockInt, Zenon DEF jpeg_fdct_11x11
  <2> QED
    BY <1>11, <2>4 DEF Fdct, FdctPasses
<1>12. CASE size = <<12, 12>>
  <2>1. 12 \in 1..16 /\ FactorsFit(12, K12) /\ FactorsFit(12, S12)
    BY DEF FactorsFit, K12, S12
  <2>2. x \in Samples(<<12, 12>>)
    BY <1>12
  <2>3. CONST_BITS + 1 \in 1..18 /\ CONST_BITS \in 1..18
    BY DEF CONST_BITS, PASS1_BITS
  <2>4. ForwardBlock(jpeg_fdct_12x12, x) \in Block
    BY <2>1, <2>2, <2>3, ForwardBlockInt, Zenon DEF jpeg_fdct_12x12
  <2> QED
    BY <1>12, <2>4 DEF Fdct, FdctPasses
<1>13. CASE size = <<13, 13>>
  <2>1. 13 \in 1..16 /\ FactorsFit(13, K13) /\ FactorsFit(13, S13)
    BY DEF FactorsFit, K13, S13
  <2>2. x \in Samples(<<13, 13>>)
    BY <1>13
  <2>3. CONST_BITS + 1 \in 1..18 /\ CONST_BITS \in 1..18
    BY DEF CONST_BITS, PASS1_BITS
  <2>4. ForwardBlock(jpeg_fdct_13x13, x) \in Block
    BY <2>1, <2>2, <2>3, ForwardBlockInt, Zenon DEF jpeg_fdct_13x13
  <2> QED
    BY <1>13, <2>4 DEF Fdct, FdctPasses
<1>14. CASE size = <<14, 14>>
  <2>1. 14 \in 1..16 /\ FactorsFit(14, K14) /\ FactorsFit(14, S14)
    BY DEF FactorsFit, K14, S14
  <2>2. x \in Samples(<<14, 14>>)
    BY <1>14
  <2>3. CONST_BITS + 1 \in 1..18 /\ CONST_BITS \in 1..18
    BY DEF CONST_BITS, PASS1_BITS
  <2>4. ForwardBlock(jpeg_fdct_14x14, x) \in Block
    BY <2>1, <2>2, <2>3, ForwardBlockInt, Zenon DEF jpeg_fdct_14x14
  <2> QED
    BY <1>14, <2>4 DEF Fdct, FdctPasses
<1>15. CASE size = <<15, 15>>
  <2>1. 15 \in 1..16 /\ FactorsFit(15, K15) /\ FactorsFit(15, S15)
    BY DEF FactorsFit, K15, S15
  <2>2. x \in Samples(<<15, 15>>)
    BY <1>15
  <2>3. CONST_BITS \in 1..18 /\ CONST_BITS + PASS1_BITS \in 1..18
    BY DEF CONST_BITS, PASS1_BITS
  <2>4. ForwardBlock(jpeg_fdct_15x15, x) \in Block
    BY <2>1, <2>2, <2>3, ForwardBlockInt, Zenon DEF jpeg_fdct_15x15
  <2> QED
    BY <1>15, <2>4 DEF Fdct, FdctPasses
<1>16. CASE size = <<16, 16>>
  <2>1. 16 \in 1..16 /\ FactorsFit(16, <<>>)
    BY DEF FactorsFit
  <2>2. x \in Samples(<<16, 16>>)
    BY <1>16
  <2>3. CONST_BITS - PASS1_BITS \in 1..18 /\ CONST_BITS + PASS1_BITS + 2 \in 1..18
    BY DEF CONST_BITS, PASS1_BITS
  <2>4. ForwardBlock(jpeg_fdct_16x16, x) \in Block
    BY <2>1, <2>2, <2>3, ForwardBlockInt, Zenon DEF jpeg_fdct_16x16
  <2> QED
    BY <1>16, <2>4 DEF Fdct, FdctPasses
<1>17. CASE size = <<16, 8>>
  <2>1. 16 \in 1..16 /\ 8 \in 1..16 /\ FactorsFit(16, <<>>) /\ FactorsFit(8, <<>>)
    BY DEF FactorsFit
  <2>2. x \in Samples(<<16, 8>>)
    BY <1>17
  <2>3. CONST_BITS + PASS1_BITS + 1 \in 1..18 /\ CONST_BITS - PASS1_BITS \in 1..18
    BY DEF CONST_BITS, PASS1_BITS
  <2>4. ForwardBlock(jpeg_fdct_16x8, x) \in Block
    BY <2>1, <2>2, <2>3, ForwardBlockInt, Zenon DEF jpeg_fdct_16x8
  <2> QED
    BY <1>17, <2>4 DEF Fdct, FdctPasses
<1>18. CASE size = <<14, 7>>
  <2>1. 14 \in 1..16 /\ 7 \in 1..16 /\ FactorsFit(14, K14) /\ FactorsFit(7, S7)
    BY DEF FactorsFit, K14, S7
  <2>2. x \in Samples(<<14, 7>>)
    BY <1>18
  <2>3. CONST_BITS + PASS1_BITS + 1 \in 1..18 /\ CONST_BITS - PASS1_BITS \in 1..18
    BY DEF CONST_BITS, PASS1_BITS
  <2>4. ForwardBlock(jpeg_fdct_14x7, x) \in Block
    BY <2>1, <2>2, <2>3, ForwardBlockInt, Zenon DEF jpeg_fdct_14x7
  <2> QED
    BY <1>18, <2>4 DEF Fdct, FdctPasses
<1>19. CASE size = <<12, 6>>
  <2>1. 12 \in 1..16 /\ 6 \in 1..16 /\ FactorsFit(12, K12) /\ FactorsFit(6, S6)
    BY DEF FactorsFit, K12, S6
  <2>2. x \in Samples(<<12, 6>>)
    BY <1>19
  <2>3. CONST_BITS + PASS1_BITS + 1 \in 1..18 /\ CONST_BITS - PASS1_BITS \in 1..18
    BY DEF CONST_BITS, PASS1_BITS
  <2>4. ForwardBlock(jpeg_fdct_12x6, x) \in Block
    BY <2>1, <2>2, <2>3, ForwardBlockInt, Zenon DEF jpeg_fdct_12x6
  <2> QED
    BY <1>19, <2>4 DEF Fdct, FdctPasses
<1>20. CASE size = <<10, 5>>
  <2>1. 10 \in 1..16 /\ 5 \in 1..16 /\ FactorsFit(10, K10) /\ FactorsFit(5, S5)
    BY DEF FactorsFit, K10, S5
  <2>2. x \in Samples(<<10, 5>>)
    BY <1>20
  <2>3. CONST_BITS - PASS1_BITS \in 1..18 /\ CONST_BITS + PASS1_BITS \in 1..18
    BY DEF CONST_BITS, PASS1_BITS
  <2>4. ForwardBlock(jpeg_fdct_10x5, x) \in Block
    BY <2>1, <2>2, <2>3, ForwardBlockInt, Zenon DEF jpeg_fdct_10x5
  <2> QED
    BY <1>20, <2>4 DEF Fdct, FdctPasses
<1>21. CASE size = <<8, 4>>
  <2>1. 8 \in 1..16 /\ 4 \in 1..16 /\ FactorsFit(8, <<>>) /\ FactorsFit(4, <<>>)
    BY DEF FactorsFit
  <2>2. x \in Samples(<<8, 4>>)
    BY <1>21
  <2>3. CONST_BITS + PASS1_BITS \in 1..18 /\ CONST_BITS - PASS1_BITS - 1 \in 1..18
    BY DEF CONST_BITS, PASS1_BITS
  <2>4. ForwardBlock(jpeg_fdct_8x4, x) \in Block
    BY <2>1, <2>2, <2>3, ForwardBlockInt, Zenon DEF jpeg_fdct_8x4
  <2> QED
    BY <1>21, <2>4 DEF Fdct, FdctPasses
<1>22. CASE size = <<6, 3>>
  <2>1. 6 \in 1..16 /\ 3 \in 1..16 /\ FactorsFit(6, K6) /\ FactorsFit(3, S3)
    BY DEF FactorsFit, K6, S3
  <2>2. x \in Samples(<<6, 3>>)
    BY <1>22
  <2>3. CONST_BITS + PASS1_BITS \in 1..18 /\ CONST_BITS - PASS1_BITS - 1 \in 1..18
    BY DEF CONST_BITS, PASS1_BITS
  <2>4. ForwardBlock(jpeg_fdct_6x3, x) \in Block
    BY <2>1, <2>2, <2>3, ForwardBlockInt, Zenon DEF jpeg_fdct_6x3
  <2> QED
    BY <1>22, <2>4 DEF Fdct, FdctPasses
<1>23. CASE size = <<4, 2>>
  <2>1. 4 \in 1..16 /\ 2 \in 1..16 /\ FactorsFit(4, <<>>) /\ FactorsFit(2, <<>>)
    BY DEF FactorsFit
  <2>2. x \in Samples(<<4, 2>>)
    BY <1>23
  <2>3. CONST_BITS - PASS1_BITS - 3 \in 1..18 /\ CONST_BITS + PASS1_BITS \in 1..18
    BY DEF CONST_BITS, PASS1_BITS
  <2>4. ForwardBlock(jpeg_fdct_4x2, x) \in Block
    BY <2>1, <2>2, <2>3, ForwardBlockInt, Zenon DEF jpeg_fdct_4x2
  <2> QED
    BY <1>23, <2>4 DEF Fdct, FdctPasses
<1>24. CASE size = <<2, 1>>
  <2>1. 2 \in 1..16 /\ 1 \in 1..16 /\ FactorsFit(2, <<>>) /\ FactorsFit(1, <<>>)
    BY DEF FactorsFit
  <2>2. x \in Samples(<<2, 1>>)
    BY <1>24
  <2>3. CONST_BITS - PASS1_BITS - 3 \in 1..18 /\ CONST_BITS \in 1..18
    BY DEF CONST_BITS, PASS1_BITS
  <2>4. ForwardBlock(jpeg_fdct_2x1, x) \in Block
    BY <2>1, <2>2, <2>3, ForwardBlockInt, Zenon DEF jpeg_fdct_2x1
  <2> QED
    BY <1>24, <2>4 DEF Fdct, FdctPasses
<1>25. CASE size = <<8, 16>>
  <2>1. 8 \in 1..16 /\ 16 \in 1..16 /\ FactorsFit(8, <<>>) /\ FactorsFit(16, <<>>)
    BY DEF FactorsFit
  <2>2. x \in Samples(<<8, 16>>)
    BY <1>25
  <2>3. CONST_BITS + PASS1_BITS + 1 \in 1..18 /\ CONST_BITS - PASS1_BITS \in 1..18
    BY DEF CONST_BITS, PASS1_BITS
  <2>4. ForwardBlock(jpeg_fdct_8x16, x) \in Block
    BY <2>1, <2>2, <2>3, ForwardBlockInt, Zenon DEF jpeg_fdct_8x16
  <2> QED
    BY <1>25, <2>4 DEF Fdct, FdctPasses
<1>26. CASE size = <<7, 14>>
  <2>1. 7 \in 1..16 /\ 14 \in 1..16 /\ FactorsFit(7, K7) /\ FactorsFit(14, S14)
    BY DEF FactorsFit, K7, S14
  <2>2. x \in Samples(<<7, 14>>)
    BY <1>26
  <2>3. CONST_BITS - PASS1_BITS \in 1..18 /\ CONST_BITS + PASS1_BITS \in 1..18
    BY DEF CONST_BITS, PASS1_BITS
  <2>4. ForwardBlock(jpeg_fdct_7x14, x) \in Block
    BY <2>1, <2>2, <2>3, ForwardBlockInt, Zenon DEF jpeg_fdct_7x14
  <2> QED
    BY <1>26, <2>4 DEF Fdct, FdctPasses
<1>27. CASE size = <<6, 12>>
  <2>1. 6 \in 1..16 /\ 12 \in 1..16 /\ FactorsFit(6, K6) /\ FactorsFit(12, S12)
    BY DEF FactorsFit, K6, S12
  <2>2. x \in Samples(<<6, 12>>)
    BY <1>27
  <2>3. CONST_BITS - PASS1_BITS \in 1..18 /\ CONST_BITS + PASS1_BITS \in 1..18
    BY DEF CONST_BITS, PASS1_BITS
  <2>4. ForwardBlock(jpeg_fdct_6x12, x) \in Block
    BY <2>1, <2>2, <2>3, ForwardBlockInt, Zenon DEF jpeg_fdct_6x12
  <2> QED
    BY <1>27, <2>4 DEF Fdct, FdctPasses
<1>28. CASE size = <<5, 10>>
  <2>1. 5 \in 1..16 /\ 10 \in 1..16 /\ FactorsFit(5, K5) /\ FactorsFit(10, S10)
    BY DEF FactorsFit, K5, S10
  <2>2. x \in Samples(<<5, 10>>)
    BY <1>28
  <2>3. CONST_BITS - PASS1_BITS \in 1..18 /\ CONST_BITS + PASS1_BITS \in 1..18
    BY DEF CONST_BITS, PASS1_BITS
  <2>4. ForwardBlock(jpeg_fdct_5x10, x) \in Block
    BY <2>1, <2>2, <2>3, ForwardBlockInt, Zenon DEF jpeg_fdct_5x10
  <2> QED
    BY <1>28, <2>4 DEF Fdct, FdctPasses
<1>29. CASE size = <<4, 8>>
  <2>1. 4 \in 1..16 /\ 8 \in 1..16 /\ FactorsFit(4, <<>>) /\ FactorsFit(8, <<>>)
    BY DEF FactorsFit
  <2>2. x \in Samples(<<4, 8>>)
    BY <1>29
  <2>3. CONST_BITS + PASS1_BITS \in 1..18 /\ CONST_BITS - PASS1_BITS - 1 \in 1..18
    BY DEF CONST_BITS, PASS1_BITS
  <2>4. ForwardBlock(jpeg_fdct_4x8, x) \in Block
    BY <2>1, <2>2, <2>3, ForwardBlockInt, Zenon DEF jpeg_fdct_4x8
  <2> QED
    BY <1>29, <2>4 DEF Fdct, FdctPasses
<1>30. CASE size = <<3, 6>>
  <2>1. 3 \in 1..16 /\ 6 \in 1..16 /\ FactorsFit(3, K3) /\ FactorsFit(6, S6)
    BY DEF FactorsFit, K3, S6
  <2>2. x \in Samples(<<3, 6>>)
    BY <1>30
  <2>3. CONST_BITS + PASS1_BITS \in 1..18 /\ CONST_BITS - PASS1_BITS - 1 \in 1..18
    BY DEF CONST_BITS, PASS1_BITS
  <2>4. ForwardBlock(jpeg_fdct_3x6, x) \in Block
    BY <2>1, <2>2, <2>3, ForwardBlockInt, Zenon DEF jpeg_fdct_3x6
  <2> QED
    BY <1>30, <2>4 DEF Fdct, FdctPasses
<1>31. CASE size = <<2, 4>>
  <2>1. 2 \in 1..16 /\ 4 \in 1..16 /\ FactorsFit(2, <<>>) /\ FactorsFit(4, <<>>)
    BY DEF FactorsFit
  <2>2. x \in Samples(<<2, 4>>)
    BY <1>31
  <2>3. CONST_BITS \in 1..18 /\ CONST_BITS - PASS1_BITS - 1 \in 1..18
    BY DEF CONST_BITS, PASS1_BITS
  <2>4. ForwardBlock(jpeg_fdct_2x4, x) \in Block
    BY <2>1, <2>2, <2>3, ForwardBlockInt, Zenon DEF jpeg_fdct_2x4
  <2> QED
    BY <1>31, <2>4 DEF Fdct, FdctPasses
<1>32. CASE size = <<1, 2>>
  <2>1. 1 \in 1..16 /\ 2 \in 1..16 /\ FactorsFit(1, <<>>) /\ FactorsFit(2, <<>>)
    BY DEF FactorsFit
  <2>2. x \in Samples(<<1, 2>>)
    BY <1>32
  <2>3. CONST_BITS - PASS1_BITS - 3 \in 1..18 /\ CONST_BITS \in 1..18
    BY DEF CONST_BITS, PASS1_BITS
  <2>4. ForwardBlock(jpeg_fdct_1x2, x) \in Block
    BY <2>1, <2>2, <2>3, ForwardBlockInt, Zenon DEF jpeg_fdct_1x2
  <2> QED
    BY <1>32, <2>4 DEF Fdct, FdctPasses
<1>33. CASE size = <<8, 8>> /\ method # ISLOW
  <2>1. jpeg_fdct_ifast(x) \in Block
    BY <1>33, FastForwardInt
  <2> QED
    BY <1>33, <2>1 DEF Fdct
<1> QED
  BY <1>1, <1>2, <1>3, <1>4, <1>5, <1>6, <1>7, <1>8, <1>9, <1>10, <1>11, <1>12, <1>13, <1>14, <1>15, <1>16, <1>17, <1>18, <1>19, <1>20, <1>21, <1>22, <1>23, <1>24, <1>25, <1>26, <1>27, <1>28, <1>29, <1>30, <1>31, <1>32, <1>33 DEF DctSizes

-----------------------------------------------------------------------------
(* What the inverse transforms compute *)

\* Integer parts make integer outputs, and zero parts zero ones.
IntParts(even, odd) ==
  /\ Len(even) \in Nat /\ Len(odd) \in {Len(even), Len(even) - 1} \cap Nat
  /\ \A i \in 1..Len(even) : even[i] \in Int
  /\ \A i \in 1..Len(odd) : odd[i] \in Int
ZeroParts(even, odd) ==
  (\A i \in 1..Len(even) : even[i] = 0) /\ (\A i \in 1..Len(odd) : odd[i] = 0)

LEMMA ButterflyInt ==
  ASSUME NEW even, NEW odd, IntParts(even, odd)
  PROVE  /\ Butterfly(even, odd) \in [1..Len(even) + Len(odd) -> Int]
         /\ ZeroParts(even, odd) =>
              \A i \in 1..Len(even) + Len(odd) : Butterfly(even, odd)[i] = 0
<1> DEFINE a == Len(even)
           b == Len(odd)
           out(i) == IF i <= b THEN even[i] + odd[i]
                     ELSE IF i <= a THEN even[i]
                     ELSE even[a + b + 1 - i] - odd[a + b + 1 - i]
<1>3. Butterfly(even, odd) = [i \in 1..a + b |-> out(i)]
  BY DEF Butterfly
<1>4. /\ a \in Nat /\ b \in Nat /\ (b = a \/ b = a - 1)
      /\ \A i \in 1..a : even[i] \in Int
      /\ \A i \in 1..b : odd[i] \in Int
  BY DEF IntParts
<1>5. ZeroParts(even, odd) => (\A i \in 1..a : even[i] = 0) /\ (\A i \in 1..b : odd[i] = 0)
  BY DEF ZeroParts
<1> HIDE DEF a, b
<1>1. ASSUME NEW i \in 1..a + b
      PROVE  out(i) \in Int
  <2>1. CASE i <= b
    <3>1. i \in 1..a /\ i \in 1..b
      BY <2>1, <1>4
    <3> QED
      BY <2>1, <3>1, <1>4
  <2>2. CASE ~(i <= b) /\ i <= a
    BY <2>2, <1>4
  <2>3. CASE ~(i <= a)
    <3>1. a + b + 1 - i \in 1..a /\ a + b + 1 - i \in 1..b /\ ~(i <= b)
      BY <2>3, <1>4
    <3> QED
      BY <2>3, <3>1, <1>4
  <2> QED
    BY <2>1, <2>2, <2>3
<1>2. ASSUME ZeroParts(even, odd), NEW i \in 1..a + b
      PROVE  out(i) = 0
  <2>1. CASE i <= b
    <3>1. i \in 1..a /\ i \in 1..b
      BY <2>1, <1>4
    <3> QED
      BY <1>2, <1>5, <2>1, <3>1
  <2>2. CASE ~(i <= b) /\ i <= a
    BY <1>2, <1>4, <1>5, <2>2
  <2>3. CASE ~(i <= a)
    <3>1. a + b + 1 - i \in 1..a /\ a + b + 1 - i \in 1..b /\ ~(i <= b)
      BY <2>3, <1>4
    <3> QED
      BY <1>2, <1>5, <2>3, <3>1
  <2> QED
    BY <2>1, <2>2, <2>3
<1> HIDE DEF out
<1>6. Butterfly(even, odd) \in [1..a + b -> Int]
  BY <1>1, <1>3
<1>7. ZeroParts(even, odd) => \A i \in 1..a + b : Butterfly(even, odd)[i] = 0
  BY <1>2, <1>3
<1> QED
  BY <1>6, <1>7 DEF a, b

IsZero(c) == \A k \in 0..7 : c[k] = 0

\* The inverse transform with n outputs.
InverseN(n, c) ==
  CASE n = 1 -> Inverse1(c)    [] n = 2 -> Inverse2(c)    [] n = 3 -> Inverse3(c)
    [] n = 4 -> Inverse4(c)    [] n = 5 -> Inverse5(c)    [] n = 6 -> Inverse6(c)
    [] n = 7 -> Inverse7(c)    [] n = 8 -> Inverse8(c)    [] n = 9 -> Inverse9(c)
    [] n = 10 -> Inverse10(c)  [] n = 11 -> Inverse11(c)  [] n = 12 -> Inverse12(c)
    [] n = 13 -> Inverse13(c)  [] n = 14 -> Inverse14(c)  [] n = 15 -> Inverse15(c)
    [] n = 16 -> Inverse16(c)

\* Integers go to integers, in the inverse transform of every size, and zeros to
\* zeros.
LEMMA InverseInt ==
  ASSUME NEW n \in 1..16, NEW c, \A k \in 0..7 : c[k] \in Int
  PROVE  /\ InverseN(n, c) \in [1..n -> Int]
         /\ IsZero(c) => \A i \in 1..n : InverseN(n, c)[i] = 0
<1>0. /\ c[0] \in Int /\ c[1] \in Int /\ c[2] \in Int /\ c[3] \in Int
      /\ c[4] \in Int /\ c[5] \in Int /\ c[6] \in Int /\ c[7] \in Int
  OBVIOUS
<1>1. CASE n = 1
  <2>1. Inverse1(c) \in [1..1 -> Int] /\ (IsZero(c) => \A i \in 1..1 : Inverse1(c)[i] = 0)
    BY <1>0 DEF Inverse1, IsZero, ONE, CONST_BITS
  <2> QED
    BY <1>1, <2>1 DEF InverseN
<1>2. CASE n = 2
  <2> DEFINE EvenPart == EvenPart2(c)
             OddPart == OddPart2(c)
  <2>1. /\ EvenPart[1] \in Int
       /\ Len(EvenPart) = 1
    BY <1>0 DEF EvenPart2, ONE, CONST_BITS
  <2>2. IsZero(c) => /\ EvenPart[1] = 0
    BY <1>0 DEF EvenPart2, IsZero, ONE, CONST_BITS
  <2>3. /\ OddPart[1] \in Int
       /\ Len(OddPart) = 1
    BY <1>0 DEF OddPart2, ONE, CONST_BITS
  <2>4. IsZero(c) => /\ OddPart[1] = 0
    BY <1>0 DEF OddPart2, IsZero, ONE, CONST_BITS
  <2> HIDE DEF EvenPart, OddPart
  <2>5. IntParts(EvenPart, OddPart)
    BY <2>1, <2>3 DEF IntParts
  <2>6. IsZero(c) => ZeroParts(EvenPart, OddPart)
    BY <2>1, <2>2, <2>3, <2>4 DEF ZeroParts
  <2>7. InverseN(n, c) = Butterfly(EvenPart, OddPart)
    BY <1>2 DEF InverseN, Inverse2, EvenPart, OddPart
  <2>8. Len(EvenPart) + Len(OddPart) = n
    BY <1>2, <2>1, <2>3
  <2> QED
    BY <2>5, <2>6, <2>7, <2>8, ButterflyInt
<1>3. CASE n = 3
  <2> DEFINE EvenPart == EvenPart3(c)
             OddPart == OddPart3(c)
  <2>1. /\ EvenPart[1] \in Int /\ EvenPart[2] \in Int
       /\ Len(EvenPart) = 2
    BY <1>0 DEF EvenPart3, ONE, CONST_BITS
  <2>2. IsZero(c) => /\ EvenPart[1] = 0 /\ EvenPart[2] = 0
    BY <1>0 DEF EvenPart3, IsZero, ONE, CONST_BITS
  <2>3. /\ OddPart[1] \in Int
       /\ Len(OddPart) = 1
    BY <1>0 DEF OddPart3, ONE, CONST_BITS
  <2>4. IsZero(c) => /\ OddPart[1] = 0
    BY <1>0 DEF OddPart3, IsZero, ONE, CONST_BITS
  <2> HIDE DEF EvenPart, OddPart
  <2>5. IntParts(EvenPart, OddPart)
    BY <2>1, <2>3 DEF IntParts
  <2>6. IsZero(c) => ZeroParts(EvenPart, OddPart)
    BY <2>1, <2>2, <2>3, <2>4 DEF ZeroParts
  <2>7. InverseN(n, c) = Butterfly(EvenPart, OddPart)
    BY <1>3 DEF InverseN, Inverse3, EvenPart, OddPart
  <2>8. Len(EvenPart) + Len(OddPart) = n
    BY <1>3, <2>1, <2>3
  <2> QED
    BY <2>5, <2>6, <2>7, <2>8, ButterflyInt
<1>4. CASE n = 4
  <2> DEFINE EvenPart == EvenPart4(c)
             OddPart == OddPart4(c)
  <2>1. /\ EvenPart[1] \in Int /\ EvenPart[2] \in Int
       /\ Len(EvenPart) = 2
    BY <1>0 DEF EvenPart4, ONE, CONST_BITS
  <2>2. IsZero(c) => /\ EvenPart[1] = 0 /\ EvenPart[2] = 0
    BY <1>0 DEF EvenPart4, IsZero, ONE, CONST_BITS
  <2>3. /\ OddPart[1] \in Int /\ OddPart[2] \in Int
       /\ Len(OddPart) = 2
    BY <1>0 DEF OddPart4, ONE, CONST_BITS
  <2>4. IsZero(c) => /\ OddPart[1] = 0 /\ OddPart[2] = 0
    BY <1>0 DEF OddPart4, IsZero, ONE, CONST_BITS
  <2> HIDE DEF EvenPart, OddPart
  <2>5. IntParts(EvenPart, OddPart)
    BY <2>1, <2>3 DEF IntParts
  <2>6. IsZero(c) => ZeroParts(EvenPart, OddPart)
    BY <2>1, <2>2, <2>3, <2>4 DEF ZeroParts
  <2>7. InverseN(n, c) = Butterfly(EvenPart, OddPart)
    BY <1>4 DEF InverseN, Inverse4, EvenPart, OddPart
  <2>8. Len(EvenPart) + Len(OddPart) = n
    BY <1>4, <2>1, <2>3
  <2> QED
    BY <2>5, <2>6, <2>7, <2>8, ButterflyInt
<1>5. CASE n = 5
  <2> DEFINE EvenPart == EvenPart5(c)
             OddPart == OddPart5(c)
  <2>1. /\ EvenPart[1] \in Int /\ EvenPart[2] \in Int /\ EvenPart[3] \in Int
       /\ Len(EvenPart) = 3
    BY <1>0 DEF EvenPart5, ONE, CONST_BITS
  <2>2. IsZero(c) => /\ EvenPart[1] = 0 /\ EvenPart[2] = 0 /\ EvenPart[3] = 0
    BY <1>0 DEF EvenPart5, IsZero, ONE, CONST_BITS
  <2>3. /\ OddPart[1] \in Int /\ OddPart[2] \in Int
       /\ Len(OddPart) = 2
    BY <1>0 DEF OddPart5, ONE, CONST_BITS
  <2>4. IsZero(c) => /\ OddPart[1] = 0 /\ OddPart[2] = 0
    BY <1>0 DEF OddPart5, IsZero, ONE, CONST_BITS
  <2> HIDE DEF EvenPart, OddPart
  <2>5. IntParts(EvenPart, OddPart)
    BY <2>1, <2>3 DEF IntParts
  <2>6. IsZero(c) => ZeroParts(EvenPart, OddPart)
    BY <2>1, <2>2, <2>3, <2>4 DEF ZeroParts
  <2>7. InverseN(n, c) = Butterfly(EvenPart, OddPart)
    BY <1>5 DEF InverseN, Inverse5, EvenPart, OddPart
  <2>8. Len(EvenPart) + Len(OddPart) = n
    BY <1>5, <2>1, <2>3
  <2> QED
    BY <2>5, <2>6, <2>7, <2>8, ButterflyInt
<1>6. CASE n = 6
  <2> DEFINE EvenPart == EvenPart6(c)
             OddPart == OddPart6(c)
  <2>1. /\ EvenPart[1] \in Int /\ EvenPart[2] \in Int /\ EvenPart[3] \in Int
       /\ Len(EvenPart) = 3
    BY <1>0 DEF EvenPart6, ONE, CONST_BITS
  <2>2. IsZero(c) => /\ EvenPart[1] = 0 /\ EvenPart[2] = 0 /\ EvenPart[3] = 0
    BY <1>0 DEF EvenPart6, IsZero, ONE, CONST_BITS
  <2>3. /\ OddPart[1] \in Int /\ OddPart[2] \in Int /\ OddPart[3] \in Int
       /\ Len(OddPart) = 3
    BY <1>0 DEF OddPart6, ONE, CONST_BITS
  <2>4. IsZero(c) => /\ OddPart[1] = 0 /\ OddPart[2] = 0 /\ OddPart[3] = 0
    BY <1>0 DEF OddPart6, IsZero, ONE, CONST_BITS
  <2> HIDE DEF EvenPart, OddPart
  <2>5. IntParts(EvenPart, OddPart)
    BY <2>1, <2>3 DEF IntParts
  <2>6. IsZero(c) => ZeroParts(EvenPart, OddPart)
    BY <2>1, <2>2, <2>3, <2>4 DEF ZeroParts
  <2>7. InverseN(n, c) = Butterfly(EvenPart, OddPart)
    BY <1>6 DEF InverseN, Inverse6, EvenPart, OddPart
  <2>8. Len(EvenPart) + Len(OddPart) = n
    BY <1>6, <2>1, <2>3
  <2> QED
    BY <2>5, <2>6, <2>7, <2>8, ButterflyInt
<1>7. CASE n = 7
  <2> DEFINE EvenPart == EvenPart7(c)
             OddPart == OddPart7(c)
  <2>1. /\ EvenPart[1] \in Int /\ EvenPart[2] \in Int /\ EvenPart[3] \in Int /\ EvenPart[4] \in Int
       /\ Len(EvenPart) = 4
    BY <1>0 DEF EvenPart7, ONE, CONST_BITS
  <2>2. IsZero(c) => /\ EvenPart[1] = 0 /\ EvenPart[2] = 0 /\ EvenPart[3] = 0 /\ EvenPart[4] = 0
    BY <1>0 DEF EvenPart7, IsZero, ONE, CONST_BITS
  <2>3. /\ OddPart[1] \in Int /\ OddPart[2] \in Int /\ OddPart[3] \in Int
       /\ Len(OddPart) = 3
    BY <1>0 DEF OddPart7, ONE, CONST_BITS
  <2>4. IsZero(c) => /\ OddPart[1] = 0 /\ OddPart[2] = 0 /\ OddPart[3] = 0
    BY <1>0 DEF OddPart7, IsZero, ONE, CONST_BITS
  <2> HIDE DEF EvenPart, OddPart
  <2>5. IntParts(EvenPart, OddPart)
    BY <2>1, <2>3 DEF IntParts
  <2>6. IsZero(c) => ZeroParts(EvenPart, OddPart)
    BY <2>1, <2>2, <2>3, <2>4 DEF ZeroParts
  <2>7. InverseN(n, c) = Butterfly(EvenPart, OddPart)
    BY <1>7 DEF InverseN, Inverse7, EvenPart, OddPart
  <2>8. Len(EvenPart) + Len(OddPart) = n
    BY <1>7, <2>1, <2>3
  <2> QED
    BY <2>5, <2>6, <2>7, <2>8, ButterflyInt
<1>8. CASE n = 8
  <2> DEFINE EvenPart == EvenPart8(c)
             OddPart == OddPart8(c)
  <2>1. /\ EvenPart[1] \in Int /\ EvenPart[2] \in Int /\ EvenPart[3] \in Int /\ EvenPart[4] \in Int
       /\ Len(EvenPart) = 4
    BY <1>0 DEF EvenPart8, ONE, CONST_BITS
  <2>2. IsZero(c) => /\ EvenPart[1] = 0 /\ EvenPart[2] = 0 /\ EvenPart[3] = 0 /\ EvenPart[4] = 0
    BY <1>0 DEF EvenPart8, IsZero, ONE, CONST_BITS
  <2>3. /\ OddPart[1] \in Int /\ OddPart[2] \in Int /\ OddPart[3] \in Int /\ OddPart[4] \in Int
       /\ Len(OddPart) = 4
    BY <1>0 DEF OddPart8, ONE, CONST_BITS
  <2>4. IsZero(c) => /\ OddPart[1] = 0 /\ OddPart[2] = 0 /\ OddPart[3] = 0 /\ OddPart[4] = 0
    BY <1>0 DEF OddPart8, IsZero, ONE, CONST_BITS
  <2> HIDE DEF EvenPart, OddPart
  <2>5. IntParts(EvenPart, OddPart)
    BY <2>1, <2>3 DEF IntParts
  <2>6. IsZero(c) => ZeroParts(EvenPart, OddPart)
    BY <2>1, <2>2, <2>3, <2>4 DEF ZeroParts
  <2>7. InverseN(n, c) = Butterfly(EvenPart, OddPart)
    BY <1>8 DEF InverseN, Inverse8, EvenPart, OddPart
  <2>8. Len(EvenPart) + Len(OddPart) = n
    BY <1>8, <2>1, <2>3
  <2> QED
    BY <2>5, <2>6, <2>7, <2>8, ButterflyInt
<1>9. CASE n = 9
  <2> DEFINE EvenPart == EvenPart9(c)
             OddPart == OddPart9(c)
  <2>1. /\ EvenPart[1] \in Int /\ EvenPart[2] \in Int /\ EvenPart[3] \in Int /\ EvenPart[4] \in Int
       /\ EvenPart[5] \in Int
       /\ Len(EvenPart) = 5
    BY <1>0 DEF EvenPart9, ONE, CONST_BITS
  <2>2. IsZero(c) => /\ EvenPart[1] = 0 /\ EvenPart[2] = 0 /\ EvenPart[3] = 0 /\ EvenPart[4] = 0
                      /\ EvenPart[5] = 0
    BY <1>0 DEF EvenPart9, IsZero, ONE, CONST_BITS
  <2>3. /\ OddPart[1] \in Int /\ OddPart[2] \in Int /\ OddPart[3] \in Int /\ OddPart[4] \in Int
       /\ Len(OddPart) = 4
    BY <1>0 DEF OddPart9, ONE, CONST_BITS
  <2>4. IsZero(c) => /\ OddPart[1] = 0 /\ OddPart[2] = 0 /\ OddPart[3] = 0 /\ OddPart[4] = 0
    BY <1>0 DEF OddPart9, IsZero, ONE, CONST_BITS
  <2> HIDE DEF EvenPart, OddPart
  <2>5. IntParts(EvenPart, OddPart)
    BY <2>1, <2>3 DEF IntParts
  <2>6. IsZero(c) => ZeroParts(EvenPart, OddPart)
    BY <2>1, <2>2, <2>3, <2>4 DEF ZeroParts
  <2>7. InverseN(n, c) = Butterfly(EvenPart, OddPart)
    BY <1>9 DEF InverseN, Inverse9, EvenPart, OddPart
  <2>8. Len(EvenPart) + Len(OddPart) = n
    BY <1>9, <2>1, <2>3
  <2> QED
    BY <2>5, <2>6, <2>7, <2>8, ButterflyInt
<1>10. CASE n = 10
  <2> DEFINE EvenPart == EvenPart10(c)
             OddPart == OddPart10(c)
  <2>1. /\ EvenPart[1] \in Int /\ EvenPart[2] \in Int /\ EvenPart[3] \in Int /\ EvenPart[4] \in Int
       /\ EvenPart[5] \in Int
       /\ Len(EvenPart) = 5
    BY <1>0 DEF EvenPart10, ONE, CONST_BITS
  <2>2. IsZero(c) => /\ EvenPart[1] = 0 /\ EvenPart[2] = 0 /\ EvenPart[3] = 0 /\ EvenPart[4] = 0
                      /\ EvenPart[5] = 0
    BY <1>0 DEF EvenPart10, IsZero, ONE, CONST_BITS
  <2>3. /\ OddPart[1] \in Int /\ OddPart[2] \in Int /\ OddPart[3] \in Int /\ OddPart[4] \in Int
       /\ OddPart[5] \in Int
       /\ Len(OddPart) = 5
    BY <1>0 DEF OddPart10, ONE, CONST_BITS
  <2>4. IsZero(c) => /\ OddPart[1] = 0 /\ OddPart[2] = 0 /\ OddPart[3] = 0 /\ OddPart[4] = 0
                      /\ OddPart[5] = 0
    BY <1>0 DEF OddPart10, IsZero, ONE, CONST_BITS
  <2> HIDE DEF EvenPart, OddPart
  <2>5. IntParts(EvenPart, OddPart)
    BY <2>1, <2>3 DEF IntParts
  <2>6. IsZero(c) => ZeroParts(EvenPart, OddPart)
    BY <2>1, <2>2, <2>3, <2>4 DEF ZeroParts
  <2>7. InverseN(n, c) = Butterfly(EvenPart, OddPart)
    BY <1>10 DEF InverseN, Inverse10, EvenPart, OddPart
  <2>8. Len(EvenPart) + Len(OddPart) = n
    BY <1>10, <2>1, <2>3
  <2> QED
    BY <2>5, <2>6, <2>7, <2>8, ButterflyInt
<1>11. CASE n = 11
  <2> DEFINE EvenPart == EvenPart11(c)
             OddPart == OddPart11(c)
  <2>1. /\ EvenPart[1] \in Int /\ EvenPart[2] \in Int /\ EvenPart[3] \in Int /\ EvenPart[4] \in Int
       /\ EvenPart[5] \in Int /\ EvenPart[6] \in Int
       /\ Len(EvenPart) = 6
    BY <1>0 DEF EvenPart11, ONE, CONST_BITS
  <2>2. IsZero(c) => /\ EvenPart[1] = 0 /\ EvenPart[2] = 0 /\ EvenPart[3] = 0 /\ EvenPart[4] = 0
                      /\ EvenPart[5] = 0 /\ EvenPart[6] = 0
    BY <1>0 DEF EvenPart11, IsZero, ONE, CONST_BITS
  <2>3. /\ OddPart[1] \in Int /\ OddPart[2] \in Int /\ OddPart[3] \in Int /\ OddPart[4] \in Int
       /\ OddPart[5] \in Int
       /\ Len(OddPart) = 5
    BY <1>0 DEF OddPart11, ONE, CONST_BITS
  <2>4. IsZero(c) => /\ OddPart[1] = 0 /\ OddPart[2] = 0 /\ OddPart[3] = 0 /\ OddPart[4] = 0
                      /\ OddPart[5] = 0
    BY <1>0 DEF OddPart11, IsZero, ONE, CONST_BITS
  <2> HIDE DEF EvenPart, OddPart
  <2>5. IntParts(EvenPart, OddPart)
    BY <2>1, <2>3 DEF IntParts
  <2>6. IsZero(c) => ZeroParts(EvenPart, OddPart)
    BY <2>1, <2>2, <2>3, <2>4 DEF ZeroParts
  <2>7. InverseN(n, c) = Butterfly(EvenPart, OddPart)
    BY <1>11 DEF InverseN, Inverse11, EvenPart, OddPart
  <2>8. Len(EvenPart) + Len(OddPart) = n
    BY <1>11, <2>1, <2>3
  <2> QED
    BY <2>5, <2>6, <2>7, <2>8, ButterflyInt
<1>12. CASE n = 12
  <2> DEFINE EvenPart == EvenPart12(c)
             OddPart == OddPart12(c)
  <2>1. /\ EvenPart[1] \in Int /\ EvenPart[2] \in Int /\ EvenPart[3] \in Int /\ EvenPart[4] \in Int
       /\ EvenPart[5] \in Int /\ EvenPart[6] \in Int
       /\ Len(EvenPart) = 6
    BY <1>0 DEF EvenPart12, ONE, CONST_BITS
  <2>2. IsZero(c) => /\ EvenPart[1] = 0 /\ EvenPart[2] = 0 /\ EvenPart[3] = 0 /\ EvenPart[4] = 0
                      /\ EvenPart[5] = 0 /\ EvenPart[6] = 0
    BY <1>0 DEF EvenPart12, IsZero, ONE, CONST_BITS
  <2>3. /\ OddPart[1] \in Int /\ OddPart[2] \in Int /\ OddPart[3] \in Int /\ OddPart[4] \in Int
       /\ OddPart[5] \in Int /\ OddPart[6] \in Int
       /\ Len(OddPart) = 6
    BY <1>0 DEF OddPart12, ONE, CONST_BITS
  <2>4. IsZero(c) => /\ OddPart[1] = 0 /\ OddPart[2] = 0 /\ OddPart[3] = 0 /\ OddPart[4] = 0
                      /\ OddPart[5] = 0 /\ OddPart[6] = 0
    BY <1>0 DEF OddPart12, IsZero, ONE, CONST_BITS
  <2> HIDE DEF EvenPart, OddPart
  <2>5. IntParts(EvenPart, OddPart)
    BY <2>1, <2>3 DEF IntParts
  <2>6. IsZero(c) => ZeroParts(EvenPart, OddPart)
    BY <2>1, <2>2, <2>3, <2>4 DEF ZeroParts
  <2>7. InverseN(n, c) = Butterfly(EvenPart, OddPart)
    BY <1>12 DEF InverseN, Inverse12, EvenPart, OddPart
  <2>8. Len(EvenPart) + Len(OddPart) = n
    BY <1>12, <2>1, <2>3
  <2> QED
    BY <2>5, <2>6, <2>7, <2>8, ButterflyInt
<1>13. CASE n = 13
  <2> DEFINE EvenPart == EvenPart13(c)
             OddPart == OddPart13(c)
  <2>1. /\ EvenPart[1] \in Int /\ EvenPart[2] \in Int /\ EvenPart[3] \in Int /\ EvenPart[4] \in Int
       /\ EvenPart[5] \in Int /\ EvenPart[6] \in Int /\ EvenPart[7] \in Int
       /\ Len(EvenPart) = 7
    BY <1>0 DEF EvenPart13, ONE, CONST_BITS
  <2>2. IsZero(c) => /\ EvenPart[1] = 0 /\ EvenPart[2] = 0 /\ EvenPart[3] = 0 /\ EvenPart[4] = 0
                      /\ EvenPart[5] = 0 /\ EvenPart[6] = 0 /\ EvenPart[7] = 0
    BY <1>0 DEF EvenPart13, IsZero, ONE, CONST_BITS
  <2>3. /\ OddPart[1] \in Int /\ OddPart[2] \in Int /\ OddPart[3] \in Int /\ OddPart[4] \in Int
       /\ OddPart[5] \in Int /\ OddPart[6] \in Int
       /\ Len(OddPart) = 6
    BY <1>0 DEF OddPart13, ONE, CONST_BITS
  <2>4. IsZero(c) => /\ OddPart[1] = 0 /\ OddPart[2] = 0 /\ OddPart[3] = 0 /\ OddPart[4] = 0
                      /\ OddPart[5] = 0 /\ OddPart[6] = 0
    BY <1>0 DEF OddPart13, IsZero, ONE, CONST_BITS
  <2> HIDE DEF EvenPart, OddPart
  <2>5. IntParts(EvenPart, OddPart)
    BY <2>1, <2>3 DEF IntParts
  <2>6. IsZero(c) => ZeroParts(EvenPart, OddPart)
    BY <2>1, <2>2, <2>3, <2>4 DEF ZeroParts
  <2>7. InverseN(n, c) = Butterfly(EvenPart, OddPart)
    BY <1>13 DEF InverseN, Inverse13, EvenPart, OddPart
  <2>8. Len(EvenPart) + Len(OddPart) = n
    BY <1>13, <2>1, <2>3
  <2> QED
    BY <2>5, <2>6, <2>7, <2>8, ButterflyInt
<1>14. CASE n = 14
  <2> DEFINE EvenPart == EvenPart14(c)
             OddPart == OddPart14(c)
  <2>1. /\ EvenPart[1] \in Int /\ EvenPart[2] \in Int /\ EvenPart[3] \in Int /\ EvenPart[4] \in Int
       /\ EvenPart[5] \in Int /\ EvenPart[6] \in Int /\ EvenPart[7] \in Int
       /\ Len(EvenPart) = 7
    BY <1>0 DEF EvenPart14, ONE, CONST_BITS
  <2>2. IsZero(c) => /\ EvenPart[1] = 0 /\ EvenPart[2] = 0 /\ EvenPart[3] = 0 /\ EvenPart[4] = 0
                      /\ EvenPart[5] = 0 /\ EvenPart[6] = 0 /\ EvenPart[7] = 0
    BY <1>0 DEF EvenPart14, IsZero, ONE, CONST_BITS
  <2>3. /\ OddPart[1] \in Int /\ OddPart[2] \in Int /\ OddPart[3] \in Int /\ OddPart[4] \in Int
       /\ OddPart[5] \in Int /\ OddPart[6] \in Int /\ OddPart[7] \in Int
       /\ Len(OddPart) = 7
    BY <1>0 DEF OddPart14, ONE, CONST_BITS
  <2>4. IsZero(c) => /\ OddPart[1] = 0 /\ OddPart[2] = 0 /\ OddPart[3] = 0 /\ OddPart[4] = 0
                      /\ OddPart[5] = 0 /\ OddPart[6] = 0 /\ OddPart[7] = 0
    BY <1>0 DEF OddPart14, IsZero, ONE, CONST_BITS
  <2> HIDE DEF EvenPart, OddPart
  <2>5. IntParts(EvenPart, OddPart)
    BY <2>1, <2>3 DEF IntParts
  <2>6. IsZero(c) => ZeroParts(EvenPart, OddPart)
    BY <2>1, <2>2, <2>3, <2>4 DEF ZeroParts
  <2>7. InverseN(n, c) = Butterfly(EvenPart, OddPart)
    BY <1>14 DEF InverseN, Inverse14, EvenPart, OddPart
  <2>8. Len(EvenPart) + Len(OddPart) = n
    BY <1>14, <2>1, <2>3
  <2> QED
    BY <2>5, <2>6, <2>7, <2>8, ButterflyInt
<1>15. CASE n = 15
  <2> DEFINE EvenPart == EvenPart15(c)
             OddPart == OddPart15(c)
  <2>1. /\ EvenPart[1] \in Int /\ EvenPart[2] \in Int /\ EvenPart[3] \in Int /\ EvenPart[4] \in Int
       /\ EvenPart[5] \in Int /\ EvenPart[6] \in Int /\ EvenPart[7] \in Int /\ EvenPart[8] \in Int
       /\ Len(EvenPart) = 8
    BY <1>0 DEF EvenPart15, ONE, CONST_BITS
  <2>2. IsZero(c) => /\ EvenPart[1] = 0 /\ EvenPart[2] = 0 /\ EvenPart[3] = 0 /\ EvenPart[4] = 0
                      /\ EvenPart[5] = 0 /\ EvenPart[6] = 0 /\ EvenPart[7] = 0 /\ EvenPart[8] = 0
    BY <1>0 DEF EvenPart15, IsZero, ONE, CONST_BITS
  <2>3. /\ OddPart[1] \in Int /\ OddPart[2] \in Int /\ OddPart[3] \in Int /\ OddPart[4] \in Int
       /\ OddPart[5] \in Int /\ OddPart[6] \in Int /\ OddPart[7] \in Int
       /\ Len(OddPart) = 7
    BY <1>0 DEF OddPart15, ONE, CONST_BITS
  <2>4. IsZero(c) => /\ OddPart[1] = 0 /\ OddPart[2] = 0 /\ OddPart[3] = 0 /\ OddPart[4] = 0
                      /\ OddPart[5] = 0 /\ OddPart[6] = 0 /\ OddPart[7] = 0
    BY <1>0 DEF OddPart15, IsZero, ONE, CONST_BITS
  <2> HIDE DEF EvenPart, OddPart
  <2>5. IntParts(EvenPart, OddPart)
    BY <2>1, <2>3 DEF IntParts
  <2>6. IsZero(c) => ZeroParts(EvenPart, OddPart)
    BY <2>1, <2>2, <2>3, <2>4 DEF ZeroParts
  <2>7. InverseN(n, c) = Butterfly(EvenPart, OddPart)
    BY <1>15 DEF InverseN, Inverse15, EvenPart, OddPart
  <2>8. Len(EvenPart) + Len(OddPart) = n
    BY <1>15, <2>1, <2>3
  <2> QED
    BY <2>5, <2>6, <2>7, <2>8, ButterflyInt
<1>16. CASE n = 16
  <2> DEFINE EvenPart == EvenPart16(c)
             OddPart == OddPart16(c)
  <2>1. /\ EvenPart[1] \in Int /\ EvenPart[2] \in Int /\ EvenPart[3] \in Int /\ EvenPart[4] \in Int
       /\ EvenPart[5] \in Int /\ EvenPart[6] \in Int /\ EvenPart[7] \in Int /\ EvenPart[8] \in Int
       /\ Len(EvenPart) = 8
    BY <1>0 DEF EvenPart16, ONE, CONST_BITS
  <2>2. IsZero(c) => /\ EvenPart[1] = 0 /\ EvenPart[2] = 0 /\ EvenPart[3] = 0 /\ EvenPart[4] = 0
                      /\ EvenPart[5] = 0 /\ EvenPart[6] = 0 /\ EvenPart[7] = 0 /\ EvenPart[8] = 0
    BY <1>0 DEF EvenPart16, IsZero, ONE, CONST_BITS
  <2>3. /\ OddPart[1] \in Int /\ OddPart[2] \in Int /\ OddPart[3] \in Int /\ OddPart[4] \in Int
       /\ OddPart[5] \in Int /\ OddPart[6] \in Int /\ OddPart[7] \in Int /\ OddPart[8] \in Int
       /\ Len(OddPart) = 8
    BY <1>0 DEF OddPart16, ONE, CONST_BITS
  <2>4. IsZero(c) => /\ OddPart[1] = 0 /\ OddPart[2] = 0 /\ OddPart[3] = 0 /\ OddPart[4] = 0
                      /\ OddPart[5] = 0 /\ OddPart[6] = 0 /\ OddPart[7] = 0 /\ OddPart[8] = 0
    BY <1>0 DEF OddPart16, IsZero, ONE, CONST_BITS
  <2> HIDE DEF EvenPart, OddPart
  <2>5. IntParts(EvenPart, OddPart)
    BY <2>1, <2>3 DEF IntParts
  <2>6. IsZero(c) => ZeroParts(EvenPart, OddPart)
    BY <2>1, <2>2, <2>3, <2>4 DEF ZeroParts
  <2>7. InverseN(n, c) = Butterfly(EvenPart, OddPart)
    BY <1>16 DEF InverseN, Inverse16, EvenPart, OddPart
  <2>8. Len(EvenPart) + Len(OddPart) = n
    BY <1>16, <2>1, <2>3
  <2> QED
    BY <2>5, <2>6, <2>7, <2>8, ButterflyInt
<1> QED
  BY <1>1, <1>2, <1>3, <1>4, <1>5, <1>6, <1>7, <1>8, <1>9, <1>10, <1>11, <1>12, <1>13, <1>14, <1>15, <1>16
\* The limit of a sample, and that zero is grey.
LEMMA RangeLimitSample ==
  /\ \A x \in Int : RangeLimit(x) \in 0..MAXJSAMPLE
  /\ RangeLimit(0) = CENTERJSAMPLE
<1>1. RANGE_MASK = 1023
  BY DEF RANGE_MASK, MAXJSAMPLE
<1>2. ASSUME NEW x \in Int
      PROVE  RangeLimit(x) \in 0..MAXJSAMPLE
  <2> DEFINE i == x % 1024
  <2>1. i \in 0..1023
    OBVIOUS
  <2>2. RangeLimit(x) = IF i <= 511
                        THEN IF i + 128 <= 255 THEN i + 128 ELSE 255
                        ELSE IF i - 1023 - 1 + 128 >= 0 THEN i - 1023 - 1 + 128 ELSE 0
    BY <1>1 DEF RangeLimit, MAXJSAMPLE, CENTERJSAMPLE
  <2> HIDE DEF i
  <2> QED
    BY <2>1, <2>2 DEF MAXJSAMPLE
<1>3. RangeLimit(0) = CENTERJSAMPLE
  BY <1>1 DEF RangeLimit, MAXJSAMPLE, CENTERJSAMPLE
<1> QED
  BY <1>2, <1>3

\* A sequence of n samples, grey if the passes before were of zeros.
Ints(n, out, zero) ==
  out \in [1..n -> Int] /\ (zero => \A i \in 1..n : out[i] = 0)
SampleRow(n, out, zero) ==
  out \in [1..n -> 0..MAXJSAMPLE] /\ (zero => \A i \in 1..n : out[i] = CENTERJSAMPLE)

\* Both ends of a pass.
LEMMA Pass1Int ==
  ASSUME NEW n \in Nat, NEW zero, NEW out, Ints(n, out, zero)
  PROVE  Ints(n, Pass1(out), zero)
<1>1. Len(out) = n
  BY DEF Ints
<1>2. CONST_BITS - PASS1_BITS = 11 /\ 11 \in 1..18
  BY DEF CONST_BITS, PASS1_BITS
<1>3. Pass1(out) = [i \in 1..n |-> DESCALE(out[i], 11)]
  BY <1>1, <1>2 DEF Pass1
<1>4. \A i \in 1..n : DESCALE(out[i], 11) \in Int
  BY <1>2, DescaleInt DEF Ints
<1>5. DESCALE(0, 11) = 0
  BY DEF DESCALE
<1> QED
  BY <1>3, <1>4, <1>5 DEF Ints

LEMMA Pass2Samples ==
  ASSUME NEW n \in Nat, NEW zero, NEW out, Ints(n, out, zero)
  PROVE  SampleRow(n, Pass2(out), zero)
<1>1. Len(out) = n
  BY DEF Ints
<1>2. CONST_BITS + PASS1_BITS + 3 = 18 /\ 18 \in 1..18
  BY DEF CONST_BITS, PASS1_BITS
<1>3. Pass2(out) = [i \in 1..n |-> RangeLimit(DESCALE(out[i], 18))]
  BY <1>1, <1>2 DEF Pass2
<1>4. \A i \in 1..n : DESCALE(out[i], 18) \in Int
  BY <1>2, DescaleInt DEF Ints
<1>5. DESCALE(0, 18) = 0
  BY DEF DESCALE
<1>6. \A i \in 1..n : RangeLimit(DESCALE(out[i], 18)) \in 0..MAXJSAMPLE
  BY <1>4, RangeLimitSample
<1> QED
  BY <1>3, <1>5, <1>6, RangeLimitSample DEF Ints, SampleRow

\* Pass 1 with h outputs, and pass 2 with w.
Column(h, c) ==
  CASE h = 8 -> Column8(c)
    [] h = 4 -> Column4(c)
    [] h \notin {4, 8} -> Pass1(InverseN(h, c))
Row(w, c) == Pass2(InverseN(w, c))

\* The first pass with h outputs.
LEMMA ColumnInt ==
  ASSUME NEW h \in 1..16, NEW c, \A k \in 0..7 : c[k] \in Int
  PROVE  Ints(h, Column(h, c), IsZero(c))
<1>1. CASE h = 8
  <2>1. 8 \in 1..16 /\ 8 \in Nat /\ InverseN(8, c) = Inverse8(c)
    BY DEF InverseN
  <2>2. Ints(8, Inverse8(c), IsZero(c))
    BY <2>1, InverseInt DEF Ints
  <2>3. Ints(8, Pass1(Inverse8(c)), IsZero(c))
    BY <2>1, <2>2, Pass1Int
  <2>4. Ints(8, [i \in 1..8 |-> c[0] * 2 ^ PASS1_BITS], IsZero(c))
    <3>1. c[0] * 2 ^ PASS1_BITS \in Int /\ (IsZero(c) => c[0] * 2 ^ PASS1_BITS = 0)
      BY DEF PASS1_BITS, IsZero
    <3> QED
      BY <3>1 DEF Ints
  <2>5. Ints(8, Column8(c), IsZero(c))
    BY <2>3, <2>4 DEF Column8
  <2> QED
    BY <1>1, <2>5 DEF Column
<1>2. CASE h = 4
  <2> DEFINE EvenPart == <<(c[0] + c[2]) * 2 ^ PASS1_BITS, (c[0] - c[2]) * 2 ^ PASS1_BITS>>
             OddPart == Pass1(OddPart4(c))
  <2>1. Len(EvenPart) = 2 /\ EvenPart[1] \in Int /\ EvenPart[2] \in Int
    BY DEF PASS1_BITS
  <2>2. IsZero(c) => EvenPart[1] = 0 /\ EvenPart[2] = 0
    BY DEF PASS1_BITS, IsZero
  <2>3. Ints(2, OddPart4(c), IsZero(c))
    BY DEF Ints, OddPart4, IsZero
  <2>4. Ints(2, OddPart, IsZero(c))
    BY <2>3, Pass1Int
  <2>5. Len(OddPart) = 2
    BY <2>4 DEF Ints
  <2>6. Column(h, c) = Butterfly(EvenPart, OddPart)
    BY <1>2 DEF Column, Column4
  <2> HIDE DEF EvenPart, OddPart
  <2>7. IntParts(EvenPart, OddPart)
    BY <2>1, <2>4, <2>5 DEF IntParts, Ints
  <2>8. IsZero(c) => ZeroParts(EvenPart, OddPart)
    BY <2>1, <2>2, <2>4, <2>5 DEF ZeroParts, Ints
  <2>9. Len(EvenPart) + Len(OddPart) = h
    BY <1>2, <2>1, <2>5
  <2> QED
    BY <2>6, <2>7, <2>8, <2>9, ButterflyInt DEF Ints
<1>3. CASE h \notin {4, 8}
  <2>1. Ints(h, InverseN(h, c), IsZero(c))
    BY InverseInt DEF Ints
  <2>2. Ints(h, Pass1(InverseN(h, c)), IsZero(c))
    BY <2>1, Pass1Int
  <2>3. Column(h, c) = Pass1(InverseN(h, c))
    BY <1>3 DEF Column
  <2> QED
    BY <2>2, <2>3
<1> QED
  BY <1>1, <1>2, <1>3

\* The second pass with w outputs.
LEMMA RowSamples ==
  ASSUME NEW w \in 1..16, NEW c, \A k \in 0..7 : c[k] \in Int
  PROVE  SampleRow(w, Row(w, c), IsZero(c))
<1>1. Ints(w, InverseN(w, c), IsZero(c))
  BY InverseInt DEF Ints
<1> QED
  BY <1>1, Pass2Samples DEF Row

\* Rows of samples, grey if the coefficients were zero.
ZeroBlock(b) == \A v \in 0..7 : \A u \in 0..7 : b[v][u] = 0
Image(w, h, out, zero) ==
  /\ out \in [1..h -> [1..w -> 0..MAXJSAMPLE]]
  /\ zero => \A y \in 1..h : \A x \in 1..w : out[y][x] = CENTERJSAMPLE

\* Between the passes: rows of the workspace from its columns.
LEMMA RowsOfColumns ==
  ASSUME NEW h \in 1..16, NEW zero, NEW ws, \A u \in 0..7 : Ints(h, ws[u + 1], zero)
  PROVE  /\ Len(ws[1]) = h
         /\ \A y \in 1..h : \A u \in 0..7 : ws[u + 1][y] \in Int /\ (zero => ws[u + 1][y] = 0)
<1>1. Ints(h, ws[1], zero)
  <2>1. 0 \in 0..7 /\ 0 + 1 = 1
    OBVIOUS
  <2> QED
    BY <2>1
<1>2. Len(ws[1]) = h
  BY <1>1 DEF Ints
<1> QED
  BY <1>2 DEF Ints

\* What goes into the passes: column u of the block, and row y of the workspace.
Line(b, u) == [v \in 0..7 |-> b[v][u]]
Across(ws, y) == [u \in 0..7 |-> ws[u + 1][y]]

\* Both passes, in the sizes that share them.
LEMMA TwoPassesImage ==
  ASSUME NEW w \in 1..16, NEW h \in 1..16, NEW b \in Block, NEW ws, NEW out,
         \A u \in 0..7 : ws[u + 1] = Column(h, Line(b, u)),
         out = [y \in 1..Len(ws[1]) |-> Row(w, Across(ws, y))]
  PROVE  Image(w, h, out, ZeroBlock(b))
<1>1. ASSUME NEW u \in 0..7
      PROVE  Ints(h, ws[u + 1], ZeroBlock(b))
  <2>0. \A k \in 0..7 : Line(b, u)[k] = b[k][u] /\ b[k][u] \in Int
    BY DEF Block, Line
  <2>1. /\ \A k \in 0..7 : Line(b, u)[k] \in Int
        /\ ZeroBlock(b) => IsZero(Line(b, u))
    BY <2>0 DEF ZeroBlock, IsZero
  <2>2. Ints(h, Column(h, Line(b, u)), IsZero(Line(b, u)))
    BY <2>1, ColumnInt
  <2>3. Ints(h, Column(h, Line(b, u)), ZeroBlock(b))
    BY <2>1, <2>2 DEF Ints
  <2> QED
    BY <2>3
<1>2. /\ Len(ws[1]) = h
      /\ \A y \in 1..h : \A u \in 0..7 : ws[u + 1][y] \in Int /\ (ZeroBlock(b) => ws[u + 1][y] = 0)
  BY <1>1, RowsOfColumns
<1>3. ASSUME NEW y \in 1..h
      PROVE  SampleRow(w, Row(w, Across(ws, y)), ZeroBlock(b))
  <2>1. /\ \A k \in 0..7 : Across(ws, y)[k] \in Int
        /\ ZeroBlock(b) => IsZero(Across(ws, y))
    BY <1>2 DEF IsZero, Across
  <2>2. SampleRow(w, Row(w, Across(ws, y)), IsZero(Across(ws, y)))
    BY <2>1, RowSamples
  <2> QED
    BY <2>1, <2>2 DEF SampleRow
<1> DEFINE row(y) == Row(w, Across(ws, y))
<1>4. out = [y \in 1..h |-> row(y)]
  BY <1>2
<1>5. \A y \in 1..h : SampleRow(w, row(y), ZeroBlock(b))
  BY <1>3
<1> HIDE DEF row
<1>6. out \in [1..h -> [1..w -> 0..MAXJSAMPLE]]
  BY <1>4, <1>5 DEF SampleRow
<1>7. ZeroBlock(b) => \A y \in 1..h : \A x \in 1..w : out[y][x] = CENTERJSAMPLE
  BY <1>4, <1>5 DEF SampleRow
<1> QED
  BY <1>6, <1>7 DEF Image

\* The accurate transform of size 8x8, whose rows have a shortcut too.
LEMMA InverseSlowImage ==
  ASSUME NEW b \in Block
  PROVE  Image(8, 8, jpeg_idct_islow(b), ZeroBlock(b))
<1> DEFINE line(u) == [v \in 0..7 |-> b[v][u]]
           column(u) == Column8(line(u))
           ws == <<column(0), column(1), column(2), column(3),
                   column(4), column(5), column(6), column(7)>>
           row(y) == [u \in 0..7 |-> ws[u + 1][y]]
<1>1. jpeg_idct_islow(b) = [y \in 1..Len(ws[1]) |-> Row8(row(y))]
  BY DEF jpeg_idct_islow, InverseBlock
<1>8. 8 \in 1..16
  OBVIOUS
<1>2. ASSUME NEW u \in 0..7
      PROVE  Ints(8, column(u), ZeroBlock(b))
  <2>1. /\ \A k \in 0..7 : line(u)[k] \in Int
        /\ ZeroBlock(b) => IsZero(line(u))
    BY DEF Block, ZeroBlock, IsZero
  <2>2. column(u) = Column(8, line(u))
    BY DEF Column
  <2> HIDE DEF line, column
  <2>3. Ints(8, Column(8, line(u)), IsZero(line(u)))
    BY <1>8, <2>1, ColumnInt, Zenon
  <2> QED
    BY <2>1, <2>2, <2>3 DEF Ints
<1> HIDE DEF column
<1>3. /\ Len(ws[1]) = 8
      /\ \A y \in 1..8 : \A u \in 0..7 : ws[u + 1][y] \in Int /\ (ZeroBlock(b) => ws[u + 1][y] = 0)
  <2>1. \A u \in 0..7 : ws[u + 1] = column(u)
    OBVIOUS
  <2> HIDE DEF ws
  <2>2. \A u \in 0..7 : Ints(8, ws[u + 1], ZeroBlock(b))
    BY <1>2, <2>1
  <2> QED
    BY <2>2, <1>8, RowsOfColumns, Zenon
<1> HIDE DEF ws
<1>4. ASSUME NEW y \in 1..8
      PROVE  SampleRow(8, Row8(row(y)), ZeroBlock(b))
  <2>1. /\ \A k \in 0..7 : row(y)[k] \in Int
        /\ ZeroBlock(b) => IsZero(row(y))
    BY <1>3 DEF IsZero
  <2> DEFINE c == row(y)
  <2>2. Row(8, c) = Pass2(Inverse8(c))
    BY DEF Row, InverseN
  <2> HIDE DEF c
  <2>3. SampleRow(8, Pass2(Inverse8(c)), IsZero(c))
    BY <1>8, <2>1, <2>2, RowSamples DEF c
  <2>4. PASS1_BITS + 3 = 5 /\ DESCALE(0, 5) = 0 /\ DESCALE(c[0], 5) \in Int
    <3>1. 5 \in 1..18 /\ c[0] \in Int
      BY <2>1 DEF c
    <3> QED
      BY <3>1, DescaleInt DEF PASS1_BITS, DESCALE
  <2>5. SampleRow(8, [i \in 1..8 |-> RangeLimit(DESCALE(c[0], PASS1_BITS + 3))], IsZero(c))
    <3>1. RangeLimit(DESCALE(c[0], 5)) \in 0..MAXJSAMPLE
      BY <2>4, RangeLimitSample
    <3> QED
      BY <3>1, <2>4, RangeLimitSample DEF SampleRow, IsZero
  <2> QED
    BY <2>1, <2>3, <2>5 DEF Row8, SampleRow, c
<1> HIDE DEF row
<1> QED
  BY <1>1, <1>3, <1>4 DEF SampleRow, Image

\* Size 2x4, which keeps full precision between the passes.
LEMMA Inverse2x4Image ==
  ASSUME NEW b \in Block
  PROVE  Image(2, 4, jpeg_idct_2x4(b), ZeroBlock(b))
<1> DEFINE line(u) == [v \in 0..7 |-> b[v][u]]
           column(u) == Inverse4(line(u))
           ws == <<column(0), column(1), column(2), column(3),
                   column(4), column(5), column(6), column(7)>>
           row(y) == [u \in 0..7 |-> ws[u + 1][y]]
           out(c) == [i \in 1..2 |-> RangeLimit(DESCALE(IF i = 1 THEN c[0] + c[1] ELSE c[0] - c[1],
                                                        CONST_BITS + 3))]
<1>1. jpeg_idct_2x4(b) = [y \in 1..Len(ws[1]) |-> out(row(y))]
  BY DEF jpeg_idct_2x4, InverseBlock
<1>8. 4 \in 1..16
  OBVIOUS
<1>2. ASSUME NEW u \in 0..7
      PROVE  Ints(4, column(u), ZeroBlock(b))
  <2>1. /\ \A k \in 0..7 : line(u)[k] \in Int
        /\ ZeroBlock(b) => IsZero(line(u))
    BY DEF Block, ZeroBlock, IsZero
  <2>2. column(u) = InverseN(4, line(u))
    BY DEF InverseN
  <2> HIDE DEF line, column
  <2> QED
    BY <1>8, <2>1, <2>2, InverseInt DEF Ints
<1> HIDE DEF column
<1>3. /\ Len(ws[1]) = 4
      /\ \A y \in 1..4 : \A u \in 0..7 : ws[u + 1][y] \in Int /\ (ZeroBlock(b) => ws[u + 1][y] = 0)
  <2>1. \A u \in 0..7 : ws[u + 1] = column(u)
    OBVIOUS
  <2> HIDE DEF ws
  <2>2. \A u \in 0..7 : Ints(4, ws[u + 1], ZeroBlock(b))
    BY <1>2, <2>1
  <2> QED
    BY <2>2, <1>8, RowsOfColumns, Zenon
<1> HIDE DEF ws
<1>4. ASSUME NEW y \in 1..4
      PROVE  SampleRow(2, out(row(y)), ZeroBlock(b))
  <2> DEFINE c == row(y)
             x(i) == IF i = 1 THEN c[0] + c[1] ELSE c[0] - c[1]
  <2>1. /\ c[0] \in Int /\ c[1] \in Int
        /\ ZeroBlock(b) => c[0] = 0 /\ c[1] = 0
    BY <1>3
  <2>2. CONST_BITS + 3 = 16 /\ 16 \in 1..18 /\ DESCALE(0, 16) = 0
    BY DEF CONST_BITS, DESCALE
  <2>3. \A i \in 1..2 : x(i) \in Int /\ (ZeroBlock(b) => x(i) = 0)
    BY <2>1
  <2>4. out(row(y)) = [i \in 1..2 |-> RangeLimit(DESCALE(x(i), 16))]
    BY <2>2
  <2> HIDE DEF c, x, out
  <2>5. \A i \in 1..2 : DESCALE(x(i), 16) \in Int
    BY <2>2, <2>3, DescaleInt
  <2>6. \A i \in 1..2 : RangeLimit(DESCALE(x(i), 16)) \in 0..MAXJSAMPLE
    BY <2>5, RangeLimitSample
  <2> QED
    BY <2>2, <2>3, <2>4, <2>6, RangeLimitSample DEF SampleRow
<1> HIDE DEF row, out
<1> QED
  BY <1>1, <1>3, <1>4 DEF SampleRow, Image

\* The fast transform.
LEMMA InverseFastInt ==
  ASSUME NEW c, \A k \in 0..7 : c[k] \in Int
  PROVE  Ints(8, InverseFast(c), IsZero(c))
<1>0. /\ c[0] \in Int /\ c[1] \in Int /\ c[2] \in Int /\ c[3] \in Int
      /\ c[4] \in Int /\ c[5] \in Int /\ c[6] \in Int /\ c[7] \in Int
  OBVIOUS
<1> DEFINE EvenPart == EvenPartFast(c)
           OddPart == OddPartFast(c)
<1>1. /\ EvenPart[1] \in Int /\ EvenPart[2] \in Int /\ EvenPart[3] \in Int /\ EvenPart[4] \in Int
      /\ Len(EvenPart) = 4
  <2> DEFINE p == Multiply(c[2] - c[6], 362)
  <2>1. p \in Int
    BY <1>0 DEF Multiply
  <2>2. EvenPart = <<c[0] + c[4] + (c[2] + c[6]), c[0] - c[4] + (p - (c[2] + c[6])),
                     c[0] - c[4] - (p - (c[2] + c[6])), c[0] + c[4] - (c[2] + c[6])>>
    BY DEF EvenPartFast
  <2> HIDE DEF p, EvenPart
  <2> QED
    BY <1>0, <2>1, <2>2
<1>2. IsZero(c) => EvenPart[1] = 0 /\ EvenPart[2] = 0 /\ EvenPart[3] = 0 /\ EvenPart[4] = 0
  BY DEF EvenPartFast, IsZero, Multiply
<1>3. /\ OddPart[1] \in Int /\ OddPart[2] \in Int /\ OddPart[3] \in Int /\ OddPart[4] \in Int
      /\ Len(OddPart) = 4
  <2> DEFINE z13 == c[5] + c[3]
             z10 == c[5] - c[3]
             z11 == c[1] + c[7]
             z12 == c[1] - c[7]
             z5 == Multiply(z10 + z12, 473)
             m1 == Multiply(z10, -669)
             m2 == Multiply(z11 - z13, 362)
             m3 == Multiply(z12, 277)
             o0 == z11 + z13
             o1 == m1 + z5 - o0
             o2 == m2 - o1
             o3 == m3 - z5 + o2
  <2>1. z13 \in Int /\ z10 \in Int /\ z11 \in Int /\ z12 \in Int
    BY <1>0
  <2>2. OddPart = <<o0, o1, o2, -o3>>
    BY DEF OddPartFast
  <2> HIDE DEF z10, z11, z12, z13
  <2>3. z5 \in Int /\ m1 \in Int /\ m2 \in Int /\ m3 \in Int
    BY <2>1 DEF Multiply
  <2> HIDE DEF z5, m1, m2, m3, OddPart
  <2>4. o0 \in Int /\ o1 \in Int /\ o2 \in Int /\ -o3 \in Int
    BY <2>1, <2>3
  <2> HIDE DEF o0, o1, o2, o3
  <2> QED
    BY <2>2, <2>4
<1>4. IsZero(c) => OddPart[1] = 0 /\ OddPart[2] = 0 /\ OddPart[3] = 0 /\ OddPart[4] = 0
  BY DEF OddPartFast, IsZero, Multiply
<1>7. InverseFast(c) = Butterfly(EvenPart, OddPart)
  BY DEF InverseFast
<1> HIDE DEF EvenPart, OddPart
<1>5. IntParts(EvenPart, OddPart)
  BY <1>1, <1>3 DEF IntParts
<1>6. IsZero(c) => ZeroParts(EvenPart, OddPart)
  BY <1>1, <1>2, <1>3, <1>4 DEF ZeroParts
<1>8. Len(EvenPart) + Len(OddPart) = 8
  BY <1>1, <1>3
<1>9. Ints(Len(EvenPart) + Len(OddPart), InverseFast(c), IsZero(c))
  BY <1>5, <1>6, <1>7, ButterflyInt DEF Ints
<1> QED
  BY <1>8, <1>9

LEMMA InverseFastImage ==
  ASSUME NEW b \in Block
  PROVE  Image(8, 8, jpeg_idct_ifast(b), ZeroBlock(b))
<1> DEFINE line(u) == [v \in 0..7 |-> b[v][u]]
           column(u) == InverseFast(line(u))
           ws == <<column(0), column(1), column(2), column(3),
                   column(4), column(5), column(6), column(7)>>
           row(y) == [u \in 0..7 |-> ws[u + 1][y]]
           out(c) == [i \in 1..8 |-> RangeLimit(InverseFast(c)[i] \div (2 ^ (PASS1_BITS + 3)))]
<1>1. jpeg_idct_ifast(b) = [y \in 1..Len(ws[1]) |-> out(row(y))]
  BY DEF jpeg_idct_ifast, InverseBlock
<1>8. 8 \in 1..16
  OBVIOUS
<1>2. ASSUME NEW u \in 0..7
      PROVE  Ints(8, column(u), ZeroBlock(b))
  <2>1. /\ \A k \in 0..7 : line(u)[k] \in Int
        /\ ZeroBlock(b) => IsZero(line(u))
    BY DEF Block, ZeroBlock, IsZero
  <2> HIDE DEF line
  <2> QED
    BY <2>1, InverseFastInt DEF Ints
<1> HIDE DEF column
<1>3. /\ Len(ws[1]) = 8
      /\ \A y \in 1..8 : \A u \in 0..7 : ws[u + 1][y] \in Int /\ (ZeroBlock(b) => ws[u + 1][y] = 0)
  <2>1. \A u \in 0..7 : ws[u + 1] = column(u)
    OBVIOUS
  <2> HIDE DEF ws
  <2>2. \A u \in 0..7 : Ints(8, ws[u + 1], ZeroBlock(b))
    BY <1>2, <2>1
  <2> QED
    BY <2>2, <1>8, RowsOfColumns, Zenon
<1> HIDE DEF ws
<1>4. ASSUME NEW y \in 1..8
      PROVE  SampleRow(8, out(row(y)), ZeroBlock(b))
  <2> DEFINE c == row(y)
             x(i) == InverseFast(c)[i]
  <2>1. /\ \A k \in 0..7 : c[k] \in Int
        /\ ZeroBlock(b) => IsZero(c)
    BY <1>3 DEF IsZero
  <2>2. out(row(y)) = [i \in 1..8 |-> RangeLimit(x(i) \div 32)]
    BY DEF PASS1_BITS
  <2> HIDE DEF c, out
  <2>3. \A i \in 1..8 : x(i) \in Int /\ (ZeroBlock(b) => x(i) = 0)
    BY <2>1, InverseFastInt DEF Ints
  <2> HIDE DEF x
  <2>4. \A i \in 1..8 : x(i) \div 32 \in Int /\ (ZeroBlock(b) => x(i) \div 32 = 0)
    BY <2>3
  <2>5. \A i \in 1..8 : RangeLimit(x(i) \div 32) \in 0..MAXJSAMPLE
    BY <2>4, RangeLimitSample
  <2> QED
    BY <2>2, <2>4, <2>5, RangeLimitSample DEF SampleRow
<1> HIDE DEF row, out
<1> QED
  BY <1>1, <1>3, <1>4 DEF SampleRow, Image

\* The inverse transform of every size and of both methods gives samples, and
\* grey ones of a block of zeros: every size but 8x8 and 2x4 has the two common
\* passes.
LEMMA IdctImage ==
  ASSUME NEW size \in DctSizes, NEW method, NEW b \in Block
  PROVE  Image(size[1], size[2], Idct(size, method, b), ZeroBlock(b))
<1>1. CASE size = <<8, 8>>
  BY <1>1, InverseSlowImage, InverseFastImage DEF Idct
<1>2. CASE size = <<2, 4>>
  BY <1>2, Inverse2x4Image DEF Idct
<1>3. CASE size = <<1, 1>>
  <2> DEFINE ws == <<Pass1(Inverse1(Line(b, 0))), Pass1(Inverse1(Line(b, 1))),
                    Pass1(Inverse1(Line(b, 2))), Pass1(Inverse1(Line(b, 3))),
                    Pass1(Inverse1(Line(b, 4))), Pass1(Inverse1(Line(b, 5))),
                    Pass1(Inverse1(Line(b, 6))), Pass1(Inverse1(Line(b, 7)))>>
  <2>1. \A u \in 0..7 : Column(1, Line(b, u)) = Pass1(Inverse1(Line(b, u)))
    BY DEF Column, InverseN
  <2>2. \A y : Row(1, Across(ws, y)) = Pass2(Inverse1(Across(ws, y)))
    BY DEF Row, InverseN
  <2>3. jpeg_idct_1x1(b) = [y \in 1..Len(ws[1]) |-> Pass2(Inverse1(Across(ws, y)))]
    BY DEF jpeg_idct_1x1, InverseBlock, Line, Across
  <2>4. \A u \in 0..7 : ws[u + 1] = Column(1, Line(b, u))
    BY <2>1
  <2> HIDE DEF ws
  <2>5. jpeg_idct_1x1(b) = [y \in 1..Len(ws[1]) |-> Row(1, Across(ws, y))]
    BY <2>2, <2>3
  <2>6. 1 \in 1..16
    OBVIOUS
  <2>7. Image(1, 1, jpeg_idct_1x1(b), ZeroBlock(b))
    BY <2>4, <2>5, <2>6, TwoPassesImage, Zenon
  <2> QED
    BY <1>3, <2>7 DEF Idct
<1>4. CASE size = <<2, 2>>
  <2> DEFINE ws == <<Pass1(Inverse2(Line(b, 0))), Pass1(Inverse2(Line(b, 1))),
                    Pass1(Inverse2(Line(b, 2))), Pass1(Inverse2(Line(b, 3))),
                    Pass1(Inverse2(Line(b, 4))), Pass1(Inverse2(Line(b, 5))),
                    Pass1(Inverse2(Line(b, 6))), Pass1(Inverse2(Line(b, 7)))>>
  <2>1. \A u \in 0..7 : Column(2, Line(b, u)) = Pass1(Inverse2(Line(b, u)))
    BY DEF Column, InverseN
  <2>2. \A y : Row(2, Across(ws, y)) = Pass2(Inverse2(Across(ws, y)))
    BY DEF Row, InverseN
  <2>3. jpeg_idct_2x2(b) = [y \in 1..Len(ws[1]) |-> Pass2(Inverse2(Across(ws, y)))]
    BY DEF jpeg_idct_2x2, InverseBlock, Line, Across
  <2>4. \A u \in 0..7 : ws[u + 1] = Column(2, Line(b, u))
    BY <2>1
  <2> HIDE DEF ws
  <2>5. jpeg_idct_2x2(b) = [y \in 1..Len(ws[1]) |-> Row(2, Across(ws, y))]
    BY <2>2, <2>3
  <2>6. 2 \in 1..16
    OBVIOUS
  <2>7. Image(2, 2, jpeg_idct_2x2(b), ZeroBlock(b))
    BY <2>4, <2>5, <2>6, TwoPassesImage, Zenon
  <2> QED
    BY <1>4, <2>7 DEF Idct
<1>5. CASE size = <<3, 3>>
  <2> DEFINE ws == <<Pass1(Inverse3(Line(b, 0))), Pass1(Inverse3(Line(b, 1))),
                    Pass1(Inverse3(Line(b, 2))), Pass1(Inverse3(Line(b, 3))),
                    Pass1(Inverse3(Line(b, 4))), Pass1(Inverse3(Line(b, 5))),
                    Pass1(Inverse3(Line(b, 6))), Pass1(Inverse3(Line(b, 7)))>>
  <2>1. \A u \in 0..7 : Column(3, Line(b, u)) = Pass1(Inverse3(Line(b, u)))
    BY DEF Column, InverseN
  <2>2. \A y : Row(3, Across(ws, y)) = Pass2(Inverse3(Across(ws, y)))
    BY DEF Row, InverseN
  <2>3. jpeg_idct_3x3(b) = [y \in 1..Len(ws[1]) |-> Pass2(Inverse3(Across(ws, y)))]
    BY DEF jpeg_idct_3x3, InverseBlock, Line, Across
  <2>4. \A u \in 0..7 : ws[u + 1] = Column(3, Line(b, u))
    BY <2>1
  <2> HIDE DEF ws
  <2>5. jpeg_idct_3x3(b) = [y \in 1..Len(ws[1]) |-> Row(3, Across(ws, y))]
    BY <2>2, <2>3
  <2>6. 3 \in 1..16
    OBVIOUS
  <2>7. Image(3, 3, jpeg_idct_3x3(b), ZeroBlock(b))
    BY <2>4, <2>5, <2>6, TwoPassesImage, Zenon
  <2> QED
    BY <1>5, <2>7 DEF Idct
<1>6. CASE size = <<4, 4>>
  <2> DEFINE ws == <<Column4(Line(b, 0)), Column4(Line(b, 1)),
                    Column4(Line(b, 2)), Column4(Line(b, 3)),
                    Column4(Line(b, 4)), Column4(Line(b, 5)),
                    Column4(Line(b, 6)), Column4(Line(b, 7))>>
  <2>1. \A u \in 0..7 : Column(4, Line(b, u)) = Column4(Line(b, u))
    BY DEF Column, InverseN
  <2>2. \A y : Row(4, Across(ws, y)) = Pass2(Inverse4(Across(ws, y)))
    BY DEF Row, InverseN
  <2>3. jpeg_idct_4x4(b) = [y \in 1..Len(ws[1]) |-> Pass2(Inverse4(Across(ws, y)))]
    BY DEF jpeg_idct_4x4, InverseBlock, Line, Across
  <2>4. \A u \in 0..7 : ws[u + 1] = Column(4, Line(b, u))
    BY <2>1
  <2> HIDE DEF ws
  <2>5. jpeg_idct_4x4(b) = [y \in 1..Len(ws[1]) |-> Row(4, Across(ws, y))]
    BY <2>2, <2>3
  <2>6. 4 \in 1..16
    OBVIOUS
  <2>7. Image(4, 4, jpeg_idct_4x4(b), ZeroBlock(b))
    BY <2>4, <2>5, <2>6, TwoPassesImage, Zenon
  <2> QED
    BY <1>6, <2>7 DEF Idct
<1>7. CASE size = <<5, 5>>
  <2> DEFINE ws == <<Pass1(Inverse5(Line(b, 0))), Pass1(Inverse5(Line(b, 1))),
                    Pass1(Inverse5(Line(b, 2))), Pass1(Inverse5(Line(b, 3))),
                    Pass1(Inverse5(Line(b, 4))), Pass1(Inverse5(Line(b, 5))),
                    Pass1(Inverse5(Line(b, 6))), Pass1(Inverse5(Line(b, 7)))>>
  <2>1. \A u \in 0..7 : Column(5, Line(b, u)) = Pass1(Inverse5(Line(b, u)))
    BY DEF Column, InverseN
  <2>2. \A y : Row(5, Across(ws, y)) = Pass2(Inverse5(Across(ws, y)))
    BY DEF Row, InverseN
  <2>3. jpeg_idct_5x5(b) = [y \in 1..Len(ws[1]) |-> Pass2(Inverse5(Across(ws, y)))]
    BY DEF jpeg_idct_5x5, InverseBlock, Line, Across
  <2>4. \A u \in 0..7 : ws[u + 1] = Column(5, Line(b, u))
    BY <2>1
  <2> HIDE DEF ws
  <2>5. jpeg_idct_5x5(b) = [y \in 1..Len(ws[1]) |-> Row(5, Across(ws, y))]
    BY <2>2, <2>3
  <2>6. 5 \in 1..16
    OBVIOUS
  <2>7. Image(5, 5, jpeg_idct_5x5(b), ZeroBlock(b))
    BY <2>4, <2>5, <2>6, TwoPassesImage, Zenon
  <2> QED
    BY <1>7, <2>7 DEF Idct
<1>8. CASE size = <<6, 6>>
  <2> DEFINE ws == <<Pass1(Inverse6(Line(b, 0))), Pass1(Inverse6(Line(b, 1))),
                    Pass1(Inverse6(Line(b, 2))), Pass1(Inverse6(Line(b, 3))),
                    Pass1(Inverse6(Line(b, 4))), Pass1(Inverse6(Line(b, 5))),
                    Pass1(Inverse6(Line(b, 6))), Pass1(Inverse6(Line(b, 7)))>>
  <2>1. \A u \in 0..7 : Column(6, Line(b, u)) = Pass1(Inverse6(Line(b, u)))
    BY DEF Column, InverseN
  <2>2. \A y : Row(6, Across(ws, y)) = Pass2(Inverse6(Across(ws, y)))
    BY DEF Row, InverseN
  <2>3. jpeg_idct_6x6(b) = [y \in 1..Len(ws[1]) |-> Pass2(Inverse6(Across(ws, y)))]
    BY DEF jpeg_idct_6x6, InverseBlock, Line, Across
  <2>4. \A u \in 0..7 : ws[u + 1] = Column(6, Line(b, u))
    BY <2>1
  <2> HIDE DEF ws
  <2>5. jpeg_idct_6x6(b) = [y \in 1..Len(ws[1]) |-> Row(6, Across(ws, y))]
    BY <2>2, <2>3
  <2>6. 6 \in 1..16
    OBVIOUS
  <2>7. Image(6, 6, jpeg_idct_6x6(b), ZeroBlock(b))
    BY <2>4, <2>5, <2>6, TwoPassesImage, Zenon
  <2> QED
    BY <1>8, <2>7 DEF Idct
<1>9. CASE size = <<7, 7>>
  <2> DEFINE ws == <<Pass1(Inverse7(Line(b, 0))), Pass1(Inverse7(Line(b, 1))),
                    Pass1(Inverse7(Line(b, 2))), Pass1(Inverse7(Line(b, 3))),
                    Pass1(Inverse7(Line(b, 4))), Pass1(Inverse7(Line(b, 5))),
                    Pass1(Inverse7(Line(b, 6))), Pass1(Inverse7(Line(b, 7)))>>
  <2>1. \A u \in 0..7 : Column(7, Line(b, u)) = Pass1(Inverse7(Line(b, u)))
    BY DEF Column, InverseN
  <2>2. \A y : Row(7, Across(ws, y)) = Pass2(Inverse7(Across(ws, y)))
    BY DEF Row, InverseN
  <2>3. jpeg_idct_7x7(b) = [y \in 1..Len(ws[1]) |-> Pass2(Inverse7(Across(ws, y)))]
    BY DEF jpeg_idct_7x7, InverseBlock, Line, Across
  <2>4. \A u \in 0..7 : ws[u + 1] = Column(7, Line(b, u))
    BY <2>1
  <2> HIDE DEF ws
  <2>5. jpeg_idct_7x7(b) = [y \in 1..Len(ws[1]) |-> Row(7, Across(ws, y))]
    BY <2>2, <2>3
  <2>6. 7 \in 1..16
    OBVIOUS
  <2>7. Image(7, 7, jpeg_idct_7x7(b), ZeroBlock(b))
    BY <2>4, <2>5, <2>6, TwoPassesImage, Zenon
  <2> QED
    BY <1>9, <2>7 DEF Idct
<1>10. CASE size = <<9, 9>>
  <2> DEFINE ws == <<Pass1(Inverse9(Line(b, 0))), Pass1(Inverse9(Line(b, 1))),
                    Pass1(Inverse9(Line(b, 2))), Pass1(Inverse9(Line(b, 3))),
                    Pass1(Inverse9(Line(b, 4))), Pass1(Inverse9(Line(b, 5))),
                    Pass1(Inverse9(Line(b, 6))), Pass1(Inverse9(Line(b, 7)))>>
  <2>1. \A u \in 0..7 : Column(9, Line(b, u)) = Pass1(Inverse9(Line(b, u)))
    BY DEF Column, InverseN
  <2>2. \A y : Row(9, Across(ws, y)) = Pass2(Inverse9(Across(ws, y)))
    BY DEF Row, InverseN
  <2>3. jpeg_idct_9x9(b) = [y \in 1..Len(ws[1]) |-> Pass2(Inverse9(Across(ws, y)))]
    BY DEF jpeg_idct_9x9, InverseBlock, Line, Across
  <2>4. \A u \in 0..7 : ws[u + 1] = Column(9, Line(b, u))
    BY <2>1
  <2> HIDE DEF ws
  <2>5. jpeg_idct_9x9(b) = [y \in 1..Len(ws[1]) |-> Row(9, Across(ws, y))]
    BY <2>2, <2>3
  <2>6. 9 \in 1..16
    OBVIOUS
  <2>7. Image(9, 9, jpeg_idct_9x9(b), ZeroBlock(b))
    BY <2>4, <2>5, <2>6, TwoPassesImage, Zenon
  <2> QED
    BY <1>10, <2>7 DEF Idct
<1>11. CASE size = <<10, 10>>
  <2> DEFINE ws == <<Pass1(Inverse10(Line(b, 0))), Pass1(Inverse10(Line(b, 1))),
                    Pass1(Inverse10(Line(b, 2))), Pass1(Inverse10(Line(b, 3))),
                    Pass1(Inverse10(Line(b, 4))), Pass1(Inverse10(Line(b, 5))),
                    Pass1(Inverse10(Line(b, 6))), Pass1(Inverse10(Line(b, 7)))>>
  <2>1. \A u \in 0..7 : Column(10, Line(b, u)) = Pass1(Inverse10(Line(b, u)))
    BY DEF Column, InverseN
  <2>2. \A y : Row(10, Across(ws, y)) = Pass2(Inverse10(Across(ws, y)))
    BY DEF Row, InverseN
  <2>3. jpeg_idct_10x10(b) = [y \in 1..Len(ws[1]) |-> Pass2(Inverse10(Across(ws, y)))]
    BY DEF jpeg_idct_10x10, InverseBlock, Line, Across
  <2>4. \A u \in 0..7 : ws[u + 1] = Column(10, Line(b, u))
    BY <2>1
  <2> HIDE DEF ws
  <2>5. jpeg_idct_10x10(b) = [y \in 1..Len(ws[1]) |-> Row(10, Across(ws, y))]
    BY <2>2, <2>3
  <2>6. 10 \in 1..16
    OBVIOUS
  <2>7. Image(10, 10, jpeg_idct_10x10(b), ZeroBlock(b))
    BY <2>4, <2>5, <2>6, TwoPassesImage, Zenon
  <2> QED
    BY <1>11, <2>7 DEF Idct
<1>12. CASE size = <<11, 11>>
  <2> DEFINE ws == <<Pass1(Inverse11(Line(b, 0))), Pass1(Inverse11(Line(b, 1))),
                    Pass1(Inverse11(Line(b, 2))), Pass1(Inverse11(Line(b, 3))),
                    Pass1(Inverse11(Line(b, 4))), Pass1(Inverse11(Line(b, 5))),
                    Pass1(Inverse11(Line(b, 6))), Pass1(Inverse11(Line(b, 7)))>>
  <2>1. \A u \in 0..7 : Column(11, Line(b, u)) = Pass1(Inverse11(Line(b, u)))
    BY DEF Column, InverseN
  <2>2. \A y : Row(11, Across(ws, y)) = Pass2(Inverse11(Across(ws, y)))
    BY DEF Row, InverseN
  <2>3. jpeg_idct_11x11(b) = [y \in 1..Len(ws[1]) |-> Pass2(Inverse11(Across(ws, y)))]
    BY DEF jpeg_idct_11x11, InverseBlock, Line, Across
  <2>4. \A u \in 0..7 : ws[u + 1] = Column(11, Line(b, u))
    BY <2>1
  <2> HIDE DEF ws
  <2>5. jpeg_idct_11x11(b) = [y \in 1..Len(ws[1]) |-> Row(11, Across(ws, y))]
    BY <2>2, <2>3
  <2>6. 11 \in 1..16
    OBVIOUS
  <2>7. Image(11, 11, jpeg_idct_11x11(b), ZeroBlock(b))
    BY <2>4, <2>5, <2>6, TwoPassesImage, Zenon
  <2> QED
    BY <1>12, <2>7 DEF Idct
<1>13. CASE size = <<12, 12>>
  <2> DEFINE ws == <<Pass1(Inverse12(Line(b, 0))), Pass1(Inverse12(Line(b, 1))),
                    Pass1(Inverse12(Line(b, 2))), Pass1(Inverse12(Line(b, 3))),
                    Pass1(Inverse12(Line(b, 4))), Pass1(Inverse12(Line(b, 5))),
                    Pass1(Inverse12(Line(b, 6))), Pass1(Inverse12(Line(b, 7)))>>
  <2>1. \A u \in 0..7 : Column(12, Line(b, u)) = Pass1(Inverse12(Line(b, u)))
    BY DEF Column, InverseN
  <2>2. \A y : Row(12, Across(ws, y)) = Pass2(Inverse12(Across(ws, y)))
    BY DEF Row, InverseN
  <2>3. jpeg_idct_12x12(b) = [y \in 1..Len(ws[1]) |-> Pass2(Inverse12(Across(ws, y)))]
    BY DEF jpeg_idct_12x12, InverseBlock, Line, Across
  <2>4. \A u \in 0..7 : ws[u + 1] = Column(12, Line(b, u))
    BY <2>1
  <2> HIDE DEF ws
  <2>5. jpeg_idct_12x12(b) = [y \in 1..Len(ws[1]) |-> Row(12, Across(ws, y))]
    BY <2>2, <2>3
  <2>6. 12 \in 1..16
    OBVIOUS
  <2>7. Image(12, 12, jpeg_idct_12x12(b), ZeroBlock(b))
    BY <2>4, <2>5, <2>6, TwoPassesImage, Zenon
  <2> QED
    BY <1>13, <2>7 DEF Idct
<1>14. CASE size = <<13, 13>>
  <2> DEFINE ws == <<Pass1(Inverse13(Line(b, 0))), Pass1(Inverse13(Line(b, 1))),
                    Pass1(Inverse13(Line(b, 2))), Pass1(Inverse13(Line(b, 3))),
                    Pass1(Inverse13(Line(b, 4))), Pass1(Inverse13(Line(b, 5))),
                    Pass1(Inverse13(Line(b, 6))), Pass1(Inverse13(Line(b, 7)))>>
  <2>1. \A u \in 0..7 : Column(13, Line(b, u)) = Pass1(Inverse13(Line(b, u)))
    BY DEF Column, InverseN
  <2>2. \A y : Row(13, Across(ws, y)) = Pass2(Inverse13(Across(ws, y)))
    BY DEF Row, InverseN
  <2>3. jpeg_idct_13x13(b) = [y \in 1..Len(ws[1]) |-> Pass2(Inverse13(Across(ws, y)))]
    BY DEF jpeg_idct_13x13, InverseBlock, Line, Across
  <2>4. \A u \in 0..7 : ws[u + 1] = Column(13, Line(b, u))
    BY <2>1
  <2> HIDE DEF ws
  <2>5. jpeg_idct_13x13(b) = [y \in 1..Len(ws[1]) |-> Row(13, Across(ws, y))]
    BY <2>2, <2>3
  <2>6. 13 \in 1..16
    OBVIOUS
  <2>7. Image(13, 13, jpeg_idct_13x13(b), ZeroBlock(b))
    BY <2>4, <2>5, <2>6, TwoPassesImage, Zenon
  <2> QED
    BY <1>14, <2>7 DEF Idct
<1>15. CASE size = <<14, 14>>
  <2> DEFINE ws == <<Pass1(Inverse14(Line(b, 0))), Pass1(Inverse14(Line(b, 1))),
                    Pass1(Inverse14(Line(b, 2))), Pass1(Inverse14(Line(b, 3))),
                    Pass1(Inverse14(Line(b, 4))), Pass1(Inverse14(Line(b, 5))),
                    Pass1(Inverse14(Line(b, 6))), Pass1(Inverse14(Line(b, 7)))>>
  <2>1. \A u \in 0..7 : Column(14, Line(b, u)) = Pass1(Inverse14(Line(b, u)))
    BY DEF Column, InverseN
  <2>2. \A y : Row(14, Across(ws, y)) = Pass2(Inverse14(Across(ws, y)))
    BY DEF Row, InverseN
  <2>3. jpeg_idct_14x14(b) = [y \in 1..Len(ws[1]) |-> Pass2(Inverse14(Across(ws, y)))]
    BY DEF jpeg_idct_14x14, InverseBlock, Line, Across
  <2>4. \A u \in 0..7 : ws[u + 1] = Column(14, Line(b, u))
    BY <2>1
  <2> HIDE DEF ws
  <2>5. jpeg_idct_14x14(b) = [y \in 1..Len(ws[1]) |-> Row(14, Across(ws, y))]
    BY <2>2, <2>3
  <2>6. 14 \in 1..16
    OBVIOUS
  <2>7. Image(14, 14, jpeg_idct_14x14(b), ZeroBlock(b))
    BY <2>4, <2>5, <2>6, TwoPassesImage, Zenon
  <2> QED
    BY <1>15, <2>7 DEF Idct
<1>16. CASE size = <<15, 15>>
  <2> DEFINE ws == <<Pass1(Inverse15(Line(b, 0))), Pass1(Inverse15(Line(b, 1))),
                    Pass1(Inverse15(Line(b, 2))), Pass1(Inverse15(Line(b, 3))),
                    Pass1(Inverse15(Line(b, 4))), Pass1(Inverse15(Line(b, 5))),
                    Pass1(Inverse15(Line(b, 6))), Pass1(Inverse15(Line(b, 7)))>>
  <2>1. \A u \in 0..7 : Column(15, Line(b, u)) = Pass1(Inverse15(Line(b, u)))
    BY DEF Column, InverseN
  <2>2. \A y : Row(15, Across(ws, y)) = Pass2(Inverse15(Across(ws, y)))
    BY DEF Row, InverseN
  <2>3. jpeg_idct_15x15(b) = [y \in 1..Len(ws[1]) |-> Pass2(Inverse15(Across(ws, y)))]
    BY DEF jpeg_idct_15x15, InverseBlock, Line, Across
  <2>4. \A u \in 0..7 : ws[u + 1] = Column(15, Line(b, u))
    BY <2>1
  <2> HIDE DEF ws
  <2>5. jpeg_idct_15x15(b) = [y \in 1..Len(ws[1]) |-> Row(15, Across(ws, y))]
    BY <2>2, <2>3
  <2>6. 15 \in 1..16
    OBVIOUS
  <2>7. Image(15, 15, jpeg_idct_15x15(b), ZeroBlock(b))
    BY <2>4, <2>5, <2>6, TwoPassesImage, Zenon
  <2> QED
    BY <1>16, <2>7 DEF Idct
<1>17. CASE size = <<16, 16>>
  <2> DEFINE ws == <<Pass1(Inverse16(Line(b, 0))), Pass1(Inverse16(Line(b, 1))),
                    Pass1(Inverse16(Line(b, 2))), Pass1(Inverse16(Line(b, 3))),
                    Pass1(Inverse16(Line(b, 4))), Pass1(Inverse16(Line(b, 5))),
                    Pass1(Inverse16(Line(b, 6))), Pass1(Inverse16(Line(b, 7)))>>
  <2>1. \A u \in 0..7 : Column(16, Line(b, u)) = Pass1(Inverse16(Line(b, u)))
    BY DEF Column, InverseN
  <2>2. \A y : Row(16, Across(ws, y)) = Pass2(Inverse16(Across(ws, y)))
    BY DEF Row, InverseN
  <2>3. jpeg_idct_16x16(b) = [y \in 1..Len(ws[1]) |-> Pass2(Inverse16(Across(ws, y)))]
    BY DEF jpeg_idct_16x16, InverseBlock, Line, Across
  <2>4. \A u \in 0..7 : ws[u + 1] = Column(16, Line(b, u))
    BY <2>1
  <2> HIDE DEF ws
  <2>5. jpeg_idct_16x16(b) = [y \in 1..Len(ws[1]) |-> Row(16, Across(ws, y))]
    BY <2>2, <2>3
  <2>6. 16 \in 1..16
    OBVIOUS
  <2>7. Image(16, 16, jpeg_idct_16x16(b), ZeroBlock(b))
    BY <2>4, <2>5, <2>6, TwoPassesImage, Zenon
  <2> QED
    BY <1>17, <2>7 DEF Idct
<1>18. CASE size = <<16, 8>>
  <2> DEFINE ws == <<Column8(Line(b, 0)), Column8(Line(b, 1)),
                    Column8(Line(b, 2)), Column8(Line(b, 3)),
                    Column8(Line(b, 4)), Column8(Line(b, 5)),
                    Column8(Line(b, 6)), Column8(Line(b, 7))>>
  <2>1. \A u \in 0..7 : Column(8, Line(b, u)) = Column8(Line(b, u))
    BY DEF Column, InverseN
  <2>2. \A y : Row(16, Across(ws, y)) = Pass2(Inverse16(Across(ws, y)))
    BY DEF Row, InverseN
  <2>3. jpeg_idct_16x8(b) = [y \in 1..Len(ws[1]) |-> Pass2(Inverse16(Across(ws, y)))]
    BY DEF jpeg_idct_16x8, InverseBlock, Line, Across
  <2>4. \A u \in 0..7 : ws[u + 1] = Column(8, Line(b, u))
    BY <2>1
  <2> HIDE DEF ws
  <2>5. jpeg_idct_16x8(b) = [y \in 1..Len(ws[1]) |-> Row(16, Across(ws, y))]
    BY <2>2, <2>3
  <2>6. 16 \in 1..16 /\ 8 \in 1..16
    OBVIOUS
  <2>7. Image(16, 8, jpeg_idct_16x8(b), ZeroBlock(b))
    BY <2>4, <2>5, <2>6, TwoPassesImage, Zenon
  <2> QED
    BY <1>18, <2>7 DEF Idct
<1>19. CASE size = <<14, 7>>
  <2> DEFINE ws == <<Pass1(Inverse7(Line(b, 0))), Pass1(Inverse7(Line(b, 1))),
                    Pass1(Inverse7(Line(b, 2))), Pass1(Inverse7(Line(b, 3))),
                    Pass1(Inverse7(Line(b, 4))), Pass1(Inverse7(Line(b, 5))),
                    Pass1(Inverse7(Line(b, 6))), Pass1(Inverse7(Line(b, 7)))>>
  <2>1. \A u \in 0..7 : Column(7, Line(b, u)) = Pass1(Inverse7(Line(b, u)))
    BY DEF Column, InverseN
  <2>2. \A y : Row(14, Across(ws, y)) = Pass2(Inverse14(Across(ws, y)))
    BY DEF Row, InverseN
  <2>3. jpeg_idct_14x7(b) = [y \in 1..Len(ws[1]) |-> Pass2(Inverse14(Across(ws, y)))]
    BY DEF jpeg_idct_14x7, InverseBlock, Line, Across
  <2>4. \A u \in 0..7 : ws[u + 1] = Column(7, Line(b, u))
    BY <2>1
  <2> HIDE DEF ws
  <2>5. jpeg_idct_14x7(b) = [y \in 1..Len(ws[1]) |-> Row(14, Across(ws, y))]
    BY <2>2, <2>3
  <2>6. 14 \in 1..16 /\ 7 \in 1..16
    OBVIOUS
  <2>7. Image(14, 7, jpeg_idct_14x7(b), ZeroBlock(b))
    BY <2>4, <2>5, <2>6, TwoPassesImage, Zenon
  <2> QED
    BY <1>19, <2>7 DEF Idct
<1>20. CASE size = <<12, 6>>
  <2> DEFINE ws == <<Pass1(Inverse6(Line(b, 0))), Pass1(Inverse6(Line(b, 1))),
                    Pass1(Inverse6(Line(b, 2))), Pass1(Inverse6(Line(b, 3))),
                    Pass1(Inverse6(Line(b, 4))), Pass1(Inverse6(Line(b, 5))),
                    Pass1(Inverse6(Line(b, 6))), Pass1(Inverse6(Line(b, 7)))>>
  <2>1. \A u \in 0..7 : Column(6, Line(b, u)) = Pass1(Inverse6(Line(b, u)))
    BY DEF Column, InverseN
  <2>2. \A y : Row(12, Across(ws, y)) = Pass2(Inverse12(Across(ws, y)))
    BY DEF Row, InverseN
  <2>3. jpeg_idct_12x6(b) = [y \in 1..Len(ws[1]) |-> Pass2(Inverse12(Across(ws, y)))]
    BY DEF jpeg_idct_12x6, InverseBlock, Line, Across
  <2>4. \A u \in 0..7 : ws[u + 1] = Column(6, Line(b, u))
    BY <2>1
  <2> HIDE DEF ws
  <2>5. jpeg_idct_12x6(b) = [y \in 1..Len(ws[1]) |-> Row(12, Across(ws, y))]
    BY <2>2, <2>3
  <2>6. 12 \in 1..16 /\ 6 \in 1..16
    OBVIOUS
  <2>7. Image(12, 6, jpeg_idct_12x6(b), ZeroBlock(b))
    BY <2>4, <2>5, <2>6, TwoPassesImage, Zenon
  <2> QED
    BY <1>20, <2>7 DEF Idct
<1>21. CASE size = <<10, 5>>
  <2> DEFINE ws == <<Pass1(Inverse5(Line(b, 0))), Pass1(Inverse5(Line(b, 1))),
                    Pass1(Inverse5(Line(b, 2))), Pass1(Inverse5(Line(b, 3))),
                    Pass1(Inverse5(Line(b, 4))), Pass1(Inverse5(Line(b, 5))),
                    Pass1(Inverse5(Line(b, 6))), Pass1(Inverse5(Line(b, 7)))>>
  <2>1. \A u \in 0..7 : Column(5, Line(b, u)) = Pass1(Inverse5(Line(b, u)))
    BY DEF Column, InverseN
  <2>2. \A y : Row(10, Across(ws, y)) = Pass2(Inverse10(Across(ws, y)))
    BY DEF Row, InverseN
  <2>3. jpeg_idct_10x5(b) = [y \in 1..Len(ws[1]) |-> Pass2(Inverse10(Across(ws, y)))]
    BY DEF jpeg_idct_10x5, InverseBlock, Line, Across
  <2>4. \A u \in 0..7 : ws[u + 1] = Column(5, Line(b, u))
    BY <2>1
  <2> HIDE DEF ws
  <2>5. jpeg_idct_10x5(b) = [y \in 1..Len(ws[1]) |-> Row(10, Across(ws, y))]
    BY <2>2, <2>3
  <2>6. 10 \in 1..16 /\ 5 \in 1..16
    OBVIOUS
  <2>7. Image(10, 5, jpeg_idct_10x5(b), ZeroBlock(b))
    BY <2>4, <2>5, <2>6, TwoPassesImage, Zenon
  <2> QED
    BY <1>21, <2>7 DEF Idct
<1>22. CASE size = <<8, 4>>
  <2> DEFINE ws == <<Column4(Line(b, 0)), Column4(Line(b, 1)),
                    Column4(Line(b, 2)), Column4(Line(b, 3)),
                    Column4(Line(b, 4)), Column4(Line(b, 5)),
                    Column4(Line(b, 6)), Column4(Line(b, 7))>>
  <2>1. \A u \in 0..7 : Column(4, Line(b, u)) = Column4(Line(b, u))
    BY DEF Column, InverseN
  <2>2. \A y : Row(8, Across(ws, y)) = Pass2(Inverse8(Across(ws, y)))
    BY DEF Row, InverseN
  <2>3. jpeg_idct_8x4(b) = [y \in 1..Len(ws[1]) |-> Pass2(Inverse8(Across(ws, y)))]
    BY DEF jpeg_idct_8x4, InverseBlock, Line, Across
  <2>4. \A u \in 0..7 : ws[u + 1] = Column(4, Line(b, u))
    BY <2>1
  <2> HIDE DEF ws
  <2>5. jpeg_idct_8x4(b) = [y \in 1..Len(ws[1]) |-> Row(8, Across(ws, y))]
    BY <2>2, <2>3
  <2>6. 8 \in 1..16 /\ 4 \in 1..16
    OBVIOUS
  <2>7. Image(8, 4, jpeg_idct_8x4(b), ZeroBlock(b))
    BY <2>4, <2>5, <2>6, TwoPassesImage, Zenon
  <2> QED
    BY <1>22, <2>7 DEF Idct
<1>23. CASE size = <<6, 3>>
  <2> DEFINE ws == <<Pass1(Inverse3(Line(b, 0))), Pass1(Inverse3(Line(b, 1))),
                    Pass1(Inverse3(Line(b, 2))), Pass1(Inverse3(Line(b, 3))),
                    Pass1(Inverse3(Line(b, 4))), Pass1(Inverse3(Line(b, 5))),
                    Pass1(Inverse3(Line(b, 6))), Pass1(Inverse3(Line(b, 7)))>>
  <2>1. \A u \in 0..7 : Column(3, Line(b, u)) = Pass1(Inverse3(Line(b, u)))
    BY DEF Column, InverseN
  <2>2. \A y : Row(6, Across(ws, y)) = Pass2(Inverse6(Across(ws, y)))
    BY DEF Row, InverseN
  <2>3. jpeg_idct_6x3(b) = [y \in 1..Len(ws[1]) |-> Pass2(Inverse6(Across(ws, y)))]
    BY DEF jpeg_idct_6x3, InverseBlock, Line, Across
  <2>4. \A u \in 0..7 : ws[u + 1] = Column(3, Line(b, u))
    BY <2>1
  <2> HIDE DEF ws
  <2>5. jpeg_idct_6x3(b) = [y \in 1..Len(ws[1]) |-> Row(6, Across(ws, y))]
    BY <2>2, <2>3
  <2>6. 6 \in 1..16 /\ 3 \in 1..16
    OBVIOUS
  <2>7. Image(6, 3, jpeg_idct_6x3(b), ZeroBlock(b))
    BY <2>4, <2>5, <2>6, TwoPassesImage, Zenon
  <2> QED
    BY <1>23, <2>7 DEF Idct
<1>24. CASE size = <<4, 2>>
  <2> DEFINE ws == <<Pass1(Inverse2(Line(b, 0))), Pass1(Inverse2(Line(b, 1))),
                    Pass1(Inverse2(Line(b, 2))), Pass1(Inverse2(Line(b, 3))),
                    Pass1(Inverse2(Line(b, 4))), Pass1(Inverse2(Line(b, 5))),
                    Pass1(Inverse2(Line(b, 6))), Pass1(Inverse2(Line(b, 7)))>>
  <2>1. \A u \in 0..7 : Column(2, Line(b, u)) = Pass1(Inverse2(Line(b, u)))
    BY DEF Column, InverseN
  <2>2. \A y : Row(4, Across(ws, y)) = Pass2(Inverse4(Across(ws, y)))
    BY DEF Row, InverseN
  <2>3. jpeg_idct_4x2(b) = [y \in 1..Len(ws[1]) |-> Pass2(Inverse4(Across(ws, y)))]
    BY DEF jpeg_idct_4x2, InverseBlock, Line, Across
  <2>4. \A u \in 0..7 : ws[u + 1] = Column(2, Line(b, u))
    BY <2>1
  <2> HIDE DEF ws
  <2>5. jpeg_idct_4x2(b) = [y \in 1..Len(ws[1]) |-> Row(4, Across(ws, y))]
    BY <2>2, <2>3
  <2>6. 4 \in 1..16 /\ 2 \in 1..16
    OBVIOUS
  <2>7. Image(4, 2, jpeg_idct_4x2(b), ZeroBlock(b))
    BY <2>4, <2>5, <2>6, TwoPassesImage, Zenon
  <2> QED
    BY <1>24, <2>7 DEF Idct
<1>25. CASE size = <<2, 1>>
  <2> DEFINE ws == <<Pass1(Inverse1(Line(b, 0))), Pass1(Inverse1(Line(b, 1))),
                    Pass1(Inverse1(Line(b, 2))), Pass1(Inverse1(Line(b, 3))),
                    Pass1(Inverse1(Line(b, 4))), Pass1(Inverse1(Line(b, 5))),
                    Pass1(Inverse1(Line(b, 6))), Pass1(Inverse1(Line(b, 7)))>>
  <2>1. \A u \in 0..7 : Column(1, Line(b, u)) = Pass1(Inverse1(Line(b, u)))
    BY DEF Column, InverseN
  <2>2. \A y : Row(2, Across(ws, y)) = Pass2(Inverse2(Across(ws, y)))
    BY DEF Row, InverseN
  <2>3. jpeg_idct_2x1(b) = [y \in 1..Len(ws[1]) |-> Pass2(Inverse2(Across(ws, y)))]
    BY DEF jpeg_idct_2x1, InverseBlock, Line, Across
  <2>4. \A u \in 0..7 : ws[u + 1] = Column(1, Line(b, u))
    BY <2>1
  <2> HIDE DEF ws
  <2>5. jpeg_idct_2x1(b) = [y \in 1..Len(ws[1]) |-> Row(2, Across(ws, y))]
    BY <2>2, <2>3
  <2>6. 2 \in 1..16 /\ 1 \in 1..16
    OBVIOUS
  <2>7. Image(2, 1, jpeg_idct_2x1(b), ZeroBlock(b))
    BY <2>4, <2>5, <2>6, TwoPassesImage, Zenon
  <2> QED
    BY <1>25, <2>7 DEF Idct
<1>26. CASE size = <<8, 16>>
  <2> DEFINE ws == <<Pass1(Inverse16(Line(b, 0))), Pass1(Inverse16(Line(b, 1))),
                    Pass1(Inverse16(Line(b, 2))), Pass1(Inverse16(Line(b, 3))),
                    Pass1(Inverse16(Line(b, 4))), Pass1(Inverse16(Line(b, 5))),
                    Pass1(Inverse16(Line(b, 6))), Pass1(Inverse16(Line(b, 7)))>>
  <2>1. \A u \in 0..7 : Column(16, Line(b, u)) = Pass1(Inverse16(Line(b, u)))
    BY DEF Column, InverseN
  <2>2. \A y : Row(8, Across(ws, y)) = Pass2(Inverse8(Across(ws, y)))
    BY DEF Row, InverseN
  <2>3. jpeg_idct_8x16(b) = [y \in 1..Len(ws[1]) |-> Pass2(Inverse8(Across(ws, y)))]
    BY DEF jpeg_idct_8x16, InverseBlock, Line, Across
  <2>4. \A u \in 0..7 : ws[u + 1] = Column(16, Line(b, u))
    BY <2>1
  <2> HIDE DEF ws
  <2>5. jpeg_idct_8x16(b) = [y \in 1..Len(ws[1]) |-> Row(8, Across(ws, y))]
    BY <2>2, <2>3
  <2>6. 8 \in 1..16 /\ 16 \in 1..16
    OBVIOUS
  <2>7. Image(8, 16, jpeg_idct_8x16(b), ZeroBlock(b))
    BY <2>4, <2>5, <2>6, TwoPassesImage, Zenon
  <2> QED
    BY <1>26, <2>7 DEF Idct
<1>27. CASE size = <<7, 14>>
  <2> DEFINE ws == <<Pass1(Inverse14(Line(b, 0))), Pass1(Inverse14(Line(b, 1))),
                    Pass1(Inverse14(Line(b, 2))), Pass1(Inverse14(Line(b, 3))),
                    Pass1(Inverse14(Line(b, 4))), Pass1(Inverse14(Line(b, 5))),
                    Pass1(Inverse14(Line(b, 6))), Pass1(Inverse14(Line(b, 7)))>>
  <2>1. \A u \in 0..7 : Column(14, Line(b, u)) = Pass1(Inverse14(Line(b, u)))
    BY DEF Column, InverseN
  <2>2. \A y : Row(7, Across(ws, y)) = Pass2(Inverse7(Across(ws, y)))
    BY DEF Row, InverseN
  <2>3. jpeg_idct_7x14(b) = [y \in 1..Len(ws[1]) |-> Pass2(Inverse7(Across(ws, y)))]
    BY DEF jpeg_idct_7x14, InverseBlock, Line, Across
  <2>4. \A u \in 0..7 : ws[u + 1] = Column(14, Line(b, u))
    BY <2>1
  <2> HIDE DEF ws
  <2>5. jpeg_idct_7x14(b) = [y \in 1..Len(ws[1]) |-> Row(7, Across(ws, y))]
    BY <2>2, <2>3
  <2>6. 7 \in 1..16 /\ 14 \in 1..16
    OBVIOUS
  <2>7. Image(7, 14, jpeg_idct_7x14(b), ZeroBlock(b))
    BY <2>4, <2>5, <2>6, TwoPassesImage, Zenon
  <2> QED
    BY <1>27, <2>7 DEF Idct
<1>28. CASE size = <<6, 12>>
  <2> DEFINE ws == <<Pass1(Inverse12(Line(b, 0))), Pass1(Inverse12(Line(b, 1))),
                    Pass1(Inverse12(Line(b, 2))), Pass1(Inverse12(Line(b, 3))),
                    Pass1(Inverse12(Line(b, 4))), Pass1(Inverse12(Line(b, 5))),
                    Pass1(Inverse12(Line(b, 6))), Pass1(Inverse12(Line(b, 7)))>>
  <2>1. \A u \in 0..7 : Column(12, Line(b, u)) = Pass1(Inverse12(Line(b, u)))
    BY DEF Column, InverseN
  <2>2. \A y : Row(6, Across(ws, y)) = Pass2(Inverse6(Across(ws, y)))
    BY DEF Row, InverseN
  <2>3. jpeg_idct_6x12(b) = [y \in 1..Len(ws[1]) |-> Pass2(Inverse6(Across(ws, y)))]
    BY DEF jpeg_idct_6x12, InverseBlock, Line, Across
  <2>4. \A u \in 0..7 : ws[u + 1] = Column(12, Line(b, u))
    BY <2>1
  <2> HIDE DEF ws
  <2>5. jpeg_idct_6x12(b) = [y \in 1..Len(ws[1]) |-> Row(6, Across(ws, y))]
    BY <2>2, <2>3
  <2>6. 6 \in 1..16 /\ 12 \in 1..16
    OBVIOUS
  <2>7. Image(6, 12, jpeg_idct_6x12(b), ZeroBlock(b))
    BY <2>4, <2>5, <2>6, TwoPassesImage, Zenon
  <2> QED
    BY <1>28, <2>7 DEF Idct
<1>29. CASE size = <<5, 10>>
  <2> DEFINE ws == <<Pass1(Inverse10(Line(b, 0))), Pass1(Inverse10(Line(b, 1))),
                    Pass1(Inverse10(Line(b, 2))), Pass1(Inverse10(Line(b, 3))),
                    Pass1(Inverse10(Line(b, 4))), Pass1(Inverse10(Line(b, 5))),
                    Pass1(Inverse10(Line(b, 6))), Pass1(Inverse10(Line(b, 7)))>>
  <2>1. \A u \in 0..7 : Column(10, Line(b, u)) = Pass1(Inverse10(Line(b, u)))
    BY DEF Column, InverseN
  <2>2. \A y : Row(5, Across(ws, y)) = Pass2(Inverse5(Across(ws, y)))
    BY DEF Row, InverseN
  <2>3. jpeg_idct_5x10(b) = [y \in 1..Len(ws[1]) |-> Pass2(Inverse5(Across(ws, y)))]
    BY DEF jpeg_idct_5x10, InverseBlock, Line, Across
  <2>4. \A u \in 0..7 : ws[u + 1] = Column(10, Line(b, u))
    BY <2>1
  <2> HIDE DEF ws
  <2>5. jpeg_idct_5x10(b) = [y \in 1..Len(ws[1]) |-> Row(5, Across(ws, y))]
    BY <2>2, <2>3
  <2>6. 5 \in 1..16 /\ 10 \in 1..16
    OBVIOUS
  <2>7. Image(5, 10, jpeg_idct_5x10(b), ZeroBlock(b))
    BY <2>4, <2>5, <2>6, TwoPassesImage, Zenon
  <2> QED
    BY <1>29, <2>7 DEF Idct
<1>30. CASE size = <<4, 8>>
  <2> DEFINE ws == <<Column8(Line(b, 0)), Column8(Line(b, 1)),
                    Column8(Line(b, 2)), Column8(Line(b, 3)),
                    Column8(Line(b, 4)), Column8(Line(b, 5)),
                    Column8(Line(b, 6)), Column8(Line(b, 7))>>
  <2>1. \A u \in 0..7 : Column(8, Line(b, u)) = Column8(Line(b, u))
    BY DEF Column, InverseN
  <2>2. \A y : Row(4, Across(ws, y)) = Pass2(Inverse4(Across(ws, y)))
    BY DEF Row, InverseN
  <2>3. jpeg_idct_4x8(b) = [y \in 1..Len(ws[1]) |-> Pass2(Inverse4(Across(ws, y)))]
    BY DEF jpeg_idct_4x8, InverseBlock, Line, Across
  <2>4. \A u \in 0..7 : ws[u + 1] = Column(8, Line(b, u))
    BY <2>1
  <2> HIDE DEF ws
  <2>5. jpeg_idct_4x8(b) = [y \in 1..Len(ws[1]) |-> Row(4, Across(ws, y))]
    BY <2>2, <2>3
  <2>6. 4 \in 1..16 /\ 8 \in 1..16
    OBVIOUS
  <2>7. Image(4, 8, jpeg_idct_4x8(b), ZeroBlock(b))
    BY <2>4, <2>5, <2>6, TwoPassesImage, Zenon
  <2> QED
    BY <1>30, <2>7 DEF Idct
<1>31. CASE size = <<3, 6>>
  <2> DEFINE ws == <<Pass1(Inverse6(Line(b, 0))), Pass1(Inverse6(Line(b, 1))),
                    Pass1(Inverse6(Line(b, 2))), Pass1(Inverse6(Line(b, 3))),
                    Pass1(Inverse6(Line(b, 4))), Pass1(Inverse6(Line(b, 5))),
                    Pass1(Inverse6(Line(b, 6))), Pass1(Inverse6(Line(b, 7)))>>
  <2>1. \A u \in 0..7 : Column(6, Line(b, u)) = Pass1(Inverse6(Line(b, u)))
    BY DEF Column, InverseN
  <2>2. \A y : Row(3, Across(ws, y)) = Pass2(Inverse3(Across(ws, y)))
    BY DEF Row, InverseN
  <2>3. jpeg_idct_3x6(b) = [y \in 1..Len(ws[1]) |-> Pass2(Inverse3(Across(ws, y)))]
    BY DEF jpeg_idct_3x6, InverseBlock, Line, Across
  <2>4. \A u \in 0..7 : ws[u + 1] = Column(6, Line(b, u))
    BY <2>1
  <2> HIDE DEF ws
  <2>5. jpeg_idct_3x6(b) = [y \in 1..Len(ws[1]) |-> Row(3, Across(ws, y))]
    BY <2>2, <2>3
  <2>6. 3 \in 1..16 /\ 6 \in 1..16
    OBVIOUS
  <2>7. Image(3, 6, jpeg_idct_3x6(b), ZeroBlock(b))
    BY <2>4, <2>5, <2>6, TwoPassesImage, Zenon
  <2> QED
    BY <1>31, <2>7 DEF Idct
<1>32. CASE size = <<1, 2>>
  <2> DEFINE ws == <<Pass1(Inverse2(Line(b, 0))), Pass1(Inverse2(Line(b, 1))),
                    Pass1(Inverse2(Line(b, 2))), Pass1(Inverse2(Line(b, 3))),
                    Pass1(Inverse2(Line(b, 4))), Pass1(Inverse2(Line(b, 5))),
                    Pass1(Inverse2(Line(b, 6))), Pass1(Inverse2(Line(b, 7)))>>
  <2>1. \A u \in 0..7 : Column(2, Line(b, u)) = Pass1(Inverse2(Line(b, u)))
    BY DEF Column, InverseN
  <2>2. \A y : Row(1, Across(ws, y)) = Pass2(Inverse1(Across(ws, y)))
    BY DEF Row, InverseN
  <2>3. jpeg_idct_1x2(b) = [y \in 1..Len(ws[1]) |-> Pass2(Inverse1(Across(ws, y)))]
    BY DEF jpeg_idct_1x2, InverseBlock, Line, Across
  <2>4. \A u \in 0..7 : ws[u + 1] = Column(2, Line(b, u))
    BY <2>1
  <2> HIDE DEF ws
  <2>5. jpeg_idct_1x2(b) = [y \in 1..Len(ws[1]) |-> Row(1, Across(ws, y))]
    BY <2>2, <2>3
  <2>6. 1 \in 1..16 /\ 2 \in 1..16
    OBVIOUS
  <2>7. Image(1, 2, jpeg_idct_1x2(b), ZeroBlock(b))
    BY <2>4, <2>5, <2>6, TwoPassesImage, Zenon
  <2> QED
    BY <1>32, <2>7 DEF Idct
<1> QED
  BY <1>1, <1>2, <1>3, <1>4, <1>5, <1>6, <1>7, <1>8, <1>9, <1>10, <1>11, <1>12, <1>13, <1>14, <1>15, <1>16, <1>17, <1>18, <1>19, <1>20, <1>21, <1>22, <1>23, <1>24, <1>25, <1>26, <1>27, <1>28, <1>29, <1>30, <1>31, <1>32 DEF DctSizes

-----------------------------------------------------------------------------
(* Types, and what is put out before the data has come *)

\* The factors of the fast method are large enough that no divisor becomes zero.
LEMMA AanRange ==
  \A v \in 0..7 : \A u \in 0..7 :
    aanscales[v + 1][u + 1] \in Nat /\ aanscales[v + 1][u + 1] >= 1247
BY DEF aanscales

LEMMA ProductAtLeast ==
  ASSUME NEW q \in Nat \ {0}, NEW a \in Nat
  PROVE  q * a \in Nat /\ q * a >= a
OBVIOUS

DivisorTable == [0..7 -> [0..7 -> Nat \ {0}]]

LEMMA TablesTyped ==
  ASSUME NEW method, NEW quantval \in DivisorTable
  PROVE  Divisors(method, quantval) \in DivisorTable /\ Multipliers(method, quantval) \in Block
<1> DEFINE product(v, u) == quantval[v][u] * aanscales[v + 1][u + 1]
<1>1. ASSUME NEW v \in 0..7, NEW u \in 0..7
      PROVE  product(v, u) \in Nat /\ product(v, u) >= 1247
  <2>1. aanscales[v + 1][u + 1] \in Nat /\ aanscales[v + 1][u + 1] >= 1247
    BY AanRange
  <2>2. quantval[v][u] \in Nat \ {0}
    BY DEF DivisorTable
  <2>3. product(v, u) \in Nat /\ product(v, u) >= aanscales[v + 1][u + 1]
    BY <2>1, <2>2, ProductAtLeast
  <2> QED
    BY <2>1, <2>3
<1>2. Scaled(quantval, 3) = [v \in 0..7 |-> [u \in 0..7 |-> DESCALE(product(v, u), 11)]]
  BY DEF Scaled
<1>3. Scaled(quantval, 2) = [v \in 0..7 |-> [u \in 0..7 |-> DESCALE(product(v, u), 12)]]
  BY DEF Scaled
<1> HIDE DEF product
<1>4. ASSUME NEW v \in 0..7, NEW u \in 0..7
      PROVE  DESCALE(product(v, u), 11) \in Nat \ {0} /\ DESCALE(product(v, u), 12) \in Int
  BY <1>1 DEF DESCALE
<1>5. Scaled(quantval, 3) \in DivisorTable /\ Scaled(quantval, 2) \in Block
  BY <1>2, <1>3, <1>4 DEF DivisorTable, Block
<1>6. quantval \in Block
  BY DEF DivisorTable, Block
<1>7. [v \in 0..7 |-> [u \in 0..7 |-> quantval[v][u] * 8]] \in DivisorTable
  <2>1. \A v \in 0..7 : \A u \in 0..7 : quantval[v][u] * 8 \in Nat \ {0}
    BY DEF DivisorTable
  <2> QED
    BY <2>1 DEF DivisorTable
<1> QED
  BY <1>5, <1>6, <1>7 DEF Divisors, Multipliers

\* Quantization gives an integer.
LEMMA QuantizeInt ==
  ASSUME NEW temp \in Int, NEW qval \in Nat \ {0}
  PROVE  Quantize(temp, qval) \in Int
<1> DEFINE half == qval \div 2
           up == -temp + half
           down == temp + half
<1>1. half \in Int
  OBVIOUS
<1> HIDE DEF half
<1>2. up \in Int /\ down \in Int
  BY <1>1
<1>3. Quantize(temp, qval) = IF temp < 0 THEN -(up \div qval) ELSE down \div qval
  BY DEF Quantize, half
<1> HIDE DEF up, down
<1>4. up \div qval \in Int /\ down \div qval \in Int
  BY <1>2
<1> QED
  BY <1>3, <1>4

LEMMA QuantizedBlock ==
  ASSUME NEW a \in Block, NEW d \in DivisorTable
  PROVE  EachCoef(Quantize, a, d) \in Block
<1>1. ASSUME NEW v \in 0..7, NEW u \in 0..7
      PROVE  Quantize(a[v][u], d[v][u]) \in Int
  BY QuantizeInt DEF Block, DivisorTable
<1> QED
  BY <1>1 DEF EachCoef, Block

LEMMA DequantizedBlock ==
  ASSUME NEW a \in Block, NEW m \in Block
  PROVE  /\ EachCoef(LAMBDA x, y : x * y, a, m) \in Block
         /\ a = Zero \/ m = Zero => ZeroBlock(EachCoef(LAMBDA x, y : x * y, a, m))
<1> DEFINE product(v, u) == a[v][u] * m[v][u]
<1>1. ASSUME NEW v \in 0..7, NEW u \in 0..7
      PROVE  product(v, u) \in Int /\ (a[v][u] = 0 \/ m[v][u] = 0 => product(v, u) = 0)
  <2>1. a[v][u] \in Int /\ m[v][u] \in Int
    BY DEF Block
  <2> QED
    BY <2>1
<1>2. EachCoef(LAMBDA x, y : x * y, a, m) = [v \in 0..7 |-> [u \in 0..7 |-> product(v, u)]]
  BY DEF EachCoef
<1> HIDE DEF product
<1>3. a = Zero \/ m = Zero => \A v \in 0..7 : \A u \in 0..7 : a[v][u] = 0 \/ m[v][u] = 0
  BY DEF Zero
<1> DEFINE block == [v \in 0..7 |-> [u \in 0..7 |-> product(v, u)]]
<1>4. block \in Block
  BY <1>1 DEF Block
<1>5. a = Zero \/ m = Zero => ZeroBlock(block)
  BY <1>1, <1>3 DEF ZeroBlock
<1> QED
  BY <1>2, <1>4, <1>5

\* A component has no method's multipliers, but zeros, until its table is there
\* and a pass begins; what has been compressed is there for the passes.
BlankTables ==
  \A c \in Components :
    /\ quant_table[c] = NULL \/ c \in blank => cur_method[c] = NULL
    /\ cur_method[c] = NULL => dct_table[c] = Zero
    /\ inverse_DCT[c] # NULL => coefs[c] \in Block
    /\ do_dct[c] # NULL => divisors[setup.tbl[c]] \in DivisorTable

DctInv == TypeOK /\ BlankTables /\ BlankIsGrey

\* The constants: the tables, the methods, the pictures, the setups.
LEMMA ConstantsTyped ==
  /\ \A t \in DOMAIN QuantTables : QuantTables[t] \in DivisorTable /\ QuantTables[t] # NULL
  /\ NULL \notin Methods \cup {ISLOW}
  /\ \A p \in Pictures : \A size \in DctSizes : p[size] \in Samples(size)
  /\ MaxPasses \in Nat
<1>1. ASSUME NEW n \in Nat, NEW q \in [0..7 -> [0..7 -> 1..n]]
      PROVE  q \in DivisorTable
  BY DEF DivisorTable
<1>3. 255 \in Nat
  OBVIOUS
<1>2. /\ \A t \in DOMAIN QuantTables :
           QuantTables[t] \in [0..7 -> [0..7 -> 1..255]] /\ QuantTables[t] # NULL
      /\ NULL \notin Methods \cup {ISLOW}
      /\ \A p \in Pictures : \A size \in DctSizes : p[size] \in Samples(size)
      /\ MaxPasses \in Nat
  BY DctAssumption, Zenon
<1> QED
  BY <1>1, <1>2, <1>3, Zenon

LEMMA SetupTyped ==
  ASSUME setup \in Setups, NEW c \in Components
  PROVE  /\ setup.tbl[c] \in DOMAIN QuantTables
         /\ setup.csize[c] \in DctSizes /\ setup.dsize[c] \in DctSizes
         /\ QuantTables[setup.tbl[c]] \in DivisorTable /\ QuantTables[setup.tbl[c]] # NULL
<1>1. /\ setup.tbl \in Seq(DOMAIN QuantTables)
      /\ setup.csize \in [DOMAIN setup.tbl -> DctSizes] /\ setup.dsize \in [DOMAIN setup.tbl -> DctSizes]
  BY DctAssumption, Zenon
<1>2. setup.tbl[c] \in DOMAIN QuantTables
  BY <1>1 DEF Components
<1> QED
  BY <1>1, <1>2, ConstantsTyped DEF Components

\* What is put out changes with the component's own step only.
LEMMA BlankKept ==
  ASSUME BlankIsGrey, UNCHANGED <<setup, blank, shown>>
  PROVE  BlankIsGrey'
<1>1. ASSUME NEW c
      PROVE  AllShown(c, LAMBDA sample : sample = CENTERJSAMPLE)' =
               AllShown(c, LAMBDA sample : sample = CENTERJSAMPLE)
  BY DEF AllShown
<1> QED
  BY <1>1, Zenon DEF BlankIsGrey, Components

LEMMA NothingShown ==
  ASSUME UNCHANGED setup, shown' = [c \in Components |-> NULL]
  PROVE  BlankIsGrey'
BY DEF BlankIsGrey, Components

LEMMA DctInit == Init => DctInv
<1> SUFFICES ASSUME Init PROVE DctInv
  OBVIOUS
<1>1. Zero \in Block
  BY DEF Zero, Block
<1>2. \A c \in Components : samples[c] \in Samples(setup.csize[c])
  BY SetupTyped, ConstantsTyped DEF Init, InitWith
<1>3. TypeOK
  BY <1>1, <1>2, ConstantsTyped DEF TypeOK, Init, InitWith
<1> QED
  BY <1>3 DEF DctInv, BlankTables, BlankIsGrey, Init, InitWith, Components

\* Steps that leave the components' states alone but for some of their parts.
LEMMA DctStartForward ==
  ASSUME DctInv, NEW m \in Methods, start_pass_fdctmgr(m)
  PROVE  DctInv'
<1> DEFINE method(c) == MethodOf(setup.csize[c], m)
<1>1. /\ UNCHANGED <<setup, samples, coefs, first, decoder>>
      /\ do_dct' = [c \in Components |-> method(c)]
      /\ divisors' = [t \in DOMAIN divisors |->
                       IF Users(t) = {} THEN divisors[t] ELSE Divisors(method(LastUser(t)), QuantTables[t])]
  BY DEF start_pass_fdctmgr
<1>2. \A c \in Components : method(c) \in Methods \cup {ISLOW, NULL}
  BY DEF MethodOf
<1> HIDE DEF method
<1>3. \A t \in DOMAIN QuantTables : QuantTables[t] \in DivisorTable
  BY ConstantsTyped
<1>4. divisors' \in [DOMAIN QuantTables -> DivisorTable \cup {NULL}]
  BY <1>1, <1>3, TablesTyped DEF DctInv, TypeOK, DivisorTable
<1>5. ASSUME NEW c \in Components
      PROVE  divisors'[setup.tbl[c]] \in DivisorTable
  <2>1. c \in Users(setup.tbl[c]) /\ setup.tbl[c] \in DOMAIN QuantTables
    BY SetupTyped DEF Users, DctInv, TypeOK
  <2> QED
    BY <1>1, <1>3, <2>1, TablesTyped DEF DctInv, TypeOK
<1>6. TypeOK'
  BY <1>1, <1>2, <1>4 DEF DctInv, TypeOK, Components, decoder, DivisorTable
<1>7. BlankTables'
  BY <1>1, <1>5 DEF DctInv, BlankTables, Components, decoder
<1> QED
  BY <1>1, <1>6, <1>7, BlankKept DEF DctInv, decoder

LEMMA DctForward ==
  ASSUME DctInv, NEW c \in Components, forward_DCT(c)
  PROVE  DctInv'
<1> DEFINE block == EachCoef(Quantize, Fdct(setup.csize[c], do_dct[c], samples[c]), divisors[setup.tbl[c]])
<1>1. /\ UNCHANGED <<setup, samples, do_dct, divisors, first, decoder>>
      /\ coefs' = [coefs EXCEPT ![c] = block]
      /\ do_dct[c] # NULL
  BY DEF forward_DCT
<1>2. block \in Block
  <2>1. setup.csize[c] \in DctSizes /\ samples[c] \in Samples(setup.csize[c])
    BY SetupTyped DEF DctInv, TypeOK
  <2>2. Fdct(setup.csize[c], do_dct[c], samples[c]) \in Block
    BY <2>1, FdctBlock
  <2>3. divisors[setup.tbl[c]] \in DivisorTable
    BY <1>1 DEF DctInv, BlankTables
  <2> QED
    BY <2>2, <2>3, QuantizedBlock
<1> HIDE DEF block
<1>3. coefs' \in [Components -> Block \cup {NULL}]
  BY <1>1, <1>2 DEF DctInv, TypeOK
<1>4. TypeOK'
  BY <1>1, <1>3 DEF DctInv, TypeOK, Components, decoder
<1>5. \A d \in Components : inverse_DCT[d] # NULL => coefs'[d] \in Block
  BY <1>1, <1>2 DEF DctInv, BlankTables, TypeOK
<1>6. BlankTables'
  BY <1>1, <1>5 DEF DctInv, BlankTables, Components, decoder
<1> QED
  BY <1>1, <1>4, <1>6, BlankKept DEF DctInv, decoder

LEMMA DctLatchTable ==
  ASSUME DctInv, NEW c \in Components, LatchTable(c)
  PROVE  DctInv'
<1>1. /\ UNCHANGED <<setup, encoder, inverse_DCT, cur_method, dct_table, blank, shown, passes>>
      /\ quant_table' = [quant_table EXCEPT ![c] = QuantTables[setup.tbl[c]]]
      /\ QuantTables[setup.tbl[c]] # NULL
  BY SetupTyped DEF LatchTable, DctInv, TypeOK
<1>2. /\ DOMAIN quant_table' = Components
      /\ \A d \in Components : quant_table'[d] \in {NULL, QuantTables[setup.tbl[d]]}
      /\ \A d \in Components : quant_table'[d] = NULL => quant_table[d] = NULL
  BY <1>1 DEF DctInv, TypeOK
<1>3. TypeOK'
  BY <1>1, <1>2 DEF DctInv, TypeOK, Components, encoder
<1>4. BlankTables'
  BY <1>1, <1>2 DEF DctInv, BlankTables, Components, encoder
<1> QED
  BY <1>1, <1>3, <1>4, BlankKept DEF DctInv

LEMMA DctStartPass ==
  ASSUME DctInv, NEW m \in Methods, start_pass(m)
  PROVE  DctInv'
<1> DEFINE method(c) == MethodOf(setup.dsize[c], m)
           computed == {c \in Components : cur_method[c] # method(c) /\ quant_table[c] # NULL}
<1>1. /\ UNCHANGED <<setup, encoder, quant_table>>
      /\ inverse_DCT' = [c \in Components |-> method(c)]
      /\ cur_method' = [c \in Components |-> IF c \in computed THEN method(c) ELSE cur_method[c]]
      /\ dct_table' = [c \in Components |->
                        IF c \in computed THEN Multipliers(method(c), quant_table[c]) ELSE dct_table[c]]
      /\ blank' = {c \in Components : quant_table[c] = NULL}
      /\ shown' = [c \in Components |-> NULL]
      /\ passes < MaxPasses /\ passes' = passes + 1
      /\ \A d \in Components : coefs[d] # NULL
  BY DEF start_pass, CurMethod
<1>2. \A c \in Components : method(c) \in Methods \cup {ISLOW} /\ method(c) # NULL
  BY ConstantsTyped DEF MethodOf
<1> HIDE DEF method
<1>3. \A c \in computed : Multipliers(method(c), quant_table[c]) \in Block
  BY SetupTyped, TablesTyped DEF DctInv, TypeOK
<1>4. /\ inverse_DCT' \in [Components -> Methods \cup {ISLOW, NULL}]
      /\ cur_method' \in [Components -> Methods \cup {ISLOW, NULL}]
      /\ dct_table' \in [Components -> Block]
      /\ blank' \subseteq Components
      /\ passes' \in 0..MaxPasses
  BY <1>1, <1>2, <1>3, ConstantsTyped DEF DctInv, TypeOK
<1>5. \A c \in Components : cur_method'[c] = NULL => c \notin computed /\ cur_method[c] = NULL
  BY <1>1, <1>2
<1>6. \A c \in Components : c \in blank' => c \notin computed
  BY <1>1
<1>7. \A c \in Components : coefs[c] \in Block
  BY <1>1 DEF DctInv, TypeOK
<1> HIDE DEF computed
<1>8. TypeOK'
  BY <1>1, <1>4 DEF DctInv, TypeOK, Components, encoder
<1>9. BlankTables'
  BY <1>1, <1>5, <1>6, <1>7 DEF DctInv, BlankTables, Components, encoder
<1> QED
  BY <1>1, <1>8, <1>9, NothingShown DEF DctInv

LEMMA DctInverse ==
  ASSUME DctInv, NEW c \in Components, InverseDCT(c)
  PROVE  DctInv'
<1> DEFINE a == IF quant_table[c] = NULL THEN Zero ELSE coefs[c]
           b == EachCoef(LAMBDA x, y : x * y, a, dct_table[c])
           out == Idct(setup.dsize[c], inverse_DCT[c], b)
           w == setup.dsize[c][1]
           h == setup.dsize[c][2]
<1>1. /\ UNCHANGED <<setup, encoder, quant_table, inverse_DCT, cur_method, dct_table, blank, passes>>
      /\ shown' = [shown EXCEPT ![c] = out]
      /\ inverse_DCT[c] # NULL
  BY DEF InverseDCT
<1>2. a \in Block /\ dct_table[c] \in Block
  <2>1. Zero \in Block
    BY DEF Zero, Block
  <2> QED
    BY <1>1, <2>1 DEF DctInv, TypeOK, BlankTables
<1>3. b \in Block /\ (dct_table[c] = Zero => ZeroBlock(b))
  BY <1>2, DequantizedBlock
<1>4. c \in blank => ZeroBlock(b)
  BY <1>3 DEF DctInv, BlankTables
<1> HIDE DEF a, b
<1>5. Image(w, h, out, ZeroBlock(b))
  BY <1>3, IdctImage, SetupTyped DEF DctInv, TypeOK
<1> HIDE DEF out
<1>6. out \in Images(setup.dsize[c])
  BY <1>5 DEF Image, Images
<1>7. ASSUME c \in blank
      PROVE  \A y \in 1..Len(out) : \A x \in 1..Len(out[y]) : out[y][x] = CENTERJSAMPLE
  <2>1. /\ out \in [1..h -> [1..w -> 0..MAXJSAMPLE]]
        /\ \A y \in 1..h : \A x \in 1..w : out[y][x] = CENTERJSAMPLE
    BY <1>4, <1>5, <1>7 DEF Image
  <2>2. w \in Nat /\ h \in Nat
    BY SetupTyped DEF DctInv, TypeOK, DctSizes
  <2> HIDE DEF w, h
  <2>3. Len(out) = h /\ \A y \in 1..h : Len(out[y]) = w
    BY <2>1, <2>2
  <2> QED
    BY <2>1, <2>3
<1>8. TypeOK'
  BY <1>1, <1>6 DEF DctInv, TypeOK, Components, encoder
<1>9. BlankIsGrey'
  BY <1>1, <1>7 DEF DctInv, TypeOK, BlankIsGrey, AllShown, Components
<1>10. BlankTables'
  BY <1>1 DEF DctInv, BlankTables, Components, encoder
<1> QED
  BY <1>8, <1>9, <1>10 DEF DctInv

LEMMA DctRecompress ==
  ASSUME DctInv, Recompress
  PROVE  DctInv'
<1> DEFINE again(c) == [i \in 0..Len(shown[c]) - 1 |-> [j \in 0..Len(shown[c][1]) - 1 |-> shown[c][i + 1][j + 1]]]
<1>1. /\ UNCHANGED <<setup, quant_table, cur_method, dct_table, blank, shown>>
      /\ \A c \in Components : shown[c] # NULL
      /\ setup.csize = setup.dsize
      /\ first' = coefs
      /\ samples' = [c \in Components |-> again(c)]
      /\ do_dct' = [c \in Components |-> NULL]
      /\ divisors' = [t \in DOMAIN divisors |-> NULL]
      /\ coefs' = [c \in Components |-> NULL]
      /\ inverse_DCT' = [c \in Components |-> NULL]
      /\ passes' = MaxPasses
  BY DEF Recompress
<1>2. ASSUME NEW c \in Components
      PROVE  again(c) \in Samples(setup.csize[c])
  <2> DEFINE w == setup.csize[c][1]
             h == setup.csize[c][2]
             out == shown[c]
  <2>1. w \in Nat \ {0} /\ h \in Nat \ {0}
    BY SetupTyped DEF DctInv, TypeOK, DctSizes
  <2>2. out \in [1..h -> [1..w -> 0..MAXJSAMPLE]]
    BY <1>1 DEF DctInv, TypeOK, Images
  <2>4. Samples(setup.csize[c]) = [0..h - 1 -> [0..w - 1 -> 0..MAXJSAMPLE]]
    BY DEF Samples
  <2>5. again(c) = [i \in 0..Len(out) - 1 |-> [j \in 0..Len(out[1]) - 1 |-> out[i + 1][j + 1]]]
    OBVIOUS
  <2> HIDE DEF w, h, out, again
  <2>3. Len(out) = h /\ Len(out[1]) = w
    BY <2>1, <2>2
  <2>6. \A i \in 0..h - 1 : \A j \in 0..w - 1 : out[i + 1][j + 1] \in 0..MAXJSAMPLE
    BY <2>1, <2>2
  <2> QED
    BY <2>3, <2>4, <2>5, <2>6
<1> HIDE DEF again
<1>3. /\ DOMAIN samples' = Components
      /\ do_dct' \in [Components -> Methods \cup {ISLOW, NULL}]
      /\ divisors' \in [DOMAIN QuantTables -> DivisorTable \cup {NULL}]
      /\ coefs' \in [Components -> Block \cup {NULL}]
      /\ first' \in [Components -> Block \cup {NULL}]
      /\ inverse_DCT' \in [Components -> Methods \cup {ISLOW, NULL}]
      /\ passes' \in 0..MaxPasses
      /\ \A c \in Components : samples'[c] \in Samples(setup.csize[c])
  BY <1>1, <1>2, ConstantsTyped DEF DctInv, TypeOK
<1>4. TypeOK'
  BY <1>1, <1>3 DEF DctInv, TypeOK, Components, DivisorTable
<1>5. BlankTables'
  BY <1>1 DEF DctInv, BlankTables, Components
<1> QED
  BY <1>1, <1>4, <1>5, BlankKept DEF DctInv

LEMMA DctNext == DctInv /\ [Next]_vars => DctInv'
<1> SUFFICES ASSUME DctInv, [Next]_vars PROVE DctInv'
  OBVIOUS
<1>1. CASE UNCHANGED vars
  <2>1. TypeOK' /\ BlankTables'
    BY <1>1 DEF DctInv, TypeOK, BlankTables, Components, vars, encoder, decoder
  <2> QED
    BY <1>1, <2>1, BlankKept DEF DctInv, vars, decoder
<1> QED
  BY <1>1, DctStartForward, DctForward, DctLatchTable, DctStartPass, DctInverse, DctRecompress DEF Next

\* For any tables, pictures, sizes and orders of scans and passes: the
\* arithmetic of the transforms stays among the integers of a block, no divisor
\* is zero, and what is put out has the size asked for and the range of a
\* sample (jfdctint.c, jfdctfst.c, jidctint.c, jidctfst.c, jcdctmgr.c:355-413).
THEOREM DctTypeCorrect == Spec => []TypeOK
<1>1. DctInv => TypeOK
  BY DEF DctInv
<1> QED
  BY <1>1, DctInit, DctNext, PTL DEF Spec

\* A component whose data had not come when the pass began is put out grey in
\* it, at every size and by either method, whatever comes while the pass runs
\* (jddctmgr.c:259-285): never do another component's multipliers or another
\* method's reach it.
THEOREM BlankAlwaysGrey == Spec => []BlankIsGrey
<1>1. DctInv => BlankIsGrey
  BY DEF DctInv
<1> QED
  BY <1>1, DctInit, DctNext, PTL DEF Spec

-----------------------------------------------------------------------------
(* The decompressor *)

\* The sequences of tables are per component, and a component's table is its own.
TablesLatched ==
  /\ setup \in Setups
  /\ quant_table \in [Components -> {NULL} \cup {QuantTables[t] : t \in DOMAIN QuantTables}]
  /\ DOMAIN cur_method = Components /\ DOMAIN dct_table = Components
  /\ DOMAIN inverse_DCT = Components
  /\ \A c \in Components : quant_table[c] \in {NULL, QuantTables[setup.tbl[c]]}

\* cur_method says truly which method the multipliers are for.
CurMethodTrue ==
  \A c \in Components :
    cur_method[c] # NULL => dct_table[c] = Multipliers(cur_method[c], QuantTables[setup.tbl[c]])

\* The current pass has set up what was not blank when it began.
PassSetUp ==
  \A c \in Components :
    inverse_DCT[c] # NULL /\ c \notin blank => cur_method[c] = inverse_DCT[c]

OutputInv == TablesLatched /\ CurMethodTrue /\ PassSetUp

LEMMA MethodNotNull ==
  ASSUME NEW size, NEW m \in Methods
  PROVE  MethodOf(size, m) # NULL
BY ConstantsTyped DEF MethodOf

LEMMA OutputInit == Init => OutputInv
BY DEF Init, InitWith, OutputInv, TablesLatched, CurMethodTrue, PassSetUp, Components

LEMMA LatchTableInv ==
  ASSUME OutputInv, NEW c \in Components, LatchTable(c)
  PROVE  OutputInv'
<1> USE DEF LatchTable, encoder, Components
<1>1. setup.tbl[c] \in DOMAIN QuantTables
  BY SetupTyped DEF OutputInv, TablesLatched
<1>2. TablesLatched'
  BY <1>1 DEF OutputInv, TablesLatched
<1> QED
  BY <1>2 DEF OutputInv, CurMethodTrue, PassSetUp

LEMMA StartPassInv ==
  ASSUME OutputInv, NEW m \in Methods, start_pass(m)
  PROVE  OutputInv'
<1> DEFINE method(c) == MethodOf(setup.dsize[c], m)
           computed == {c \in Components : cur_method[c] # method(c) /\ quant_table[c] # NULL}
<1>1. /\ UNCHANGED <<setup, quant_table>>
      /\ inverse_DCT' = [c \in Components |-> method(c)]
      /\ cur_method' = [c \in Components |-> IF c \in computed THEN method(c) ELSE cur_method[c]]
      /\ dct_table' = [c \in Components |->
                        IF c \in computed THEN Multipliers(method(c), quant_table[c]) ELSE dct_table[c]]
      /\ blank' = {c \in Components : quant_table[c] = NULL}
  BY DEF start_pass, CurMethod, encoder
<1> HIDE DEF method
<1>2. Components' = Components
  BY <1>1 DEF Components
<1>3. TablesLatched'
  BY <1>1, <1>2 DEF OutputInv, TablesLatched
<1>4. CurMethodTrue'
  <2> SUFFICES ASSUME NEW c \in Components, cur_method'[c] # NULL
               PROVE  dct_table'[c] = Multipliers(cur_method'[c], QuantTables[setup.tbl[c]])
    BY <1>1, <1>2 DEF CurMethodTrue
  <2>1. CASE c \in computed
    <3>1. quant_table[c] = QuantTables[setup.tbl[c]]
      BY <2>1 DEF OutputInv, TablesLatched
    <3> QED
      BY <1>1, <2>1, <3>1
  <2>2. CASE c \notin computed
    BY <1>1, <2>2 DEF OutputInv, CurMethodTrue
  <2> QED
    BY <2>1, <2>2
<1>5. PassSetUp'
  BY <1>1, <1>2 DEF PassSetUp
<1> QED
  BY <1>3, <1>4, <1>5 DEF OutputInv

\* Nothing else touches the tables of the decompressor.
LEMMA OutputKept ==
  ASSUME OutputInv, UNCHANGED <<setup, quant_table, cur_method, dct_table, blank>>,
         inverse_DCT' = inverse_DCT \/ inverse_DCT' = [c \in Components |-> NULL]
  PROVE  OutputInv'
BY DEF OutputInv, TablesLatched, CurMethodTrue, PassSetUp, Components

LEMMA OutputNext == OutputInv /\ [Next]_vars => OutputInv'
<1> SUFFICES ASSUME OutputInv, [Next]_vars PROVE OutputInv'
  OBVIOUS
<1>1. CASE UNCHANGED vars
  BY <1>1, OutputKept DEF vars, encoder, decoder
<1>2. ASSUME NEW m \in Methods, start_pass_fdctmgr(m)
      PROVE  OutputInv'
  BY <1>2, OutputKept DEF start_pass_fdctmgr, decoder
<1>3. ASSUME NEW m \in Methods, start_pass(m)
      PROVE  OutputInv'
  BY <1>3, StartPassInv
<1>4. ASSUME NEW c \in Components, forward_DCT(c)
      PROVE  OutputInv'
  BY <1>4, OutputKept DEF forward_DCT, decoder
<1>5. ASSUME NEW c \in Components, LatchTable(c)
      PROVE  OutputInv'
  BY <1>5, LatchTableInv
<1>6. ASSUME NEW c \in Components, InverseDCT(c)
      PROVE  OutputInv'
  BY <1>6, OutputKept DEF InverseDCT
<1>7. CASE Recompress
  BY <1>7, OutputKept DEF Recompress
<1> QED
  BY <1>1, <1>2, <1>3, <1>4, <1>5, <1>6, <1>7 DEF Next

\* However scans, output passes and methods interleave, what is put out was
\* multiplied with the table of its own component for the method of its pass
\* (jddctmgr.c:104-289): keeping multipliers from pass to pass is sound.
THEOREM MultipliersAlwaysMatch == Spec => []MultipliersMatch
<1>1. OutputInv => MultipliersMatch
  BY DEF OutputInv, CurMethodTrue, PassSetUp, MultipliersMatch
<1> QED
  BY <1>1, OutputInit, OutputNext, PTL DEF Spec

-----------------------------------------------------------------------------
(* The compressor *)

\* The DC term of every block is quantized with its component's own table and by
\* the transform that made it.  Components that share a table overwrite one
\* another's divisors, and the last one wins (jcdctmgr.c:356-413); but the two
\* methods divide the DC term alike.
DcUnharmed ==
  \A c \in Components :
    coefs[c] # NULL =>
      coefs[c][0][0] = Quantize(Fdct(setup.csize[c], do_dct[c], samples[c])[0][0],
                                8 * QuantTables[setup.tbl[c]][0][0])

DcDivided ==
  \A c \in Components :
    do_dct[c] # NULL => divisors[setup.tbl[c]][0][0] = 8 * QuantTables[setup.tbl[c]][0][0]

InputInv ==
  /\ setup \in Setups
  /\ DOMAIN divisors = DOMAIN QuantTables
  /\ DOMAIN coefs = Components
  /\ \A c \in Components : coefs[c] # NULL => do_dct[c] # NULL
  /\ DcDivided
  /\ DcUnharmed

\* Whatever the method, the DC term of a transform is 8 times too large.
LEMMA DcDivisor ==
  ASSUME NEW q \in [0..7 -> [0..7 -> 1..255]], NEW method
  PROVE  Divisors(method, q)[0][0] = 8 * q[0][0]
<1>1. CASE method = ISLOW
  BY <1>1 DEF Divisors
<1>2. CASE method # ISLOW
  <2>1. aanscales[0 + 1][0 + 1] = 16384
    BY DEF aanscales
  <2>2. Divisors(method, q)[0][0] = DESCALE(q[0][0] * 16384, 11)
    BY <1>2, <2>1 DEF Divisors, Scaled
  <2>3. q[0][0] \in Int
    OBVIOUS
  <2>4. 2^11 = 2048 /\ 2^(11 - 1) = 1024
    OBVIOUS
  <2>5. (q[0][0] * 16384 + 1024) \div 2048 = 8 * q[0][0]
    BY <2>3
  <2> QED
    BY <2>2, <2>4, <2>5 DEF DESCALE
<1> QED
  BY <1>1, <1>2

LEMMA InputInit == Init => InputInv
BY DEF Init, InitWith, InputInv, DcDivided, DcUnharmed, Components

\* A pass begins when nothing has been coded.
LEMMA StartForwardInv ==
  ASSUME InputInv, NEW m \in Methods, start_pass_fdctmgr(m)
  PROVE  InputInv'
<1> DEFINE method(c) == MethodOf(setup.csize[c], m)
<1>1. /\ UNCHANGED <<setup, coefs>>
      /\ \A c \in Components : do_dct[c] = NULL
      /\ divisors' = [t \in DOMAIN divisors |->
                       IF Users(t) = {} THEN divisors[t] ELSE Divisors(method(LastUser(t)), QuantTables[t])]
  BY DEF start_pass_fdctmgr
<1>2. ASSUME NEW c \in Components
      PROVE  divisors'[setup.tbl[c]][0][0] = 8 * QuantTables[setup.tbl[c]][0][0]
  <2> DEFINE t == setup.tbl[c]
  <2>1. c \in Users(t) /\ t \in DOMAIN QuantTables /\ QuantTables[t] \in [0..7 -> [0..7 -> 1..255]]
    BY <1>2, SetupTyped, DctAssumption, Zenon DEF Users, InputInv
  <2>2. divisors'[t] = Divisors(method(LastUser(t)), QuantTables[t])
    BY <1>1, <2>1, Zenon DEF InputInv
  <2> QED
    BY <2>1, <2>2, DcDivisor
<1>3. \A c \in Components : coefs[c] = NULL
  BY <1>1 DEF InputInv
<1> QED
  BY <1>1, <1>2, <1>3 DEF InputInv, DcDivided, DcUnharmed, Components

LEMMA ForwardInv ==
  ASSUME InputInv, NEW c \in Components, forward_DCT(c)
  PROVE  InputInv'
<1> DEFINE block == EachCoef(Quantize, Fdct(setup.csize[c], do_dct[c], samples[c]), divisors[setup.tbl[c]])
<1>1. /\ do_dct[c] # NULL
      /\ coefs' = [coefs EXCEPT ![c] = block]
      /\ UNCHANGED <<setup, samples, do_dct, divisors>>
  BY DEF forward_DCT
<1>2. block[0][0] = Quantize(Fdct(setup.csize[c], do_dct[c], samples[c])[0][0], divisors[setup.tbl[c]][0][0])
  BY DEF EachCoef
<1>3. block[0][0] = Quantize(Fdct(setup.csize[c], do_dct[c], samples[c])[0][0],
                             8 * QuantTables[setup.tbl[c]][0][0])
  BY <1>1, <1>2 DEF InputInv, DcDivided
<1>4. coefs'[c] = block /\ \A x \in Components \ {c} : coefs'[x] = coefs[x]
  BY <1>1 DEF InputInv
<1>5. DcUnharmed'
  BY <1>1, <1>3, <1>4 DEF InputInv, DcUnharmed, Components
<1> QED
  BY <1>1, <1>4, <1>5 DEF InputInv, DcDivided, Components

\* Nothing else touches the compressor's data but a new compressor.
LEMMA InputKept ==
  ASSUME InputInv, UNCHANGED setup,
         \/ UNCHANGED <<samples, do_dct, divisors, coefs>>
         \/ /\ do_dct' = [c \in Components |-> NULL]
            /\ divisors' = [t \in DOMAIN divisors |-> NULL]
            /\ coefs' = [c \in Components |-> NULL]
  PROVE  InputInv'
BY DEF InputInv, DcDivided, DcUnharmed, Components

LEMMA InputNext == InputInv /\ [Next]_vars => InputInv'
<1> SUFFICES ASSUME InputInv, [Next]_vars PROVE InputInv'
  OBVIOUS
<1>1. CASE UNCHANGED vars
  BY <1>1, InputKept DEF vars, encoder
<1>2. ASSUME NEW m \in Methods, start_pass_fdctmgr(m)
      PROVE  InputInv'
  BY <1>2, StartForwardInv
<1>3. ASSUME NEW m \in Methods, start_pass(m)
      PROVE  InputInv'
  BY <1>3, InputKept DEF start_pass, encoder
<1>4. ASSUME NEW c \in Components, forward_DCT(c)
      PROVE  InputInv'
  BY <1>4, ForwardInv
<1>5. ASSUME NEW c \in Components, LatchTable(c) \/ InverseDCT(c)
      PROVE  InputInv'
  BY <1>5, InputKept DEF LatchTable, InverseDCT, encoder
<1>6. CASE Recompress
  BY <1>6, InputKept DEF Recompress
<1> QED
  BY <1>1, <1>2, <1>3, <1>4, <1>5, <1>6 DEF Next

\* For any tables, sizes, methods and sharing of tables, the DC terms are the
\* transforms' own, divided by the component's own step: the mean of every block
\* survives where the divisors of the other coefficients have been overwritten
\* (start_pass_fdctmgr, forward_DCT).
THEOREM DcAlwaysUnharmed == Spec => []DcUnharmed
<1>1. InputInv => DcUnharmed
  BY DEF InputInv
<1> QED
  BY <1>1, InputInit, InputNext, PTL DEF Spec
=============================================================================

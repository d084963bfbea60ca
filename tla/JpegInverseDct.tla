--------------------------- MODULE JpegInverseDct ---------------------------
(***************************************************************************)
(* The integer inverse DCTs of jpeg8d: from a block of dequantized         *)
(* coefficients to a block of samples, accurately and in every size that   *)
(* the library scales to (jidctint.c), or fast and in size 8x8 only        *)
(* (jidctfst.c).                                                           *)
(*                                                                         *)
(* Each routine of the source makes two passes, columns then rows, of a    *)
(* one-dimensional inverse DCT.  The passes of one size share their        *)
(* arithmetic, which is written once: InverseN for N outputs, of which the *)
(* coefficients c[0], ..., c[7] make the sequence of outputs, scaled by    *)
(* 2^CONST_BITS and not yet rounded.  Rounding, shifting and limiting are  *)
(* in Pass1 and Pass2.  The integer factors are the source's FIX(x), that  *)
(* is x * 2^CONST_BITS rounded.                                            *)
(***************************************************************************)
EXTENDS JpegDctDefs

\* range_limit[x & RANGE_MASK], IDCT_range_limit of jdct.h being the table that
\* prepare_range_limit_table builds, entered at CENTERJSAMPLE.
RANGE_MASK == MAXJSAMPLE * 4 + 3
RangeLimit(x) ==
  LET i == x % (RANGE_MASK + 1)
  IN  IF i <= RANGE_MASK \div 2
      THEN IF i + CENTERJSAMPLE <= MAXJSAMPLE THEN i + CENTERJSAMPLE ELSE MAXJSAMPLE
      ELSE IF i - RANGE_MASK - 1 + CENTERJSAMPLE >= 0 THEN i - RANGE_MASK - 1 + CENTERJSAMPLE ELSE 0

\* The last lines of every pass: output i is even[i] + odd[i], its mirror image
\* even[i] - odd[i]; an odd number of outputs has a middle one, which is even.
Butterfly(even, odd) ==
  LET n == Len(even) + Len(odd)
  IN  [i \in 1..n |-> IF i <= Len(odd) THEN even[i] + odd[i]
                      ELSE IF i <= Len(even) THEN even[i]
                      ELSE even[n + 1 - i] - odd[n + 1 - i]]

-----------------------------------------------------------------------------
Inverse1(c) == <<ONE * c[0]>>

EvenPart2(c) == <<ONE * c[0]>>
OddPart2(c) == <<ONE * c[1]>>
Inverse2(c) == Butterfly(EvenPart2(c), OddPart2(c))

EvenPart3(c) ==
  LET dc == ONE * c[0]
      a == 5793 * c[2]
  IN  <<dc + a, dc - a - a>>
OddPart3(c) == <<10033 * c[1]>>
Inverse3(c) == Butterfly(EvenPart3(c), OddPart3(c))

EvenPart4(c) == <<ONE * (c[0] + c[2]), ONE * (c[0] - c[2])>>
OddPart4(c) ==
  LET z == 4433 * (c[1] + c[3])
  IN  <<z + 6270 * c[1], z - 15137 * c[3]>>
Inverse4(c) == Butterfly(EvenPart4(c), OddPart4(c))

EvenPart5(c) ==
  LET dc == ONE * c[0]
      z1 == 6476 * (c[2] + c[4])
      z2 == 2896 * (c[2] - c[4])
  IN  <<dc + z2 + z1, dc + z2 - z1, dc - 4 * z2>>
OddPart5(c) ==
  LET z3 == 6810 * (c[1] + c[3])
  IN  <<z3 + 4209 * c[1], z3 - 17828 * c[3]>>
Inverse5(c) == Butterfly(EvenPart5(c), OddPart5(c))

EvenPart6(c) ==
  LET dc == ONE * c[0]
      a == 5793 * c[4]
      b == 10033 * c[2]
  IN  <<dc + a + b, dc - a - a, dc + a - b>>
OddPart6(c) ==
  LET z == 2998 * (c[1] + c[5])
  IN  <<z + ONE * (c[1] + c[3]), ONE * (c[1] - c[3] - c[5]), z + ONE * (c[5] - c[3])>>
Inverse6(c) == Butterfly(EvenPart6(c), OddPart6(c))

EvenPart7(c) ==
  LET dc == ONE * c[0]
      a == 7223 * (c[4] - c[6])
      b == 2578 * (c[2] - c[4])
      t == 10438 * (c[2] + c[6]) + dc
  IN  <<a + t - 637 * c[6], a + b + dc - 15083 * c[4], b + t - 20239 * c[2],
        dc + 11585 * (c[4] - c[2] - c[6])>>
OddPart7(c) ==
  LET p == 7663 * (c[1] + c[3])
      q == 1395 * (c[1] - c[3])
      r == 11295 * (c[3] + c[5])
      s == 5027 * (c[1] + c[5])
  IN  <<p - q + s, p + q - r, s - r + 15326 * c[5]>>
Inverse7(c) == Butterfly(EvenPart7(c), OddPart7(c))

EvenPart8(c) ==
  LET z == 4433 * (c[2] + c[6])
      tmp0 == ONE * (c[0] + c[4])
      tmp1 == ONE * (c[0] - c[4])
      tmp2 == z + 6270 * c[2]
      tmp3 == z - 15137 * c[6]
  IN  <<tmp0 + tmp2, tmp1 + tmp3, tmp1 - tmp3, tmp0 - tmp2>>
OddPart8(c) ==
  LET z1 == 9633 * (c[7] + c[3] + c[5] + c[1])
      z2 == z1 - 16069 * (c[7] + c[3])
      z3 == z1 - 3196 * (c[5] + c[1])
      z4 == 7373 * (c[7] + c[1])
      z5 == 20995 * (c[5] + c[3])
  IN  <<12299 * c[1] - z4 + z3, 25172 * c[3] - z5 + z2, 16819 * c[5] - z5 + z3,
        2446 * c[7] - z4 + z2>>
Inverse8(c) == Butterfly(EvenPart8(c), OddPart8(c))

EvenPart9(c) ==
  LET dc == ONE * c[0]
      a == 5793 * c[6]
      b == 5793 * (c[2] - c[4])
      d == 10887 * (c[2] + c[4])
      e == 8875 * c[2]
      f == 2012 * c[4]
  IN  <<dc + a + d - f, dc - a - a + b, dc + a - d + e, dc + a - e + f, dc - a - a - b - b>>
OddPart9(c) ==
  LET z == 10033 * c[3]
      p == 7447 * (c[1] + c[5])
      q == 3962 * (c[1] + c[7])
      r == 11409 * (c[5] - c[7])
  IN  <<p + q + z, 10033 * (c[1] - c[5] - c[7]), p - z - r, q - z + r>>
Inverse9(c) == Butterfly(EvenPart9(c), OddPart9(c))

EvenPart10(c) ==
  LET dc == ONE * c[0]
      z1 == 9373 * c[4]
      z2 == 3580 * c[4]
      z3 == 6810 * (c[2] + c[6])
      p == z3 + 4209 * c[2]
      q == z3 - 17828 * c[6]
  IN  <<dc + z1 + p, dc - z2 + q, dc - 2 * (z1 - z2), dc - z2 - q, dc + z1 - p>>
OddPart10(c) ==
  LET sum == c[3] + c[7]
      diff == c[3] - c[7]
      t == 2531 * diff
      f == ONE * c[5]
      g == f - t - (ONE \div 2) * diff
  IN  <<11443 * c[1] + 7791 * sum + f + t, 10323 * c[1] - 4815 * sum - g,
        ONE * (c[1] - diff - c[5]), 5260 * c[1] - 4815 * sum + g,
        1812 * c[1] - 7791 * sum + f + t>>
Inverse10(c) == Butterfly(EvenPart10(c), OddPart10(c))

EvenPart11(c) ==
  LET dc == ONE * c[0]
      z == c[2] + c[6] - c[4]
      t == dc + 11116 * z
      p == 20862 * (c[4] - c[6])
      q == 3529 * (c[4] - c[2])
      r == t - 9467 * (c[2] + c[6])
  IN  <<p + t + 17333 * c[6], p + q + t - 14924 * c[4], r - 6461 * c[6], q + t - 12399 * c[2],
        r + 15929 * c[4] - 11395 * c[2], dc - 11585 * z>>
OddPart11(c) ==
  LET a == 3264 * (c[1] + c[3] + c[5] + c[7])
      b == 7274 * (c[1] + c[3])
      d == 5492 * (c[1] + c[5])
      f == a + 3000 * (c[1] + c[7])
      g == a - 9527 * (c[3] + c[5])
      h == 14731 * (c[3] + c[7])
  IN  <<b + d + f - 7562 * c[1], b + g - h + 16984 * c[3], d + g - 9766 * c[5],
        f - h + 17223 * c[7], a - 12019 * c[3] + 8203 * c[5] - 13802 * c[7]>>
Inverse11(c) == Butterfly(EvenPart11(c), OddPart11(c))

EvenPart12(c) ==
  LET dc == ONE * c[0]
      z4 == 10033 * c[4]
      x == ONE * (c[2] - c[6])
      y == 11190 * c[2] + ONE * c[6]
      w == 11190 * c[2] - ONE * c[2] - ONE * c[6]
  IN  <<dc + z4 + y, dc + x, dc - z4 + w, dc - z4 - w, dc - x, dc + z4 - y>>
OddPart12(c) ==
  LET a == 10703 * c[3]
      b == 4433 * c[3]
      f == 7053 * (c[1] + c[5] + c[7])
      g == f + 2139 * (c[1] + c[5])
      h == 8565 * (c[5] + c[7])
      z == 4433 * (c[1] - c[7] + c[3] - c[5])
  IN  <<g + a + 2295 * c[1], z + 6270 * (c[1] - c[7]), g - h - b - 12112 * c[5],
        f - h - a + 12998 * c[7], z - 15137 * (c[3] - c[5]),
        f - b - 5540 * c[1] - 16244 * c[7]>>
Inverse12(c) == Butterfly(EvenPart12(c), OddPart12(c))

EvenPart13(c) ==
  LET dc == ONE * c[0]
      sum == c[4] + c[6]
      diff == c[4] - c[6]
      x == 793 * diff + dc
      y == 3989 * diff + dc
      w == 7678 * diff - dc
  IN  <<11249 * c[2] + 9465 * sum + x, 8672 * c[2] - 2592 * sum + y,
        4108 * c[2] - 9465 * sum + x, -(1396 * c[2]) - 3570 * sum - w,
        -(6581 * c[2]) + 3570 * sum - w, -(10258 * c[2]) + 2592 * sum + y,
        11585 * (diff - c[2]) + dc>>
OddPart13(c) ==
  LET a == 10832 * (c[1] + c[3])
      b == 9534 * (c[1] + c[5])
      d == 7682 * (c[1] + c[7])
      f == 2773 * (c[1] + c[7])
      g == 2773 * (c[3] + c[5])
      h == 9534 * (c[3] + c[7])
      k == 5384 * (c[5] + c[7])
      l == 7682 * (c[5] - c[3])
  IN  <<a + b + d - 16549 * c[1], a - g - h + 6859 * c[3], b - g - k - 12879 * c[5],
        d - h - k + 18068 * c[7], f + l + 2611 * c[1] - 3818 * c[3],
        f + l + 3150 * c[5] - 14273 * c[7]>>
Inverse13(c) == Butterfly(EvenPart13(c), OddPart13(c))

EvenPart14(c) ==
  LET dc == ONE * c[0]
      z2 == 10438 * c[4]
      z3 == 2578 * c[4]
      z4 == 7223 * c[4]
      z == 9058 * (c[2] + c[6])
      x == z + 2237 * c[2]
      y == z - 14084 * c[6]
      w == 5027 * c[2] - 11295 * c[6]
  IN  <<dc + z2 + x, dc + z3 + y, dc - z4 + w, dc - 2 * (z2 + z3 - z4), dc - z4 - w,
        dc + z3 - y, dc + z2 - x>>
OddPart14(c) ==
  LET f == ONE * c[7]
      a == 10935 * (c[1] + c[3])
      b == 9810 * (c[1] + c[5])
      g == 6164 * (c[1] + c[5])
      h == 3826 * (c[1] - c[3]) - f
      k == -(1297 * (c[3] + c[5])) - f
      l == 11512 * (c[5] - c[3])
  IN  <<a + b + f - 9232 * c[1], a + k - 3474 * c[3], b + k - 19447 * c[5],
        ONE * (c[1] - c[3] + c[7] - c[5]), g + l + f - 13850 * c[5], h + l + 5529 * c[3],
        g + h - 8693 * c[1]>>
Inverse14(c) == Butterfly(EvenPart14(c), OddPart14(c))

EvenPart15(c) ==
  LET dc == ONE * c[0]
      u == dc - 3580 * c[6]
      v == dc + 9373 * c[6]
      m == dc - 2 * (9373 * c[6] - 3580 * c[6])
      sum == c[2] + c[4]
      diff == c[2] - c[4]
      w == 11795 * c[2]
      t == 2896 * diff
  IN  <<v + 10958 * sum + 374 * diff, u + 6476 * sum + t, m + 2 * t,
        u - 10958 * sum + 374 * diff + w, v - 6476 * sum + t,
        v - 4482 * sum - 3271 * diff, u + 4482 * sum - 3271 * diff - w, m - 4 * t>>
OddPart15(c) ==
  LET z3 == 10033 * c[5]
      f == 6810 * (c[1] + c[3] - c[7])
      g == 6810 * c[3]
      h == 11018 * c[3]
      k == z3 + 11522 * (c[1] - c[7])
      n == 4712 * (c[1] + c[7])
  IN  <<k + 20131 * c[7] + h, f + 4209 * c[1], 10033 * (c[1] - c[7]) - z3,
        n - g + 3897 * c[1] - z3, f - 17828 * (c[3] - c[7]), n - h - 7121 * c[7] + z3,
        k - 9113 * c[1] - g>>
Inverse15(c) == Butterfly(EvenPart15(c), OddPart15(c))

EvenPart16(c) ==
  LET dc == ONE * c[0]
      t1 == 10703 * c[4]
      t2 == 4433 * c[4]
      z3 == 11363 * (c[2] - c[6])
      z4 == 2260 * (c[2] - c[6])
      w == z3 + 20995 * c[6]
      x == z4 + 7373 * c[2]
      y == z3 - 4926 * c[2]
      z == z4 - 4176 * c[6]
  IN  <<dc + t1 + w, dc + t2 + x, dc - t2 + y, dc - t1 + z, dc - t1 - z, dc - t2 - y,
        dc + t2 - x, dc + t1 - w>>
OddPart16(c) ==
  LET p1 == 11086 * (c[1] + c[3])
      p2 == 10217 * (c[1] + c[5])
      p3 == 8956 * (c[1] + c[7])
      q0 == 7350 * (c[1] - c[7])
      q1 == 5461 * (c[1] + c[5])
      q2 == 3363 * (c[1] - c[3])
      f == 1136 * (c[3] + c[5])
      g == 11529 * (c[5] - c[3])
      h == 5461 * (c[3] + c[7])
      k == 10217 * (c[3] + c[7])
      l == 11086 * (c[5] + c[7])
      n == 3363 * (c[7] - c[5])
  IN  <<p1 + p2 + p3 - 18730 * c[1], p1 + f - h + 589 * c[3], p2 + f - l - 9222 * c[5],
        p3 - h - l + 8728 * c[7], q0 - k + n + 25733 * c[7], q1 + g + n - 6278 * c[5],
        q2 + g - k + 16154 * c[3], q0 + q1 + q2 - 15038 * c[1]>>
Inverse16(c) == Butterfly(EvenPart16(c), OddPart16(c))

-----------------------------------------------------------------------------
\* The end of pass 1: the workspace keeps PASS1_BITS of fraction.
Pass1(out) == [i \in 1..Len(out) |-> DESCALE(out[i], CONST_BITS - PASS1_BITS)]

\* The end of pass 2: the fraction and the factor 8 of the two passes go, the
\* sample is limited.
Pass2(out) == [i \in 1..Len(out) |-> RangeLimit(DESCALE(out[i], CONST_BITS + PASS1_BITS + 3))]

\* Pass 1 with eight outputs takes a shortcut when a column has a DC term only.
Column8Unscaled(c) ==
  IF \A k \in 1..7 : c[k] = 0 THEN [i \in 1..8 |-> c[0]] ELSE Pass1(Inverse8(c))
Column8(c) ==
  IF \A k \in 1..7 : c[k] = 0 THEN [i \in 1..8 |-> c[0] * 2 ^ PASS1_BITS] ELSE Pass1(Inverse8(c))

\* Pass 1 with four outputs rounds the odd part alone, and so its mirror image
\* the other way.
Column4(c) ==
  Butterfly(<<(c[0] + c[2]) * 2 ^ PASS1_BITS, (c[0] - c[2]) * 2 ^ PASS1_BITS>>, Pass1(OddPart4(c)))

\* Both passes over a block: b[v][u] is the coefficient of row v and column u;
\* the result is a sequence of rows of samples.
InverseBlock(Pass(_), Last(_), b) ==
  LET workspace(u) == Pass([v \in 0..7 |-> b[v][u]])
      ws == <<workspace(0), workspace(1), workspace(2), workspace(3),
              workspace(4), workspace(5), workspace(6), workspace(7)>>
  IN  [y \in 1..Len(ws[1]) |-> Last([u \in 0..7 |-> ws[u + 1][y]])]

\* Pass 2 of jpeg_idct_islow has the shortcut for a row as well.
Row8(c) ==
  IF \A k \in 1..7 : c[k] = 0 THEN [i \in 1..8 |-> RangeLimit(DESCALE(c[0], PASS1_BITS + 3))]
  ELSE Pass2(Inverse8(c))

jpeg_idct_islow(b) == InverseBlock(Column8, Row8, b)

jpeg_idct_7x7(b) == InverseBlock(LAMBDA c : Pass1(Inverse7(c)), LAMBDA c : Pass2(Inverse7(c)), b)
jpeg_idct_6x6(b) == InverseBlock(LAMBDA c : Pass1(Inverse6(c)), LAMBDA c : Pass2(Inverse6(c)), b)
jpeg_idct_5x5(b) == InverseBlock(LAMBDA c : Pass1(Inverse5(c)), LAMBDA c : Pass2(Inverse5(c)), b)
jpeg_idct_4x4(b) == InverseBlock(Column4, LAMBDA c : Pass2(Inverse4(c)), b)
jpeg_idct_3x3(b) == InverseBlock(LAMBDA c : Pass1(Inverse3(c)), LAMBDA c : Pass2(Inverse3(c)), b)
jpeg_idct_2x2(b) == InverseBlock(LAMBDA c : Pass1(Inverse2(c)), LAMBDA c : Pass2(Inverse2(c)), b)
jpeg_idct_1x1(b) == InverseBlock(LAMBDA c : Pass1(Inverse1(c)), LAMBDA c : Pass2(Inverse1(c)), b)
jpeg_idct_9x9(b) == InverseBlock(LAMBDA c : Pass1(Inverse9(c)), LAMBDA c : Pass2(Inverse9(c)), b)
jpeg_idct_10x10(b) == InverseBlock(LAMBDA c : Pass1(Inverse10(c)), LAMBDA c : Pass2(Inverse10(c)), b)
jpeg_idct_11x11(b) == InverseBlock(LAMBDA c : Pass1(Inverse11(c)), LAMBDA c : Pass2(Inverse11(c)), b)
jpeg_idct_12x12(b) == InverseBlock(LAMBDA c : Pass1(Inverse12(c)), LAMBDA c : Pass2(Inverse12(c)), b)
jpeg_idct_13x13(b) == InverseBlock(LAMBDA c : Pass1(Inverse13(c)), LAMBDA c : Pass2(Inverse13(c)), b)
jpeg_idct_14x14(b) == InverseBlock(LAMBDA c : Pass1(Inverse14(c)), LAMBDA c : Pass2(Inverse14(c)), b)
jpeg_idct_15x15(b) == InverseBlock(LAMBDA c : Pass1(Inverse15(c)), LAMBDA c : Pass2(Inverse15(c)), b)
jpeg_idct_16x16(b) == InverseBlock(LAMBDA c : Pass1(Inverse16(c)), LAMBDA c : Pass2(Inverse16(c)), b)
jpeg_idct_16x8(b) == InverseBlock(Column8, LAMBDA c : Pass2(Inverse16(c)), b)
jpeg_idct_14x7(b) == InverseBlock(LAMBDA c : Pass1(Inverse7(c)), LAMBDA c : Pass2(Inverse14(c)), b)
jpeg_idct_12x6(b) == InverseBlock(LAMBDA c : Pass1(Inverse6(c)), LAMBDA c : Pass2(Inverse12(c)), b)
jpeg_idct_10x5(b) == InverseBlock(LAMBDA c : Pass1(Inverse5(c)), LAMBDA c : Pass2(Inverse10(c)), b)
jpeg_idct_8x4(b) == InverseBlock(Column4, LAMBDA c : Pass2(Inverse8(c)), b)
jpeg_idct_6x3(b) == InverseBlock(LAMBDA c : Pass1(Inverse3(c)), LAMBDA c : Pass2(Inverse6(c)), b)
jpeg_idct_4x2(b) == InverseBlock(LAMBDA c : Pass1(Inverse2(c)), LAMBDA c : Pass2(Inverse4(c)), b)
jpeg_idct_2x1(b) == InverseBlock(LAMBDA c : Pass1(Inverse1(c)), LAMBDA c : Pass2(Inverse2(c)), b)
jpeg_idct_8x16(b) == InverseBlock(LAMBDA c : Pass1(Inverse16(c)), LAMBDA c : Pass2(Inverse8(c)), b)
jpeg_idct_7x14(b) == InverseBlock(LAMBDA c : Pass1(Inverse14(c)), LAMBDA c : Pass2(Inverse7(c)), b)
jpeg_idct_6x12(b) == InverseBlock(LAMBDA c : Pass1(Inverse12(c)), LAMBDA c : Pass2(Inverse6(c)), b)
jpeg_idct_5x10(b) == InverseBlock(LAMBDA c : Pass1(Inverse10(c)), LAMBDA c : Pass2(Inverse5(c)), b)
jpeg_idct_4x8(b) == InverseBlock(Column8, LAMBDA c : Pass2(Inverse4(c)), b)
jpeg_idct_3x6(b) == InverseBlock(LAMBDA c : Pass1(Inverse6(c)), LAMBDA c : Pass2(Inverse3(c)), b)

\* The two coefficients of a row leave room for a workspace of full precision.
jpeg_idct_2x4(b) ==
  InverseBlock(Inverse4,
          LAMBDA c : [i \in 1..2 |-> RangeLimit(DESCALE(IF i = 1 THEN c[0] + c[1] ELSE c[0] - c[1],
                                                        CONST_BITS + 3))], b)

jpeg_idct_1x2(b) == InverseBlock(LAMBDA c : Pass1(Inverse2(c)), LAMBDA c : Pass2(Inverse1(c)), b)

-----------------------------------------------------------------------------
\* The arithmetic of both passes of the fast method, due to Arai, Agui and
\* Nakajima; its input carries their scale factors.
EvenPartFast(c) ==
  LET m == c[2] + c[6]
      t == Multiply(c[2] - c[6], 362) - m
  IN  <<c[0] + c[4] + m, c[0] - c[4] + t, c[0] - c[4] - t, c[0] + c[4] - m>>
OddPartFast(c) ==
  LET z13 == c[5] + c[3]  z10 == c[5] - c[3]
      z11 == c[1] + c[7]  z12 == c[1] - c[7]
      z5 == Multiply(z10 + z12, 473)
      o0 == z11 + z13
      o1 == Multiply(z10, -669) + z5 - o0
      o2 == Multiply(z11 - z13, 362) - o1
      o3 == Multiply(z12, 277) - z5 + o2
  IN  <<o0, o1, o2, -o3>>
InverseFast(c) == Butterfly(EvenPartFast(c), OddPartFast(c))

\* IDESCALE cuts the fraction off.
jpeg_idct_ifast(b) ==
  InverseBlock(InverseFast,
          LAMBDA c : LET out == InverseFast(c)
                     IN  [i \in 1..8 |-> RangeLimit(out[i] \div (2 ^ (PASS1_BITS + 3)))], b)
=============================================================================

--------------------------- MODULE JpegForwardDct ---------------------------
(***************************************************************************)
(* The integer forward DCTs of jpeg8d, the inverse of JpegInverseDct: from *)
(* a block of samples, of any size the library scales from (jfdctint.c),   *)
(* to 8x8 coefficients scaled up by 8; or fast and of size 8x8 only        *)
(* (jfdctfst.c).                                                           *)
(*                                                                         *)
(* Every routine makes two passes, rows then columns, of a one-dimensional *)
(* DCT with as many outputs as inputs, eight at most.  ForwardN is that    *)
(* arithmetic for N inputs x[0], ..., x[N-1], its outputs scaled by        *)
(* 2^CONST_BITS and not yet rounded.  The second pass multiplies by        *)
(* (8/N)^2 as well, folded into its factors, and so ForwardN takes the     *)
(* factors k, in the order in which pass 2 of the NxN routine names them,  *)
(* that of the DC term first; sizes that are powers of two shift instead.  *)
(* The integer factors are the source's FIX(x).                            *)
(***************************************************************************)
EXTENDS JpegDctDefs

-----------------------------------------------------------------------------
Forward1(x, k) == <<ONE * x[0]>>

Forward2(x, k) == <<ONE * (x[0] + x[1]), ONE * (x[0] - x[1])>>

Forward3(x, k) ==
  LET s == x[0] + x[2]
  IN  <<k[1] * (s + x[1]), k[3] * (x[0] - x[2]), k[2] * (s - 2 * x[1])>>

Forward4(x, k) ==
  LET s0 == x[0] + x[3]  s1 == x[1] + x[2]
      d0 == x[0] - x[3]  d1 == x[1] - x[2]
      z == 4433 * (d0 + d1)
  IN  <<ONE * (s0 + s1), z + 6270 * d0, ONE * (s0 - s1), z - 15137 * d1>>

Forward5(x, k) ==
  LET s0 == x[0] + x[4]  s1 == x[1] + x[3]
      d0 == x[0] - x[4]  d1 == x[1] - x[3]
      p == k[2] * (s0 - s1)
      q == k[3] * (s0 + s1 - 4 * x[2])
      z == k[4] * (d0 + d1)
  IN  <<k[1] * (s0 + s1 + x[2]), z + k[5] * d0, p + q, z - k[6] * d1, p - q>>

Forward6(x, k) ==
  LET s0 == x[0] + x[5]  s1 == x[1] + x[4]  s2 == x[2] + x[3]
      d0 == x[0] - x[5]  d1 == x[1] - x[4]  d2 == x[2] - x[3]
      z == k[4] * (d0 + d2)
  IN  <<k[1] * (s0 + s2 + s1), z + k[1] * (d0 + d1), k[2] * (s0 - s2), k[1] * (d0 - d1 - d2),
        k[3] * (s0 + s2 - 2 * s1), z + k[1] * (d2 - d1)>>

Forward7(x, k) ==
  LET s0 == x[0] + x[6]  s1 == x[1] + x[5]  s2 == x[2] + x[4]
      d0 == x[0] - x[6]  d1 == x[1] - x[5]  d2 == x[2] - x[4]
      z1 == k[2] * (s0 + s2 - 4 * x[3])
      z2 == k[3] * (s0 - s2)
      z3 == k[4] * (s1 - s2)
      z4 == k[5] * (s0 - s1)
      p == k[7] * (d0 + d1)
      q == k[8] * (d0 - d1)
      r == k[9] * (d1 + d2)
      t == k[10] * (d0 + d2)
  IN  <<k[1] * (s0 + s2 + s1 + x[3]), p - q + t, z1 + z2 + z3, p + q - r,
        z4 + z3 - k[6] * (s1 - 2 * x[3]), t - r + k[11] * d2, z1 - z2 + z4>>

Forward8(x, k) ==
  LET s0 == x[0] + x[7]  s1 == x[1] + x[6]  s2 == x[2] + x[5]  s3 == x[3] + x[4]
      d0 == x[0] - x[7]  d1 == x[1] - x[6]  d2 == x[2] - x[5]  d3 == x[3] - x[4]
      z == 4433 * (s0 - s3 + s1 - s2)
      z1 == 9633 * (d0 + d2 + d1 + d3)
      z2 == z1 - 3196 * (d0 + d2)
      z3 == z1 - 16069 * (d1 + d3)
      z4 == 7373 * (d0 + d3)
      z5 == 20995 * (d1 + d2)
  IN  <<ONE * (s0 + s3 + s1 + s2), 12299 * d0 - z4 + z2,
        z + 6270 * (s0 - s3), 25172 * d1 - z5 + z3,
        ONE * (s0 + s3 - s1 - s2), 16819 * d2 - z5 + z2,
        z - 15137 * (s1 - s2), 2446 * d3 - z4 + z3>>

Forward9(x, k) ==
  LET s0 == x[0] + x[8]  s1 == x[1] + x[7]  s2 == x[2] + x[6]  s3 == x[3] + x[5]
      d0 == x[0] - x[8]  d1 == x[1] - x[7]  d2 == x[2] - x[6]  d3 == x[3] - x[5]
      z1 == k[3] * (s0 - s2)
      z2 == k[2] * (s1 - 2 * x[4])
      w == k[6] * d1
      p == k[7] * (d0 + d2)
      q == k[8] * (d0 + d3)
      r == k[9] * (d2 - d3)
  IN  <<k[1] * (s0 + s2 + s3 + s1 + x[4]), w + p + q, k[4] * (s2 - s3) + z1 + z2,
        k[6] * (d0 - d2 - d3), k[5] * (s3 - s0) + z1 - z2, p - w - r,
        k[2] * (s0 + s2 + s3 - 2 * (s1 + x[4])), q - w + r>>

Forward10(x, k) ==
  LET s0 == x[0] + x[9]  s1 == x[1] + x[8]  s2 == x[2] + x[7]  s3 == x[3] + x[6]  s4 == x[4] + x[5]
      d0 == x[0] - x[9]  d1 == x[1] - x[8]  d2 == x[2] - x[7]  d3 == x[3] - x[6]  d4 == x[4] - x[5]
      z == k[4] * (s0 - s4 + s1 - s3)
      p == k[11] * (d0 - d4) - k[12] * (d1 + d3)
      q == k[13] * (d0 + d4 + d1 - d3) + k[14] * (d1 - d3) - k[1] * d2
  IN  <<k[1] * (s0 + s4 + s1 + s3 + s2),
        k[7] * d0 + k[8] * d1 + k[1] * d2 + k[9] * d3 + k[10] * d4,
        z + k[5] * (s0 - s4), p + q, k[2] * (s0 + s4 - 2 * s2) - k[3] * (s1 + s3 - 2 * s2),
        k[1] * (d0 + d4 - d1 + d3 - d2), z - k[6] * (s1 - s3), p - q>>

Forward11(x, k) ==
  LET s(i) == x[i] + x[10 - i] - 2 * x[5]
      d0 == x[0] - x[10]  d1 == x[1] - x[9]  d2 == x[2] - x[8]  d3 == x[3] - x[7]  d4 == x[4] - x[6]
      z1 == k[2] * (s(0) + s(3)) + k[3] * (s(2) + s(4))
      z2 == k[4] * (s(1) - s(3))
      z3 == k[5] * (s(0) - s(1))
      p1 == k[12] * (d0 + d1)
      p2 == k[13] * (d0 + d2)
      p3 == k[14] * (d0 + d3)
      p4 == k[14] * (d1 + d2)
      p5 == k[17] * (d1 + d3)
      p6 == k[16] * (d2 + d3)
  IN  <<k[1] * (x[0] + x[1] + x[2] + x[3] + x[4] + x[5] + x[6] + x[7] + x[8] + x[9] + x[10]),
        p1 + p2 + p3 - k[15] * d0 + k[16] * d4, z1 + z2 - k[6] * s(3) - k[7] * s(4),
        p1 - p4 - p5 + k[18] * d1 - k[13] * d4, z2 + z3 + k[8] * s(1) - k[2] * s(2) + k[9] * s(4),
        p2 - p4 + p6 - k[19] * d2 + k[17] * d4, z1 + z3 - k[10] * s(0) - k[11] * s(2),
        p3 - p5 + p6 + k[20] * d3 - k[12] * d4>>

Forward12(x, k) ==
  LET s0 == x[0] + x[11]  s1 == x[1] + x[10]  s2 == x[2] + x[9]
      s3 == x[3] + x[8]   s4 == x[4] + x[7]   s5 == x[5] + x[6]
      d0 == x[0] - x[11]  d1 == x[1] - x[10]  d2 == x[2] - x[9]
      d3 == x[3] - x[8]   d4 == x[4] - x[7]   d5 == x[5] - x[6]
      z1 == k[4] * (d1 + d4) + k[5] * d1
      z2 == k[4] * (d1 + d4) - k[6] * d4
      p == k[7] * (d0 + d2)
      q == k[8] * (d0 + d3)
      r == k[10] * (d2 + d3)
  IN  <<k[1] * (s0 + s5 + s1 + s4 + s2 + s3), p + q + z1 - k[9] * d0 + k[10] * d5,
        k[14] * (s1 - s4 - s2 + s3) + k[3] * (s0 - s5 + s2 - s3),
        z2 + k[13] * (d0 - d3) - k[4] * (d2 + d5), k[2] * (s0 + s5 - s2 - s3),
        p - r - z2 - k[11] * d2 + k[8] * d5, k[1] * (s0 - s5 - s1 + s4 - s2 + s3),
        q - r - z1 + k[12] * d3 - k[7] * d5>>

Forward13(x, k) ==
  LET s(i) == x[i] + x[12 - i] - 2 * x[6]
      d0 == x[0] - x[12]  d1 == x[1] - x[11]  d2 == x[2] - x[10]
      d3 == x[3] - x[9]   d4 == x[4] - x[8]   d5 == x[5] - x[7]
      z1 == k[8] * (s(0) - s(2)) - k[9] * (s(3) - s(4)) - k[10] * (s(1) - s(5))
      z2 == k[11] * (s(0) + s(2)) - k[12] * (s(3) + s(4)) + k[13] * (s(1) + s(5))
      p1 == k[14] * (d0 + d1)
      p2 == k[15] * (d0 + d2)
      p3 == k[16] * (d0 + d3) + k[17] * (d4 + d5)
      p4 == k[16] * (d4 - d5) - k[17] * (d1 + d2)
      p5 == k[15] * (d1 + d3)
      p6 == k[22] * (d2 + d3)
  IN  <<k[1] * (x[0] + x[1] + x[2] + x[3] + x[4] + x[5] + x[6] + x[7] + x[8] + x[9] + x[10] + x[11] + x[12]),
        p1 + p2 + p3 - k[18] * d0 + k[19] * d4,
        k[2] * s(0) + k[3] * s(1) + k[4] * s(2) - k[5] * s(3) - k[6] * s(4) - k[7] * s(5),
        p1 + p4 - p5 + k[20] * d1 - k[21] * d4, z1 + z2,
        p2 + p4 - p6 - k[23] * d2 + k[24] * d5, z1 - z2,
        p3 - p5 - p6 + k[25] * d3 - k[26] * d5>>

Forward14(x, k) ==
  LET s0 == x[0] + x[13]  s1 == x[1] + x[12]  s2 == x[2] + x[11]  s3 == x[3] + x[10]
      s4 == x[4] + x[9]   s5 == x[5] + x[8]   s6 == x[6] + x[7]
      d0 == x[0] - x[13]  d1 == x[1] - x[12]  d2 == x[2] - x[11]  d3 == x[3] - x[10]
      d4 == x[4] - x[9]   d5 == x[5] - x[8]   d6 == x[6] - x[7]
      z == k[5] * (s0 - s6 + s1 - s5)
      y == k[11] * (d5 - d4) - k[10] * (d1 + d2) - k[1] * d3
      p == k[12] * (d0 + d2) + k[13] * (d4 + d6)
      q == k[16] * (d0 + d1) + k[17] * (d5 - d6)
  IN  <<k[1] * (s0 + s6 + s1 + s5 + s2 + s4 + s3), p + q + k[1] * d3 - k[20] * d0 - k[21] * d6,
        z + k[6] * (s0 - s6) + k[7] * (s2 - s4), y + q - k[18] * d1 - k[19] * d5,
        k[2] * (s0 + s6 - 2 * s3) + k[3] * (s1 + s5 - 2 * s3) - k[4] * (s2 + s4 - 2 * s3),
        y + p - k[14] * d2 + k[15] * d4, z - k[8] * (s1 - s5) - k[9] * (s2 - s4),
        k[1] * (d0 - d1 - d2 + d3 - d5 + d4 - d6)>>

Forward15(x, k) ==
  LET s0 == x[0] + x[14]  s1 == x[1] + x[13]  s2 == x[2] + x[12]  s3 == x[3] + x[11]
      s4 == x[4] + x[10]  s5 == x[5] + x[9]   s6 == x[6] + x[8]
      d0 == x[0] - x[14]  d1 == x[1] - x[13]  d2 == x[2] - x[12]  d3 == x[3] - x[11]
      d4 == x[4] - x[10]  d5 == x[5] - x[9]   d6 == x[6] - x[8]
      mid == s2 + (s1 + s4) \div 2 - 2 * x[7]
      z1 == k[4] * (s3 - mid) - k[5] * (s6 - mid)
      z2 == k[6] * (s5 - mid) - k[7] * (s0 - mid)
      z3 == k[8] * (s0 - s3) + k[9] * (s6 - s5) + k[10] * (s1 - s4)
      w == k[11] * d2
      t == k[14] * (d0 - d6) + k[12] * (d1 + d4) + k[15] * (d3 + d5)
  IN  <<k[1] * (s0 + s4 + s5 + s1 + s3 + s6 + s2 + x[7]),
        k[16] * d3 - k[17] * d4 + k[18] * d6 + t + w, z1 + z3,
        k[12] * (d0 - d4 - d5) + k[13] * (d1 - d3 - d6), z2 + z3,
        k[11] * (d0 - d2 - d3 + d5 + d6),
        k[2] * (s0 + s4 + s5 - 2 * (s2 + x[7])) - k[3] * (s1 + s3 + s6 - 2 * (s2 + x[7])),
        t - w - k[19] * d0 - k[20] * d1 - k[21] * d5>>

Forward16(x, k) ==
  LET s0 == x[0] + x[15]  s1 == x[1] + x[14]  s2 == x[2] + x[13]  s3 == x[3] + x[12]
      s4 == x[4] + x[11]  s5 == x[5] + x[10]  s6 == x[6] + x[9]   s7 == x[7] + x[8]
      d0 == x[0] - x[15]  d1 == x[1] - x[14]  d2 == x[2] - x[13]  d3 == x[3] - x[12]
      d4 == x[4] - x[11]  d5 == x[5] - x[10]  d6 == x[6] - x[9]   d7 == x[7] - x[8]
      z == 2260 * (s3 - s4 - s1 + s6) + 11363 * (s0 - s7 - s2 + s5)
      p1 == 11086 * (d0 + d1) + 3363 * (d6 - d7)
      p2 == 10217 * (d0 + d2) + 5461 * (d5 + d7)
      p3 == 8956 * (d0 + d3) + 7350 * (d4 - d7)
      q1 == 1136 * (d1 + d2) + 11529 * (d6 - d5)
      q2 == 5461 * (d1 + d3) + 10217 * (d4 + d6)
      q3 == 3363 * (d5 - d4) - 11086 * (d2 + d3)
  IN  <<ONE * (s0 + s7 + s1 + s6 + s2 + s5 + s3 + s4),
        p1 + p2 + p3 - 18730 * d0 + 6387 * d7,
        z + 11893 * (s1 - s6) + 17799 * (s2 - s5),
        p1 + q1 - q2 + 589 * d1 - 13631 * d6,
        10703 * (s0 + s7 - s3 - s4) + 4433 * (s1 + s6 - s2 - s5),
        p2 + q1 + q3 - 9222 * d2 + 10055 * d5,
        z - 1730 * (s0 - s7) - 8697 * (s3 - s4),
        p3 - q2 + q3 + 8728 * d3 + 17760 * d4>>

-----------------------------------------------------------------------------
\* The transform of n samples.
ForwardN(n, x, k) ==
  CASE n = 1 -> Forward1(x, k)    [] n = 2 -> Forward2(x, k)    [] n = 3 -> Forward3(x, k)
    [] n = 4 -> Forward4(x, k)    [] n = 5 -> Forward5(x, k)    [] n = 6 -> Forward6(x, k)
    [] n = 7 -> Forward7(x, k)    [] n = 8 -> Forward8(x, k)    [] n = 9 -> Forward9(x, k)
    [] n = 10 -> Forward10(x, k)  [] n = 11 -> Forward11(x, k)  [] n = 12 -> Forward12(x, k)
    [] n = 13 -> Forward13(x, k)  [] n = 14 -> Forward14(x, k)  [] n = 15 -> Forward15(x, k)
    [] n = 16 -> Forward16(x, k)

\* What tells the accurate routines apart: the size of the block they take, w
\* columns by h rows, and each pass's factors and shift.
Passes(k1, shift1, k2, shift2, w, h) ==
  [k1 |-> k1, shift1 |-> shift1, k2 |-> k2, shift2 |-> shift2, w |-> w, h |-> h]

\* The two passes p over a block: x[i][j] is the sample of row i and column j.
\* Pass 1 takes the samples' signed values.  Coefficients the block is too small
\* for are zero, those after the eighth are not computed.
ForwardBlock(p, x) ==
  LET n == IF p.w < 8 THEN p.w ELSE 8
      m == IF p.h < 8 THEN p.h ELSE 8
      row(i) == LET y == ForwardN(p.w, [j \in 0..p.w - 1 |-> x[i][j] - CENTERJSAMPLE], p.k1)
                IN  [u \in 0..n - 1 |-> DESCALE(y[u + 1], p.shift1)]
      workspace == [i \in 0..p.h - 1 |-> row(i)]
      column(u) == LET y == ForwardN(p.h, [i \in 0..p.h - 1 |-> workspace[i][u]], p.k2)
                   IN  [v \in 0..m - 1 |-> DESCALE(y[v + 1], p.shift2)]
      columns == [u \in 0..n - 1 |-> column(u)]
  IN  [v \in 0..7 |-> [u \in 0..7 |-> IF u < n /\ v < m THEN columns[u][v] ELSE 0]]

-----------------------------------------------------------------------------
\* The factors of pass 1, for each size that needs them.  The last one of K12
\* and of K14 multiplies a term that the source shifts by CONST_BITS in pass 2
\* but adds as it is in pass 1.
K3 == <<8192, 5793, 10033>>
K5 == <<8192, 6476, 2896, 6810, 4209, 17828>>
K6 == <<8192, 10033, 5793, 2998>>
K7 == <<8192, 2896, 7542, 2578, 7223, 5793, 7663, 1395, 11295, 5027, 15326>>
K9 == <<8192, 5793, 10887, 8875, 2012, 10033, 7447, 3962, 11409>>
K10 == <<8192, 9373, 3580, 6810, 4209, 17828, 11443, 10323, 5260, 1812, 7791, 4815,
  2531, 4096>>
K11 == <<8192, 11116, 1649, 7587, 9746, 8342, 11395, 511, 4813, 13275, 6461, 10538,
  8756, 6263, 14090, 3264, 11467, 10456, 16294, 10695>>
K12 == <<8192, 10033, 11190, 4433, 6270, 15137, 9191, 7053, 4758, 1512, 19165, 5946,
  10703, 1>>
K13 == <<8192, 11249, 8672, 4108, 1396, 6581, 10258, 9465, 3570, 2592, 793, 7678, 3989,
  10832, 9534, 7682, 2773, 16549, 2611, 6859, 19183, 5384, 12879, 18515, 18068, 14273>>
K14 == <<8192, 10438, 2578, 7223, 9058, 2237, 5027, 14084, 11295, 1297, 11512, 9810,
  6164, 19447, 9175, 10935, 3826, 3474, 25148, 9232, 9231>>
K15 == <<8192, 9373, 3580, 12543, 18336, 6541, 748, 11332, 7752, 6476, 10033, 11018,
  6810, 11522, 4712, 3897, 4209, 13930, 2912, 17828, 7121>>

\* The factors of pass 2, which scale by (8/N)^2 or a power of two times that.
S3 == <<14564, 10298, 17837>>
S5 == <<10486, 8290, 3707, 8716, 5387, 22820>>
S6 == <<14564, 17837, 10298, 5331>>
S7 == <<10700, 3783, 9850, 3367, 9434, 7566, 10009, 1822, 14752, 6565, 20017>>
S9 == <<12945, 9154, 17203, 14024, 3179, 15855, 11768, 6262, 18029>>
S10 == <<10486, 11997, 4582, 8716, 5387, 22820, 14647, 13213, 6732, 2320, 9973, 6163,
  3240, 5243>>
S11 == <<8666, 11759, 1744, 8026, 10310, 8825, 12054, 540, 5091, 14043, 6835, 11148,
  9262, 6626, 14905, 3453, 12131, 11061, 17237, 11314>>
S12 == <<7282, 8918, 9947, 3941, 5573, 13455, 8170, 6269, 4229, 1344, 17036, 5285, 9514,
  7282>>
S13 == <<6205, 8520, 6568, 3112, 1058, 4985, 7770, 7169, 2704, 1963, 601, 5816, 3021,
  8204, 7221, 5819, 2100, 12534, 1978, 5195, 14529, 4078, 9754, 14023, 13685, 10811>>
S14 == <<5350, 6817, 1684, 4717, 5915, 1461, 3283, 9198, 7376, 847, 7518, 6406, 4025,
  12700, 5992, 7141, 2499, 2269, 16423, 6029, 679>>
S15 == <<9321, 10664, 4073, 14271, 20862, 7442, 852, 12893, 8820, 7369, 11415, 12536,
  7748, 13109, 5361, 4434, 4788, 15850, 3314, 20284, 8102>>

jpeg_fdct_islow == Passes(<<>>, CONST_BITS - PASS1_BITS, <<>>, CONST_BITS + PASS1_BITS, 8, 8)
jpeg_fdct_7x7 == Passes(K7, CONST_BITS - PASS1_BITS, S7, CONST_BITS + PASS1_BITS, 7, 7)
jpeg_fdct_6x6 == Passes(K6, CONST_BITS - PASS1_BITS, S6, CONST_BITS + PASS1_BITS, 6, 6)
jpeg_fdct_5x5 == Passes(K5, CONST_BITS - PASS1_BITS - 1, S5, CONST_BITS + PASS1_BITS, 5, 5)
jpeg_fdct_4x4 == Passes(<<>>, CONST_BITS - PASS1_BITS - 2, <<>>, CONST_BITS + PASS1_BITS, 4, 4)
jpeg_fdct_3x3 == Passes(K3, CONST_BITS - PASS1_BITS - 2, S3, CONST_BITS + PASS1_BITS, 3, 3)
jpeg_fdct_2x2 == Passes(<<>>, CONST_BITS, <<>>, CONST_BITS - PASS1_BITS - 2, 2, 2)
jpeg_fdct_1x1 == Passes(<<>>, CONST_BITS, <<>>, CONST_BITS - PASS1_BITS - 4, 1, 1)
jpeg_fdct_9x9 == Passes(K9, CONST_BITS - 1, S9, CONST_BITS + PASS1_BITS, 9, 9)
jpeg_fdct_10x10 == Passes(K10, CONST_BITS - 1, S10, CONST_BITS + PASS1_BITS, 10, 10)
jpeg_fdct_11x11 == Passes(K11, CONST_BITS - 1, S11, CONST_BITS + PASS1_BITS, 11, 11)
jpeg_fdct_12x12 == Passes(K12, CONST_BITS, S12, CONST_BITS + 1, 12, 12)
jpeg_fdct_13x13 == Passes(K13, CONST_BITS, S13, CONST_BITS + 1, 13, 13)
jpeg_fdct_14x14 == Passes(K14, CONST_BITS, S14, CONST_BITS + 1, 14, 14)
jpeg_fdct_15x15 == Passes(K15, CONST_BITS, S15, CONST_BITS + PASS1_BITS, 15, 15)
jpeg_fdct_16x16 == Passes(<<>>, CONST_BITS - PASS1_BITS, <<>>, CONST_BITS + PASS1_BITS + 2, 16, 16)
jpeg_fdct_16x8 == Passes(<<>>, CONST_BITS - PASS1_BITS, <<>>, CONST_BITS + PASS1_BITS + 1, 16, 8)
jpeg_fdct_14x7 == Passes(K14, CONST_BITS - PASS1_BITS, S7, CONST_BITS + PASS1_BITS + 1, 14, 7)
jpeg_fdct_12x6 == Passes(K12, CONST_BITS - PASS1_BITS, S6, CONST_BITS + PASS1_BITS + 1, 12, 6)
jpeg_fdct_10x5 == Passes(K10, CONST_BITS - PASS1_BITS, S5, CONST_BITS + PASS1_BITS, 10, 5)
jpeg_fdct_8x4 == Passes(<<>>, CONST_BITS - PASS1_BITS - 1, <<>>, CONST_BITS + PASS1_BITS, 8, 4)
jpeg_fdct_6x3 == Passes(K6, CONST_BITS - PASS1_BITS - 1, S3, CONST_BITS + PASS1_BITS, 6, 3)
jpeg_fdct_4x2 == Passes(<<>>, CONST_BITS - PASS1_BITS - 3, <<>>, CONST_BITS + PASS1_BITS, 4, 2)
jpeg_fdct_2x1 == Passes(<<>>, CONST_BITS, <<>>, CONST_BITS - PASS1_BITS - 3, 2, 1)
jpeg_fdct_8x16 == Passes(<<>>, CONST_BITS - PASS1_BITS, <<>>, CONST_BITS + PASS1_BITS + 1, 8, 16)
jpeg_fdct_7x14 == Passes(K7, CONST_BITS - PASS1_BITS, S14, CONST_BITS + PASS1_BITS, 7, 14)
jpeg_fdct_6x12 == Passes(K6, CONST_BITS - PASS1_BITS, S12, CONST_BITS + PASS1_BITS, 6, 12)
jpeg_fdct_5x10 == Passes(K5, CONST_BITS - PASS1_BITS, S10, CONST_BITS + PASS1_BITS, 5, 10)
jpeg_fdct_4x8 == Passes(<<>>, CONST_BITS - PASS1_BITS - 1, <<>>, CONST_BITS + PASS1_BITS, 4, 8)
jpeg_fdct_3x6 == Passes(K3, CONST_BITS - PASS1_BITS - 1, S6, CONST_BITS + PASS1_BITS, 3, 6)
jpeg_fdct_2x4 == Passes(<<>>, CONST_BITS - PASS1_BITS - 1, <<>>, CONST_BITS, 2, 4)
jpeg_fdct_1x2 == Passes(<<>>, CONST_BITS, <<>>, CONST_BITS - PASS1_BITS - 3, 1, 2)

-----------------------------------------------------------------------------
\* The arithmetic of both passes of the fast method; its output lacks the scale
\* factors of Arai, Agui and Nakajima, which the divisors make up for.
FastParts(s0, s1, s2, s3, d0, d1, d2, d3) ==
  LET z1 == Multiply(s1 - s2 + s0 - s3, 181)
      z5 == Multiply(d3 + d2 - d1 - d0, 98)
      z2 == Multiply(d3 + d2, 139) + z5
      z4 == Multiply(d1 + d0, 334) + z5
      z3 == Multiply(d2 + d1, 181)
  IN  <<s0 + s3 + s1 + s2, d0 + z3 + z4, s0 - s3 + z1, d0 - z3 - z2,
        s0 + s3 - s1 - s2, d0 - z3 + z2, s0 - s3 - z1, d0 + z3 - z4>>
ForwardFast(x) ==
  FastParts(x[0] + x[7], x[1] + x[6], x[2] + x[5], x[3] + x[4],
            x[0] - x[7], x[1] - x[6], x[2] - x[5], x[3] - x[4])

jpeg_fdct_ifast(x) ==
  LET row(i) == ForwardFast([j \in 0..7 |-> x[i][j] - CENTERJSAMPLE])
      workspace == <<row(0), row(1), row(2), row(3), row(4), row(5), row(6), row(7)>>
      column(u) == ForwardFast([i \in 0..7 |-> workspace[i + 1][u + 1]])
      columns == [u \in 0..7 |-> column(u)]
  IN  [v \in 0..7 |-> [u \in 0..7 |-> columns[u][v + 1]]]
=============================================================================

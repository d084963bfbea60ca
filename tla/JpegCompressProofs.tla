------------------------- MODULE JpegCompressProofs -------------------------
(***************************************************************************)
(* The compressor of JpegCompress writes the file of the picture, for      *)
(* every picture it does not refuse, every way its lines come and every    *)
(* way its destination suspends.                                           *)
(***************************************************************************)
EXTENDS JpegCompress, InductionFacts

-----------------------------------------------------------------------------
(* The inductive invariant                                                    *)

\* The main pass takes lines and codes iMCU rows; the passes after it read the
\* coefficient arrays.
Filling == global_state = "SCANNING" /\ pc \in {"app", "lines", "coding", "return"}
Cranking == global_state = "SCANNING" /\ pc \in {"passes", "rows", "cranking"}
StateOK ==
    /\ img \in Pictures /\ global_state \in {"START", "SCANNING"}
    /\ global_state = "SCANNING" => Filling \/ Cranking
    /\ sent = next_scanline /\ sent \in Nat
    /\ global_state = "START" =>
          /\ pc = "app" /\ file \in {<<>>, ExpectedFile}
          /\ file = <<>> =>
                /\ sent = 0 /\ in_row_ctr = 0 /\ in_rows_avail = 0
                /\ pass_type = "main" /\ pass_number = 0 /\ scan_number = 0

ShapeOK ==
    /\ DOMAIN buffer = Comps /\ \A c \in Comps : DOMAIN buffer[c] = 0..(DCTSIZE * rgh(c) - 1)
    /\ DOMAIN color_buf = 0..(buf_height - 1)
    /\ DOMAIN whole_image = Comps /\ \A c \in Comps : DOMAIN whole_image[c] = 0..(img.v[c] * total_iMCU_rows - 1)

\* Lines: those the application counts, those of this call and the one that a
\* suspension holds back.
Held == IF suspended THEN 1 ELSE 0
Taken == sent + in_row_ctr + Held

LinesOK ==
    /\ sent \in Nat /\ in_row_ctr \in Nat /\ in_rows_avail \in Nat /\ suspended \in BOOLEAN /\ rows_to_go \in Nat
    /\ rows_to_go = img.image_height - Taken
    /\ cur_iMCU_row \in 0..total_iMCU_rows /\ rowgroup_ctr \in 0..DCTSIZE
    /\ cur_iMCU_row = total_iMCU_rows => rowgroup_ctr = 0 /\ rows_to_go = 0
    /\ suspended \/ pc = "coding" => rowgroup_ctr = DCTSIZE
    /\ pc = "return" => suspended

CallOK ==
    /\ pc = "app" => in_row_ctr = 0
    /\ pc = "app" => rowgroup_ctr # DCTSIZE \/ suspended
    /\ pc = "app" /\ rows_to_go = 0 => cur_iMCU_row = total_iMCU_rows \/ suspended
    /\ pc # "app" => in_rows_avail <= img.image_height - sent /\ in_row_ctr + Held <= in_rows_avail
    /\ pc \in {"lines", "coding"} /\ ~suspended /\ in_row_ctr = 0 => rowgroup_ctr < DCTSIZE /\ rows_to_go > 0

\* The row groups of the picture that have been downsampled.
Groups == cur_iMCU_row * DCTSIZE + rowgroup_ctr

PlainOK ==
    /\ next_buf_row \in 0..(max_v_samp_factor - 1)
    /\ rows_to_go > 0 => Taken = Groups * max_v_samp_factor + next_buf_row
    /\ rows_to_go > 0 => \A r \in 0..(next_buf_row - 1) : color_buf[r] = Groups * max_v_samp_factor + r
    /\ rows_to_go = 0 => cur_iMCU_row = total_iMCU_rows \/ (cur_iMCU_row = total_iMCU_rows - 1 /\ rowgroup_ctr = DCTSIZE)

\* With context rows the buffer is ahead of the row groups: it has been filled
\* up to line Filled, with copies of the last line where there is no other.
Filled == (Groups + 2) * max_v_samp_factor - next_buf_stop + next_buf_row
LineAt(r) == Filled - next_buf_row + r - (IF r < next_buf_row THEN 0 ELSE 3 * max_v_samp_factor)

WindowOK ==
    Filled > 0 => \A r \in 0..(3 * max_v_samp_factor - 1) :
        LineAt(r) >= -max_v_samp_factor => color_buf[r] = Clamp(LineAt(r))
ContextOK ==
    /\ next_buf_stop \in {max_v_samp_factor, 2 * max_v_samp_factor, 3 * max_v_samp_factor}
    /\ next_buf_row \in 0..(next_buf_stop - 1)
    /\ this_row_group = next_buf_stop + (IF next_buf_stop = max_v_samp_factor THEN 1 ELSE -2) * max_v_samp_factor
    /\ Groups = 0 => next_buf_stop = 2 * max_v_samp_factor
    /\ Groups > 0 => next_buf_stop - next_buf_row <= max_v_samp_factor
    /\ rows_to_go > 0 => Filled = Taken
    /\ rows_to_go = 0 => Filled >= img.image_height
    /\ WindowOK

PrepOK == IF need_context_rows THEN ContextOK ELSE PlainOK

BufferOK ==
    cur_iMCU_row < total_iMCU_rows => \A c \in Comps : \A r \in 0..(rowgroup_ctr * rgh(c) - 1) :
        buffer[c][r] = SampleRow(c, cur_iMCU_row * DCTSIZE * rgh(c) + r)

MainPassOK ==
    /\ scan_number = 0 /\ pass_number = 0 /\ pass_type = "main" /\ scan = 1
    /\ gather = img.optimize /\ is_last_pass = (total_passes = 1)
    /\ coef_mode = IF total_passes > 1 THEN "save_and_pass" ELSE "pass_thru"
    /\ iMCU_row_num = cur_iMCU_row
    /\ call_pass_startup => ~gather /\ pc = "app" /\ sent = 0 /\ ~suspended /\ cur_iMCU_row = 0
FillingOK == Filling => LinesOK /\ CallOK /\ PrepOK /\ BufferOK /\ MainPassOK

\* A pass over the coefficients, and the passes that are done.
PassOK ==
    /\ is_last_pass = (pass_number + 1 = total_passes) /\ pass_number < total_passes
    /\ gather = (pass_type = "huff_opt") /\ scan = scan_number + 1 /\ scan_number < Len(img.scans)
    /\ coef_mode = "crank_dest" /\ iMCU_row = iMCU_row_num /\ iMCU_row \in 0..total_iMCU_rows
    /\ pc = "cranking" => iMCU_row < total_iMCU_rows
LaterPassesOK ==
    /\ sent = img.image_height /\ ~suspended
    /\ ~call_pass_startup /\ scan_number \in 0..Len(img.scans) /\ pass_number \in 1..total_passes
    /\ IF img.optimize
       THEN pass_type \in {"output", "huff_opt"} /\ pass_number = 2 * scan_number + (IF pass_type = "output" THEN 1 ELSE 0)
       ELSE pass_type = "output" /\ pass_number = scan_number
    /\ pc = "passes" => is_last_pass = (pass_number = total_passes)
    /\ pc = "passes" /\ pass_type = "output" /\ img.optimize => scan = scan_number + 1
    /\ pc # "passes" => PassOK
    /\ total_passes > 1 => coef_mode # "pass_thru"
CrankingOK == Cranking => LaterPassesOK

\* Where the MCU rows of an iMCU row of a scan begin, and the MCUs of the scan
\* that have been coded.
FirstMcuRow(comps, row) ==
    IF Len(comps) = 1 THEN LeastOf(row * img.v[comps[1]], height_in_blocks(comps[1])) ELSE row
McuRow == IF pc \in {"coding", "cranking"} THEN yoffset ELSE MCU_vert_offset
McuCol == IF pc \in {"coding", "cranking"} THEN MCU_col_num ELSE mcu_ctr
Coded == (FirstMcuRow(comps_in_scan, iMCU_row_num) + McuRow) * MCUsPerRow + McuCol

McuOK ==
    /\ iMCU_row_num \in Nat
    /\ MCU_rows = MCU_rows_per_iMCU_row(comps_in_scan, iMCU_row_num)
    /\ McuRow \in 0..MCU_rows /\ McuCol \in 0..MCUsPerRow
    /\ McuRow = MCU_rows => McuCol = 0
    /\ pc \notin {"coding", "cranking"} /\ ~suspended => McuRow = 0 /\ McuCol = 0
PlaceOK == Filling \/ (Cranking /\ pc # "passes") => McuOK

StoredRows == IF Cranking THEN total_iMCU_rows ELSE IF pc = "coding" THEN cur_iMCU_row + 1 ELSE cur_iMCU_row
ImageOK ==
    (Filling \/ Cranking) /\ coef_mode # "pass_thru" =>
        \A c \in Comps : \A b \in 0..(img.v[c] * StoredRows - 1) : whole_image[c][b] = Block(c, b)

\* The file when k scans are written, and with n MCUs of scan k.
Start(k) == <<SOF>> \o FlattenSeq(SubSeq([j \in 1..Len(img.scans) |-> ScanUnits(j)], 1, k))
Written(k, n) == Start(k - 1) \o SubSeq(ScanUnits(k), 1, n + 1)
FileOK ==
    (Filling \/ Cranking) =>
        file = IF pc = "passes" \/ gather \/ call_pass_startup THEN (IF scan_number = 0 THEN <<>> ELSE Start(scan_number))
               ELSE Written(scan, Coded)

IInv == StateOK /\ ShapeOK /\ FillingOK /\ CrankingOK /\ PlaceOK /\ ImageOK /\ FileOK

-----------------------------------------------------------------------------
(* Arithmetic                                                                 *)

\* The remainder of a number below 2n.
LEMMA ModSmall ==
  ASSUME NEW n \in Nat \ {0}, NEW x \in Int, 0 <= x, x < 2 * n
  PROVE  x % n = IF x < n THEN x ELSE x - n
OBVIOUS

\* Quotient and remainder by n of a number written as q * n + r.
LEMMA DivMul ==
  ASSUME NEW n \in Nat \ {0}, NEW q \in Nat, NEW r \in 0..(n - 1)
  PROVE  (q * n + r) \div n = q /\ (q * n + r) % n = r
OBVIOUS

\* jdiv_round_up (jutils.c) is the least number of bs that hold a.
LEMMA RoundUp ==
  ASSUME NEW a \in Nat, NEW b \in Nat \ {0}
  PROVE  /\ jdiv_round_up(a, b) \in Nat
         /\ a <= jdiv_round_up(a, b) * b
         /\ jdiv_round_up(a, b) * b < a + b
BY DEF jdiv_round_up

\* A product grows with its first factor.
LEMMA MulMono ==
  ASSUME NEW a \in Nat, NEW b \in Nat, NEW c \in Nat, a <= b
  PROVE  a * c <= b * c
OBVIOUS

\* Products of natural numbers are natural numbers.
LEMMA MulNat == ASSUME NEW a \in Nat, NEW b \in Nat PROVE a * b \in Nat
OBVIOUS

-----------------------------------------------------------------------------
(* The geometry of a picture                                                  *)

\* A positive factor of both sides of < can be dropped.
LEMMA MulCancel ==
  ASSUME NEW a \in Int, NEW b \in Int, NEW q \in Nat \ {0}, a * q < b * q
  PROVE  a < b
OBVIOUS

\* The blocks below each other of a component with vertical sampling v, when
\* n rows of iMCUs of q lines hold h lines.
LEMMA RowsOfBlocks ==
  ASSUME NEW h \in Nat, NEW q \in Nat \ {0}, NEW v \in Nat \ {0}, NEW n \in Nat \ {0}, NEW b \in Nat,
         (n - 1) * q < h, h <= n * q, h * v <= b * q, b * q < h * v + q
  PROVE  (n - 1) * v < b /\ b <= n * v
<1>1. (n - 1) * q * v < h * v /\ h * v <= n * q * v
  OBVIOUS
<1>2. (n - 1) * q * v = ((n - 1) * v) * q /\ n * q * v + q = (n * v + 1) * q
  OBVIOUS
<1>3. (n - 1) * v \in Int /\ n * v + 1 \in Int /\ h * v \in Int /\ b * q \in Int
  OBVIOUS
<1>4. ((n - 1) * v) * q < b * q /\ b * q < (n * v + 1) * q
  BY <1>1, <1>2, <1>3
<1>5. (n - 1) * v < b
  BY <1>3, <1>4, MulCancel
<1>6. b < n * v + 1
  BY <1>3, <1>4, MulCancel
<1> QED
  BY <1>3, <1>5, <1>6

\* per_scan_setup and compress_first_pass (jcmaster.c, jccoefct.c) count the
\* block rows of the last iMCU row with a remainder: it is the rest of them.
LEMMA LastRest ==
  ASSUME NEW v \in Nat \ {0}, NEW n \in Nat \ {0}, NEW b \in Nat, (n - 1) * v < b, b <= n * v
  PROVE  (IF b % v = 0 THEN v ELSE b % v) = b - (n - 1) * v
<1> DEFINE t == b - (n - 1) * v
<1>1. (n - 1) * v \in Nat /\ n * v = (n - 1) * v + v
  OBVIOUS
<1>2. t \in 1..v /\ b = (n - 1) * v + t
  BY <1>1
<1>3. CASE t < v
  <2>1. ((n - 1) * v + t) % v = t
    <3>1. n - 1 \in Nat /\ t \in 0..(v - 1)
      BY <1>2, <1>3
    <3> QED
      BY <3>1, DivMul
  <2>2. b % v = t /\ t # 0
    <3> HIDE DEF t
    <3> QED
      BY <1>2, <2>1
  <2> QED
    BY <2>2
<1>4. CASE t = v
  <2>1. b = n * v + 0 /\ 0 \in 0..(v - 1)
    BY <1>1, <1>2, <1>4
  <2>2. b % v = 0
    BY <2>1, DivMul
  <2> QED
    BY <1>2, <1>4, <2>2
<1> QED
  BY <1>2, <1>3, <1>4

\* Of numbers up to 4, what doubling a divisor of the greatest gives.
LEMMA SmallDivisors ==
  ASSUME NEW V \in 1..4, NEW v \in 1..4, V % v = 0, NEW s \in {1, 2}, s = 2 => V % (v * 2) = 0
  PROVE  V \div (v * s) \in 1..4 /\ v * s * (V \div (v * s)) = V /\ v <= V
<1>1. CASE V = 1
  BY <1>1
<1>2. CASE V = 2
  BY <1>2
<1>3. CASE V = 3
  BY <1>3
<1>4. CASE V = 4
  BY <1>4
<1> QED
  BY <1>1, <1>2, <1>3, <1>4

SamplingOK(c) ==
    /\ img.v[c] \in 1..max_v_samp_factor
    /\ rgh(c) \in Nat \ {0} /\ v_expand(c) \in Nat \ {0} /\ dct(c) \in Nat \ {0}
    /\ rgh(c) * v_expand(c) = max_v_samp_factor
    /\ dct(c) * img.v[c] = DCTSIZE * rgh(c)
BlocksOK(c) ==
    /\ height_in_blocks(c) \in Nat /\ last_row_height(c) \in 1..img.v[c]
    /\ (total_iMCU_rows - 1) * img.v[c] + last_row_height(c) = height_in_blocks(c)
    /\ height_in_blocks(c) <= total_iMCU_rows * img.v[c]
SizesOK ==
    /\ img.image_height \in Nat \ {0} /\ max_v_samp_factor \in 1..4 /\ total_iMCU_rows \in Nat \ {0}
    /\ (total_iMCU_rows - 1) * (max_v_samp_factor * DCTSIZE) < img.image_height
    /\ img.image_height <= total_iMCU_rows * (max_v_samp_factor * DCTSIZE)
    /\ Len(img.v) \in Nat \ {0} /\ Comps = 1..Len(img.v)

\* The vertical sampling factors of a picture that initial_setup accepts:
\* each divides the largest of them.
LEMMA MaxSampling ==
  ASSUME img \in Pictures
  PROVE  /\ max_v_samp_factor \in 1..4
         /\ \A c \in Comps : img.v[c] \in 1..4 /\ img.v[c] <= max_v_samp_factor /\ max_v_samp_factor % img.v[c] = 0
         /\ Len(img.v) \in Nat \ {0} /\ DOMAIN img.v = Comps
<1> DEFINE T == {img.v[c] : c \in Comps}
<1>1. img.v \in Seq(1..4) /\ \E c \in DOMAIN img.v : \A d \in DOMAIN img.v : img.v[d] <= img.v[c] /\ img.v[c] % img.v[d] = 0
  BY CompressAssumption DEF MAX_SAMP_FACTOR
<1>2. Comps = DOMAIN img.v /\ Len(img.v) \in Nat /\ \A c \in Comps : img.v[c] \in 1..4
  BY <1>1 DEF Comps
<1>3. PICK c \in Comps : \A d \in Comps : img.v[d] <= img.v[c] /\ img.v[c] % img.v[d] = 0
  BY <1>1, <1>2
<1>4. T \subseteq Nat /\ T # {} /\ \A y \in T : y <= 4
  <2>1. img.v[c] \in T
    BY <1>3
  <2>2. \A y \in T : \E d \in Comps : y = img.v[d]
    OBVIOUS
  <2> HIDE DEF T
  <2>3. \A y \in T : y \in 1..4
    BY <2>2, <1>2
  <2> QED
    BY <2>1, <2>3
<1>5. Max(T) \in T /\ \A y \in T : y <= Max(T)
  BY <1>4, MaxIsGreatest
<1>6. Max(T) = img.v[c]
  <2>1. PICK d \in Comps : Max(T) = img.v[d]
    BY <1>5
  <2>2. img.v[c] <= Max(T)
    BY <1>3, <1>5
  <2>3. img.v[d] <= img.v[c] /\ img.v[c] \in Nat /\ img.v[d] \in Nat
    BY <1>2, <1>3
  <2> QED
    BY <2>1, <2>2, <2>3
<1>7. max_v_samp_factor = img.v[c] /\ img.v[c] \in 1..4
  BY <1>2, <1>6 DEF max_v_samp_factor
<1>8. Comps # {} /\ Comps = 1..Len(img.v)
  BY <1>3 DEF Comps
<1>9. Len(img.v) \in Nat \ {0}
  BY <1>2, <1>8
<1> QED
  BY <1>2, <1>3, <1>7, <1>9

\* A row group of a component and the rows of colour in it (jinit_downsampler).
LEMMA Sampling ==
  ASSUME img \in Pictures, NEW c \in Comps
  PROVE  SamplingOK(c)
<1> DEFINE v == img.v[c]
           V == max_v_samp_factor
           s == IF img.fancy /\ V % (v * 2) = 0 THEN 2 ELSE 1
<1>1. V \in 1..4 /\ v \in 1..4 /\ v <= V /\ V % v = 0 /\ DCTSIZE \in Nat \ {0} /\ img.fancy \in BOOLEAN
  BY MaxSampling, ImageAssumption, CompressAssumption
<1> HIDE DEF v, V
<1>2. dct(c) = DCTSIZE * s
  <2>1. ~ (DCTSIZE * 2 <= DCTSIZE) /\ ~ (DCTSIZE * 2 <= DCTSIZE \div 2) /\ ~ (DCTSIZE * 1 <= DCTSIZE \div 2) /\ DCTSIZE * 1 <= DCTSIZE
    BY <1>1
  <2>2. v * 1 * 2 = v * 2 /\ DCTSIZE * 1 = DCTSIZE
    BY <1>1
  <2>3. dct(c) = DCTSIZE * (IF ~ (img.fancy /\ V % (v * 2) = 0) THEN 1 ELSE 2)
    BY <1>1, <2>1, <2>2 DEF dct, DCT_v_scaled_size, v, V
  <2> QED
    BY <2>3, <1>1
<1>3. s \in {1, 2} /\ (s = 2 => V % (v * 2) = 0)
  OBVIOUS
<1> HIDE DEF s
<1>4. rgh(c) = v * s
  <2>1. v * (DCTSIZE * s) = (v * s) * DCTSIZE + 0 /\ v * s \in Nat
    BY <1>1, <1>3
  <2>2. (v * (DCTSIZE * s)) \div DCTSIZE = v * s
    BY <1>1, <2>1, DivMul
  <2> QED
    BY <2>2, <1>2 DEF rgh, rowgroup_height, dct, v
<1>5. V \div (v * s) \in 1..4 /\ v * s * (V \div (v * s)) = V
  BY <1>1, <1>3, SmallDivisors
<1>6. v_expand(c) = V \div (v * s)
  BY <1>4 DEF v_expand, V
<1>7. v * s \in Nat \ {0} /\ DCTSIZE * s \in Nat \ {0}
  BY <1>1, <1>3
<1>8. DCTSIZE * s * v = DCTSIZE * (v * s)
  BY <1>1, <1>3
<1>9. v \in 1..V
  BY <1>1
<1>10. v_expand(c) \in Nat \ {0} /\ rgh(c) * v_expand(c) = V
  BY <1>4, <1>5, <1>6
<1>11. rgh(c) \in Nat \ {0} /\ dct(c) \in Nat \ {0} /\ dct(c) * v = DCTSIZE * rgh(c)
  BY <1>2, <1>4, <1>7, <1>8
<1> QED
  BY <1>9, <1>10, <1>11 DEF SamplingOK, v, V

\* The iMCU rows of a picture hold its lines, and no more of them than needed.
LEMMA Sizes ==
  ASSUME img \in Pictures
  PROVE  SizesOK
<1> DEFINE H == img.image_height
           q == max_v_samp_factor * DCTSIZE
           n == total_iMCU_rows
<1>1. H \in Nat \ {0} /\ max_v_samp_factor \in 1..4 /\ q \in Nat \ {0} /\ Len(img.v) \in Nat \ {0} /\ Comps = 1..Len(img.v)
  BY MaxSampling, CompressAssumption, ImageAssumption DEF Comps
<1>2. n = jdiv_round_up(H, q)
  BY DEF total_iMCU_rows
<1> HIDE DEF q, H, n
<1>3. n \in Nat /\ H <= n * q /\ n * q < H + q
  BY <1>1, <1>2, RoundUp
<1>4. n # 0
  BY <1>1, <1>3
<1>5. (n - 1) * q < H
  BY <1>1, <1>3
<1> QED
  BY <1>1, <1>3, <1>4, <1>5 DEF SizesOK, q, H, n

\* The block rows of a component: the iMCU rows hold them and the last of
\* these is not empty (initial_setup).
LEMMA BlockSizes ==
  ASSUME img \in Pictures, NEW c \in Comps
  PROVE  BlocksOK(c)
<1> DEFINE H == img.image_height
           q == max_v_samp_factor * DCTSIZE
           n == total_iMCU_rows
           v == img.v[c]
           b == height_in_blocks(c)
<1>1. H \in Nat /\ q \in Nat \ {0} /\ v \in Nat \ {0} /\ n \in Nat \ {0} /\ (n - 1) * q < H /\ H <= n * q
  <2>1. q \in Nat \ {0}
    BY MaxSampling, ImageAssumption
  <2>2. v \in Nat \ {0}
    BY MaxSampling
  <2> QED
    BY <2>1, <2>2, Sizes, Zenon DEF SizesOK
<1>2. b = jdiv_round_up(H * v, q)
  BY DEF height_in_blocks
<1>3. last_row_height(c) = IF b % v = 0 THEN v ELSE b % v
  BY DEF last_row_height
<1> HIDE DEF q, H, n, v, b
<1>4. H * v \in Nat
  BY <1>1
<1>5. b \in Nat /\ H * v <= b * q /\ b * q < H * v + q
  BY <1>1, <1>2, <1>4, RoundUp
<1>6. (n - 1) * v < b /\ b <= n * v
  BY <1>1, <1>5, RowsOfBlocks
<1>7. last_row_height(c) = b - (n - 1) * v
  BY <1>1, <1>3, <1>5, <1>6, LastRest
<1>8. (n - 1) * v \in Nat /\ n * v = (n - 1) * v + v
  BY <1>1
<1>9. last_row_height(c) \in 1..v /\ (n - 1) * v + last_row_height(c) = b
  BY <1>5, <1>6, <1>7, <1>8, <1>1
<1> QED
  BY <1>5, <1>6, <1>9 DEF BlocksOK, n, v, b

\* What is computed from the picture does not change while the picture is the
\* same.
Steady ==
    /\ Comps' = Comps /\ max_v_samp_factor' = max_v_samp_factor /\ total_iMCU_rows' = total_iMCU_rows
    /\ buf_height' = buf_height /\ total_passes' = total_passes /\ last_iMCU_row' = last_iMCU_row
    /\ ExpectedFile' = ExpectedFile /\ (need_context_rows' <=> need_context_rows)
SteadySizes ==
    \A c : /\ dct(c)' = dct(c) /\ rgh(c)' = rgh(c) /\ v_expand(c)' = v_expand(c)
           /\ height_in_blocks(c)' = height_in_blocks(c) /\ last_row_height(c)' = last_row_height(c)
SteadyRows ==
    /\ \A c, R : SampleRow(c, R)' = SampleRow(c, R)
    /\ \A c, b : Block(c, b)' = Block(c, b)
    /\ \A r : Clamp(r)' = Clamp(r)
SteadyScans ==
    /\ \A k : ScanUnits(k)' = ScanUnits(k) /\ Start(k)' = Start(k)
    /\ \A k, n : Written(k, n)' = Written(k, n)
    /\ \A comps, row : /\ MCU_rows_per_iMCU_row(comps, row)' = MCU_rows_per_iMCU_row(comps, row)
                       /\ FirstMcuRow(comps, row)' = FirstMcuRow(comps, row)

\* What is computed from the picture alone changes with the picture alone.
LEMMA PictureStays ==
  ASSUME img' = img
  PROVE  Steady /\ SteadySizes /\ SteadyRows /\ SteadyScans
<1>1. Comps' = Comps
  BY DEF Comps
<1>2. max_v_samp_factor' = max_v_samp_factor
  BY <1>1 DEF max_v_samp_factor
<1>3. total_iMCU_rows' = total_iMCU_rows /\ \A c : height_in_blocks(c)' = height_in_blocks(c)
  BY <1>2 DEF total_iMCU_rows, height_in_blocks
<1>4. need_context_rows' <=> need_context_rows
  BY DEF need_context_rows
<1>5. buf_height' = buf_height /\ total_passes' = total_passes /\ last_iMCU_row' = last_iMCU_row
  BY <1>2, <1>3, <1>4 DEF buf_height, total_passes, last_iMCU_row
<1>6. \A c : dct(c)' = dct(c)
  BY <1>2 DEF dct, DCT_v_scaled_size
<1>7. \A c : rgh(c)' = rgh(c)
  BY <1>6 DEF rgh, dct, rowgroup_height
<1>8. \A c : v_expand(c)' = v_expand(c) /\ last_row_height(c)' = last_row_height(c)
  BY <1>2, <1>3, <1>7 DEF v_expand, last_row_height
<1>9. \A r : Clamp(r)' = Clamp(r)
  BY DEF Clamp
<1>10. \A c : Smooths(c)' <=> Smooths(c)
  BY <1>8 DEF Smooths
<1>11. \A c, R : Padded(c, R)' = Padded(c, R)
  BY <1>2, <1>4, <1>7 DEF Padded
<1>12. \A c, R : SampleRow(c, R)' = SampleRow(c, R)
  BY <1>8, <1>9, <1>10, <1>11 DEF SampleRow
<1>13. \A c, b : SampleRows(c, b)' = SampleRows(c, b)
  BY <1>6, <1>12 DEF SampleRows
<1>14. \A c, b : Block(c, b)' = Block(c, b)
  BY <1>3, <1>13 DEF Block
<1>15. \A comps, c : MCU_height(comps, c)' = MCU_height(comps, c)
  BY DEF MCU_height
<1>16. \A comps, row : McuAt(comps, row)' = McuAt(comps, row)
  BY <1>14, <1>15 DEF McuAt
<1>17. \A comps, row : MCU_rows_per_iMCU_row(comps, row)' = MCU_rows_per_iMCU_row(comps, row)
  BY <1>3, <1>8 DEF MCU_rows_per_iMCU_row
<1>18. \A comps, row : FirstMcuRow(comps, row)' = FirstMcuRow(comps, row)
  BY <1>3 DEF FirstMcuRow
<1>19. \A comps : McuRows(comps)' = McuRows(comps)
  BY <1>3 DEF McuRows
<1>20. \A k : ScanUnits(k)' = ScanUnits(k)
  BY <1>16, <1>19 DEF ScanUnits
<1>21. \A k : Start(k)' = Start(k)
  BY <1>20 DEF Start
<1>22. \A k, n : Written(k, n)' = Written(k, n)
  BY <1>20, <1>21 DEF Written
<1>23. ExpectedFile' = ExpectedFile
  BY <1>20 DEF ExpectedFile
<1> QED
  BY <1>1, <1>2, <1>3, <1>4, <1>5, <1>6, <1>7, <1>8, <1>9, <1>12, <1>14, <1>17, <1>18, <1>20, <1>21, <1>22, <1>23
     DEF Steady, SteadySizes, SteadyRows, SteadyScans

-----------------------------------------------------------------------------
(* Sampling                                                                   *)

\* The color buffer holds the lines of row group g from its row first on, and
\* the lines around them when there are context rows.
Shows(color, first, g) ==
    /\ \A k \in 0..(max_v_samp_factor - 1) : color[(first + k) % buf_height] = Clamp(g * max_v_samp_factor + k)
    /\ need_context_rows =>
          /\ color[(first + max_v_samp_factor) % buf_height] = Clamp(g * max_v_samp_factor + max_v_samp_factor)
          /\ \A k \in 0..(max_v_samp_factor - 1) :
                color[(first + (k - 1 + buf_height)) % buf_height] = Clamp(g * max_v_samp_factor + k - 1)

\* A row group that is downsampled from its lines has the samples of the
\* picture, whatever the sampling of the component.
LEMMA RowDownsampled ==
  ASSUME img \in Pictures, NEW c \in Comps, NEW g \in Nat, NEW i \in 0..(rgh(c) - 1), NEW first \in Nat, NEW color,
         Shows(color, first, g), Padded(c, g * rgh(c) + i) = g * rgh(c) + i
  PROVE  Downsample(color, first, c, i) = SampleRow(c, g * rgh(c) + i)
<1> DEFINE V == max_v_samp_factor
           e == v_expand(c)
           h == rgh(c)
           top == i * e
<1>1. V \in 1..4 /\ e \in Nat \ {0} /\ h \in Nat \ {0} /\ h * e = V
  BY Sampling, MaxSampling DEF SamplingOK
<1>2. (g * h + i) * e = g * V + top
  <2>1. (g * h + i) * e = g * (h * e) + i * e
    BY <1>1
  <2> QED
    BY <1>1, <2>1
<1>3. top \in Nat /\ top + e <= V
  <2>1. i * e + e <= h * e
    <3>1. i + 1 \in Nat /\ i + 1 <= h /\ i \in Nat
      BY <1>1
    <3>2. (i + 1) * e <= h * e
      BY <1>1, <3>1, MulMono
    <3>3. (i + 1) * e = i * e + e
      BY <1>1, <3>1
    <3> QED
      BY <3>2, <3>3
  <2> QED
    BY <1>1, <2>1
<1>4. \A k \in 0..(e - 1) : top + k \in 0..(V - 1)
  BY <1>1, <1>3
<1> DEFINE At(k) == color[(first + k) % buf_height]
           R == g * h + i
<1>5. \A k \in 0..(e - 1) : At(top + k) = Clamp(R * e + k)
  <2> SUFFICES ASSUME NEW k \in 0..(e - 1)
               PROVE  At(top + k) = Clamp(R * e + k)
    OBVIOUS
  <2>1. color[(first + (top + k)) % buf_height] = Clamp(g * V + (top + k))
    BY <1>4 DEF Shows
  <2>2. g * V + (top + k) = R * e + k
    <3>1. g * V \in Int /\ top \in Int /\ k \in Int
      BY <1>1, <1>3
    <3> HIDE DEF top, e, V
    <3> QED
      BY <1>2, <3>1
  <2> QED
    BY <2>1, <2>2
<1>6. ASSUME Smooths(c)
      PROVE  At(top - 1 + buf_height) = Clamp(R * e - 1) /\ At(top + e) = Clamp(R * e + e)
  <2>1. need_context_rows
    BY <1>6 DEF Smooths, need_context_rows
  <2>2. top \in 0..(V - 1) /\ top + e \in 1..V
    BY <1>1, <1>3
  <2>3. At(top - 1 + buf_height) = Clamp(g * V + top - 1)
    BY <2>1, <2>2 DEF Shows
  <2>4. At(top + e) = Clamp(g * V + (top + e))
    <3>1. CASE top + e = V
      BY <2>1, <3>1 DEF Shows
    <3>2. CASE top + e # V
      <4>1. top + e \in 0..(V - 1)
        BY <1>1, <2>2, <3>2
      <4> QED
        BY <4>1 DEF Shows
    <3> QED
      BY <3>1, <3>2
  <2>5. g * V + top - 1 = R * e - 1 /\ g * V + (top + e) = R * e + e
    <3>1. g * V \in Int /\ top \in Int /\ e \in Int
      BY <1>1, <1>3
    <3> HIDE DEF top, e, V
    <3> QED
      BY <1>2, <3>1
  <2> QED
    BY <2>3, <2>4, <2>5
<1>7. Downsample(color, first, c, i)
        = [mid |-> {At(top + k) : k \in 0..(e - 1)},
           near |-> IF Smooths(c) THEN {At(top - 1 + buf_height), At(top + e)} ELSE {}]
  BY DEF Downsample
<1>8. SampleRow(c, R)
        = [mid |-> {Clamp(R * e + k) : k \in 0..(e - 1)},
           near |-> IF Smooths(c) THEN {Clamp(R * e - 1), Clamp(R * e + e)} ELSE {}]
  BY DEF SampleRow
<1>9. {At(top + k) : k \in 0..(e - 1)} = {Clamp(R * e + k) : k \in 0..(e - 1)}
  <2> HIDE DEF At, top, e, R
  <2> QED
    BY <1>5
<1> HIDE DEF At, top, e, R
<1>10. Downsample(color, first, c, i) = SampleRow(c, R)
  BY <1>6, <1>7, <1>8, <1>9
<1> QED
  BY <1>10 DEF R, h

\* The rows of component c of the main buffer, of which it holds n row groups.
HasGroups(buf, c, n) ==
    \A r \in 0..(n * rgh(c) - 1) : buf[c][r] = SampleRow(c, cur_iMCU_row * DCTSIZE * rgh(c) + r)

\* sep_downsample adds to the main buffer the row group that the color buffer
\* shows, and leaves the row groups before it.
LEMMA GroupDownsampled ==
  ASSUME img \in Pictures, NEW c \in Comps, NEW first \in Nat, NEW color,
         cur_iMCU_row \in Nat, rowgroup_ctr \in 0..(DCTSIZE - 1), ShapeOK,
         Shows(color, first, Groups), HasGroups(buffer, c, rowgroup_ctr),
         \A i \in 0..(rgh(c) - 1) : Padded(c, Groups * rgh(c) + i) = Groups * rgh(c) + i
  PROVE  HasGroups(Downsampled(color, first), c, rowgroup_ctr + 1)
<1> DEFINE h == rgh(c)
           n == rowgroup_ctr
           base == cur_iMCU_row * DCTSIZE
<1>1. h \in Nat \ {0} /\ n \in Nat /\ n + 1 <= DCTSIZE /\ DCTSIZE \in Nat /\ base \in Nat
  BY Sampling, ImageAssumption DEF SamplingOK
<1>2. Groups = base + n
  BY DEF Groups
<1> HIDE DEF base
<1> SUFFICES ASSUME NEW r \in 0..((n + 1) * h - 1)
             PROVE  Downsampled(color, first)[c][r] = SampleRow(c, base * h + r)
  BY DEF HasGroups, base
<1>3. (n + 1) * h <= DCTSIZE * h /\ (n + 1) * h = n * h + h /\ n * h \in Nat
  BY <1>1, MulMono
<1>4. DOMAIN buffer[c] = 0..(DCTSIZE * h - 1)
  BY DEF ShapeOK
<1>5. r \in DOMAIN buffer[c]
  BY <1>1, <1>3, <1>4
<1>6. Downsampled(color, first)[c][r] = IF r \div h = n THEN Downsample(color, first, c, r % h) ELSE buffer[c][r]
  BY <1>5 DEF Downsampled
<1>7. CASE r < n * h
  <2>1. r \div h # n
    <3>1. SUFFICES ASSUME r \div h = n
                   PROVE  FALSE
      OBVIOUS
    <3>2. r = h * (r \div h) + (r % h) /\ r % h >= 0
      BY <1>1
    <3> QED
      BY <1>1, <1>3, <1>7, <3>1, <3>2
  <2>2. r \in 0..(n * h - 1)
    BY <1>3, <1>7
  <2> QED
    BY <1>6, <2>1, <2>2 DEF HasGroups, base
<1>8. CASE r >= n * h
  <2> DEFINE i == r - n * h
  <2>1. i \in 0..(h - 1) /\ r = n * h + i
    BY <1>1, <1>3, <1>8
  <2> HIDE DEF i
  <2>2. r \div h = n /\ r % h = i
    BY <1>1, <2>1, DivMul
  <2>3. Groups * h + i = base * h + r
    BY <1>1, <1>2, <2>1
  <2>4. Groups \in Nat
    BY <1>1, <1>2
  <2>5. Downsample(color, first, c, i) = SampleRow(c, Groups * h + i)
    BY <2>1, <2>4, RowDownsampled
  <2> QED
    BY <1>6, <2>2, <2>3, <2>5
<1> QED
  BY <1>1, <1>3, <1>7, <1>8

-----------------------------------------------------------------------------
(* Preprocessing                                                              *)

\* A round that takes n lines, or pads when there are none left, keeps the
\* count of the lines.
LEMMA RoundCounts ==
  ASSUME img \in Pictures, LinesOK, CallOK, NEW n \in Nat, n <= in_rows_avail - in_row_ctr, n > 0 \/ rows_to_go = 0,
         img' = img, pc = "lines", cur_iMCU_row < total_iMCU_rows, rowgroup_ctr < DCTSIZE,
         in_row_ctr' = in_row_ctr + n, rows_to_go' = rows_to_go - n, rowgroup_ctr' \in 0..DCTSIZE,
         UNCHANGED <<pc, sent, in_rows_avail, suspended, cur_iMCU_row>>
  PROVE  /\ LinesOK' /\ CallOK' /\ Taken = sent + in_row_ctr /\ Taken' = Taken + n /\ Taken' <= img.image_height
         /\ n <= rows_to_go /\ ~suspended /\ img.image_height = rows_to_go + Taken /\ Taken \in Nat
<1>1. total_iMCU_rows' = total_iMCU_rows /\ total_iMCU_rows \in Nat /\ img.image_height \in Nat /\ DCTSIZE \in Nat
  BY PictureStays, Sizes, ImageAssumption DEF Steady, SizesOK
<1>2. ~suspended /\ suspended' = suspended /\ Held = 0 /\ Held' = 0
  <2>1. ~suspended
    BY <1>1 DEF LinesOK
  <2> QED
    BY <2>1 DEF Held
<1>3. Taken = sent + in_row_ctr /\ Taken' = Taken + n /\ sent \in Nat /\ in_row_ctr \in Nat /\ in_rows_avail \in Nat /\ rows_to_go \in Nat
  BY <1>2 DEF Taken, LinesOK
<1>4. in_row_ctr + n <= in_rows_avail /\ in_rows_avail <= img.image_height - sent
  BY <1>3 DEF CallOK
<1>5. rows_to_go = img.image_height - Taken /\ n <= rows_to_go
  BY <1>1, <1>3, <1>4 DEF LinesOK
<1>6. LinesOK'
  <2>1. (rows_to_go \in Nat /\ rows_to_go = img.image_height - Taken)'
    BY <1>1, <1>3, <1>5
  <2>2. (sent \in Nat /\ in_row_ctr \in Nat /\ in_rows_avail \in Nat /\ suspended \in BOOLEAN)'
    BY <1>2, <1>3 DEF LinesOK
  <2>3. (cur_iMCU_row \in 0..total_iMCU_rows /\ rowgroup_ctr \in 0..DCTSIZE /\ cur_iMCU_row # total_iMCU_rows)'
    BY <1>1 DEF LinesOK
  <2> QED
    BY <2>1, <2>2, <2>3, <1>2 DEF LinesOK
<1>7. in_row_ctr' > 0
  BY <1>3 DEF CallOK, LinesOK
<1>8. CallOK'
  BY <1>1, <1>2, <1>3, <1>4, <1>7 DEF CallOK
<1> QED
  BY <1>1, <1>2, <1>3, <1>4, <1>5, <1>6, <1>8

\* Without context rows only the row groups that begin in the picture are
\* sampled, and the last of them repeats below it.
LEMMA PaddedRows ==
  ASSUME img \in Pictures, ~need_context_rows, NEW c \in Comps, NEW g \in Nat, g * max_v_samp_factor < img.image_height
  PROVE  /\ \A i \in 0..(rgh(c) - 1) : Padded(c, g * rgh(c) + i) = g * rgh(c) + i
         /\ img.image_height <= (g + 1) * max_v_samp_factor =>
               \A R \in Nat : R >= (g + 1) * rgh(c) => SampleRow(c, R) = SampleRow(c, (g + 1) * rgh(c) - 1)
<1> DEFINE V == max_v_samp_factor
           H == img.image_height
           h == rgh(c)
           n == jdiv_round_up(H, V)
<1>1. V \in Nat \ {0} /\ H \in Nat /\ h \in Nat \ {0}
  BY Sizes, Sampling DEF SizesOK, SamplingOK
<1>2. \A R : Padded(c, R) = LeastOf(R, n * h - 1)
  BY DEF Padded
<1> HIDE DEF V, H, h, n
<1>3. n \in Nat /\ H <= n * V /\ n * V < H + V
  BY <1>1, RoundUp DEF n
<1>4. g + 1 <= n
  <2>1. g * V < n * V /\ g * V \in Int /\ n * V \in Int
    BY <1>1, <1>3 DEF V, H
  <2> QED
    BY <1>1, <1>3, <2>1, MulCancel
<1>5. (g + 1) * h <= n * h /\ (g + 1) * h = g * h + h /\ g * h \in Nat /\ n * h \in Nat
  BY <1>1, <1>3, <1>4, MulMono
<1>6. ASSUME NEW i \in 0..(h - 1)
      PROVE  Padded(c, g * h + i) = g * h + i
  <2>1. g * h + i <= n * h - 1
    BY <1>1, <1>5
  <2> QED
    BY <1>1, <1>2, <1>5, <2>1 DEF LeastOf
<1>7. ASSUME H <= (g + 1) * V, NEW R \in Nat, R >= (g + 1) * h
      PROVE  SampleRow(c, R) = SampleRow(c, (g + 1) * h - 1)
  <2>1. n = g + 1
    <3>1. n * V < (g + 2) * V
      <4>1. (g + 2) * V = (g + 1) * V + V /\ (g + 1) * V \in Nat
        BY <1>1
      <4> QED
        BY <1>1, <1>3, <1>7, <4>1
    <3>2. n < g + 2
      BY <3>1, <1>1, <1>3, MulCancel
    <3> QED
      BY <1>3, <1>4, <3>2
  <2>2. Padded(c, R) = n * h - 1 /\ Padded(c, (g + 1) * h - 1) = n * h - 1
    BY <1>1, <1>2, <1>5, <1>7, <2>1 DEF LeastOf
  <2> QED
    BY <2>2 DEF SampleRow
<1> QED
  BY <1>6, <1>7 DEF V, H, h

\* Clamp of a line of the picture, and of a line below it.
LEMMA ClampOf ==
  ASSUME img \in Pictures, NEW j \in Int
  PROVE  /\ j \in 0..(img.image_height - 1) => Clamp(j) = j
         /\ j >= img.image_height - 1 => Clamp(j) = img.image_height - 1
         /\ j < 0 => Clamp(j) = 0
<1>1. img.image_height \in Nat \ {0}
  BY Sizes DEF SizesOK
<1> QED
  BY <1>1 DEF Clamp, LeastOf

\* What color_convert does to the rows of the color buffer.
LEMMA Converted ==
  ASSUME NEW n \in Nat, next_buf_row \in Nat, Taken = sent + in_row_ctr, Taken \in Nat,
         next_buf_row + n <= buf_height, buf_height \in Nat, DOMAIN color_buf = 0..(buf_height - 1)
  PROVE  /\ DOMAIN color_convert(n) = DOMAIN color_buf
         /\ \A r \in 0..(buf_height - 1) :
              color_convert(n)[r] = IF next_buf_row <= r /\ r < next_buf_row + n THEN Taken + r - next_buf_row ELSE color_buf[r]
<1>1. DOMAIN color_convert(n) = DOMAIN color_buf
  BY DEF color_convert
<1>2. ASSUME NEW r \in 0..(buf_height - 1)
      PROVE  color_convert(n)[r] = IF next_buf_row <= r /\ r < next_buf_row + n THEN Taken + r - next_buf_row ELSE color_buf[r]
  <2>1. r \in next_buf_row..(next_buf_row + n - 1) <=> (next_buf_row <= r /\ r < next_buf_row + n)
    OBVIOUS
  <2>2. color_convert(n)[r] = IF r \in next_buf_row..(next_buf_row + n - 1) THEN sent + in_row_ctr + r - next_buf_row ELSE color_buf[r]
    BY DEF color_convert
  <2> QED
    BY <2>1, <2>2
<1> QED
  BY <1>1, <1>2

\* What expand_bottom_edge makes of a buffer.
EdgeOf(new, buf, from, to, height) ==
    /\ DOMAIN new = 0..(height - 1)
    /\ \A r \in 0..(height - 1) :
          new[r] = IF from <= r /\ r < to THEN buf[IF from = 0 THEN height - 1 ELSE from - 1] ELSE buf[r]

\* What expand_bottom_edge makes of a buffer, row by row.
LEMMA Expanded ==
  ASSUME NEW buf, NEW height \in Nat \ {0}, DOMAIN buf = 0..(height - 1), NEW from \in Nat, NEW to \in Nat, from <= height, to <= height
  PROVE  EdgeOf(expand_bottom_edge(buf, from, to, height), buf, from, to, height)
<1>1. (from - 1 + height) % height = IF from = 0 THEN height - 1 ELSE from - 1
  <2>1. CASE from = 0
    BY <2>1
  <2>2. CASE from > 0
    <3> DEFINE x == from - 1 + height
    <3>1. x \in Int /\ height <= x /\ 0 <= x /\ x < 2 * height /\ x - height = from - 1
      BY <2>2
    <3> HIDE DEF x
    <3>2. x % height = IF x < height THEN x ELSE x - height
      BY <3>1, ModSmall
    <3> QED
      BY <2>2, <3>1, <3>2 DEF x
  <2> QED
    BY <2>1, <2>2
<1>2. \A r \in 0..(height - 1) : r \in from..(to - 1) <=> (from <= r /\ r < to)
  OBVIOUS
<1> QED
  BY <1>1, <1>2 DEF expand_bottom_edge, EdgeOf

\* A round without context rows keeps what is known of the buffers.
Kept == /\ img' = img
        /\ UNCHANGED <<pc, sent, in_rows_avail, suspended, cur_iMCU_row, whole_image>>

\* A step that keeps the sizes of the buffers and the coefficient arrays keeps
\* their shape.
LEMMA ShapeStays ==
  ASSUME ShapeOK, Kept, DOMAIN buffer' = Comps, \A c \in Comps : DOMAIN buffer'[c] = DOMAIN buffer[c],
         DOMAIN color_buf' = DOMAIN color_buf
  PROVE  ShapeOK'
<1>1. Comps' = Comps /\ buf_height' = buf_height /\ total_iMCU_rows' = total_iMCU_rows /\ \A c : rgh(c)' = rgh(c)
  BY PictureStays DEF Kept, Steady, SteadySizes
<1>2. \A c \in Comps : DOMAIN whole_image'[c] = DOMAIN whole_image[c] /\ img'.v[c] = img.v[c]
  BY DEF Kept
<1>3. DOMAIN whole_image' = DOMAIN whole_image
  BY DEF Kept
<1> QED
  BY <1>1, <1>2, <1>3, Zenon DEF ShapeOK

\* Downsampling keeps the size of the main buffer.
LEMMA DownsampledShape ==
  ASSUME NEW color, NEW first
  PROVE  /\ DOMAIN Downsampled(color, first) = Comps
         /\ \A c \in Comps : DOMAIN Downsampled(color, first)[c] = DOMAIN buffer[c]
BY DEF Downsampled

\* The rows of the main buffer are those of the picture in the next state too,
\* if the buffer has them.
LEMMA BufferStays ==
  ASSUME img' = img, cur_iMCU_row' = cur_iMCU_row, NEW buf, buffer' = buf, NEW n, rowgroup_ctr' = n,
         \A c \in Comps : HasGroups(buf, c, n)
  PROVE  BufferOK'
<1>1. Comps' = Comps /\ (\A c : rgh(c)' = rgh(c)) /\ (\A c, R : SampleRow(c, R)' = SampleRow(c, R))
  BY PictureStays DEF Steady, SteadySizes, SteadyRows
<1> SUFFICES ASSUME NEW c \in Comps
             PROVE  \A r \in 0..(n * rgh(c) - 1) : buf[c][r] = SampleRow(c, cur_iMCU_row * DCTSIZE * rgh(c) + r)
  BY <1>1 DEF BufferOK
<1> QED
  BY DEF HasGroups

\* The line that follows the last row group is in the last iMCU row.
LEMMA LastRowGroup ==
  ASSUME img \in Pictures, NEW row \in Nat, NEW n \in Nat, n < DCTSIZE, row < total_iMCU_rows,
         img.image_height <= (row * DCTSIZE + n + 1) * max_v_samp_factor
  PROVE  row = total_iMCU_rows - 1
<1> DEFINE V == max_v_samp_factor
           H == img.image_height
           t == total_iMCU_rows
           q == V * DCTSIZE
<1>1. V \in Nat \ {0} /\ H \in Nat /\ t \in Nat \ {0} /\ (t - 1) * q < H /\ DCTSIZE \in Nat \ {0}
  BY Sizes, ImageAssumption DEF SizesOK
<1> SUFFICES ASSUME row + 1 <= t - 1
             PROVE  FALSE
  BY <1>1
<1> HIDE DEF V, H, t, q
<1>2. q = V * DCTSIZE /\ q \in Nat
  BY <1>1 DEF q
<1>3. (row + 1) * q <= (t - 1) * q
  BY <1>1, <1>2, MulMono
<1>4. (row * DCTSIZE + n + 1) * V <= (row * DCTSIZE + DCTSIZE) * V
  <2>1. row * DCTSIZE + n + 1 \in Nat /\ row * DCTSIZE + DCTSIZE \in Nat /\ row * DCTSIZE + n + 1 <= row * DCTSIZE + DCTSIZE
    BY <1>1
  <2> QED
    BY <1>1, <2>1, MulMono
<1>5. (row * DCTSIZE + DCTSIZE) * V = (row + 1) * q
  BY <1>1, <1>2
<1>6. (row + 1) * q \in Int /\ (t - 1) * q \in Int /\ (row * DCTSIZE + n + 1) * V \in Int
  BY <1>1, <1>2
<1> QED
  BY <1>1, <1>3, <1>4, <1>5, <1>6 DEF V, H

\* A round of pre_process_data keeps the invariant of the preprocessor
\* without context rows.
LEMMA PlainStep ==
  ASSUME img \in Pictures, ~need_context_rows, ShapeOK, LinesOK, CallOK, PlainOK, BufferOK,
         pc = "lines", cur_iMCU_row < total_iMCU_rows, rowgroup_ctr < DCTSIZE, Kept, pre_process_data
  PROVE  ShapeOK' /\ LinesOK' /\ CallOK' /\ PlainOK' /\ BufferOK'
<1> DEFINE V == max_v_samp_factor
           H == img.image_height
           g == Groups
           n == LeastOf(V - next_buf_row, in_rows_avail - in_row_ctr)
           row == next_buf_row + n
           bottom == rows_to_go = n
           full == bottom \/ row = V
           conv == color_convert(n)
           color == IF bottom THEN expand_bottom_edge(conv, row, V, V) ELSE conv
           groups == IF full THEN rowgroup_ctr + 1 ELSE rowgroup_ctr
           rows == IF full THEN Downsampled(color, 0) ELSE buffer
<1>1. /\ V \in 1..4 /\ H \in Nat \ {0} /\ DCTSIZE \in Nat \ {0} /\ buf_height = V /\ total_iMCU_rows \in Nat \ {0}
      /\ cur_iMCU_row \in Nat /\ rowgroup_ctr \in Nat /\ next_buf_row \in 0..(V - 1)
  <2>1. next_buf_row \in 0..(V - 1)
    BY DEF PlainOK
  <2>2. V \in 1..4 /\ H \in Nat \ {0} /\ DCTSIZE \in Nat \ {0} /\ total_iMCU_rows \in Nat \ {0}
    BY Sizes, ImageAssumption DEF SizesOK
  <2>3. buf_height = V
    BY <2>2 DEF buf_height
  <2> QED
    BY <2>1, <2>2, <2>3 DEF LinesOK
<1>2. g = cur_iMCU_row * DCTSIZE + rowgroup_ctr /\ g \in Nat
  BY <1>1 DEF Groups
<1>3. n \in Nat \ {0} /\ n <= in_rows_avail - in_row_ctr /\ row \in 1..V
  <2>1. in_row_ctr \in Nat /\ in_rows_avail \in Nat /\ in_row_ctr < in_rows_avail
    BY DEF LinesOK, pre_process_data
  <2> QED
    BY <1>1, <2>1 DEF LeastOf
<1>4. /\ in_row_ctr' = in_row_ctr + n
      /\ rows_to_go' = rows_to_go - n
      /\ color_buf' = color
      /\ next_buf_row' = IF full THEN 0 ELSE row
      /\ buffer' = IF bottom THEN PadBuffer(rows, groups) ELSE rows
      /\ rowgroup_ctr' = IF bottom THEN DCTSIZE ELSE groups
  BY DEF pre_process_data
<1>5. img' = img /\ UNCHANGED <<pc, sent, in_rows_avail, suspended, cur_iMCU_row, whole_image>>
  BY DEF Kept
<1> HIDE DEF V, H, g, n, row, bottom, full, conv, color, groups, rows
<1>6. /\ LinesOK' /\ CallOK' /\ Taken = sent + in_row_ctr /\ Taken' = Taken + n /\ Taken' <= H
      /\ n <= rows_to_go /\ H = rows_to_go + Taken /\ Taken \in Nat
  <2>1. rowgroup_ctr' \in 0..DCTSIZE
    BY <1>1, <1>4 DEF groups
  <2> QED
    BY <1>3, <1>4, <1>5, <2>1, RoundCounts DEF H
<1>7. rows_to_go > 0 /\ rows_to_go \in Nat
  BY <1>3, <1>6 DEF LinesOK
<1>8. Taken = g * V + next_buf_row /\ \A r \in 0..(next_buf_row - 1) : color_buf[r] = g * V + r
  BY <1>7 DEF PlainOK, g, V
<1>9. g * V \in Nat /\ row = next_buf_row + n
  BY <1>1, <1>2 DEF row
<1>10. DOMAIN color_buf = 0..(V - 1)
  BY <1>1 DEF ShapeOK
<1>11. DOMAIN conv = 0..(V - 1) /\ \A r \in 0..(V - 1) : r < row => conv[r] = g * V + r
  <2>1. DOMAIN conv = 0..(V - 1) /\ \A r \in 0..(V - 1) : conv[r] = IF next_buf_row <= r /\ r < next_buf_row + n THEN Taken + r - next_buf_row ELSE color_buf[r]
    BY <1>1, <1>3, <1>6, <1>9, <1>10, Converted DEF conv
  <2>2. ASSUME NEW r \in 0..(V - 1), r < row
        PROVE  conv[r] = g * V + r
    <3>1. CASE next_buf_row <= r
      BY <1>8, <1>9, <1>1, <2>1, <2>2, <3>1
    <3>2. CASE ~ (next_buf_row <= r)
      BY <1>8, <1>1, <2>1, <3>2
    <3> QED
      BY <3>1, <3>2
  <2> QED
    BY <2>1, <2>2
<1>12. IF bottom THEN H = g * V + row ELSE g * V + row < H
  BY <1>1, <1>3, <1>6, <1>7, <1>8, <1>9 DEF bottom
<1>13. DOMAIN color = 0..(V - 1) /\ (full => Shows(color, 0, g))
  <2>1. CASE bottom
    <3>1. color = expand_bottom_edge(conv, row, V, V)
      BY <2>1 DEF color
    <3>2. row \in Nat /\ row <= V /\ row # 0 /\ V \in Nat \ {0}
      BY <1>1, <1>3
    <3>3. DOMAIN color = 0..(V - 1) /\ \A r \in 0..(V - 1) : color[r] = IF row <= r /\ r < V THEN conv[row - 1] ELSE conv[r]
      <4>1. EdgeOf(color, conv, row, V, V)
        BY <1>11, <3>1, <3>2, Expanded
      <4> QED
        BY <3>2, <4>1 DEF EdgeOf
    <3>4. ASSUME NEW k \in 0..(V - 1)
          PROVE  color[(0 + k) % buf_height] = Clamp(g * V + k)
      <4>1. (0 + k) % buf_height = k
        BY <1>1
      <4>2. CASE k < row
        <5>1. color[k] = g * V + k
          BY <1>11, <3>3, <4>2, <3>2
        <5>2. g * V + k \in 0..(H - 1)
          BY <1>1, <1>9, <1>12, <2>1, <4>2, <3>2
        <5> QED
          BY <4>1, <5>1, <5>2, ClampOf DEF H
      <4>3. CASE row <= k
        <5>1. row - 1 \in 0..(V - 1) /\ row - 1 < row
          BY <3>2
        <5>2. color[k] = g * V + (row - 1)
          <6>1. color[k] = conv[row - 1]
            BY <3>2, <3>3, <4>3
          <6> QED
            BY <1>11, <5>1, <6>1
        <5>3. g * V + k \in Int /\ g * V + k >= H - 1 /\ g * V + (row - 1) = H - 1
          BY <1>1, <1>9, <1>12, <2>1, <4>3, <3>2
        <5> QED
          BY <4>1, <5>2, <5>3, ClampOf DEF H
      <4> QED
        BY <4>2, <4>3, <3>2
    <3> QED
      BY <3>3, <3>4 DEF Shows, V
  <2>2. CASE ~bottom
    <3>1. color = conv
      BY <2>2 DEF color
    <3>2. ASSUME full, NEW k \in 0..(V - 1)
          PROVE  color[(0 + k) % buf_height] = Clamp(g * V + k)
      <4>1. (0 + k) % buf_height = k /\ row = V /\ k < row
        BY <1>1, <2>2, <3>2 DEF full
      <4>2. color[k] = g * V + k
        BY <1>11, <3>1, <4>1
      <4>3. g * V + k \in 0..(H - 1)
        BY <1>1, <1>9, <1>12, <2>2, <4>1
      <4> QED
        BY <4>1, <4>2, <4>3, ClampOf DEF H
    <3> QED
      BY <1>11, <3>1, <3>2 DEF Shows, V
  <2> QED
    BY <2>1, <2>2
<1>14. g * V < H
  BY <1>1, <1>6, <1>7, <1>8, <1>9
<1>15. \A c \in Comps : HasGroups(buffer, c, rowgroup_ctr)
  BY DEF BufferOK, HasGroups
<1>16. ASSUME full, NEW c \in Comps
       PROVE  HasGroups(rows, c, rowgroup_ctr + 1)
  <2>1. rowgroup_ctr \in 0..(DCTSIZE - 1) /\ 0 \in Nat
    BY <1>1
  <2>2. \A i \in 0..(rgh(c) - 1) : Padded(c, Groups * rgh(c) + i) = Groups * rgh(c) + i
    BY <1>2, <1>14, PaddedRows DEF g, V, H
  <2>3. Shows(color, 0, Groups) /\ rows = Downsampled(color, 0)
    BY <1>13, <1>16 DEF rows, g
  <2> QED
    BY <1>1, <1>15, <2>1, <2>2, <2>3, GroupDownsampled
<1>17. \A c \in Comps : HasGroups(rows, c, groups)
  BY <1>15, <1>16 DEF rows, groups
<1>18. DOMAIN rows = Comps /\ \A c \in Comps : DOMAIN rows[c] = DOMAIN buffer[c]
  BY DownsampledShape DEF rows, ShapeOK
<1>19. CASE ~bottom
  <2>1. buffer' = rows /\ rowgroup_ctr' = groups
    BY <1>4, <1>19
  <2>2. ShapeOK'
    BY <1>4, <1>10, <1>13, <1>18, <2>1, ShapeStays
  <2>3. BufferOK'
    BY <1>5, <1>17, <2>1, BufferStays
  <2>4. PlainOK'
    <3>1. V' = V /\ Groups' = cur_iMCU_row * DCTSIZE + groups
      BY <1>5, <2>1, PictureStays DEF Groups, V, Steady
    <3>2. rows_to_go' # 0
      BY <1>4, <1>6, <1>7, <1>19, <1>3 DEF bottom
    <3>3. next_buf_row' \in 0..(V - 1) /\ Taken' = Groups' * V + next_buf_row'
      <4>1. CASE full
        <5>1. row = V /\ Groups' = g + 1 /\ next_buf_row' = 0
          BY <1>1, <1>2, <1>4, <1>19, <3>1, <4>1 DEF full, groups
        <5>2. (g + 1) * V = g * V + V
          BY <1>1, <1>2
        <5> QED
          BY <1>1, <1>6, <1>8, <1>9, <5>1, <5>2, <1>3
      <4>2. CASE ~full
        <5>1. row # V /\ Groups' = g /\ next_buf_row' = row
          BY <1>2, <1>4, <3>1, <4>2 DEF full, groups
        <5> QED
          BY <1>1, <1>6, <1>8, <1>9, <1>3, <5>1
      <4> QED
        BY <4>1, <4>2
    <3>4. \A r \in 0..(next_buf_row' - 1) : color_buf'[r] = Groups' * V + r
      <4>1. CASE full
        BY <1>4, <4>1
      <4>2. CASE ~full
        <5>1. Groups' = g /\ next_buf_row' = row /\ color_buf' = conv
          BY <1>2, <1>4, <1>19, <3>1, <4>2 DEF color, groups
        <5> QED
          BY <1>3, <1>11, <5>1, <1>1
      <4> QED
        BY <4>1, <4>2
    <3> QED
      BY <3>1, <3>2, <3>3, <3>4 DEF PlainOK, V
  <2> QED
    BY <1>6, <2>2, <2>3, <2>4
<1>20. CASE bottom
  <2>1. full /\ groups = rowgroup_ctr + 1 /\ buffer' = PadBuffer(rows, groups) /\ rowgroup_ctr' = DCTSIZE /\ next_buf_row' = 0
    BY <1>4, <1>20 DEF full, groups
  <2>2. (g + 1) * V = g * V + V
    BY <1>1, <1>2
  <2>3. H <= (g + 1) * V
    BY <1>1, <1>3, <1>9, <1>12, <1>20, <2>2
  <2>4. ASSUME NEW c \in Comps
        PROVE  DOMAIN buffer'[c] = DOMAIN buffer[c] /\ HasGroups(buffer', c, DCTSIZE)
    <3> DEFINE h == rgh(c)
               height == DCTSIZE * h
               base == cur_iMCU_row * DCTSIZE
               from == groups * h
    <3>1. h \in Nat \ {0}
      BY Sampling DEF SamplingOK
    <3>2. buffer'[c] = expand_bottom_edge(rows[c], from, height, height)
      BY <2>1 DEF PadBuffer
    <3>3. DOMAIN rows[c] = 0..(height - 1) /\ DOMAIN buffer[c] = 0..(height - 1)
      BY <1>18 DEF ShapeOK
    <3>4. \A r \in 0..(from - 1) : rows[c][r] = SampleRow(c, base * h + r)
      BY <1>17 DEF HasGroups
    <3>5. \A R \in Nat : R >= (g + 1) * h => SampleRow(c, R) = SampleRow(c, (g + 1) * h - 1)
      BY <1>2, <1>14, <2>3, PaddedRows DEF V, H
    <3>6. HasGroups(buffer', c, DCTSIZE) <=> \A r \in 0..(height - 1) : buffer'[c][r] = SampleRow(c, base * h + r)
      BY DEF HasGroups
    <3> HIDE DEF h
    <3>7. base \in Nat /\ height \in Nat \ {0} /\ from \in Nat /\ from # 0 /\ from <= height /\ base * h \in Nat
      <4>1. groups <= DCTSIZE /\ groups \in Nat \ {0}
        BY <1>1, <2>1
      <4>2. groups * h <= DCTSIZE * h
        BY <1>1, <3>1, <4>1, MulMono
      <4>3. groups * h \in Nat \ {0} /\ DCTSIZE * h \in Nat \ {0}
        BY <1>1, <3>1, <4>1
      <4>4. base \in Nat
        BY <1>1
      <4> HIDE DEF base
      <4>5. base * h \in Nat
        BY <3>1, <4>4
      <4> QED
        BY <4>2, <4>3, <4>4, <4>5
    <3>8. base * h + from = (g + 1) * h
      <4>1. g + 1 = base + groups
        BY <1>1, <1>2, <2>1
      <4>2. base \in Nat /\ groups \in Nat
        BY <3>7, <1>1, <2>1
      <4> HIDE DEF base
      <4> QED
        BY <3>1, <4>1, <4>2
    <3> HIDE DEF height, from, base
    <3>9. DOMAIN buffer'[c] = 0..(height - 1)
          /\ \A r \in 0..(height - 1) : buffer'[c][r] = IF from <= r /\ r < height THEN rows[c][from - 1] ELSE rows[c][r]
      <4>1. EdgeOf(buffer'[c], rows[c], from, height, height)
        BY <3>2, <3>3, <3>7, Expanded
      <4> QED
        BY <3>7, <4>1 DEF EdgeOf
    <3>10. ASSUME NEW r \in 0..(height - 1)
           PROVE  buffer'[c][r] = SampleRow(c, base * h + r)
      <4>1. CASE r < from
        <5>1. r \in 0..(from - 1)
          BY <3>7, <4>1
        <5> QED
          BY <3>4, <3>7, <3>9, <4>1, <5>1
      <4>2. CASE from <= r
        <5>1. from - 1 \in 0..(from - 1) /\ r < height
          BY <3>7
        <5>2. buffer'[c][r] = SampleRow(c, base * h + (from - 1))
          BY <3>4, <3>9, <4>2, <5>1
        <5>3. base * h + (from - 1) = (g + 1) * h - 1 /\ base * h + r \in Nat /\ base * h + r >= (g + 1) * h
          BY <3>7, <3>8, <4>2
        <5> QED
          BY <3>5, <5>2, <5>3
      <4> QED
        BY <4>1, <4>2, <3>7
    <3> QED
      BY <3>3, <3>6, <3>9, <3>10
  <2>5. DOMAIN buffer' = Comps
    BY <2>1 DEF PadBuffer
  <2>6. ShapeOK'
    BY <1>4, <1>10, <1>13, <2>4, <2>5, ShapeStays
  <2>7. BufferOK'
    <3>1. \A c \in Comps : HasGroups(buffer', c, DCTSIZE)
      BY <2>4
    <3> DEFINE buf == buffer'
    <3> HIDE DEF buf
    <3>2. buffer' = buf /\ \A c \in Comps : HasGroups(buf, c, DCTSIZE)
      BY <3>1 DEF buf
    <3> QED
      BY <1>5, <2>1, <3>2, BufferStays
  <2>8. PlainOK'
    <3>1. V' = V /\ total_iMCU_rows' = total_iMCU_rows
      BY <1>5, PictureStays DEF V, Steady
    <3>2. rows_to_go' = 0
      BY <1>4, <1>7, <1>20 DEF bottom
    <3>3. cur_iMCU_row = total_iMCU_rows - 1
      BY <1>1, <1>2, <2>3, LastRowGroup DEF H, V
    <3> QED
      BY <1>1, <1>5, <2>1, <3>1, <3>2, <3>3 DEF PlainOK, V
  <2> QED
    BY <1>6, <2>6, <2>7, <2>8
<1> QED
  BY <1>19, <1>20

-----------------------------------------------------------------------------
(* Preprocessing with context rows                                            *)

InContext ==
    /\ img \in Pictures /\ need_context_rows /\ ShapeOK /\ LinesOK /\ CallOK /\ ContextOK /\ BufferOK
    /\ pc = "lines" /\ cur_iMCU_row < total_iMCU_rows /\ rowgroup_ctr < DCTSIZE

\* The line that row 0 of the color buffer holds once it is filled this time,
\* and what the buffer holds when it is filled up to row.
FirstLine == (Groups + 2) * max_v_samp_factor - next_buf_stop
WindowOf(color, first, row) ==
    \A r \in 0..(3 * max_v_samp_factor - 1) :
        IF r < row THEN color[r] = Clamp(first + r)
        ELSE first + r - 3 * max_v_samp_factor >= -max_v_samp_factor => color[r] = Clamp(first + r - 3 * max_v_samp_factor)

\* The numbers of the ring of three row groups.
RingOK ==
    /\ max_v_samp_factor \in 1..4 /\ buf_height = 3 * max_v_samp_factor /\ img.image_height \in Nat \ {0}
    /\ Groups \in Nat /\ Groups * max_v_samp_factor \in Nat
    /\ (Groups + 1 + 2) * max_v_samp_factor = Groups * max_v_samp_factor + 3 * max_v_samp_factor
    /\ next_buf_stop \in {max_v_samp_factor, 2 * max_v_samp_factor, 3 * max_v_samp_factor}
    /\ next_buf_row \in 0..(next_buf_stop - 1)
    /\ FirstLine = Groups * max_v_samp_factor + 2 * max_v_samp_factor - next_buf_stop
    /\ FirstLine \in Nat /\ Filled = FirstLine + next_buf_row
    /\ DOMAIN color_buf = 0..(3 * max_v_samp_factor - 1)
    /\ Filled = 0 => FirstLine = 0 /\ next_buf_row = 0 /\ next_buf_stop = 2 * max_v_samp_factor
    /\ Filled > 0 => WindowOf(color_buf, FirstLine, next_buf_row)

\* Where the lines of the picture are in the ring of the context rows,
\* and which of them are there.
LEMMA Ring ==
  ASSUME InContext
  PROVE  RingOK
<1> DEFINE V == max_v_samp_factor
           g == Groups
           stop == next_buf_stop
           row == next_buf_row
<1>1. V \in 1..4 /\ img.image_height \in Nat \ {0} /\ DCTSIZE \in Nat \ {0} /\ cur_iMCU_row \in Nat /\ rowgroup_ctr \in Nat
  BY Sizes, ImageAssumption DEF SizesOK, InContext, LinesOK
<1>2. buf_height = 3 * V
  BY DEF buf_height, InContext
<1>3. g \in Nat
  BY <1>1 DEF Groups
<1>4. /\ stop \in {V, 2 * V, 3 * V} /\ row \in 0..(stop - 1)
      /\ g = 0 => stop = 2 * V
      /\ g > 0 => stop - row <= V
      /\ WindowOK
  BY DEF InContext, ContextOK
<1>5. FirstLine = (g + 2) * V - stop /\ Filled = (g + 2) * V - stop + row
  BY DEF FirstLine, Filled
<1>6. DOMAIN color_buf = 0..(3 * V - 1)
  BY <1>2 DEF InContext, ShapeOK
<1>7. \A r : LineAt(r) = Filled - row + r - (IF r < row THEN 0 ELSE 3 * V)
  BY DEF LineAt
<1>8. WindowOK <=> (Filled > 0 => \A r \in 0..(3 * V - 1) : LineAt(r) >= -V => color_buf[r] = Clamp(LineAt(r)))
  BY DEF WindowOK
<1>9. \A first : WindowOf(color_buf, first, row) <=> \A r \in 0..(3 * V - 1) :
         IF r < row THEN color_buf[r] = Clamp(first + r)
         ELSE first + r - 3 * V >= -V => color_buf[r] = Clamp(first + r - 3 * V)
  BY DEF WindowOf
<1> HIDE DEF V, g, stop, row
<1>10. g * V \in Nat /\ (g + 2) * V = g * V + 2 * V /\ (g + 1 + 2) * V = g * V + 3 * V
  BY <1>1, <1>3
<1>11. FirstLine = g * V + 2 * V - stop /\ Filled = FirstLine + row
  BY <1>5, <1>10, <1>1, <1>4
<1>12. g > 0 => g * V >= V
  BY <1>1, <1>3
<1>13. FirstLine \in Nat
  BY <1>1, <1>3, <1>4, <1>10, <1>11, <1>12
<1>14. Filled = 0 => FirstLine = 0 /\ row = 0 /\ stop = 2 * V
  BY <1>1, <1>3, <1>4, <1>11, <1>13
<1>15. ASSUME Filled > 0
       PROVE  WindowOf(color_buf, FirstLine, row)
  <2>1. ASSUME NEW r \in 0..(3 * V - 1)
        PROVE  IF r < row THEN color_buf[r] = Clamp(FirstLine + r)
               ELSE FirstLine + r - 3 * V >= -V => color_buf[r] = Clamp(FirstLine + r - 3 * V)
    <3>1. LineAt(r) >= -V => color_buf[r] = Clamp(LineAt(r))
      BY <1>4, <1>8, <1>15
    <3>2. CASE r < row
      <4>1. LineAt(r) = FirstLine + r
        BY <1>1, <1>4, <1>7, <1>11, <1>13, <3>2
      <4>2. FirstLine + r >= -V
        BY <1>1, <1>13
      <4> QED
        BY <3>1, <3>2, <4>1, <4>2
    <3>3. CASE ~ (r < row)
      <4>1. LineAt(r) = FirstLine + r - 3 * V
        BY <1>1, <1>4, <1>7, <1>11, <1>13, <3>3
      <4> QED
        BY <3>1, <3>3, <4>1
    <3> QED
      BY <3>2, <3>3
  <2> QED
    BY <1>9, <2>1
<1> QED
  BY <1>1, <1>2, <1>3, <1>4, <1>6, <1>10, <1>11, <1>13, <1>14, <1>15 DEF RingOK, V, g, stop, row

\* Lines of the application fill the ring.
LEMMA LinesFill ==
  ASSUME InContext, NEW n \in Nat \ {0}, n <= next_buf_stop - next_buf_row, Taken = sent + in_row_ctr, Taken + n <= img.image_height,
         rows_to_go > 0
  PROVE  /\ WindowOf(TopContext(color_convert(n)), FirstLine, next_buf_row + n)
         /\ DOMAIN TopContext(color_convert(n)) = DOMAIN color_buf
         /\ Filled = Taken
<1> DEFINE V == max_v_samp_factor
           H == img.image_height
           L == FirstLine
           nbr == next_buf_row
           row == nbr + n
           conv == color_convert(n)
           color == TopContext(conv)
<1>1. RingOK
  BY Ring
<1>2. /\ V \in 1..4 /\ buf_height = 3 * V /\ H \in Nat \ {0}
      /\ next_buf_stop \in {V, 2 * V, 3 * V} /\ nbr \in 0..(next_buf_stop - 1)
      /\ L \in Nat /\ Filled = L + nbr /\ DOMAIN color_buf = 0..(3 * V - 1)
      /\ Filled = 0 => L = 0 /\ nbr = 0 /\ next_buf_stop = 2 * V
      /\ Filled > 0 => WindowOf(color_buf, L, nbr)
  BY <1>1 DEF RingOK
<1>3. Filled = Taken /\ rows_to_go = H - Taken
  BY DEF InContext, ContextOK, LinesOK
<1>4. color = IF rows_to_go = H THEN [r \in DOMAIN conv |-> IF r >= buf_height - V THEN conv[0] ELSE conv[r]] ELSE conv
  BY DEF TopContext
<1>5. \A f, first, to : WindowOf(f, first, to) <=> \A r \in 0..(3 * V - 1) :
         IF r < to THEN f[r] = Clamp(first + r)
         ELSE first + r - 3 * V >= -V => f[r] = Clamp(first + r - 3 * V)
  BY DEF WindowOf
<1>6. row = nbr + n /\ row <= next_buf_stop /\ row \in Nat
  BY <1>2
<1>7. DOMAIN conv = DOMAIN color_buf
      /\ \A r \in 0..(buf_height - 1) : conv[r] = IF nbr <= r /\ r < nbr + n THEN Taken + r - nbr ELSE color_buf[r]
  BY <1>2, <1>3, Converted
<1> HIDE DEF V, H, L, nbr, row, conv, color
<1>8. DOMAIN color = DOMAIN color_buf
  BY <1>4, <1>7
<1>9. \A r \in 0..(3 * V - 1) : nbr <= r /\ r < row => conv[r] = Clamp(L + r)
  <2> SUFFICES ASSUME NEW r \in 0..(3 * V - 1), nbr <= r, r < row
               PROVE  conv[r] = Clamp(L + r)
    OBVIOUS
  <2>1. conv[r] = L + r
    BY <1>2, <1>3, <1>6, <1>7
  <2>2. L + r \in 0..(H - 1)
    BY <1>2, <1>3, <1>6 DEF H
  <2> QED
    BY <2>1, <2>2, ClampOf DEF H, InContext
<1>10. \A r \in 0..(3 * V - 1) : ~ (nbr <= r /\ r < row) => conv[r] = color_buf[r]
  BY <1>2, <1>6, <1>7
<1>11. CASE Filled > 0
  <2>1. rows_to_go # H
    BY <1>2, <1>3, <1>11
  <2>2. color = conv
    BY <1>4, <2>1
  <2>3. ASSUME NEW r \in 0..(3 * V - 1)
        PROVE  IF r < row THEN color[r] = Clamp(L + r)
               ELSE L + r - 3 * V >= -V => color[r] = Clamp(L + r - 3 * V)
    <3>1. IF r < nbr THEN color_buf[r] = Clamp(L + r)
          ELSE L + r - 3 * V >= -V => color_buf[r] = Clamp(L + r - 3 * V)
      BY <1>2, <1>5, <1>11
    <3>2. CASE r < nbr
      <4>1. r < row /\ ~ (nbr <= r)
        BY <1>2, <1>6, <3>2
      <4> QED
        BY <1>10, <2>2, <3>1, <3>2, <4>1
    <3>3. CASE nbr <= r /\ r < row
      BY <1>9, <2>2, <3>3
    <3>4. CASE row <= r
      <4>1. ~ (r < row) /\ ~ (r < nbr)
        BY <1>2, <1>6, <3>4
      <4> QED
        BY <1>10, <2>2, <3>1, <4>1
    <3> QED
      BY <1>2, <1>6, <3>2, <3>3, <3>4
  <2> QED
    BY <1>3, <1>5, <1>8, <2>3 DEF L, V, row, nbr, color, conv
<1>12. CASE Filled = 0
  <2>1. rows_to_go = H /\ L = 0 /\ nbr = 0 /\ next_buf_stop = 2 * V /\ row <= 2 * V /\ 0 < row
    BY <1>2, <1>3, <1>6, <1>12
  <2>2. DOMAIN conv = 0..(3 * V - 1)
    BY <1>2, <1>7
  <2>3. \A r \in 0..(3 * V - 1) : color[r] = IF r >= 2 * V THEN conv[0] ELSE conv[r]
    <3>1. buf_height - V = 2 * V
      BY <1>2
    <3> QED
      BY <1>4, <2>1, <2>2, <3>1
  <2>4. conv[0] = 0
    BY <1>2, <1>3, <1>6, <1>7, <1>12, <2>1
  <2>5. ASSUME NEW r \in 0..(3 * V - 1)
        PROVE  IF r < row THEN color[r] = Clamp(L + r)
               ELSE L + r - 3 * V >= -V => color[r] = Clamp(L + r - 3 * V)
    <3>1. CASE r < row
      BY <1>2, <1>6, <1>9, <2>1, <2>3, <3>1
    <3>2. ASSUME ~ (r < row), L + r - 3 * V >= -V
          PROVE  color[r] = Clamp(L + r - 3 * V)
      <4>1. r >= 2 * V /\ L + r - 3 * V \in Int /\ L + r - 3 * V < 0
        BY <1>2, <2>1, <3>2
      <4>2. Clamp(L + r - 3 * V) = 0
        BY <4>1, ClampOf DEF InContext
      <4> QED
        BY <2>3, <2>4, <4>1, <4>2
    <3> QED
      BY <3>1, <3>2
  <2> QED
    BY <1>3, <1>5, <1>8, <2>5 DEF L, V, row, nbr, color, conv
<1> QED
  BY <1>2, <1>11, <1>12

\* Below the picture the last line fills the ring.
LEMMA BottomFills ==
  ASSUME InContext, rows_to_go = 0
  PROVE  LET color == expand_bottom_edge(color_buf, next_buf_row, next_buf_stop, buf_height)
         IN  /\ WindowOf(color, FirstLine, next_buf_stop)
             /\ DOMAIN color = DOMAIN color_buf
             /\ Filled >= img.image_height
<1> DEFINE V == max_v_samp_factor
           H == img.image_height
           L == FirstLine
           nbr == next_buf_row
           stop == next_buf_stop
           color == expand_bottom_edge(color_buf, nbr, stop, buf_height)
<1>1. RingOK
  BY Ring
<1>2. /\ V \in 1..4 /\ buf_height = 3 * V /\ H \in Nat \ {0}
      /\ stop \in {V, 2 * V, 3 * V} /\ nbr \in 0..(stop - 1)
      /\ L \in Nat /\ Filled = L + nbr /\ DOMAIN color_buf = 0..(3 * V - 1)
      /\ Filled > 0 => WindowOf(color_buf, L, nbr)
  BY <1>1 DEF RingOK
<1>3. Filled >= H
  BY DEF InContext, ContextOK
<1>4. \A f, first, to : WindowOf(f, first, to) <=> \A r \in 0..(3 * V - 1) :
         IF r < to THEN f[r] = Clamp(first + r)
         ELSE first + r - 3 * V >= -V => f[r] = Clamp(first + r - 3 * V)
  BY DEF WindowOf
<1>5. EdgeOf(color, color_buf, nbr, stop, 3 * V)
  BY <1>2, Expanded
<1> HIDE DEF V, H, L, nbr, stop, color
<1>6. DOMAIN color = 0..(3 * V - 1)
      /\ \A r \in 0..(3 * V - 1) : color[r] = IF nbr <= r /\ r < stop THEN color_buf[IF nbr = 0 THEN 3 * V - 1 ELSE nbr - 1] ELSE color_buf[r]
  BY <1>5 DEF EdgeOf
<1>7. \A r \in 0..(3 * V - 1) :
         IF r < nbr THEN color_buf[r] = Clamp(L + r)
         ELSE L + r - 3 * V >= -V => color_buf[r] = Clamp(L + r - 3 * V)
  <2>1. WindowOf(color_buf, L, nbr)
    BY <1>2, <1>3
  <2> QED
    BY <1>4, <2>1, Zenon
<1>8. color_buf[IF nbr = 0 THEN 3 * V - 1 ELSE nbr - 1] = H - 1
  <2>1. CASE nbr = 0
    <3>1. 3 * V - 1 \in 0..(3 * V - 1) /\ ~ (3 * V - 1 < nbr) /\ L + (3 * V - 1) - 3 * V >= -V
          /\ L + (3 * V - 1) - 3 * V \in Int /\ L + (3 * V - 1) - 3 * V >= H - 1
      BY <1>2, <1>3, <2>1
    <3>2. color_buf[3 * V - 1] = Clamp(L + (3 * V - 1) - 3 * V)
      BY <1>7, <3>1
    <3> QED
      BY <2>1, <3>1, <3>2, ClampOf DEF H, InContext
  <2>2. CASE nbr # 0
    <3>1. nbr - 1 \in 0..(3 * V - 1) /\ nbr - 1 < nbr /\ L + (nbr - 1) \in Int /\ L + (nbr - 1) >= H - 1
      BY <1>2, <1>3, <2>2
    <3>2. color_buf[nbr - 1] = Clamp(L + (nbr - 1))
      BY <1>7, <3>1
    <3> QED
      BY <2>2, <3>1, <3>2, ClampOf DEF H, InContext
  <2> QED
    BY <2>1, <2>2
<1>9. ASSUME NEW r \in 0..(3 * V - 1)
      PROVE  IF r < stop THEN color[r] = Clamp(L + r)
             ELSE L + r - 3 * V >= -V => color[r] = Clamp(L + r - 3 * V)
  <2>1. CASE r < nbr
    <3>1. r < stop /\ ~ (nbr <= r)
      BY <1>2, <2>1
    <3> QED
      BY <1>6, <1>7, <2>1, <3>1
  <2>2. CASE nbr <= r /\ r < stop
    <3>1. color[r] = H - 1
      BY <1>6, <1>8, <2>2
    <3>2. L + r \in Int /\ L + r >= H - 1
      BY <1>2, <1>3, <2>2
    <3>3. Clamp(L + r) = H - 1
      BY <3>2, ClampOf DEF H, InContext
    <3> QED
      BY <2>2, <3>1, <3>3
  <2>3. CASE stop <= r
    <3>1. ~ (r < stop) /\ ~ (r < nbr)
      BY <1>2, <2>3
    <3> QED
      BY <1>6, <1>7, <3>1
  <2> QED
    BY <1>2, <2>1, <2>2, <2>3
<1>10. WindowOf(color, L, stop)
  BY <1>4, <1>9
<1> QED
  BY <1>2, <1>3, <1>6, <1>10 DEF color, L, nbr, stop, V, H

\* The pointers that create_context_buffer wraps around point into the ring.
LEMMA RingIndex ==
  ASSUME NEW V \in 1..4, NEW t \in {0, V, 2 * V}, NEW k \in -1..V
  PROVE  LET r == IF t + k < 0 THEN t + k + 3 * V ELSE IF t + k < 3 * V THEN t + k ELSE t + k - 3 * V
         IN  r \in 0..(3 * V - 1) /\ (t + (k + 3 * V)) % (3 * V) = r /\ (k >= 0 => (t + k) % (3 * V) = r)
<1>1. CASE V = 1
  BY <1>1
<1>2. CASE V = 2
  BY <1>2
<1>3. CASE V = 3
  BY <1>3
<1>4. CASE V = 4
  BY <1>4
<1> QED
  BY <1>1, <1>2, <1>3, <1>4

\* A ring that is filled up to next_buf_stop shows the next row group.
LEMMA RingShows ==
  ASSUME InContext, NEW color, WindowOf(color, FirstLine, next_buf_stop)
  PROVE  this_row_group \in Nat /\ Shows(color, this_row_group, Groups)
<1> DEFINE V == max_v_samp_factor
           L == FirstLine
           stop == next_buf_stop
           t == this_row_group
           P == Groups * V
           B == 3 * V
<1>1. /\ V \in 1..4 /\ buf_height = B /\ stop \in {V, 2 * V, 3 * V} /\ P \in Nat
      /\ L = P + 2 * V - stop
  BY Ring DEF RingOK
<1>2. t = stop + (IF stop = V THEN 1 ELSE -2) * V
  BY DEF InContext, ContextOK
<1>3. \A r \in 0..(3 * V - 1) :
         IF r < stop THEN color[r] = Clamp(L + r)
         ELSE L + r - 3 * V >= -V => color[r] = Clamp(L + r - 3 * V)
  BY DEF WindowOf
<1>4. Shows(color, t, Groups) <=>
         /\ \A k \in 0..(V - 1) : color[(t + k) % buf_height] = Clamp(P + k)
         /\ need_context_rows =>
               /\ color[(t + V) % buf_height] = Clamp(P + V)
               /\ \A k \in 0..(V - 1) : color[(t + (k - 1 + buf_height)) % buf_height] = Clamp(P + k - 1)
  BY DEF Shows
<1> HIDE DEF V, L, stop, t, P
<1>5. t \in Nat /\ (stop = V => t = 2 * V) /\ (stop = 2 * V => t = 0) /\ (stop = 3 * V => t = V)
  BY <1>1, <1>2
<1>6. B \in Nat \ {0}
  BY <1>1
<1>7. ASSUME NEW k \in -1..V
      PROVE  /\ k >= 0 => color[(t + k) % B] = Clamp(P + k)
             /\ color[(t + (k + B)) % B] = Clamp(P + k)
  <2> DEFINE r == IF t + k < 0 THEN t + k + B ELSE IF t + k < B THEN t + k ELSE t + k - B
  <2>1. t \in {0, V, 2 * V}
    BY <1>1, <1>5
  <2>2. r \in 0..(B - 1) /\ (t + (k + B)) % B = r
    BY <1>1, <2>1, RingIndex
  <2>3. k >= 0 => (t + k) % B = r
    BY <1>1, <2>1, RingIndex
  <2>5. color[r] = Clamp(P + k)
    <3>1. (r < stop /\ L + r = P + k) \/ (~ (r < stop) /\ L + r - 3 * V >= -V /\ L + r - 3 * V = P + k)
      <4>1. CASE stop = V
        BY <1>1, <1>5, <4>1
      <4>2. CASE stop = 2 * V
        BY <1>1, <1>5, <4>2
      <4>3. CASE stop = 3 * V
        BY <1>1, <1>5, <4>3
      <4> QED
        BY <1>1, <4>1, <4>2, <4>3
    <3>2. IF r < stop THEN color[r] = Clamp(L + r)
          ELSE L + r - 3 * V >= -V => color[r] = Clamp(L + r - 3 * V)
      BY <1>3, <2>2
    <3> HIDE DEF r
    <3> QED
      BY <3>1, <3>2
  <2> HIDE DEF r
  <2> QED
    BY <2>2, <2>3, <2>5
<1>8. \A k \in 0..(V - 1) : color[(t + k) % buf_height] = Clamp(P + k)
  <2> SUFFICES ASSUME NEW k \in 0..(V - 1)
               PROVE  color[(t + k) % B] = Clamp(P + k)
    BY <1>1
  <2>1. k \in -1..V /\ k >= 0
    BY <1>1
  <2> QED
    BY <1>7, <2>1
<1>9. color[(t + V) % buf_height] = Clamp(P + V)
  <2>1. V \in -1..V /\ V >= 0
    BY <1>1
  <2> QED
    BY <1>1, <1>7, <2>1
<1>10. \A k \in 0..(V - 1) : color[(t + (k - 1 + buf_height)) % buf_height] = Clamp(P + k - 1)
  <2> SUFFICES ASSUME NEW k \in 0..(V - 1)
               PROVE  color[(t + (k - 1 + B)) % B] = Clamp(P + k - 1)
    BY <1>1
  <2>1. k - 1 \in -1..V /\ P + (k - 1) = P + k - 1
    BY <1>1
  <2>2. color[(t + ((k - 1) + B)) % B] = Clamp(P + (k - 1))
    BY <1>7, <2>1
  <2> QED
    BY <2>1, <2>2
<1> QED
  BY <1>4, <1>5, <1>8, <1>9, <1>10 DEF t

\* The ring is filled up to row by n lines, or by the last line again.
LEMMA RingStep ==
  ASSUME InContext, Kept, NEW color, NEW row \in Nat, NEW n \in Nat,
         next_buf_row < row, row <= next_buf_stop, WindowOf(color, FirstLine, row),
         DOMAIN color = DOMAIN color_buf, ContextRows(color, row),
         in_row_ctr' = in_row_ctr + n, rows_to_go' = rows_to_go - n, n <= in_rows_avail - in_row_ctr,
         n > 0 \/ rows_to_go = 0,
         IF rows_to_go > 0 THEN Filled = Taken /\ row = next_buf_row + n ELSE n = 0 /\ row = next_buf_stop /\ Filled >= img.image_height
  PROVE  ShapeOK' /\ LinesOK' /\ CallOK' /\ ContextOK' /\ BufferOK'
<1> DEFINE V == max_v_samp_factor
           H == img.image_height
           L == FirstLine
           g == Groups
           P == g * V
           stop == next_buf_stop
           done == row = stop
<1>1. RingOK
  BY Ring
<1>2. /\ V \in 1..4 /\ buf_height = 3 * V /\ H \in Nat \ {0} /\ g \in Nat /\ P \in Nat
      /\ (g + 1 + 2) * V = P + 3 * V
      /\ stop \in {V, 2 * V, 3 * V} /\ next_buf_row \in 0..(stop - 1)
      /\ L = P + 2 * V - stop /\ L \in Nat /\ Filled = L + next_buf_row
  BY <1>1 DEF RingOK
<1>3. img \in Pictures /\ ShapeOK /\ LinesOK /\ CallOK /\ BufferOK /\ pc = "lines" /\ cur_iMCU_row < total_iMCU_rows /\ rowgroup_ctr < DCTSIZE
      /\ cur_iMCU_row \in Nat /\ rowgroup_ctr \in Nat /\ DCTSIZE \in Nat \ {0}
  BY ImageAssumption DEF InContext, LinesOK
<1>4. img' = img /\ UNCHANGED <<pc, sent, in_rows_avail, suspended, cur_iMCU_row, whole_image>>
  BY DEF Kept
<1>5. color_buf' = color /\ IF done THEN RowGroupDone(color, row)
                            ELSE next_buf_row' = row /\ UNCHANGED <<buffer, rowgroup_ctr, this_row_group, next_buf_stop>>
  BY DEF ContextRows
<1>6. rowgroup_ctr' \in 0..DCTSIZE /\ rowgroup_ctr' = IF done THEN rowgroup_ctr + 1 ELSE rowgroup_ctr
  <2>1. rowgroup_ctr' = IF done THEN rowgroup_ctr + 1 ELSE rowgroup_ctr
    BY <1>5 DEF RowGroupDone
  <2> QED
    BY <1>3, <2>1
<1>7. /\ LinesOK' /\ CallOK' /\ Taken' = Taken + n /\ Taken' <= H
      /\ n <= rows_to_go /\ H = rows_to_go + Taken /\ Taken \in Nat
  BY <1>3, <1>4, <1>6, RoundCounts
<1>8. rows_to_go \in Nat
  BY <1>3 DEF LinesOK
<1>9. Groups' = IF done THEN g + 1 ELSE g
  <2>1. Groups' = cur_iMCU_row * DCTSIZE + rowgroup_ctr'
    BY <1>4 DEF Groups
  <2>2. g = cur_iMCU_row * DCTSIZE + rowgroup_ctr
    BY DEF Groups
  <2> HIDE DEF g
  <2> QED
    BY <1>3, <1>6, <2>1, <2>2
<1>10. V' = V /\ (need_context_rows' <=> need_context_rows) /\ \A r : Clamp(r)' = Clamp(r)
  BY <1>4, PictureStays DEF Steady, SteadyRows
\* The buffers.
<1>11. \A c \in Comps : HasGroups(buffer, c, rowgroup_ctr)
  BY <1>3 DEF BufferOK, HasGroups
<1>12. ASSUME done
       PROVE  /\ buffer' = Downsampled(color, this_row_group)
              /\ \A c \in Comps : HasGroups(Downsampled(color, this_row_group), c, rowgroup_ctr + 1)
  <2>1. buffer' = Downsampled(color, this_row_group)
    BY <1>5, <1>12 DEF RowGroupDone
  <2>2. this_row_group \in Nat /\ Shows(color, this_row_group, Groups)
    BY <1>12, RingShows
  <2>3. ASSUME NEW c \in Comps
        PROVE  HasGroups(Downsampled(color, this_row_group), c, rowgroup_ctr + 1)
    <3>1. \A i \in 0..(rgh(c) - 1) : Padded(c, Groups * rgh(c) + i) = Groups * rgh(c) + i
      BY DEF Padded, InContext
    <3>2. rowgroup_ctr \in 0..(DCTSIZE - 1)
      BY <1>3
    <3> QED
      BY <1>3, <1>11, <2>2, <3>1, <3>2, GroupDownsampled
  <2> QED
    BY <2>1, <2>3
<1>13. BufferOK'
  <2>1. CASE done
    <3>1. rowgroup_ctr' = rowgroup_ctr + 1
      BY <1>6, <2>1
    <3> QED
      BY <1>4, <1>12, <2>1, <3>1, BufferStays
  <2>2. CASE ~done
    <3>1. rowgroup_ctr' = rowgroup_ctr /\ buffer' = buffer
      BY <1>5, <2>2
    <3> QED
      BY <1>4, <1>11, <3>1, BufferStays
  <2> QED
    BY <2>1, <2>2
<1>14. ShapeOK'
  <2>1. DOMAIN buffer' = Comps /\ \A c \in Comps : DOMAIN buffer'[c] = DOMAIN buffer[c]
    <3>1. CASE done
      BY <1>12, <3>1, DownsampledShape
    <3>2. CASE ~done
      BY <1>3, <1>5, <3>2 DEF ShapeOK
    <3> QED
      BY <3>1, <3>2
  <2> QED
    BY <1>3, <1>5, <2>1, ShapeStays
\* The ring.
<1>15. \A r \in 0..(3 * V - 1) :
         IF r < row THEN color[r] = Clamp(L + r)
         ELSE L + r - 3 * V >= -V => color[r] = Clamp(L + r - 3 * V)
  BY DEF WindowOf
<1>16. this_row_group = stop + (IF stop = V THEN 1 ELSE -2) * V /\ (g = 0 => stop = 2 * V) /\ (g > 0 => stop - next_buf_row <= V)
  BY DEF InContext, ContextOK
<1>17. Filled' = (Groups' + 2) * V - next_buf_stop' + next_buf_row'
  BY <1>10 DEF Filled
<1>18. \A r : LineAt(r)' = Filled' - next_buf_row' + r - (IF r < next_buf_row' THEN 0 ELSE 3 * V)
  BY <1>10 DEF LineAt
<1>19. WindowOK' <=> (Filled' > 0 => \A r \in 0..(3 * V - 1) : LineAt(r)' >= -V => color[r] = Clamp(LineAt(r)'))
  BY <1>5, <1>10 DEF WindowOK
<1>20. ContextOK' <=>
         /\ next_buf_stop' \in {V, 2 * V, 3 * V}
         /\ next_buf_row' \in 0..(next_buf_stop' - 1)
         /\ this_row_group' = next_buf_stop' + (IF next_buf_stop' = V THEN 1 ELSE -2) * V
         /\ Groups' = 0 => next_buf_stop' = 2 * V
         /\ Groups' > 0 => next_buf_stop' - next_buf_row' <= V
         /\ rows_to_go' > 0 => Filled' = Taken'
         /\ rows_to_go' = 0 => Filled' >= H
         /\ WindowOK'
  BY <1>4, <1>10 DEF ContextOK
<1>21. done => /\ this_row_group' = (IF this_row_group + V >= buf_height THEN 0 ELSE this_row_group + V)
               /\ next_buf_row' = (IF row >= buf_height THEN 0 ELSE row)
               /\ next_buf_stop' = (IF row >= buf_height THEN 0 ELSE row) + V
  BY <1>5 DEF RowGroupDone
<1>22. ~done => next_buf_row' = row /\ next_buf_stop' = stop /\ this_row_group' = this_row_group
  BY <1>5
<1>23. (g + 2) * V = P + 2 * V
  <2> HIDE DEF V, g
  <2> QED
    BY <1>2
<1> HIDE DEF V, H, L, g, P, stop, done
<1>24. done <=> row = stop
  BY DEF done
<1>25. next_buf_row' \in Nat /\ Filled' = L + row
  <2>1. CASE done
    <3>1. next_buf_stop' = next_buf_row' + V /\ Groups' = g + 1 /\ next_buf_row' \in Nat
      BY <1>2, <1>9, <1>21, <2>1
    <3>2. Filled' = P + 3 * V - (next_buf_row' + V) + next_buf_row'
      BY <1>2, <1>17, <3>1
    <3>3. row = stop /\ P \in Nat /\ V \in Nat /\ stop \in Nat
      BY <1>2, <1>24, <2>1
    <3>4. Filled' = P + 2 * V
      BY <3>1, <3>2, <3>3
    <3> QED
      BY <1>2, <3>1, <3>3, <3>4
  <2>2. CASE ~done
    <3>1. Filled' = P + 2 * V - stop + row
      <4>1. Groups' = g /\ next_buf_row' = row /\ next_buf_stop' = stop
        BY <1>9, <1>22, <2>2
      <4> QED
        BY <1>2, <1>17, <1>23, <4>1
    <3> QED
      BY <1>2, <1>22, <2>2, <3>1
  <2> QED
    BY <2>1, <2>2
<1>26. WindowOK'
  <2> SUFFICES ASSUME NEW r \in 0..(3 * V - 1), LineAt(r)' >= -V
               PROVE  color[r] = Clamp(LineAt(r)')
    BY <1>19
  <2>1. LineAt(r)' = L + row - next_buf_row' + r - (IF r < next_buf_row' THEN 0 ELSE 3 * V)
    <3>1. LineAt(r)' = Filled' - next_buf_row' + r - (IF r < next_buf_row' THEN 0 ELSE 3 * V)
      BY <1>18, Zenon
    <3> QED
      BY <1>2, <1>25, <3>1
  <2>2. (r < row /\ LineAt(r)' = L + r) \/ (~ (r < row) /\ LineAt(r)' = L + r - 3 * V)
    <3>1. CASE next_buf_row' = row
      BY <1>2, <2>1, <3>1
    <3>2. CASE next_buf_row' # row
      <4>1. next_buf_row' = 0 /\ row = 3 * V
        BY <1>2, <1>21, <1>22, <1>24, <3>2
      <4> QED
        BY <1>2, <2>1, <4>1
    <3> QED
      BY <3>1, <3>2
  <2>3. IF r < row THEN color[r] = Clamp(L + r)
        ELSE L + r - 3 * V >= -V => color[r] = Clamp(L + r - 3 * V)
    BY <1>15
  <2> QED
    BY <2>2, <2>3
<1>27. (rows_to_go' > 0 => Filled' = Taken') /\ (rows_to_go' = 0 => Filled' >= H)
  <2>1. CASE rows_to_go > 0
    <3>1. Filled' = Taken'
      BY <1>2, <1>7, <1>25, <2>1
    <3> QED
      BY <1>2, <1>7, <1>8, <2>1, <3>1 DEF H
  <2>2. CASE rows_to_go = 0
    <3>1. rows_to_go' = 0
      BY <2>2
    <3>2. Filled >= H /\ row = stop
      BY <2>2 DEF H, stop
    <3> QED
      BY <1>2, <1>25, <3>1, <3>2
  <2> QED
    BY <1>8, <2>1, <2>2
<1>28. /\ next_buf_stop' \in {V, 2 * V, 3 * V}
       /\ next_buf_row' \in 0..(next_buf_stop' - 1)
       /\ this_row_group' = next_buf_stop' + (IF next_buf_stop' = V THEN 1 ELSE -2) * V
       /\ Groups' = 0 => next_buf_stop' = 2 * V
       /\ Groups' > 0 => next_buf_stop' - next_buf_row' <= V
  <2>1. CASE done
    <3>1. Groups' = g + 1 /\ Groups' # 0
      BY <1>2, <1>9, <2>1
    <3>2. CASE stop = V
      BY <1>2, <1>16, <1>21, <1>24, <2>1, <3>1, <3>2
    <3>3. CASE stop = 2 * V
      BY <1>2, <1>16, <1>21, <1>24, <2>1, <3>1, <3>3
    <3>4. CASE stop = 3 * V
      BY <1>2, <1>16, <1>21, <1>24, <2>1, <3>1, <3>4
    <3> QED
      BY <1>2, <3>2, <3>3, <3>4
  <2>2. CASE ~done
    <3>1. Groups' = g /\ next_buf_row' = row /\ next_buf_stop' = stop /\ this_row_group' = this_row_group
      BY <1>9, <1>22, <2>2
    <3>2. row <= stop /\ next_buf_row < row /\ row # stop
      BY <1>24, <2>2 DEF stop
    <3> QED
      BY <1>2, <1>16, <3>1, <3>2
  <2> QED
    BY <2>1, <2>2
<1>29. ContextOK'
  BY <1>20, <1>26, <1>27, <1>28
<1> QED
  BY <1>7, <1>13, <1>14, <1>29

\* A round of pre_process_context keeps the invariant of the preprocessor
\* with context rows.
LEMMA ContextStep ==
  ASSUME InContext, Kept, pre_process_context
  PROVE  ShapeOK' /\ LinesOK' /\ CallOK' /\ ContextOK' /\ BufferOK'
<1>1. /\ next_buf_stop \in Nat /\ next_buf_row \in 0..(next_buf_stop - 1)
      /\ in_row_ctr \in Nat /\ in_rows_avail \in Nat /\ rows_to_go \in Nat
  <2>1. RingOK /\ LinesOK
    BY Ring DEF InContext
  <2>2. next_buf_stop \in Nat /\ next_buf_row \in 0..(next_buf_stop - 1)
    BY <2>1 DEF RingOK
  <2> QED
    BY <2>1, <2>2 DEF LinesOK
<1>2. CASE ContextLines
  <2> DEFINE n == LeastOf(next_buf_stop - next_buf_row, in_rows_avail - in_row_ctr)
             row == next_buf_row + n
             color == TopContext(color_convert(n))
  <2>1. /\ in_row_ctr < in_rows_avail /\ in_row_ctr' = in_row_ctr + n /\ rows_to_go' = rows_to_go - n
        /\ ContextRows(color, row)
    BY <1>2 DEF ContextLines
  <2>2. n \in Nat \ {0} /\ n <= next_buf_stop - next_buf_row /\ n <= in_rows_avail - in_row_ctr
    BY <1>1, <2>1 DEF LeastOf
  <2> HIDE DEF n
  <2>3. Taken = sent + in_row_ctr /\ Taken + n <= img.image_height /\ rows_to_go > 0
    <3>1. LinesOK /\ CallOK /\ pc = "lines" /\ rowgroup_ctr < DCTSIZE /\ img.image_height \in Nat /\ DCTSIZE \in Nat
      BY Ring, ImageAssumption DEF InContext, RingOK
    <3>2. ~suspended
      BY <3>1 DEF LinesOK
    <3>3. Held = 0
      BY <3>2 DEF Held
    <3>4. in_rows_avail <= img.image_height - sent /\ rows_to_go = img.image_height - Taken /\ sent \in Nat
      BY <3>1 DEF CallOK, LinesOK
    <3>5. Taken = sent + in_row_ctr
      BY <1>1, <3>3, <3>4 DEF Taken
    <3> QED
      BY <1>1, <2>2, <3>1, <3>4, <3>5
  <2>4. WindowOf(color, FirstLine, row) /\ DOMAIN color = DOMAIN color_buf /\ Filled = Taken
    BY <2>2, <2>3, LinesFill
  <2>5. row \in Nat /\ next_buf_row < row /\ row <= next_buf_stop
    BY <1>1, <2>2
  <2> HIDE DEF row, color
  <2>6. IF rows_to_go > 0 THEN Filled = Taken /\ row = next_buf_row + n ELSE n = 0 /\ row = next_buf_stop /\ Filled >= img.image_height
    BY <2>3, <2>4 DEF row
  <2>7. n \in Nat /\ (n > 0 \/ rows_to_go = 0)
    BY <2>2
  <2> QED
    BY <2>1, <2>2, <2>4, <2>5, <2>6, <2>7, RingStep
<1>3. CASE ContextBottom
  <2> DEFINE color == expand_bottom_edge(color_buf, next_buf_row, next_buf_stop, buf_height)
  <2>1. in_row_ctr >= in_rows_avail /\ rows_to_go = 0 /\ ContextRows(color, next_buf_stop)
        /\ in_row_ctr' = in_row_ctr /\ rows_to_go' = rows_to_go
    BY <1>3 DEF ContextBottom
  <2>2. WindowOf(color, FirstLine, next_buf_stop) /\ DOMAIN color = DOMAIN color_buf /\ Filled >= img.image_height
    BY <2>1, BottomFills
  <2> HIDE DEF color
  <2>3. in_row_ctr <= in_rows_avail
    <3>1. in_row_ctr + Held <= in_rows_avail /\ Held \in {0, 1}
      BY DEF InContext, CallOK, Held
    <3> QED
      BY <1>1, <3>1
  <2>4. 0 \in Nat /\ in_row_ctr' = in_row_ctr + 0 /\ rows_to_go' = rows_to_go - 0 /\ 0 <= in_rows_avail - in_row_ctr
        /\ next_buf_row < next_buf_stop /\ next_buf_stop <= next_buf_stop /\ ~ (rows_to_go > 0)
    BY <1>1, <2>1, <2>3
  <2> QED
    BY <1>1, <2>1, <2>2, <2>4, RingStep
<1> QED
  BY <1>2, <1>3 DEF pre_process_context

-----------------------------------------------------------------------------
(* The file of the picture                                                    *)

ScanCount == Len(img.scans)
McusOf(k) == MCUsPerRow * McuRows(img.scans[k].comps)
Units == {SOF, EOI} \cup UNION {{ScanUnits(k)[i] : i \in 1..(McusOf(k) + 1)} : k \in 1..ScanCount}

\* The components of scan k are components of the picture.
ScanOK(k) ==
    LET comps == img.scans[k].comps
    IN  /\ Len(comps) \in Nat \ {0} /\ \A i \in 1..Len(comps) : comps[i] \in Comps
        /\ McuRows(comps) \in Nat /\ McusOf(k) \in Nat

\* The scans of the script name components of the picture.
LEMMA ScanComps ==
  ASSUME img \in Pictures
  PROVE  ScanCount \in Nat \ {0} /\ \A k \in 1..ScanCount : ScanOK(k)
<1>1. ScanCount \in Nat \ {0} /\ img.scans \in Seq(Scans(img))
  BY CompressAssumption DEF ScanCount
<1>2. ASSUME NEW k \in 1..ScanCount
      PROVE  ScanOK(k)
  <2> DEFINE comps == img.scans[k].comps
  <2>1. img.scans[k] \in Scans(img) /\ k \in DOMAIN img.scans
    BY <1>1, <1>2 DEF ScanCount
  <2>2. comps \in Seq(DOMAIN img.v) /\ comps # <<>>
    BY <2>1, CompressAssumption DEF Scans
  <2>3. DOMAIN img.v = Comps
    BY MaxSampling
  <2>4. Len(comps) \in Nat \ {0} /\ \A i \in 1..Len(comps) : comps[i] \in Comps
    BY <2>2, <2>3
  <2>5. comps[1] \in Comps
    BY <2>4
  <2>6. McuRows(comps) \in Nat
    <3>1. height_in_blocks(comps[1]) \in Nat /\ total_iMCU_rows \in Nat
      BY <2>5, BlockSizes, Sizes DEF BlocksOK, SizesOK
    <3> QED
      BY <3>1 DEF McuRows
  <2>7. McusOf(k) = MCUsPerRow * McuRows(comps)
    BY DEF McusOf
  <2> HIDE DEF comps
  <2>8. MCUsPerRow * McuRows(comps) \in Nat
    BY <2>6, ImageAssumption, MulNat
  <2> QED
    BY <2>4, <2>6, <2>7, <2>8 DEF ScanOK, comps
<1> QED
  BY <1>1, <1>2

\* The units of scan k: its marker and its MCUs.
ScanUnitsOK(k) ==
    /\ ScanUnits(k) \in Seq(Units) /\ Len(ScanUnits(k)) = McusOf(k) + 1 /\ ScanUnits(k)[1] = SOS(k)
    /\ \A i \in 1..McusOf(k) : ScanUnits(k)[i + 1] = McuAt(img.scans[k].comps, (i - 1) \div MCUsPerRow)

\* The units of a scan: its header, then the MCUs of the picture in order.
LEMMA ScanUnitsAre ==
  ASSUME img \in Pictures, NEW k \in 1..ScanCount
  PROVE  ScanUnitsOK(k)
<1> DEFINE n == McusOf(k)
           su == ScanUnits(k)
           mcus == [i \in 1..n |-> McuAt(img.scans[k].comps, (i - 1) \div MCUsPerRow)]
           X == {SOS(k)} \cup {mcus[i] : i \in 1..n}
<1>1. n \in Nat
  BY ScanComps DEF ScanOK
<1>2. su = <<SOS(k)>> \o mcus
  BY DEF ScanUnits, McusOf
<1> HIDE DEF n
<1>3. <<SOS(k)>> \in Seq(X) /\ Len(<<SOS(k)>>) = 1 /\ <<SOS(k)>>[1] = SOS(k)
  OBVIOUS
<1>4. mcus \in Seq(X) /\ Len(mcus) = n
  <2>1. \A i \in 1..n : mcus[i] \in X
    OBVIOUS
  <2>2. mcus \in [1..n -> X]
    <3>1. DOMAIN mcus = 1..n
      OBVIOUS
    <3> DEFINE f == mcus
    <3>2. f = [i \in 1..n |-> f[i]]
      OBVIOUS
    <3> HIDE DEF f, X
    <3> QED
      BY <2>1, <3>2 DEF f
  <2> HIDE DEF mcus, X
  <2> QED
    BY <1>1, <2>2
<1> HIDE DEF mcus, X
<1>5. su \in Seq(X) /\ Len(su) = n + 1 /\ su[1] = SOS(k) /\ \A i \in 1..n : su[i + 1] = mcus[i]
  <2>1. /\ su \in Seq(X) /\ Len(su) = 1 + Len(mcus)
        /\ \A i \in 1..(1 + Len(mcus)) : su[i] = IF i <= 1 THEN <<SOS(k)>>[i] ELSE mcus[i - 1]
    BY <1>2, <1>3, <1>4, ConcatProperties
  <2>2. su[1] = SOS(k)
    BY <1>1, <1>3, <1>4, <2>1
  <2>3. ASSUME NEW i \in 1..n
        PROVE  su[i + 1] = mcus[i]
    <3>1. i + 1 \in 1..(1 + Len(mcus)) /\ ~ (i + 1 <= 1) /\ (i + 1) - 1 = i
      BY <1>1, <1>4
    <3> QED
      BY <2>1, <3>1
  <2> QED
    BY <1>1, <1>4, <2>1, <2>2, <2>3
<1>6. \A i \in 1..(n + 1) : su[i] \in Units
  <2> SUFFICES ASSUME NEW i \in 1..(n + 1)
               PROVE  su[i] \in {ScanUnits(k)[j] : j \in 1..(McusOf(k) + 1)}
    BY DEF Units
  <2> QED
    BY DEF n, su
<1>7. su \in Seq(Units)
  <2>1. su \in [1..(n + 1) -> X]
    BY <1>5, LenProperties
  <2> HIDE DEF su
  <2>2. su = [i \in 1..(n + 1) |-> su[i]]
    BY <2>1
  <2>3. su \in [1..(n + 1) -> Units]
    BY <1>6, <2>2
  <2>4. n + 1 \in Nat
    BY <1>1
  <2> QED
    BY <2>3, <2>4
<1>8. \A i \in 1..n : mcus[i] = McuAt(img.scans[k].comps, (i - 1) \div MCUsPerRow)
  BY DEF mcus
<1> QED
  BY <1>5, <1>7, <1>8 DEF ScanUnitsOK, n

\* The file grows by a scan, and ends after the last one.
StartsOK ==
    /\ Start(0) = <<SOF>>
    /\ \A k \in 1..ScanCount : Start(k) = Start(k - 1) \o ScanUnits(k)
    /\ \A k \in 0..ScanCount : Start(k) \in Seq(Units)
    /\ ExpectedFile = Start(ScanCount) \o <<EOI>>

\* The file before every scan, and the file as these prefixes.
LEMMA Starts ==
  ASSUME img \in Pictures
  PROVE  StartsOK
<1> DEFINE N == ScanCount
           seqs == [j \in 1..N |-> ScanUnits(j)]
           F(k) == FlattenSeq(SubSeq(seqs, 1, k))
<1>1. N \in Nat \ {0}
  BY ScanComps
<1>2. \A k \in 1..N : ScanUnits(k) \in Seq(Units)
  BY ScanUnitsAre DEF ScanUnitsOK
<1>3. \A k : Start(k) = <<SOF>> \o F(k)
  BY DEF Start, ScanCount
<1>4. ExpectedFile = <<SOF>> \o FlattenSeq(seqs) \o <<EOI>>
  BY DEF ExpectedFile, ScanCount
<1> HIDE DEF N
<1>5. seqs \in Seq(Seq(Units)) /\ Len(seqs) = N /\ \A k \in 1..N : seqs[k] = ScanUnits(k)
  BY <1>1, <1>2
<1> HIDE DEF seqs
<1>6. /\ F(0) = <<>>
      /\ \A k \in 1..N : F(k) = F(k - 1) \o seqs[k]
      /\ \A k \in 0..N : F(k) \in Seq(Units)
  BY <1>5, FlattenStep, Zenon
<1>7. SubSeq(seqs, 1, N) = seqs
  BY <1>5, SubSeqFull
<1>8. <<SOF>> \in Seq(Units)
  BY DEF Units
<1>9. ExpectedFile = Start(N) \o <<EOI>>
  BY <1>3, <1>4, <1>7
<1> HIDE DEF F
<1>10. Start(0) = <<SOF>>
  BY <1>3, <1>6, <1>8, ConcatEmptySeq
<1>11. \A k \in 0..N : Start(k) \in Seq(Units)
  BY <1>3, <1>6, <1>8, ConcatProperties
<1>12. ASSUME NEW k \in 1..N
       PROVE  Start(k) = Start(k - 1) \o ScanUnits(k)
  <2>1. k - 1 \in 0..N
    BY <1>1
  <2>2. F(k - 1) \in Seq(Units) /\ ScanUnits(k) \in Seq(Units)
    BY <1>2, <1>6, <2>1
  <2>3. <<SOF>> \o (F(k - 1) \o ScanUnits(k)) = (<<SOF>> \o F(k - 1)) \o ScanUnits(k)
    BY <1>8, <2>2, ConcatAssociative
  <2> QED
    BY <1>3, <1>5, <1>6, <2>3
<1> QED
  BY <1>9, <1>10, <1>11, <1>12 DEF StartsOK, N

\* A scan begins with its marker, grows by an MCU and is then complete.
WrittenOK(k) ==
    /\ Written(k, 0) = Start(k - 1) \o <<SOS(k)>>
    /\ \A n \in 0..(McusOf(k) - 1) :
          Written(k, n + 1) = Append(Written(k, n), McuAt(img.scans[k].comps, n \div MCUsPerRow))
    /\ Written(k, McusOf(k)) = Start(k)
    /\ \A n \in 0..McusOf(k) : Written(k, n) \in Seq(Units) /\ \E t \in Seq(Units) : Start(k) = Written(k, n) \o t

\* The file after n MCUs of a scan: one MCU longer than after n - 1.
LEMMA Writes ==
  ASSUME img \in Pictures, NEW k \in 1..ScanCount
  PROVE  WrittenOK(k)
<1> DEFINE m == McusOf(k)
           su == ScanUnits(k)
           s == Start(k - 1)
<1>1. ScanCount \in Nat /\ m \in Nat
  BY ScanComps DEF ScanOK
<1>2. su \in Seq(Units) /\ Len(su) = m + 1 /\ su[1] = SOS(k)
      /\ \A i \in 1..m : su[i + 1] = McuAt(img.scans[k].comps, (i - 1) \div MCUsPerRow)
  BY ScanUnitsAre DEF ScanUnitsOK
<1>3. k - 1 \in 0..ScanCount
  BY <1>1
<1>4. s \in Seq(Units) /\ Start(k) = s \o su
  BY <1>3, Starts DEF StartsOK
<1>5. \A n : Written(k, n) = s \o SubSeq(su, 1, n + 1)
  BY DEF Written
<1> HIDE DEF m, su, s
<1>6. \A n \in 0..m : SubSeq(su, 1, n + 1) \in Seq(Units) /\ Len(SubSeq(su, 1, n + 1)) = n + 1
  BY <1>1, <1>2
<1>7. SubSeq(su, 1, 0 + 1) = <<SOS(k)>>
  <2>1. 1 \in 1..Len(su) /\ 1 \in 1..Len(su) /\ 0 + 1 = 1 /\ 1 - 1 = 0
    BY <1>1, <1>2
  <2>2. SubSeq(su, 1, 1) = SubSeq(su, 1, 0) \o <<su[1]>>
    BY <1>2, <2>1, SubSeqRecursiveSecond
  <2>3. SubSeq(su, 1, 0) = <<>> /\ <<su[1]>> \in Seq({su[1]}) /\ <<>> \o <<su[1]>> = <<su[1]>>
    BY SubSeqEmpty
  <2> QED
    BY <1>2, <2>1, <2>2, <2>3
<1>8. SubSeq(su, 1, m + 1) = su
  BY <1>2, SubSeqFull
<1>9. ASSUME NEW n \in 0..(m - 1)
      PROVE  Written(k, n + 1) = Append(Written(k, n), McuAt(img.scans[k].comps, n \div MCUsPerRow))
  <2> DEFINE e == su[n + 2]
             p == SubSeq(su, 1, n + 1)
  <2>1. e = McuAt(img.scans[k].comps, n \div MCUsPerRow)
    <3>1. n + 1 \in 1..m /\ (n + 1) + 1 = n + 2 /\ (n + 1) - 1 = n
      BY <1>1
    <3> QED
      BY <1>2, <3>1
  <2>2. e \in Units
    BY <1>1, <1>2, ElementOfSeq
  <2>3. p \in Seq(Units)
    BY <1>1, <1>6
  <2>4. SubSeq(su, 1, (n + 1) + 1) = p \o <<e>>
    <3>1. 1 \in 1..Len(su) /\ n + 2 \in 1..Len(su) /\ (n + 2) - 1 = n + 1 /\ (n + 1) + 1 = n + 2
      BY <1>1, <1>2
    <3> QED
      BY <1>2, <3>1, SubSeqRecursiveSecond
  <2> HIDE DEF e, p
  <2>5. s \o (p \o <<e>>) = (s \o p) \o <<e>>
    BY <1>4, <2>2, <2>3, ConcatAssociative
  <2>6. s \o p \in Seq(Units)
    BY <1>4, <2>3, ConcatProperties
  <2>7. Append(s \o p, e) = (s \o p) \o <<e>>
    BY <2>2, <2>6, AppendIsConcat
  <2>8. Written(k, n + 1) = Append(s \o p, e)
    BY <1>5, <2>4, <2>5, <2>7
  <2>9. Written(k, n) = s \o p
    BY <1>5 DEF p
  <2> QED
    BY <2>1, <2>8, <2>9
<1>10. ASSUME NEW n \in 0..m
       PROVE  Written(k, n) \in Seq(Units) /\ \E t \in Seq(Units) : Start(k) = Written(k, n) \o t
  <2> DEFINE p == SubSeq(su, 1, n + 1)
             t == SubSeq(su, (n + 1) + 1, m + 1)
  <2>1. p \in Seq(Units)
    BY <1>6
  <2>2. t \in Seq(Units)
    <3>1. \A i \in ((n + 1) + 1)..(m + 1) : su[i] \in Units
      BY <1>1, <1>2, ElementOfSeq
    <3> QED
      BY <1>1, <3>1, SubSeqProperties
  <2>3. p \o t = su
    <3>1. 1 \in 1..(Len(su) + 1) /\ n + 1 \in (1 - 1)..Len(su) /\ m + 1 \in (n + 1)..Len(su)
      BY <1>1, <1>2
    <3>2. SubSeq(su, 1, n + 1) \o SubSeq(su, (n + 1) + 1, m + 1) = SubSeq(su, 1, m + 1)
      BY <1>2, <3>1, ConcatAdjacentSubSeq, Zenon
    <3> QED
      BY <1>8, <3>2
  <2> HIDE DEF p, t
  <2>4. Written(k, n) = s \o p
    BY <1>5 DEF p
  <2>5. (s \o p) \o t = s \o (p \o t)
    BY <1>4, <2>1, <2>2, ConcatAssociative
  <2> QED
    BY <1>4, <2>1, <2>2, <2>3, <2>4, <2>5, ConcatProperties
<1> QED
  BY <1>4, <1>5, <1>7, <1>8, <1>9, <1>10 DEF WrittenOK, m, s

\* Whatever the file has been at is where it continues from.
Continues(s) == s \in Seq(Units) /\ \E t \in Seq(Units) : ExpectedFile = s \o t

\* What the expected file continues from is a prefix of it.
LEMMA PrefixContinues ==
  ASSUME NEW s, Continues(s)
  PROVE  IsPrefix(s, ExpectedFile)
<1>1. PICK t \in Seq(Units) : ExpectedFile = s \o t
  BY DEF Continues
<1>2. s \in Seq(Units)
  BY DEF Continues
<1>3. Len(s \o t) = Len(s) + Len(t) /\ Len(s) \in Nat /\ Len(t) \in Nat
  BY <1>2
<1>4. SubSeq(s \o t, 1, Len(s)) = SubSeq(s, 1, Len(s))
  <2>1. CASE Len(s) = 0
    <3>1. SubSeq(s \o t, 1, 0) = <<>> /\ SubSeq(s, 1, 0) = <<>>
      BY SubSeqEmpty
    <3> QED
      BY <2>1, <3>1
  <2>2. CASE Len(s) # 0
    <3>1. 1 \in 1..Len(s) /\ Len(s) \in 1..Len(s)
      BY <1>3, <2>2
    <3> QED
      BY <1>2, <3>1, SubSeqOfConcat1
  <2> QED
    BY <2>1, <2>2
<1> QED
  BY <1>1, <1>3, <1>4 DEF IsPrefix

\* So is every prefix of what it continues from.
LEMMA ContinuesBefore ==
  ASSUME NEW s \in Seq(Units), NEW t \in Seq(Units), Continues(s \o t)
  PROVE  Continues(s)
<1>1. PICK u \in Seq(Units) : ExpectedFile = (s \o t) \o u
  BY DEF Continues
<1>2. (s \o t) \o u = s \o (t \o u) /\ t \o u \in Seq(Units)
  BY ConcatAssociative, ConcatProperties
<1> QED
  BY <1>1, <1>2 DEF Continues

\* Every file a pass can have written so far is one the expected file
\* continues from.
LEMMA StartContinues ==
  ASSUME img \in Pictures
  PROVE  /\ \A k \in 0..ScanCount : Continues(Start(k))
         /\ \A k \in 1..ScanCount : \A n \in 0..McusOf(k) : Continues(Written(k, n))
         /\ Continues(<<>>) /\ Continues(ExpectedFile)
<1> DEFINE N == ScanCount
           T == {j \in Nat : j <= N => Continues(Start(N - j))}
<1>1. N \in Nat
  BY ScanComps
<1>2. /\ \A k \in 1..N : Start(k) = Start(k - 1) \o ScanUnits(k)
      /\ \A k \in 0..N : Start(k) \in Seq(Units)
      /\ ExpectedFile = Start(N) \o <<EOI>>
  BY Starts DEF StartsOK
<1>3. \A k \in 1..N : ScanUnits(k) \in Seq(Units)
  BY ScanUnitsAre DEF ScanUnitsOK
<1> HIDE DEF N
<1>4. <<EOI>> \in Seq(Units) /\ <<>> \in Seq(Units)
  BY DEF Units
<1>5. 0 \in T
  <2>1. N - 0 = N /\ N \in 0..N
    BY <1>1
  <2> QED
    BY <1>2, <1>4, <2>1 DEF Continues
<1>6. ASSUME NEW j \in Nat, j \in T
      PROVE  j + 1 \in T
  <2> SUFFICES ASSUME j + 1 <= N
               PROVE  Continues(Start(N - (j + 1)))
    OBVIOUS
  <2>1. N - j \in 1..N /\ (N - j) - 1 = N - (j + 1) /\ N - (j + 1) \in 0..N /\ j <= N
    BY <1>1
  <2>2. Start(N - j) = Start(N - (j + 1)) \o ScanUnits(N - j)
    BY <1>2, <2>1
  <2>3. Continues(Start(N - j))
    BY <1>6, <2>1
  <2> QED
    BY <1>2, <1>3, <2>1, <2>2, <2>3, ContinuesBefore
<1>7. \A j \in Nat : j \in T
  <2> HIDE DEF T
  <2> QED
    BY <1>5, <1>6, SetInduction
<1>8. ASSUME NEW k \in 0..N
      PROVE  Continues(Start(k))
  <2>1. N - k \in Nat /\ N - k <= N /\ N - (N - k) = k
    BY <1>1
  <2> QED
    BY <1>7, <2>1
<1>9. ASSUME NEW k \in 1..N, NEW n \in 0..McusOf(k)
      PROVE  Continues(Written(k, n))
  <2>1. Written(k, n) \in Seq(Units) /\ \E t \in Seq(Units) : Start(k) = Written(k, n) \o t
    BY Writes DEF WrittenOK, N
  <2>2. Continues(Start(k))
    BY <1>1, <1>8
  <2> QED
    BY <2>1, <2>2, ContinuesBefore
<1>10. Continues(<<>>) /\ Continues(ExpectedFile)
  <2>1. ExpectedFile \in Seq(Units)
    <3>1. N \in 0..N
      BY <1>1
    <3> QED
      BY <1>2, <1>4, <3>1, ConcatProperties
  <2>2. ExpectedFile = <<>> \o ExpectedFile /\ ExpectedFile = ExpectedFile \o <<>>
    BY <2>1, ConcatEmptySeq
  <2> QED
    BY <1>4, <2>1, <2>2 DEF Continues
<1> QED
  BY <1>8, <1>9, <1>10 DEF N

-----------------------------------------------------------------------------
(* Coding an iMCU row                                                         *)

\* Where the MCU rows of an iMCU row lie in a scan of comps, and their blocks
\* in the components.
RowPlaced(comps, row) ==
    /\ MCU_rows_per_iMCU_row(comps, row) \in Nat \ {0} /\ FirstMcuRow(comps, row) \in Nat
    /\ FirstMcuRow(comps, row) + MCU_rows_per_iMCU_row(comps, row) = FirstMcuRow(comps, row + 1)
    /\ FirstMcuRow(comps, row) + MCU_rows_per_iMCU_row(comps, row) <= McuRows(comps)
    /\ \A y \in 0..(MCU_rows_per_iMCU_row(comps, row) - 1) : \A j \in 1..Len(comps) : \A i \in 1..MCU_height(comps, comps[j]) :
          /\ y + i - 1 \in 0..(img.v[comps[j]] - 1)
          /\ (FirstMcuRow(comps, row) + y) * MCU_height(comps, comps[j]) + i - 1 = row * img.v[comps[j]] + y + i - 1
ScanPlaced(comps) ==
    /\ FirstMcuRow(comps, 0) = 0 /\ FirstMcuRow(comps, total_iMCU_rows) = McuRows(comps)
    /\ MCU_rows_per_iMCU_row(comps, total_iMCU_rows) \in Nat

\* Sampling factors are positive.
LEMMA SampledRows ==
  ASSUME img \in Pictures
  PROVE  \A c \in Comps : img.v[c] \in Nat \ {0}
<1> SUFFICES ASSUME NEW c \in Comps
             PROVE  img.v[c] \in Nat \ {0}
  OBVIOUS
<1>1. img.v[c] \in 1..4
  BY MaxSampling
<1> HIDE DEF Comps
<1> QED
  BY <1>1

\* The MCU rows of an iMCU row follow those of the iMCU row before, and cover
\* blocks of that iMCU row only (per_scan_setup, start_iMCU_row).
LEMMA RowsPlaced ==
  ASSUME img \in Pictures, NEW k \in 1..ScanCount
  PROVE  ScanPlaced(img.scans[k].comps) /\ \A row \in 0..(total_iMCU_rows - 1) : RowPlaced(img.scans[k].comps, row)
<1> DEFINE comps == img.scans[k].comps
           n == total_iMCU_rows
           c == comps[1]
           v == img.v[c]
           hib == height_in_blocks(c)
           last == last_row_height(c)
<1>1. n \in Nat \ {0} /\ Len(comps) \in Nat \ {0} /\ c \in Comps /\ \A j \in 1..Len(comps) : comps[j] \in Comps
  <2>1. ScanOK(k)
    BY ScanComps
  <2>2. Len(comps) \in Nat \ {0} /\ \A j \in 1..Len(comps) : comps[j] \in Comps
    BY <2>1 DEF ScanOK
  <2>3. 1 \in 1..Len(comps)
    BY <2>2
  <2> QED
    BY <2>2, <2>3, Sizes DEF SizesOK
<1>2. \A j \in 1..Len(comps) : img.v[comps[j]] \in Nat \ {0}
  BY <1>1, SampledRows
<1>3. v \in Nat \ {0} /\ hib \in Nat /\ last \in 1..v /\ (n - 1) * v + last = hib /\ hib <= n * v
  <2>1. v \in Nat \ {0}
    BY <1>1, SampledRows
  <2>2. BlocksOK(c)
    BY <1>1, BlockSizes
  <2> QED
    BY <2>1, <2>2 DEF BlocksOK
<1>4. /\ \A row : MCU_rows_per_iMCU_row(comps, row) = IF Len(comps) > 1 THEN 1 ELSE IF row < n - 1 THEN v ELSE last
      /\ \A row : FirstMcuRow(comps, row) = IF Len(comps) = 1 THEN LeastOf(row * v, hib) ELSE row
      /\ McuRows(comps) = IF Len(comps) = 1 THEN hib ELSE n
      /\ \A d : MCU_height(comps, d) = IF Len(comps) = 1 THEN 1 ELSE img.v[d]
  BY DEF MCU_rows_per_iMCU_row, FirstMcuRow, McuRows, MCU_height
<1> HIDE DEF comps, n, c, v, hib, last
<1>5. (n - 1) * v \in Nat /\ n * v = (n - 1) * v + v
  BY <1>1, <1>3
<1>6. ScanPlaced(comps)
  <2>1. 0 * v = 0
    BY <1>3
  <2>2. CASE Len(comps) = 1
    <3>1. LeastOf(0 * v, hib) = 0
      BY <1>3, <2>1 DEF LeastOf
    <3>2. LeastOf(n * v, hib) = hib
      BY <1>3, <1>5 DEF LeastOf
    <3>3. MCU_rows_per_iMCU_row(comps, n) \in Nat
      BY <1>3, <1>4
    <3> QED
      BY <1>4, <2>2, <3>1, <3>2, <3>3 DEF ScanPlaced, n
  <2>3. CASE Len(comps) # 1
    <3>1. MCU_rows_per_iMCU_row(comps, n) \in Nat
      BY <1>3, <1>4
    <3> QED
      BY <1>4, <2>3, <3>1 DEF ScanPlaced, n
  <2> QED
    BY <2>2, <2>3
<1>7. ASSUME NEW row \in 0..(n - 1)
      PROVE  RowPlaced(comps, row)
  <2> DEFINE rows == MCU_rows_per_iMCU_row(comps, row)
             f == FirstMcuRow(comps, row)
  <2>1. CASE Len(comps) = 1
    <3>1. row * v \in Nat /\ row * v < hib /\ (row + 1) * v = row * v + v
      <4>1. row * v <= (n - 1) * v /\ row * v \in Nat
        BY <1>1, <1>3, MulMono
      <4> QED
        BY <1>3, <1>5, <4>1
    <3>2. f = row * v
      BY <1>4, <2>1, <3>1 DEF LeastOf
    <3>3. rows \in 1..v /\ f + rows = FirstMcuRow(comps, row + 1) /\ f + rows <= hib
      <4>1. CASE row < n - 1
        <5>1. rows = v
          BY <1>4, <2>1, <4>1
        <5>2. (row + 1) * v <= (n - 1) * v
          BY <1>1, <1>3, <4>1, MulMono
        <5>3. LeastOf(row * v + v, hib) = row * v + v /\ row * v + v <= hib
          BY <1>3, <1>5, <3>1, <5>2 DEF LeastOf
        <5> QED
          BY <1>3, <1>4, <2>1, <3>1, <3>2, <5>1, <5>3
      <4>2. CASE row = n - 1
        <5>1. rows = last
          BY <1>4, <2>1, <4>2
        <5>2. row * v + last = hib /\ LeastOf(row * v + v, hib) = hib
          BY <1>3, <1>5, <3>1, <4>2 DEF LeastOf
        <5> QED
          BY <1>3, <1>4, <2>1, <3>1, <3>2, <5>1, <5>2
      <4> QED
        BY <1>1, <4>1, <4>2
    <3>4. ASSUME NEW y \in 0..(rows - 1), NEW j \in 1..Len(comps), NEW i \in 1..MCU_height(comps, comps[j])
          PROVE  /\ y + i - 1 \in 0..(img.v[comps[j]] - 1)
                 /\ (f + y) * MCU_height(comps, comps[j]) + i - 1 = row * img.v[comps[j]] + y + i - 1
      <4>1. comps[j] = c /\ img.v[comps[j]] = v /\ MCU_height(comps, comps[j]) = 1
        BY <1>4, <2>1 DEF c, v
      <4>2. i = 1
        BY <4>1
      <4> HIDE DEF rows, f
      <4>3. y + i - 1 \in 0..(v - 1) /\ (f + y) * 1 + i - 1 = row * v + y + i - 1
        BY <1>3, <3>1, <3>2, <3>3, <4>2
      <4> QED
        BY <4>1, <4>3
    <3>5. rows \in Nat \ {0} /\ f \in Nat /\ f + rows <= McuRows(comps)
      BY <1>3, <1>4, <2>1, <3>1, <3>2, <3>3
    <3> QED
      BY <3>3, <3>4, <3>5 DEF RowPlaced
  <2>2. CASE Len(comps) # 1
    <3>1. f = row /\ rows = 1 /\ FirstMcuRow(comps, row + 1) = row + 1 /\ McuRows(comps) = n
      <4>1. Len(comps) > 1
        <5> DEFINE len == Len(comps)
        <5>1. len \in Nat \ {0} /\ len # 1
          BY <1>1, <2>2
        <5> HIDE DEF len
        <5>2. len > 1
          BY <5>1
        <5> QED
          BY <5>2 DEF len
      <4>2. f = row /\ FirstMcuRow(comps, row + 1) = row + 1
        BY <1>4, <2>2, Zenon
      <4>3. rows = 1 /\ McuRows(comps) = n
        BY <1>4, <2>2, <4>1, Zenon
      <4> QED
        BY <4>2, <4>3
    <3>2. ASSUME NEW y \in 0..(rows - 1), NEW j \in 1..Len(comps), NEW i \in 1..MCU_height(comps, comps[j])
          PROVE  /\ y + i - 1 \in 0..(img.v[comps[j]] - 1)
                 /\ (f + y) * MCU_height(comps, comps[j]) + i - 1 = row * img.v[comps[j]] + y + i - 1
      <4> DEFINE w == img.v[comps[j]]
      <4>1. w \in Nat \ {0} /\ MCU_height(comps, comps[j]) = w /\ y = 0 /\ i \in 1..w
        BY <1>2, <1>4, <2>2, <3>1
      <4> HIDE DEF w, rows, f
      <4>2. y + i - 1 \in 0..(w - 1) /\ (f + y) * w + i - 1 = row * w + y + i - 1
        <5>1. row * w \in Int
          BY <1>1, <4>1
        <5>2. f + y = row
          BY <1>1, <3>1, <4>1
        <5> QED
          BY <4>1, <5>1, <5>2
      <4> QED
        BY <4>1, <4>2 DEF w
    <3>3. rows \in Nat \ {0} /\ f \in Nat /\ f + rows = FirstMcuRow(comps, row + 1) /\ f + rows <= McuRows(comps)
      BY <1>1, <3>1
    <3> QED
      BY <3>2, <3>3 DEF RowPlaced
  <2> QED
    BY <2>1, <2>2
<1> QED
  BY <1>6, <1>7 DEF comps, n

\* The blocks of an iMCU row whose sample rows are all in the main buffer.
LEMMA BlocksFromRows ==
  ASSUME img \in Pictures, BufferOK, rowgroup_ctr = DCTSIZE, cur_iMCU_row \in Nat, cur_iMCU_row < total_iMCU_rows,
         iMCU_row_num = cur_iMCU_row, NEW c \in Comps, NEW b \in 0..(img.v[c] - 1)
  PROVE  BlockRow(c, b) = Block(c, cur_iMCU_row * img.v[c] + b)
<1> DEFINE v == img.v[c]
           d == dct(c)
           h == rgh(c)
           n == total_iMCU_rows
           row == cur_iMCU_row
           last == last_row_height(c)
           hib == height_in_blocks(c)
<1>1. v \in Nat \ {0} /\ d \in Nat \ {0} /\ h \in Nat \ {0} /\ d * v = DCTSIZE * h
  BY Sampling, MaxSampling DEF SamplingOK
<1>2. n \in Nat \ {0} /\ row \in Nat /\ row < n /\ DCTSIZE \in Nat \ {0}
  BY Sizes, ImageAssumption DEF SizesOK
<1>3. last \in 1..v /\ (n - 1) * v + last = hib
  BY BlockSizes DEF BlocksOK
<1>4. \A r \in 0..(DCTSIZE * h - 1) : buffer[c][r] = SampleRow(c, row * DCTSIZE * h + r)
  BY <1>2 DEF BufferOK
<1>5. \A x : RowsOfBlock(c, x) = [i \in 1..d |-> buffer[c][x * d + i - 1]]
  BY DEF RowsOfBlock
<1>6. \A x : SampleRows(c, x) = [i \in 1..d |-> SampleRow(c, x * d + i - 1)]
  BY DEF SampleRows
<1>7. BlockRow(c, b) = IF row < n - 1 \/ b < last THEN [rows |-> RowsOfBlock(c, b)] ELSE [dc |-> RowsOfBlock(c, last - 1)]
  BY DEF BlockRow, last_iMCU_row
<1>8. Block(c, row * v + b) = IF row * v + b < hib THEN [rows |-> SampleRows(c, row * v + b)] ELSE [dc |-> SampleRows(c, hib - 1)]
  BY DEF Block
<1> HIDE DEF v, d, h, n, row, last, hib
<1>9. ASSUME NEW x \in 0..(v - 1)
      PROVE  RowsOfBlock(c, x) = SampleRows(c, row * v + x)
  <2>1. ASSUME NEW i \in 1..d
        PROVE  buffer[c][x * d + i - 1] = SampleRow(c, (row * v + x) * d + i - 1)
    <3>1. x * d + i - 1 \in 0..(DCTSIZE * h - 1)
      <4>1. x + 1 \in Nat /\ x + 1 <= v /\ x \in Nat
        BY <1>1
      <4>2. (x + 1) * d <= v * d
        BY <1>1, <4>1, MulMono
      <4>3. (x + 1) * d = x * d + d /\ x * d \in Nat /\ v * d = d * v
        BY <1>1, <4>1
      <4> QED
        BY <1>1, <4>2, <4>3
    <3>2. row * DCTSIZE * h + (x * d + i - 1) = (row * v + x) * d + i - 1
      <4>1. row * DCTSIZE * h = row * (d * v)
        BY <1>1, <1>2
      <4>2. (row * v + x) * d = row * (d * v) + x * d
        <5>1. x \in Nat
          BY <1>1
        <5> QED
          BY <1>1, <1>2, <5>1
      <4>3. row * (d * v) \in Int /\ x * d \in Int
        BY <1>1, <1>2
      <4> QED
        BY <4>1, <4>2, <4>3
    <3>3. buffer[c][x * d + i - 1] = SampleRow(c, row * DCTSIZE * h + (x * d + i - 1))
      BY <1>4, <3>1
    <3> QED
      BY <3>2, <3>3
  <2>2. RowsOfBlock(c, x) = [i \in 1..d |-> buffer[c][x * d + i - 1]]
    BY <1>5
  <2>3. SampleRows(c, row * v + x) = [i \in 1..d |-> SampleRow(c, (row * v + x) * d + i - 1)]
    BY <1>6, Zenon
  <2> QED
    BY <2>1, <2>2, <2>3, Zenon
<1>10. b \in 0..(v - 1)
  BY DEF v
<1>11. CASE row < n - 1
  <2>1. row * v + b < hib
    <3>1. (row + 1) * v <= (n - 1) * v
      BY <1>1, <1>2, <1>11, MulMono
    <3>2. (row + 1) * v = row * v + v /\ row * v \in Nat /\ (n - 1) * v \in Nat
      BY <1>1, <1>2
    <3> QED
      BY <1>1, <1>3, <1>10, <3>1, <3>2
  <2> QED
    BY <1>7, <1>8, <1>9, <1>10, <1>11, <2>1 DEF row, v
<1>12. CASE row = n - 1
  <2>1. row * v \in Nat /\ hib = row * v + last
    BY <1>1, <1>2, <1>3, <1>12
  <2>2. CASE b < last
    <3>1. row * v + b < hib
      BY <1>3, <1>10, <2>1, <2>2
    <3> QED
      BY <1>7, <1>8, <1>9, <1>10, <2>2, <3>1 DEF row, v
  <2>3. CASE ~ (b < last)
    <3>1. ~ (row * v + b < hib) /\ last - 1 \in 0..(v - 1) /\ row * v + (last - 1) = hib - 1
      BY <1>1, <1>3, <1>10, <2>1, <2>3
    <3>2. RowsOfBlock(c, last - 1) = SampleRows(c, hib - 1)
      BY <1>9, <3>1
    <3>3. ~ (row < n - 1)
      BY <1>2, <1>12
    <3> QED
      BY <1>7, <1>8, <2>3, <3>1, <3>2, <3>3 DEF row, v
  <2> QED
    BY <2>2, <2>3
<1> QED
  BY <1>2, <1>11, <1>12

\* The blocks of the iMCU row that is coded are where BlocksOf looks for them.
BlocksReady ==
    \A c \in Comps : \A b \in 0..(img.v[c] - 1) :
        (IF coef_mode = "pass_thru" THEN BlockRow(c, b) ELSE whole_image[c][iMCU_row_num * img.v[c] + b])
            = Block(c, iMCU_row_num * img.v[c] + b)

\* The MCU that compress_data or compress_output makes from blocks that are
\* the picture's is the next MCU of the scan.
LEMMA McuCoded ==
  ASSUME img \in Pictures, scan \in 1..ScanCount, iMCU_row_num \in 0..(total_iMCU_rows - 1),
         MCU_rows = MCU_rows_per_iMCU_row(comps_in_scan, iMCU_row_num), NEW y \in 0..(MCU_rows - 1), BlocksReady
  PROVE  MCU(BlocksOf(y)) = McuAt(comps_in_scan, FirstMcuRow(comps_in_scan, iMCU_row_num) + y)
<1> DEFINE comps == comps_in_scan
           row == iMCU_row_num
           R == FirstMcuRow(comps, row) + y
           Coding1(c, i) == IF coef_mode = "pass_thru" THEN BlockRow(c, y + i - 1)
                            ELSE whole_image[c][row * img.v[c] + y + i - 1]
           Wanted(c, i) == Block(c, R * MCU_height(comps, c) + i - 1)
<1>1. comps = img.scans[scan].comps
  BY DEF comps_in_scan
<1>2. RowPlaced(comps, row) /\ ScanOK(scan)
  BY <1>1, RowsPlaced, ScanComps
<1>3. \A j \in 1..Len(comps) : comps[j] \in Comps
  BY <1>1, <1>2 DEF ScanOK
<1>4. ASSUME NEW j \in 1..Len(comps), NEW i \in 1..MCU_height(comps, comps[j])
      PROVE  Coding1(comps[j], i) = Wanted(comps[j], i)
  <2> DEFINE c == comps[j]
             b == y + i - 1
  <2>1. /\ b \in 0..(img.v[c] - 1)
        /\ R * MCU_height(comps, c) + i - 1 = row * img.v[c] + y + i - 1
    BY <1>2 DEF RowPlaced
  <2>2. c \in Comps
    BY <1>3
  <2>3. (IF coef_mode = "pass_thru" THEN BlockRow(c, b) ELSE whole_image[c][row * img.v[c] + b]) = Block(c, row * img.v[c] + b)
    BY <2>1, <2>2 DEF BlocksReady
  <2>4. row * img.v[c] + y + i - 1 = row * img.v[c] + b
    <3>1. img.v[c] \in Nat /\ row \in Nat /\ y \in Nat /\ i \in Int
      <4>1. img.v[c] \in Nat
        BY <2>2, SampledRows
      <4>2. total_iMCU_rows \in Nat
        BY Sizes DEF SizesOK
      <4>3. MCU_rows \in Nat
        BY <1>2 DEF RowPlaced
      <4> HIDE DEF comps, c
      <4> QED
        BY <4>1, <4>2, <4>3
    <3>2. row * img.v[c] \in Int
      BY <3>1
    <3> QED
      BY <3>1, <3>2
  <2> QED
    BY <2>1, <2>3, <2>4
<1>5. BlocksOf(y) = FlattenSeq([j \in 1..Len(comps) |-> [i \in 1..MCU_height(comps, comps[j]) |-> Coding1(comps[j], i)]])
  BY DEF BlocksOf
<1>6. McuAt(comps, R) = MCU(FlattenSeq([j \in 1..Len(comps) |-> [i \in 1..MCU_height(comps, comps[j]) |-> Wanted(comps[j], i)]]))
  BY DEF McuAt
<1> HIDE DEF Coding1, Wanted, R, comps
<1>7. \A j \in 1..Len(comps) :
         [i \in 1..MCU_height(comps, comps[j]) |-> Coding1(comps[j], i)] = [i \in 1..MCU_height(comps, comps[j]) |-> Wanted(comps[j], i)]
  BY <1>4
<1>8. [j \in 1..Len(comps) |-> [i \in 1..MCU_height(comps, comps[j]) |-> Coding1(comps[j], i)]]
        = [j \in 1..Len(comps) |-> [i \in 1..MCU_height(comps, comps[j]) |-> Wanted(comps[j], i)]]
  BY <1>7
<1> QED
  BY <1>5, <1>6, <1>8 DEF R, comps

-----------------------------------------------------------------------------
(* The parts of the invariant in a state, and what a step may leave alone     *)

Same == Steady /\ SteadySizes /\ SteadyRows /\ SteadyScans

MainPart == img \in Pictures /\ ShapeOK /\ LinesOK /\ CallOK /\ PrepOK /\ BufferOK /\ MainPassOK /\ McuOK
            /\ sent = next_scanline /\ ~Cranking /\ global_state = "SCANNING" /\ pc \in {"app", "lines", "coding", "return"}

\* What the invariant says while the application is sending lines.
LEMMA InMain ==
  ASSUME IInv, Filling
  PROVE  MainPart
<1>1. ~Cranking
  BY DEF Filling, Cranking
<1> QED
  BY <1>1 DEF IInv, StateOK, FillingOK, PlaceOK, MainPart, Filling

LaterPart == img \in Pictures /\ ShapeOK /\ LaterPassesOK /\ sent = next_scanline /\ ~Filling /\ sent \in Nat
             /\ global_state = "SCANNING" /\ pc \in {"passes", "rows", "cranking"} /\ (pc # "passes" => McuOK)

\* What the invariant says in the passes over the coefficients.
LEMMA InLater ==
  ASSUME IInv, Cranking
  PROVE  LaterPart
<1>1. ~Filling
  BY DEF Filling, Cranking
<1> QED
  BY <1>1 DEF IInv, StateOK, CrankingOK, PlaceOK, LaterPart, Cranking

\* A call that is under way tells which.
LEMMA PcTells ==
  ASSUME IInv
  PROVE  /\ pc \in {"lines", "coding", "return"} => Filling
         /\ pc \in {"passes", "rows", "cranking"} => Cranking
<1>1. pc # "app" => global_state = "SCANNING"
  BY DEF IInv, StateOK
<1> QED
  BY <1>1 DEF Filling, Cranking

\* What the steps that stay in the main pass, and those that stay in the later
\* ones, have to establish.
MainGoal ==
    /\ MainPart
    /\ coef_mode # "pass_thru" => \A c \in Comps : \A b \in 0..(img.v[c] * StoredRows - 1) : whole_image[c][b] = Block(c, b)
    /\ file = IF gather \/ call_pass_startup THEN <<>> ELSE Written(1, Coded)

\* And conversely: the invariant holds when its parts for sending lines do.
LEMMA MainDone ==
  ASSUME MainGoal
  PROVE  IInv
<1>1. Filling /\ ~Cranking /\ pc # "passes" /\ global_state # "START"
  BY DEF MainGoal, MainPart, Filling
<1>2. LinesOK /\ MainPassOK /\ MainPart
  BY DEF MainGoal, MainPart
<1>3. StateOK
  BY <1>1, <1>2 DEF StateOK, MainPart, LinesOK
<1>4. FileOK
  BY <1>1, <1>2 DEF MainGoal, MainPassOK, FileOK
<1>5. ImageOK
  BY DEF MainGoal, ImageOK
<1> QED
  BY <1>1, <1>2, <1>3, <1>4, <1>5 DEF IInv, MainPart, FillingOK, CrankingOK, PlaceOK

\* The invariant while lines are sent, with its conditions resolved.
LEMMA MainHolds ==
  ASSUME IInv, Filling
  PROVE  MainGoal
<1>1. MainPart /\ ~Cranking /\ MainPassOK /\ pc # "passes"
  BY InMain DEF MainPart
<1>2. ImageOK /\ FileOK
  BY DEF IInv
<1>3. file = IF gather \/ call_pass_startup THEN <<>> ELSE Written(1, Coded)
  BY <1>1, <1>2 DEF FileOK, MainPassOK
<1> QED
  BY <1>1, <1>2, <1>3 DEF ImageOK, MainGoal

LaterGoal ==
    /\ LaterPart
    /\ coef_mode # "pass_thru" => \A c \in Comps : \A b \in 0..(img.v[c] * total_iMCU_rows - 1) : whole_image[c][b] = Block(c, b)
    /\ file = IF pc = "passes" \/ gather THEN (IF scan_number = 0 THEN <<>> ELSE Start(scan_number)) ELSE Written(scan, Coded)

\* The invariant holds when its parts for the later passes do.
LEMMA LaterDone ==
  ASSUME LaterGoal
  PROVE  IInv
<1>1. ~Filling /\ Cranking /\ LaterPassesOK /\ LaterPart
  BY DEF LaterGoal, LaterPart, Cranking
<1>2. StateOK
  BY <1>1 DEF StateOK, LaterPart
<1>3. ~call_pass_startup
  BY <1>1 DEF LaterPassesOK
<1>4. FileOK
  BY <1>3 DEF LaterGoal, FileOK
<1>5. ImageOK
  <2>1. StoredRows = total_iMCU_rows
    BY <1>1 DEF StoredRows
  <2> QED
    BY <2>1 DEF LaterGoal, ImageOK
<1> QED
  BY <1>1, <1>2, <1>4, <1>5 DEF IInv, LaterPart, FillingOK, CrankingOK, PlaceOK

\* The invariant in the later passes, with its conditions resolved.
LEMMA LaterHolds ==
  ASSUME IInv, Cranking
  PROVE  LaterGoal
<1>1. LaterPart /\ ~Filling /\ LaterPassesOK
  BY InLater DEF LaterPart
<1>2. ~call_pass_startup /\ StoredRows = total_iMCU_rows
  BY <1>1 DEF LaterPassesOK, StoredRows
<1>3. ImageOK /\ FileOK
  BY DEF IInv
<1> QED
  BY <1>1, <1>2, <1>3 DEF ImageOK, FileOK, LaterGoal

\* Where the coder is in its scan.
CodedOK ==
    /\ scan \in 1..ScanCount /\ comps_in_scan = img.scans[scan].comps
    /\ iMCU_row_num \in 0..total_iMCU_rows /\ MCUsPerRow \in Nat \ {0}
    /\ McuRow \in Nat /\ McuCol \in 0..MCUsPerRow /\ Coded \in 0..McusOf(scan)
    /\ iMCU_row_num = total_iMCU_rows => Coded = McusOf(scan)

\* The MCUs of a scan that are coded, counted from the counters of compress_data.
LEMMA CodedRange ==
  ASSUME img \in Pictures, scan \in 1..ScanCount, iMCU_row_num \in 0..total_iMCU_rows, McuOK,
         iMCU_row_num = total_iMCU_rows => McuRow = 0 /\ McuCol = 0
  PROVE  CodedOK
<1> DEFINE comps == comps_in_scan
           M == MCUsPerRow
           f == FirstMcuRow(comps, iMCU_row_num)
           rows == McuRows(comps)
           n == total_iMCU_rows
           y == McuRow
           x == McuCol
<1>1. comps = img.scans[scan].comps
  BY DEF comps_in_scan
<1>2. M \in Nat \ {0} /\ n \in Nat \ {0}
  BY ImageAssumption, Sizes DEF SizesOK
<1>3. Coded = (f + y) * M + x
  BY DEF Coded
<1>4. McusOf(scan) = M * rows /\ rows \in Nat /\ ScanPlaced(comps)
  BY <1>1, ScanComps, RowsPlaced DEF McusOf, ScanOK
<1>5. MCU_rows = MCU_rows_per_iMCU_row(comps, iMCU_row_num) /\ y \in 0..MCU_rows /\ x \in 0..M /\ (y = MCU_rows => x = 0)
  BY DEF McuOK
<1>6. y \in Nat /\ f + y \in Nat /\ f + y <= rows /\ (f + y = rows => x = 0)
  <2>1. CASE iMCU_row_num = n
    <3>1. f = rows
      BY <1>4, <2>1 DEF ScanPlaced
    <3> QED
      BY <1>4, <2>1, <3>1
  <2>2. CASE iMCU_row_num # n
    <3>1. iMCU_row_num \in 0..(n - 1)
      BY <1>2, <2>2
    <3>2. RowPlaced(comps, iMCU_row_num)
      BY <1>1, <3>1, RowsPlaced
    <3>3. MCU_rows \in Nat /\ f \in Nat /\ f + MCU_rows <= rows
      BY <1>5, <3>2 DEF RowPlaced
    <3> HIDE DEF f, rows
    <3> QED
      BY <1>4, <1>5, <3>3
  <2> QED
    BY <2>1, <2>2
<1>7. iMCU_row_num = n => f + y = rows /\ x = 0
  <2>1. iMCU_row_num = n => f = rows
    BY <1>4 DEF ScanPlaced
  <2> HIDE DEF f
  <2> QED
    BY <1>4, <2>1
<1> HIDE DEF comps, M, f, rows, n, y, x
<1>8. (f + y) * M + x \in 0..(M * rows)
  <2> DEFINE z == f + y
  <2>1. z \in Nat /\ z <= rows /\ (z = rows => x = 0) /\ x \in 0..M
    BY <1>5, <1>6
  <2> HIDE DEF z
  <2>2. M * rows = rows * M
    BY <1>2, <1>4
  <2>3. CASE z = rows
    BY <1>2, <1>4, <2>1, <2>2, <2>3 DEF z
  <2>4. CASE z < rows
    <3>1. (z + 1) * M <= rows * M
      BY <1>2, <1>4, <2>1, <2>4, MulMono
    <3>2. (z + 1) * M = z * M + M /\ z * M \in Nat /\ rows * M \in Nat
      BY <1>2, <1>4, <2>1
    <3>3. z * M + x \in 0..(M * rows)
      BY <1>2, <2>1, <2>2, <3>1, <3>2
    <3> QED
      BY <3>3 DEF z
  <2> QED
    BY <1>4, <2>1, <2>3, <2>4
<1>9. iMCU_row_num = n => (f + y) * M + x = M * rows
  <2> SUFFICES ASSUME iMCU_row_num = n
               PROVE  (f + y) * M + x = M * rows
    OBVIOUS
  <2>1. f + y = rows /\ x = 0
    BY <1>7
  <2> QED
    BY <1>2, <1>4, <2>1
<1> QED
  BY <1>1, <1>2, <1>3, <1>4, <1>5, <1>6, <1>8, <1>9 DEF CodedOK, M, n, y, x, comps

\* These counters count the MCUs coded in the main pass.
LEMMA MainCoded ==
  ASSUME MainPart
  PROVE  CodedOK
<1>1. /\ img \in Pictures /\ McuOK /\ MainPassOK /\ LinesOK /\ pc \notin {"cranking"}
  BY DEF MainPart
<1>2. scan = 1 /\ iMCU_row_num = cur_iMCU_row
  BY <1>1 DEF MainPassOK
<1>3. cur_iMCU_row \in 0..total_iMCU_rows
  BY <1>1 DEF LinesOK
<1>4. scan \in 1..ScanCount
  BY <1>1, <1>2, ScanComps
<1>5. ASSUME iMCU_row_num = total_iMCU_rows
      PROVE  McuRow = 0 /\ McuCol = 0
  <2>1. rowgroup_ctr = 0 /\ DCTSIZE # 0
    BY <1>1, <1>2, <1>5, ImageAssumption DEF LinesOK
  <2>2. ~suspended /\ pc # "coding"
    BY <1>1, <2>1 DEF LinesOK
  <2> QED
    BY <1>1, <2>2 DEF McuOK
<1> QED
  BY <1>1, <1>2, <1>3, <1>4, <1>5, CodedRange

\* They also do so in the later passes.
LEMMA LaterCoded ==
  ASSUME LaterPart, pc # "passes"
  PROVE  CodedOK
<1>1. img \in Pictures /\ McuOK /\ LaterPassesOK /\ pc \in {"rows", "cranking"} /\ PassOK
  BY DEF LaterPart, LaterPassesOK
<1>2. scan = scan_number + 1 /\ scan_number < Len(img.scans) /\ iMCU_row = iMCU_row_num /\ iMCU_row \in 0..total_iMCU_rows
  BY <1>1 DEF PassOK
<1>3. scan_number \in 0..Len(img.scans) /\ ~suspended
  BY <1>1 DEF LaterPassesOK
<1>4. scan \in 1..ScanCount
  <2>1. ScanCount \in Nat /\ ScanCount = Len(img.scans)
    BY <1>1, ScanComps DEF ScanCount
  <2> QED
    BY <1>2, <1>3, <2>1
<1>5. ASSUME iMCU_row_num = total_iMCU_rows
      PROVE  McuRow = 0 /\ McuCol = 0
  <2>1. total_iMCU_rows \in Nat
    BY <1>1, Sizes DEF SizesOK
  <2>2. pc # "cranking"
    BY <1>1, <1>2, <1>5, <2>1 DEF PassOK
  <2> QED
    BY <1>1, <1>3, <2>2 DEF McuOK
<1> QED
  BY <1>1, <1>2, <1>4, <1>5, CodedRange

\* The contents of the buffers do not change in a step that moves no line.
LEMMA ContentsStay ==
  ASSUME img' = img, UNCHANGED <<prep_vars, whole_image>>, Taken' = Taken, Groups' = Groups
  PROVE  /\ ShapeOK => ShapeOK'
         /\ need_context_rows /\ PrepOK => PrepOK'
         /\ PrepOK /\ (rows_to_go = 0 => cur_iMCU_row' = total_iMCU_rows \/ (cur_iMCU_row' = total_iMCU_rows - 1 /\ rowgroup_ctr' = DCTSIZE))
              => PrepOK'
<1>1. /\ max_v_samp_factor' = max_v_samp_factor /\ (need_context_rows' <=> need_context_rows)
      /\ buf_height' = buf_height /\ Comps' = Comps /\ total_iMCU_rows' = total_iMCU_rows /\ \A c : rgh(c)' = rgh(c)
      /\ \A r : Clamp(r)' = Clamp(r)
  BY PictureStays DEF Steady, SteadySizes, SteadyRows
<1>2. UNCHANGED <<buffer, color_buf, rows_to_go, next_buf_row, this_row_group, next_buf_stop, whole_image>>
  BY DEF prep_vars
<1>3. ShapeOK => ShapeOK'
  BY <1>1, <1>2 DEF ShapeOK
<1>4. Filled' = Filled
  BY <1>1, <1>2 DEF Filled
<1>5. \A r : LineAt(r)' = LineAt(r)
  BY <1>1, <1>2, <1>4 DEF LineAt
<1>6. WindowOK => WindowOK'
  BY <1>1, <1>2, <1>4, <1>5 DEF WindowOK
<1>7. ContextOK => ContextOK'
  BY <1>1, <1>2, <1>4, <1>6 DEF ContextOK
<1>8. PlainOK /\ (rows_to_go = 0 => cur_iMCU_row' = total_iMCU_rows \/ (cur_iMCU_row' = total_iMCU_rows - 1 /\ rowgroup_ctr' = DCTSIZE))
        => PlainOK'
  BY <1>1, <1>2 DEF PlainOK
<1> QED
  BY <1>1, <1>3, <1>7, <1>8 DEF PrepOK

\* In a step of the coder that moves no row group.
LEMMA RowsStay ==
  ASSUME img' = img, UNCHANGED <<prep_vars, whole_image, cur_iMCU_row, rowgroup_ctr>>, Taken' = Taken, PrepOK, BufferOK, ShapeOK
  PROVE  PrepOK' /\ BufferOK' /\ ShapeOK'
<1>1. Groups' = Groups
  BY DEF Groups
<1>2. Comps' = Comps /\ total_iMCU_rows' = total_iMCU_rows /\ (need_context_rows' <=> need_context_rows)
  BY PictureStays DEF Steady
<1>3. PrepOK'
  <2>1. CASE need_context_rows
    BY <1>1, <2>1, ContentsStay
  <2>2. CASE ~need_context_rows
    <3>1. rows_to_go = 0 => cur_iMCU_row' = total_iMCU_rows \/ (cur_iMCU_row' = total_iMCU_rows - 1 /\ rowgroup_ctr' = DCTSIZE)
      BY <2>2 DEF PrepOK, PlainOK
    <3> QED
      BY <1>1, <3>1, ContentsStay
  <2> QED
    BY <2>1, <2>2
<1>4. ShapeOK'
  BY <1>1, ContentsStay
<1>5. BufferOK'
  <2>1. \A c \in Comps : HasGroups(buffer, c, rowgroup_ctr) \/ ~ (cur_iMCU_row < total_iMCU_rows)
    BY DEF BufferOK, HasGroups
  <2>2. buffer' = buffer
    BY DEF prep_vars
  <2>3. CASE cur_iMCU_row < total_iMCU_rows
    BY <2>1, <2>2, <2>3, BufferStays
  <2>4. CASE ~ (cur_iMCU_row < total_iMCU_rows)
    BY <1>2, <2>4 DEF BufferOK
  <2> QED
    BY <2>3, <2>4
<1> QED
  BY <1>3, <1>4, <1>5

-----------------------------------------------------------------------------
(* The steps of the coder, in either pass                                     *)

CoderPart ==
    /\ img \in Pictures /\ Coding /\ CodedOK /\ McuOK /\ BlocksReady /\ iMCU_row_num \in 0..(total_iMCU_rows - 1)

\* compress_data in the main pass has its blocks ready.
LEMMA MainCoder ==
  ASSUME MainGoal, pc = "coding"
  PROVE  CoderPart
<1>1. /\ img \in Pictures /\ MainPart /\ LinesOK /\ MainPassOK /\ McuOK /\ BufferOK /\ ~Cranking
  BY DEF MainGoal, MainPart
<1>2. rowgroup_ctr = DCTSIZE /\ cur_iMCU_row \in 0..total_iMCU_rows /\ DCTSIZE # 0 /\ iMCU_row_num = cur_iMCU_row
  BY <1>1, ImageAssumption DEF LinesOK, MainPassOK
<1>3. total_iMCU_rows \in Nat
  BY <1>1, Sizes DEF SizesOK
<1>4. cur_iMCU_row < total_iMCU_rows /\ cur_iMCU_row \in Nat
  <2>1. cur_iMCU_row # total_iMCU_rows
    BY <1>1, <1>2 DEF LinesOK
  <2> QED
    BY <1>2, <1>3, <2>1
<1>5. BlocksReady
  <2> SUFFICES ASSUME NEW c \in Comps, NEW b \in 0..(img.v[c] - 1)
               PROVE  (IF coef_mode = "pass_thru" THEN BlockRow(c, b) ELSE whole_image[c][iMCU_row_num * img.v[c] + b])
                        = Block(c, iMCU_row_num * img.v[c] + b)
    BY DEF BlocksReady
  <2>1. BlockRow(c, b) = Block(c, iMCU_row_num * img.v[c] + b)
    BY <1>1, <1>2, <1>4, BlocksFromRows
  <2>2. ASSUME coef_mode # "pass_thru"
        PROVE  whole_image[c][iMCU_row_num * img.v[c] + b] = Block(c, iMCU_row_num * img.v[c] + b)
    <3>1. \A x \in 0..(img.v[c] * (cur_iMCU_row + 1) - 1) : whole_image[c][x] = Block(c, x)
      BY <1>1, <2>2 DEF MainGoal, StoredRows
    <3>2. iMCU_row_num * img.v[c] + b \in 0..(img.v[c] * (cur_iMCU_row + 1) - 1)
      <4> DEFINE v == img.v[c]
      <4>1. v \in Nat \ {0} /\ b \in 0..(v - 1)
        BY <1>1, SampledRows
      <4> HIDE DEF v
      <4>2. v * (cur_iMCU_row + 1) = cur_iMCU_row * v + v /\ cur_iMCU_row * v \in Nat
        BY <1>4, <4>1
      <4>3. cur_iMCU_row * v + b \in 0..(v * (cur_iMCU_row + 1) - 1)
        BY <4>1, <4>2
      <4> QED
        BY <1>2, <4>3 DEF v
    <3> QED
      BY <3>1, <3>2
  <2> QED
    BY <2>1, <2>2
<1>6. iMCU_row_num \in 0..(total_iMCU_rows - 1)
  BY <1>2, <1>3, <1>4
<1> QED
  BY <1>1, <1>5, <1>6, MainCoded DEF CoderPart, Coding

\* compress_output in a later pass has its blocks ready.
LEMMA LaterCoder ==
  ASSUME LaterGoal, pc = "cranking"
  PROVE  CoderPart
<1>1. img \in Pictures /\ LaterPart /\ PassOK /\ McuOK
  BY DEF LaterGoal, LaterPart, LaterPassesOK
<1>2. coef_mode = "crank_dest" /\ iMCU_row_num \in 0..(total_iMCU_rows - 1) /\ total_iMCU_rows \in Nat
  <2>1. total_iMCU_rows \in Nat
    BY <1>1, Sizes DEF SizesOK
  <2> QED
    BY <1>1, <2>1 DEF PassOK
<1>3. BlocksReady
  <2> SUFFICES ASSUME NEW c \in Comps, NEW b \in 0..(img.v[c] - 1)
               PROVE  whole_image[c][iMCU_row_num * img.v[c] + b] = Block(c, iMCU_row_num * img.v[c] + b)
    BY <1>2 DEF BlocksReady
  <2>1. \A x \in 0..(img.v[c] * total_iMCU_rows - 1) : whole_image[c][x] = Block(c, x)
    BY <1>2 DEF LaterGoal
  <2>2. iMCU_row_num * img.v[c] + b \in 0..(img.v[c] * total_iMCU_rows - 1)
    <3> DEFINE v == img.v[c]
               n == total_iMCU_rows
               row == iMCU_row_num
    <3>1. v \in Nat \ {0} /\ b \in 0..(v - 1) /\ n \in Nat /\ row \in 0..(n - 1)
      BY <1>1, <1>2, SampledRows
    <3> HIDE DEF v, n, row
    <3>2. (row + 1) * v <= n * v
      BY <3>1, MulMono
    <3>3. (row + 1) * v = row * v + v /\ row * v \in Nat /\ n * v = v * n /\ v * n \in Nat
      BY <3>1
    <3>4. row * v + b \in 0..(v * n - 1)
      BY <3>1, <3>2, <3>3
    <3> QED
      BY <3>4 DEF v, n, row
  <2> QED
    BY <2>1, <2>2
<1> QED
  BY <1>1, <1>2, <1>3, LaterCoded DEF CoderPart, Coding

\* Where in the scan the loops of compress_data are.
LEMMA CoderPlace ==
  ASSUME CoderPart
  PROVE  /\ RowPlaced(comps_in_scan, iMCU_row_num) /\ ScanPlaced(comps_in_scan) /\ scan \in 1..ScanCount
         /\ comps_in_scan = img.scans[scan].comps /\ MCUsPerRow \in Nat \ {0}
         /\ MCU_rows = MCU_rows_per_iMCU_row(comps_in_scan, iMCU_row_num)
         /\ MCU_rows \in Nat /\ yoffset \in 0..MCU_rows /\ MCU_col_num \in 0..MCUsPerRow
         /\ (yoffset = MCU_rows => MCU_col_num = 0) /\ iMCU_row_num \in Nat
         /\ McuRow = yoffset /\ McuCol = MCU_col_num
<1>1. img \in Pictures /\ CodedOK /\ McuOK /\ pc \in {"coding", "cranking"} /\ iMCU_row_num \in 0..(total_iMCU_rows - 1)
  BY DEF CoderPart, Coding
<1>2. scan \in 1..ScanCount /\ comps_in_scan = img.scans[scan].comps /\ MCUsPerRow \in Nat \ {0}
  BY <1>1 DEF CodedOK
<1>3. RowPlaced(comps_in_scan, iMCU_row_num) /\ ScanPlaced(comps_in_scan)
  BY <1>1, <1>2, RowsPlaced
<1>4. McuRow = yoffset /\ McuCol = MCU_col_num
  BY <1>1 DEF McuRow, McuCol
<1> QED
  BY <1>1, <1>2, <1>3, <1>4 DEF McuOK, RowPlaced

\* encode_mcu adds one MCU to those coded, and it is the one at that place.
LEMMA McuStep ==
  ASSUME CoderPart, encode_mcu
  PROVE  McuOK' /\ Written(scan, Coded') = Append(Written(scan, Coded), MCU(BlocksOf(yoffset)))
<1> DEFINE M == MCUsPerRow
           F == FirstMcuRow(comps_in_scan, iMCU_row_num)
           y == yoffset
           x == MCU_col_num
<1>1. /\ RowPlaced(comps_in_scan, iMCU_row_num) /\ scan \in 1..ScanCount /\ comps_in_scan = img.scans[scan].comps
      /\ M \in Nat \ {0} /\ MCU_rows = MCU_rows_per_iMCU_row(comps_in_scan, iMCU_row_num)
      /\ MCU_rows \in Nat /\ y \in 0..MCU_rows /\ x \in 0..M /\ iMCU_row_num \in Nat /\ McuRow = y /\ McuCol = x
  BY CoderPlace
<1>2. img \in Pictures /\ BlocksReady /\ iMCU_row_num \in 0..(total_iMCU_rows - 1)
  BY DEF CoderPart
<1>3. /\ img' = img /\ pc' = pc /\ pc \in {"coding", "cranking"} /\ yoffset' = y /\ MCU_col_num' = x + 1 /\ y < MCU_rows /\ x < M
      /\ UNCHANGED <<scan, iMCU_row_num, MCU_rows>>
  BY DEF encode_mcu, MoreMcus, Coding, coef_vars, master_vars, pass_vars
<1>4. comps_in_scan' = comps_in_scan /\ FirstMcuRow(comps_in_scan, iMCU_row_num)' = F
      /\ MCU_rows_per_iMCU_row(comps_in_scan, iMCU_row_num)' = MCU_rows_per_iMCU_row(comps_in_scan, iMCU_row_num)
  <2>1. comps_in_scan' = comps_in_scan
    BY <1>3 DEF comps_in_scan
  <2>2. \A comps, row : FirstMcuRow(comps, row)' = FirstMcuRow(comps, row) /\ MCU_rows_per_iMCU_row(comps, row)' = MCU_rows_per_iMCU_row(comps, row)
    BY <1>3, PictureStays DEF SteadyScans
  <2> QED
    BY <1>3, <2>1, <2>2
<1>5. McuRow' = y /\ McuCol' = x + 1
  BY <1>3 DEF McuRow, McuCol
<1>6. McuOK'
  <2>1. x + 1 \in 0..M /\ y # MCU_rows
    BY <1>1, <1>3
  <2> QED
    BY <1>1, <1>3, <1>4, <1>5, <2>1 DEF McuOK
<1>7. Coded = (F + y) * M + x /\ Coded' = (F + y) * M + (x + 1)
  BY <1>1, <1>4, <1>5 DEF Coded
<1>8. MCU(BlocksOf(y)) = McuAt(comps_in_scan, F + y)
  <2>1. y \in 0..(MCU_rows - 1)
    BY <1>1, <1>3
  <2> QED
    BY <1>1, <1>2, <2>1, McuCoded
<1>9. F \in Nat /\ F + MCU_rows <= McuRows(comps_in_scan) /\ McuRows(comps_in_scan) \in Nat /\ McusOf(scan) = M * McuRows(comps_in_scan)
  BY <1>1, <1>2, ScanComps DEF RowPlaced, ScanOK, McusOf
<1>10. Coded \in 0..(McusOf(scan) - 1) /\ Coded \div M = F + y /\ Coded' = Coded + 1
  <2> DEFINE z == F + y
             rows == McuRows(comps_in_scan)
  <2> HIDE DEF F, M, y, x, rows
  <2>1. z \in Nat /\ z + 1 <= rows /\ rows \in Nat /\ x \in 0..(M - 1)
    BY <1>1, <1>3, <1>9 DEF rows
  <2> HIDE DEF z
  <2>2. (z + 1) * M <= rows * M
    BY <1>1, <2>1, MulMono
  <2>3. (z + 1) * M = z * M + M /\ z * M \in Nat /\ rows * M = M * rows /\ M * rows \in Nat
    BY <1>1, <2>1
  <2>4. z * M + x \in 0..(M * rows - 1) /\ z * M + (x + 1) = (z * M + x) + 1
    BY <1>1, <2>1, <2>2, <2>3
  <2>5. (z * M + x) \div M = z
    BY <1>1, <2>1, DivMul
  <2> QED
    BY <1>7, <1>9, <2>4, <2>5 DEF z, rows
<1>11. Written(scan, Coded + 1) = Append(Written(scan, Coded), McuAt(img.scans[scan].comps, Coded \div M))
  BY <1>1, <1>2, <1>10, Writes DEF WrittenOK
<1> QED
  BY <1>1, <1>6, <1>8, <1>10, <1>11

\* The end of an MCU row changes the counters and not the number of MCUs coded.
LEMMA McuRowStep ==
  ASSUME CoderPart, McuRowDone
  PROVE  McuOK' /\ Coded' = Coded
<1> DEFINE M == MCUsPerRow
           F == FirstMcuRow(comps_in_scan, iMCU_row_num)
           y == yoffset
           x == MCU_col_num
<1>1. /\ RowPlaced(comps_in_scan, iMCU_row_num)
      /\ M \in Nat \ {0} /\ MCU_rows = MCU_rows_per_iMCU_row(comps_in_scan, iMCU_row_num)
      /\ MCU_rows \in Nat /\ y \in 0..MCU_rows /\ x \in 0..M /\ iMCU_row_num \in Nat /\ McuRow = y /\ McuCol = x
  BY CoderPlace
<1>2. /\ img' = img /\ pc' = pc /\ pc \in {"coding", "cranking"} /\ yoffset' = y + 1 /\ MCU_col_num' = 0 /\ y < MCU_rows /\ x >= M
      /\ UNCHANGED <<scan, iMCU_row_num, MCU_rows>>
  BY DEF McuRowDone, Coding, master_vars, pass_vars
<1>3. comps_in_scan' = comps_in_scan /\ FirstMcuRow(comps_in_scan, iMCU_row_num)' = F
      /\ MCU_rows_per_iMCU_row(comps_in_scan, iMCU_row_num)' = MCU_rows_per_iMCU_row(comps_in_scan, iMCU_row_num)
  <2>1. comps_in_scan' = comps_in_scan
    BY <1>2 DEF comps_in_scan
  <2>2. \A comps, row : FirstMcuRow(comps, row)' = FirstMcuRow(comps, row) /\ MCU_rows_per_iMCU_row(comps, row)' = MCU_rows_per_iMCU_row(comps, row)
    BY <1>2, PictureStays DEF SteadyScans
  <2> QED
    BY <1>2, <2>1, <2>2
<1>4. McuRow' = y + 1 /\ McuCol' = 0
  BY <1>2 DEF McuRow, McuCol
<1>5. McuOK'
  <2>1. y + 1 \in 0..MCU_rows /\ 0 \in 0..M
    BY <1>1, <1>2
  <2> QED
    BY <1>1, <1>2, <1>3, <1>4, <2>1 DEF McuOK
<1>6. F \in Nat
  BY <1>1 DEF RowPlaced
<1>7. Coded = (F + y) * M + x /\ Coded' = (F + (y + 1)) * M + 0
  BY <1>1, <1>3, <1>4 DEF Coded
<1> HIDE DEF M, F, y, x
<1>8. (F + (y + 1)) * M = (F + y) * M + M /\ (F + y) * M \in Nat /\ x = M
  BY <1>1, <1>2, <1>6
<1> QED
  BY <1>1, <1>5, <1>7, <1>8

\* Neither does the end of an iMCU row, which starts the next one.
LEMMA RowStep ==
  ASSUME CoderPart, RowDone, pc' \notin {"coding", "cranking"}
  PROVE  McuOK' /\ Coded' = Coded /\ iMCU_row_num' = iMCU_row_num + 1 /\ scan' = scan
<1> DEFINE M == MCUsPerRow
           F == FirstMcuRow(comps_in_scan, iMCU_row_num)
           n == total_iMCU_rows
           row == iMCU_row_num + 1
           comps == comps_in_scan
<1>1. /\ RowPlaced(comps, iMCU_row_num) /\ ScanPlaced(comps) /\ scan \in 1..ScanCount /\ comps = img.scans[scan].comps
      /\ M \in Nat \ {0} /\ MCU_rows = MCU_rows_per_iMCU_row(comps, iMCU_row_num)
      /\ MCU_rows \in Nat /\ yoffset \in 0..MCU_rows /\ (yoffset = MCU_rows => MCU_col_num = 0)
      /\ iMCU_row_num \in Nat /\ McuRow = yoffset /\ McuCol = MCU_col_num
  BY CoderPlace
<1>2. img \in Pictures /\ iMCU_row_num \in 0..(n - 1) /\ n \in Nat
  BY Sizes DEF CoderPart, SizesOK
<1>3. /\ img' = img /\ scan' = scan /\ iMCU_row_num' = row /\ mcu_ctr' = 0 /\ MCU_vert_offset' = 0 /\ yoffset >= MCU_rows
      /\ MCU_rows' = MCU_rows_per_iMCU_row(comps, row)
  BY <1>1 DEF RowDone, start_iMCU_row
<1>4. comps_in_scan' = comps /\ FirstMcuRow(comps_in_scan, iMCU_row_num)' = FirstMcuRow(comps, row)
      /\ MCU_rows_per_iMCU_row(comps_in_scan, iMCU_row_num)' = MCU_rows_per_iMCU_row(comps, row)
  <2>1. comps_in_scan' = comps_in_scan
    BY <1>3 DEF comps_in_scan
  <2>2. \A cs, r : FirstMcuRow(cs, r)' = FirstMcuRow(cs, r) /\ MCU_rows_per_iMCU_row(cs, r)' = MCU_rows_per_iMCU_row(cs, r)
    BY <1>3, PictureStays DEF SteadyScans
  <2> QED
    BY <1>3, <2>1, <2>2
<1>5. McuRow' = 0 /\ McuCol' = 0
  BY <1>3 DEF McuRow, McuCol
<1>6. MCU_rows' \in Nat
  <2>1. CASE row = n
    BY <1>1, <1>3, <2>1 DEF ScanPlaced
  <2>2. CASE row # n
    <3>1. row \in 0..(n - 1)
      BY <1>2, <2>2
    <3>2. RowPlaced(comps, row)
      BY <1>1, <1>2, <3>1, RowsPlaced
    <3> QED
      BY <1>3, <3>2 DEF RowPlaced
  <2> QED
    BY <2>1, <2>2
<1>7. McuOK'
  <2>1. row \in Nat /\ 0 \in 0..M /\ 0 \in 0..MCU_rows'
    BY <1>1, <1>6
  <2> QED
    BY <1>3, <1>4, <1>5, <2>1 DEF McuOK
<1>8. Coded = (F + MCU_rows) * M + 0
  <2>1. yoffset = MCU_rows
    BY <1>1, <1>3
  <2> QED
    BY <1>1, <2>1 DEF Coded
<1>9. Coded' = (FirstMcuRow(comps, row) + 0) * M + 0
  BY <1>4, <1>5 DEF Coded
<1>10. F + MCU_rows = FirstMcuRow(comps, row) /\ F \in Nat
  BY <1>1 DEF RowPlaced
<1>11. FirstMcuRow(comps, row) + 0 = F + MCU_rows
  <2> DEFINE G == FirstMcuRow(comps, row)
  <2> HIDE DEF F, G
  <2>1. G + 0 = F + MCU_rows
    BY <1>1, <1>10 DEF G
  <2> QED
    BY <2>1 DEF G
<1> QED
  BY <1>3, <1>7, <1>8, <1>9, <1>11

-----------------------------------------------------------------------------
(* The calls that begin a picture                                             *)

\* Nothing is written before the first call.
LEMMA InitHolds ==
  ASSUME CompressorInit
  PROVE  IInv
<1>1. ~Filling \/ call_pass_startup = FALSE
  BY DEF CompressorInit
<1>2. ~Filling /\ ~Cranking
  BY DEF CompressorInit, Filling, Cranking
<1>3. StateOK
  BY <1>2 DEF CompressorInit, StateOK
<1>4. ShapeOK
  BY DEF CompressorInit, ShapeOK
<1> QED
  BY <1>2, <1>3, <1>4 DEF IInv, FillingOK, CrankingOK, PlaceOK, ImageOK, FileOK

\* There is a pass for every scan, or two when the tables are optimized.
LEMMA PassCount ==
  ASSUME img \in Pictures
  PROVE  /\ ScanCount \in Nat \ {0} /\ total_passes \in Nat \ {0} /\ img.optimize \in BOOLEAN
         /\ total_passes = IF img.optimize THEN 2 * ScanCount ELSE ScanCount
<1>1. ScanCount \in Nat \ {0} /\ img.optimize \in BOOLEAN
  BY ScanComps, CompressAssumption
<1>2. total_passes = ScanCount * (IF img.optimize THEN 2 ELSE 1)
  BY DEF total_passes, ScanCount
<1> QED
  BY <1>1, <1>2

\* A scan begins with no MCU coded.
LEMMA ScanBegins ==
  ASSUME img \in Pictures, img' = img, NEW k \in 1..ScanCount, start_iMCU_row(k, 0), pc' \notin {"coding", "cranking"}
  PROVE  McuOK' /\ Coded' = 0 /\ scan' = k /\ iMCU_row_num' = 0
<1> DEFINE comps == img.scans[k].comps
<1>1. scan' = k /\ iMCU_row_num' = 0 /\ mcu_ctr' = 0 /\ MCU_vert_offset' = 0 /\ MCU_rows' = MCU_rows_per_iMCU_row(comps, 0)
  BY DEF start_iMCU_row
<1>2. ScanPlaced(comps) /\ RowPlaced(comps, 0)
  <2>1. total_iMCU_rows \in Nat \ {0}
    BY Sizes DEF SizesOK
  <2>2. 0 \in 0..(total_iMCU_rows - 1)
    BY <2>1
  <2> QED
    BY <2>2, RowsPlaced
<1>3. comps_in_scan' = comps /\ FirstMcuRow(comps_in_scan, iMCU_row_num)' = FirstMcuRow(comps, 0)
      /\ MCU_rows_per_iMCU_row(comps_in_scan, iMCU_row_num)' = MCU_rows_per_iMCU_row(comps, 0)
  <2>1. comps_in_scan' = comps
    BY <1>1 DEF comps_in_scan
  <2>2. \A cs, r : FirstMcuRow(cs, r)' = FirstMcuRow(cs, r) /\ MCU_rows_per_iMCU_row(cs, r)' = MCU_rows_per_iMCU_row(cs, r)
    BY PictureStays DEF SteadyScans
  <2> QED
    BY <1>1, <2>1, <2>2
<1>4. McuRow' = 0 /\ McuCol' = 0
  BY <1>1 DEF McuRow, McuCol
<1>5. MCU_rows' \in Nat /\ FirstMcuRow(comps, 0) = 0 /\ MCUsPerRow \in Nat
  BY <1>1, <1>2, ImageAssumption DEF RowPlaced, ScanPlaced
<1>6. McuOK'
  <2>1. 0 \in Nat /\ 0 \in 0..MCU_rows' /\ 0 \in 0..MCUsPerRow
    BY <1>5
  <2> QED
    BY <1>1, <1>3, <1>4, <2>1 DEF McuOK
<1>7. Coded' = (0 + 0) * MCUsPerRow + 0
  BY <1>3, <1>4, <1>5 DEF Coded
<1> QED
  BY <1>1, <1>5, <1>6, <1>7

\* jpeg_start_compress sets up the main pass.
LEMMA StartCompress ==
  ASSUME IInv, jpeg_start_compress
  PROVE  IInv'
<1> DEFINE V == max_v_samp_factor
           H == img.image_height
<1>1. /\ img \in Pictures /\ sent = 0 /\ in_row_ctr = 0 /\ in_rows_avail = 0
      /\ pass_type = "main" /\ pass_number = 0 /\ scan_number = 0 /\ ShapeOK
  BY DEF IInv, StateOK, jpeg_start_compress
<1>2. /\ V \in 1..4 /\ H \in Nat \ {0} /\ total_iMCU_rows \in Nat \ {0} /\ DCTSIZE \in Nat \ {0}
      /\ \A c \in Comps : img.v[c] \in Nat \ {0} /\ rgh(c) \in Nat \ {0}
  <2>1. \A c \in Comps : SamplingOK(c)
    BY <1>1, Sampling
  <2> QED
    BY <1>1, <2>1, Sizes, ImageAssumption, SampledRows DEF SizesOK, SamplingOK
<1>3. /\ ScanCount \in Nat \ {0} /\ total_passes \in Nat \ {0} /\ img.optimize \in BOOLEAN
  BY <1>1, PassCount
<1>4. /\ img' = img /\ pc = "app" /\ file = <<>> /\ global_state' = "SCANNING" /\ next_scanline' = 0 /\ MainPass /\ IsLast
      /\ UNCHANGED <<pc, sent, in_row_ctr, in_rows_avail>>
  BY DEF jpeg_start_compress, call_vars
<1>5. /\ rows_to_go' = H /\ next_buf_row' = 0 /\ this_row_group' = 0 /\ next_buf_stop' = 2 * V
      /\ gather' = img.optimize /\ call_pass_startup' = ~img.optimize
      /\ coef_mode' = (IF total_passes > 1 THEN "save_and_pass" ELSE "pass_thru")
      /\ start_iMCU_row(1, 0) /\ cur_iMCU_row' = 0 /\ rowgroup_ctr' = 0 /\ suspended' = FALSE
      /\ UNCHANGED <<file, pass_type, pass_number, scan_number, buffer, color_buf, whole_image>>
  <2>1. scan_number + 1 = 1
    BY <1>1
  <2> QED
    BY <1>4, <2>1 DEF MainPass
<1>6. Same
  BY <1>4, PictureStays DEF Same
<1>7. /\ max_v_samp_factor' = V /\ (need_context_rows' <=> need_context_rows) /\ buf_height' = buf_height /\ Comps' = Comps
      /\ total_iMCU_rows' = total_iMCU_rows /\ total_passes' = total_passes /\ img'.image_height = H /\ \A c : rgh(c)' = rgh(c)
  BY <1>4, <1>6 DEF Same, Steady, SteadySizes
<1>8. McuOK' /\ scan' = 1 /\ iMCU_row_num' = 0
  <2>1. 1 \in 1..ScanCount
    BY <1>3
  <2> QED
    BY <1>1, <1>4, <1>5, <2>1, ScanBegins
<1>9. ShapeOK'
  BY <1>1, <1>4, <1>5, <1>7 DEF ShapeOK
<1>10. Taken' = 0 /\ Groups' = 0 /\ Filled' = 0
  <2>1. Taken' = 0
    BY <1>1, <1>4, <1>5 DEF Taken, Held
  <2>2. Groups' = 0
    BY <1>2, <1>5 DEF Groups
  <2>3. Filled' = (0 + 2) * V - 2 * V + 0
    BY <1>5, <1>7, <2>2 DEF Filled
  <2> QED
    BY <1>2, <2>1, <2>2, <2>3
<1>11. LinesOK'
  <2>1. H - 0 = H /\ 0 \in 0..total_iMCU_rows /\ 0 \in 0..DCTSIZE /\ 0 # total_iMCU_rows
    BY <1>2
  <2> QED
    BY <1>1, <1>2, <1>4, <1>5, <1>7, <1>10, <2>1 DEF LinesOK
<1>12. CallOK'
  BY <1>1, <1>2, <1>4, <1>5 DEF CallOK
<1>13. PrepOK'
  <2>1. PlainOK'
    <3>1. 0 \in 0..(V - 1) /\ 0 = 0 * V + 0
      BY <1>2
    <3> QED
      BY <1>2, <1>5, <1>7, <1>10, <3>1 DEF PlainOK
  <2>2. ContextOK'
    <3>1. WindowOK'
      BY <1>10 DEF WindowOK
    <3>2. 0 \in 0..(2 * V - 1) /\ 2 * V # V /\ 0 = 2 * V + (-2) * V
      BY <1>2
    <3> QED
      BY <1>2, <1>5, <1>7, <1>10, <3>1, <3>2 DEF ContextOK
  <2> QED
    BY <1>7, <2>1, <2>2 DEF PrepOK
<1>14. BufferOK'
  <2>1. \A c \in Comps : 0..(0 * rgh(c) - 1) = {}
    BY <1>2
  <2> QED
    BY <1>5, <1>7, <2>1 DEF BufferOK
<1>15. MainPassOK'
  <2>1. is_last_pass' = (total_passes = 1)
    BY <1>1, <1>3, <1>4, <1>5, <1>7 DEF IsLast
  <2> QED
    BY <1>1, <1>3, <1>4, <1>5, <1>7, <1>8, <2>1 DEF MainPassOK
<1>16. MainPart'
  BY <1>1, <1>4, <1>8, <1>9, <1>11, <1>12, <1>13, <1>14, <1>15 DEF MainPart, Cranking
<1>17. \A c \in Comps' : \A b \in 0..(img'.v[c] * StoredRows' - 1) : whole_image'[c][b] = Block(c, b)'
  <2>1. StoredRows' = 0
    BY <1>4, <1>5 DEF StoredRows, Cranking
  <2>2. \A c \in Comps' : 0..(img'.v[c] * StoredRows' - 1) = {}
    BY <1>2, <1>4, <1>7, <2>1
  <2> QED
    BY <2>2
<1>18. MainGoal'
  BY <1>3, <1>4, <1>5, <1>16, <1>17 DEF MainGoal
<1> QED
  BY <1>18, MainDone, PTL

-----------------------------------------------------------------------------
(* The application's lines                                                    *)

\* The place of the coder, the blocks stored and the file in a step that leaves
\* them alone.
LEMMA PlaceStays ==
  ASSUME img' = img, UNCHANGED <<scan, iMCU_row_num, MCU_rows>>, McuRow' = McuRow, McuCol' = McuCol, McuOK,
         pc' \notin {"coding", "cranking"} /\ ~suspended' => McuRow = 0 /\ McuCol = 0
  PROVE  McuOK' /\ Coded' = Coded
<1>1. comps_in_scan' = comps_in_scan
  BY DEF comps_in_scan
<1>2. \A cs, r : FirstMcuRow(cs, r)' = FirstMcuRow(cs, r) /\ MCU_rows_per_iMCU_row(cs, r)' = MCU_rows_per_iMCU_row(cs, r)
  BY PictureStays DEF SteadyScans
<1>3. /\ FirstMcuRow(comps_in_scan, iMCU_row_num)' = FirstMcuRow(comps_in_scan, iMCU_row_num)
      /\ MCU_rows_per_iMCU_row(comps_in_scan, iMCU_row_num)' = MCU_rows_per_iMCU_row(comps_in_scan, iMCU_row_num)
  BY <1>1, <1>2
<1>4. Coded' = Coded
  BY <1>1, <1>3 DEF Coded
<1>5. McuOK'
  BY <1>3 DEF McuOK
<1> QED
  BY <1>4, <1>5

StoredOK ==
    coef_mode # "pass_thru" => \A c \in Comps : \A b \in 0..(img.v[c] * StoredRows - 1) : whole_image[c][b] = Block(c, b)

\* Steps that leave the coefficient arrays leave the blocks stored in them.
LEMMA StoredStays ==
  ASSUME img' = img, UNCHANGED <<whole_image, coef_mode>>, StoredRows' = StoredRows, StoredOK
  PROVE  StoredOK'
<1>1. Comps' = Comps /\ \A c, b : Block(c, b)' = Block(c, b)
  BY PictureStays DEF Steady, SteadyRows
<1> QED
  BY <1>1 DEF StoredOK

\* jpeg_write_scanlines begins with none of its lines taken.
LEMMA WriteScanlines ==
  ASSUME IInv, NEW num_lines \in Lines, NEW dest_room \in Rooms, jpeg_write_scanlines(num_lines, dest_room)
  PROVE  IInv'
<1> DEFINE H == img.image_height
<1>1. /\ pc = "app" /\ global_state = "SCANNING" /\ sent < H /\ pc' = "lines" /\ img' = img
      /\ in_rows_avail' = LeastOf(num_lines, H - next_scanline) /\ in_row_ctr' = 0
      /\ UNCHANGED <<sent, global_state, next_scanline, cur_iMCU_row, rowgroup_ctr, suspended, prep_vars, coef_mode, whole_image,
                     iMCU_row_num, MCU_rows, mcu_ctr, MCU_vert_offset, pass_type, pass_number, scan_number, scan, is_last_pass, gather>>
  BY DEF jpeg_write_scanlines, api_vars, main_vars, coef_vars, pass_vars
<1>2. MainGoal
  BY <1>1, MainHolds DEF Filling
<1>3. /\ img \in Pictures /\ ShapeOK /\ LinesOK /\ CallOK /\ PrepOK /\ BufferOK /\ MainPassOK /\ McuOK /\ sent = next_scanline
  BY <1>2 DEF MainGoal, MainPart
<1>4. H \in Nat \ {0} /\ num_lines \in Nat \ {0} /\ sent \in Nat /\ in_row_ctr = 0 /\ suspended \in BOOLEAN /\ rows_to_go \in Nat
      /\ rows_to_go = H - Taken
  BY <1>1, <1>3, CompressAssumption DEF LinesOK, CallOK
<1>5. Same
  BY <1>1, PictureStays DEF Same
<1>6. total_iMCU_rows' = total_iMCU_rows /\ total_passes' = total_passes
  BY <1>5 DEF Same, Steady
<1>7. Taken' = Taken /\ Held' = Held /\ Taken = sent + Held /\ Held \in {0, 1}
  BY <1>1, <1>4 DEF Taken, Held
<1>8. in_rows_avail' \in Nat \ {0} /\ in_rows_avail' <= H - sent
  BY <1>1, <1>3, <1>4 DEF LeastOf
<1>9. PrepOK' /\ BufferOK' /\ ShapeOK'
  BY <1>1, <1>3, <1>7, RowsStay
<1>10. rows_to_go' = rows_to_go
  BY <1>1 DEF prep_vars
<1>11. LinesOK'
  <2>1. rows_to_go' = img'.image_height - Taken'
    BY <1>1, <1>4, <1>7, <1>10
  <2> QED
    BY <1>1, <1>3, <1>6, <1>8, <1>10, <2>1 DEF LinesOK
<1>12. CallOK'
  <2>1. in_row_ctr' + Held' <= in_rows_avail'
    BY <1>1, <1>7, <1>8
  <2>2. ~suspended => rowgroup_ctr < DCTSIZE /\ rows_to_go > 0
    <3>1. ~suspended => rowgroup_ctr # DCTSIZE /\ rowgroup_ctr \in 0..DCTSIZE
      BY <1>1, <1>3 DEF CallOK, LinesOK
    <3>2. ~suspended => Held = 0
      BY DEF Held
    <3> QED
      BY <1>1, <1>4, <1>7, <3>1, <3>2, ImageAssumption
  <2> QED
    BY <1>1, <1>8, <1>10, <2>1, <2>2 DEF CallOK
<1>13. ~call_pass_startup'
  BY DEF jpeg_write_scanlines, pass_startup
<1>14. MainPassOK'
  BY <1>1, <1>3, <1>6, <1>13 DEF MainPassOK
<1>15. McuOK' /\ Coded' = Coded
  <2>1. McuRow' = McuRow /\ McuCol' = McuCol
    BY <1>1 DEF McuRow, McuCol
  <2>2. ~suspended' => McuRow = 0 /\ McuCol = 0
    BY <1>1, <1>3 DEF McuOK
  <2> QED
    BY <1>1, <1>3, <2>1, <2>2, PlaceStays
<1>16. MainPart'
  BY <1>1, <1>3, <1>9, <1>11, <1>12, <1>14, <1>15 DEF MainPart, Cranking
<1>17. StoredOK'
  <2>1. StoredRows' = StoredRows
    BY <1>1, <1>6 DEF StoredRows, Cranking
  <2> QED
    BY <1>1, <1>2, <2>1, StoredStays DEF MainGoal, StoredOK
<1>18. file' = IF gather' THEN <<>> ELSE Written(1, Coded)
  <2>1. CASE call_pass_startup
    <3>1. ~gather /\ ~suspended /\ cur_iMCU_row = 0 /\ scan = 1 /\ scan_number = 0 /\ iMCU_row_num = 0
      BY <1>3, <2>1 DEF MainPassOK
    <3>2. file = <<>>
      BY <1>2, <2>1 DEF MainGoal
    <3>3. file' = <<>> \o (<<SOF>> \o <<SOS(1)>>)
      BY <2>1, <3>1, <3>2 DEF jpeg_write_scanlines, pass_startup, Headers
    <3>4. Coded = 0
      <4>1. McuRow = 0 /\ McuCol = 0
        BY <1>1, <1>3, <3>1 DEF McuOK
      <4>2. 1 \in 1..ScanCount
        BY <1>3, ScanComps
      <4>3. FirstMcuRow(comps_in_scan, iMCU_row_num) = 0
        BY <1>3, <3>1, <4>2, RowsPlaced DEF ScanPlaced, comps_in_scan
      <4> QED
        BY <4>1, <4>3, ImageAssumption DEF Coded
    <3>5. Written(1, 0) = <<SOF>> \o <<SOS(1)>>
      <4>1. 1 \in 1..ScanCount
        BY <1>3, ScanComps
      <4>2. Written(1, 0) = Start(1 - 1) \o <<SOS(1)>>
        BY <1>3, <4>1, Writes DEF WrittenOK
      <4>3. 1 - 1 = 0
        OBVIOUS
      <4> QED
        BY <1>3, <4>2, <4>3, Starts DEF StartsOK
    <3> QED
      BY <1>1, <3>1, <3>3, <3>4, <3>5
  <2>2. CASE ~call_pass_startup
    <3>1. file' = file
      BY <2>2 DEF jpeg_write_scanlines
    <3> QED
      BY <1>1, <1>2, <2>2, <3>1 DEF MainGoal
  <2> QED
    BY <2>1, <2>2
<1>19. Written(1, Coded)' = Written(1, Coded)
  BY <1>5, <1>15 DEF Same, SteadyScans
<1>20. MainGoal'
  BY <1>13, <1>16, <1>17, <1>18, <1>19 DEF MainGoal, StoredOK
<1> QED
  BY <1>20, MainDone, PTL

\* A round of the preprocessor keeps the invariant, with and without context rows.
LEMMA PreProcessed ==
  ASSUME IInv, PreProcess
  PROVE  IInv'
<1>1. /\ pc = "lines" /\ cur_iMCU_row < total_iMCU_rows /\ rowgroup_ctr < DCTSIZE /\ Kept
      /\ UNCHANGED <<file, global_state, next_scanline, coef_mode, whole_image, iMCU_row_num, MCU_rows, mcu_ctr, MCU_vert_offset,
                     pass_type, pass_number, scan_number, scan, is_last_pass, gather, call_pass_startup>>
  BY DEF PreProcess, Kept, api_vars, coef_vars, master_vars, pass_vars
<1>2. MainGoal
  BY <1>1, PcTells, MainHolds
<1>3. /\ img \in Pictures /\ ShapeOK /\ LinesOK /\ CallOK /\ PrepOK /\ BufferOK /\ MainPassOK /\ McuOK /\ sent = next_scanline
      /\ global_state = "SCANNING"
  BY <1>2 DEF MainGoal, MainPart
<1>4. /\ img' = img /\ pc' = pc /\ sent' = sent /\ suspended' = suspended /\ cur_iMCU_row' = cur_iMCU_row
  BY <1>1 DEF Kept
<1>5. Same
  BY <1>4, PictureStays DEF Same
<1>6. total_iMCU_rows' = total_iMCU_rows /\ total_passes' = total_passes /\ (need_context_rows' <=> need_context_rows)
  BY <1>5 DEF Same, Steady
<1>7. ShapeOK' /\ LinesOK' /\ CallOK' /\ PrepOK' /\ BufferOK'
  <2>1. CASE need_context_rows
    <3>1. pre_process_context
      BY <2>1 DEF PreProcess
    <3>2. InContext
      BY <1>1, <1>3, <2>1 DEF InContext, PrepOK
    <3>3. ShapeOK' /\ LinesOK' /\ CallOK' /\ ContextOK' /\ BufferOK'
      BY <1>1, <3>1, <3>2, ContextStep
    <3> QED
      BY <1>6, <2>1, <3>3 DEF PrepOK
  <2>2. CASE ~need_context_rows
    <3>1. pre_process_data
      BY <2>2 DEF PreProcess
    <3>2. PlainOK
      BY <1>3, <2>2 DEF PrepOK
    <3>3. ShapeOK' /\ LinesOK' /\ CallOK' /\ PlainOK' /\ BufferOK'
      BY <1>1, <1>3, <2>2, <3>1, <3>2, PlainStep
    <3> QED
      BY <1>6, <2>2, <3>3 DEF PrepOK
  <2> QED
    BY <2>1, <2>2
<1>8. MainPassOK'
  BY <1>1, <1>3, <1>4, <1>6 DEF MainPassOK
<1>9. McuOK' /\ Coded' = Coded
  <2>1. McuRow' = McuRow /\ McuCol' = McuCol
    BY <1>1, <1>4 DEF McuRow, McuCol
  <2>2. ~suspended' => McuRow = 0 /\ McuCol = 0
    BY <1>1, <1>3, <1>4 DEF McuOK
  <2> QED
    BY <1>1, <1>3, <1>4, <2>1, <2>2, PlaceStays
<1>10. MainPart'
  BY <1>1, <1>3, <1>4, <1>7, <1>8, <1>9 DEF MainPart, Cranking
<1>11. StoredOK'
  <2>1. StoredRows' = StoredRows
    BY <1>1, <1>4, <1>6 DEF StoredRows, Cranking
  <2> QED
    BY <1>1, <1>2, <1>4, <2>1, StoredStays DEF MainGoal, StoredOK
<1>12. Written(1, Coded)' = Written(1, Coded)
  BY <1>5, <1>9 DEF Same, SteadyScans
<1>13. MainGoal'
  BY <1>1, <1>2, <1>10, <1>11, <1>12 DEF MainGoal, StoredOK
<1> QED
  BY <1>13, MainDone, PTL

-----------------------------------------------------------------------------
(* An iMCU row of the main pass                                               *)

\* What compress_data stores in the first pass: the blocks of the picture.
LEMMA RowStored ==
  ASSUME MainGoal, rowgroup_ctr = DCTSIZE, cur_iMCU_row < total_iMCU_rows, coef_mode # "pass_thru", pc # "coding",
         NEW c \in Comps, NEW b \in 0..(img.v[c] * (cur_iMCU_row + 1) - 1)
  PROVE  StoredRow[c][b] = Block(c, b)
<1> DEFINE v == img.v[c]
           row == cur_iMCU_row
           n == total_iMCU_rows
<1>1. /\ img \in Pictures /\ ShapeOK /\ BufferOK /\ ~Cranking /\ iMCU_row_num = row /\ row \in Nat /\ row < n /\ n \in Nat \ {0}
  <2>1. /\ img \in Pictures /\ ShapeOK /\ BufferOK /\ ~Cranking /\ MainPassOK /\ LinesOK
    BY DEF MainGoal, MainPart
  <2>2. n \in Nat \ {0}
    BY <2>1, Sizes DEF SizesOK
  <2>3. row \in 0..n /\ iMCU_row_num = row
    BY <2>1 DEF LinesOK, MainPassOK
  <2> QED
    BY <2>1, <2>2, <2>3
<1>2. v \in Nat \ {0}
  BY <1>1, SampledRows
<1>3. DOMAIN whole_image[c] = 0..(v * n - 1)
  BY <1>1 DEF ShapeOK
<1>4. b \in Nat /\ b <= v * row + v - 1 /\ b \in 0..(v * n - 1)
  <2> HIDE DEF v, row, n
  <2>1. v * (row + 1) = v * row + v /\ v * row \in Nat
    BY <1>1, <1>2
  <2>2. (row + 1) * v <= n * v /\ (row + 1) * v = v * (row + 1) /\ n * v = v * n /\ v * n \in Nat
    <3>1. row + 1 \in Nat /\ row + 1 <= n
      BY <1>1
    <3>2. (row + 1) * v <= n * v
      BY <1>1, <1>2, <3>1, MulMono
    <3> QED
      BY <1>1, <1>2, <3>1, <3>2
  <2>3. b \in 0..(v * (row + 1) - 1)
    BY DEF v, row
  <2> DEFINE p == v * (row + 1)
             q == v * row
             t == v * n
  <2>4. p = q + v /\ q \in Nat /\ p <= t /\ t \in Nat /\ b \in 0..(p - 1)
    BY <2>1, <2>2, <2>3
  <2> HIDE DEF p, q, t
  <2>5. b \in Nat /\ b <= q + v - 1 /\ b \in 0..(t - 1)
    BY <1>2, <2>4
  <2> QED
    BY <2>5 DEF q, t
<1>5. StoredRow[c][b] = IF b \div v = row THEN BlockRow(c, b % v) ELSE whole_image[c][b]
  BY <1>1, <1>3, <1>4 DEF StoredRow
<1>6. b = (b \div v) * v + (b % v) /\ b % v \in 0..(v - 1) /\ b \div v \in Nat
  <2> HIDE DEF v
  <2> QED
    BY <1>2, <1>4
<1>7. CASE b \div v = row
  <2>1. BlockRow(c, b % v) = Block(c, row * v + (b % v))
    BY <1>1, <1>6, BlocksFromRows
  <2> QED
    BY <1>5, <1>6, <1>7, <2>1
<1>8. CASE b \div v # row
  <2>1. b \in 0..(v * row - 1)
    <3> DEFINE d == b \div v
               m == b % v
    <3>1. d \in Nat /\ m \in 0..(v - 1) /\ b = d * v + m /\ d # row
      BY <1>6, <1>8
    <3> HIDE DEF v, row, d, m
    <3>2. v * row = row * v /\ row * v \in Nat /\ d * v \in Nat
      BY <1>1, <1>2, <3>1
    <3>3. d < row
      <4> SUFFICES ASSUME row + 1 <= d
                   PROVE  FALSE
        BY <1>1, <3>1
      <4>1. (row + 1) * v <= d * v
        BY <1>1, <1>2, <3>1, MulMono
      <4>2. (row + 1) * v = row * v + v
        BY <1>1, <1>2
      <4> QED
        BY <1>2, <1>4, <3>1, <3>2, <4>1, <4>2
    <3>4. (d + 1) * v <= row * v
      BY <1>1, <1>2, <3>1, <3>3, MulMono
    <3>5. (d + 1) * v = d * v + v
      BY <1>2, <3>1
    <3> QED
      BY <1>2, <3>1, <3>2, <3>4, <3>5
  <2>2. StoredRows = row
    BY <1>1 DEF StoredRows
  <2>3. whole_image[c][b] = Block(c, b)
    BY <2>1, <2>2 DEF MainGoal
  <2> QED
    BY <1>5, <1>8, <2>3
<1> QED
  BY <1>7, <1>8

\* A full main buffer holds an iMCU row of the picture: its coding can begin,
\* and in the first of several passes its blocks are stored.
LEMMA RowBegins ==
  ASSUME IInv, CodeRow
  PROVE  IInv'
<1>1. /\ pc = "lines" /\ cur_iMCU_row < total_iMCU_rows /\ rowgroup_ctr = DCTSIZE /\ compress_data /\ pc' = "coding" /\ img' = img
      /\ UNCHANGED <<file, sent, global_state, next_scanline, in_row_ctr, in_rows_avail, cur_iMCU_row, rowgroup_ctr, suspended, prep_vars,
                     pass_type, pass_number, scan_number, scan, is_last_pass, gather, call_pass_startup>>
  BY DEF CodeRow, api_vars, call_vars, main_vars, master_vars, pass_vars
<1>2. MainGoal
  BY <1>1, PcTells, MainHolds
<1>3. /\ img \in Pictures /\ ShapeOK /\ LinesOK /\ CallOK /\ PrepOK /\ BufferOK /\ MainPassOK /\ McuOK /\ sent = next_scanline
      /\ global_state = "SCANNING"
  BY <1>2 DEF MainGoal, MainPart
<1>4. /\ whole_image' = (IF coef_mode = "save_and_pass" THEN StoredRow ELSE whole_image)
      /\ yoffset' = MCU_vert_offset /\ MCU_col_num' = mcu_ctr
      /\ UNCHANGED <<coef_mode, iMCU_row_num, MCU_rows, mcu_ctr, MCU_vert_offset>>
  BY <1>1 DEF compress_data
<1>5. Same
  BY <1>1, PictureStays DEF Same
<1>6. /\ total_iMCU_rows' = total_iMCU_rows /\ total_passes' = total_passes /\ (need_context_rows' <=> need_context_rows)
      /\ Comps' = Comps /\ buf_height' = buf_height /\ max_v_samp_factor' = max_v_samp_factor
      /\ (\A c : rgh(c)' = rgh(c)) /\ (\A c, b : Block(c, b)' = Block(c, b)) /\ \A c, R : SampleRow(c, R)' = SampleRow(c, R)
      /\ \A r : Clamp(r)' = Clamp(r)
  BY <1>5 DEF Same, Steady, SteadySizes, SteadyRows
<1>7. Taken' = Taken /\ Held' = Held /\ Groups' = Groups
  BY <1>1 DEF Taken, Held, Groups
<1>8. UNCHANGED <<buffer, color_buf, rows_to_go, next_buf_row, this_row_group, next_buf_stop>>
  BY <1>1 DEF prep_vars
<1>9. ShapeOK'
  <2>1. /\ DOMAIN whole_image' = Comps /\ \A c \in Comps : DOMAIN whole_image'[c] = DOMAIN whole_image[c]
    <3>1. DOMAIN StoredRow = Comps /\ \A c \in Comps : DOMAIN StoredRow[c] = DOMAIN whole_image[c]
      BY DEF StoredRow
    <3>2. DOMAIN whole_image = Comps
      BY <1>3 DEF ShapeOK
    <3> QED
      BY <1>4, <3>1, <3>2
  <2> QED
    BY <1>1, <1>3, <1>6, <1>8, <2>1 DEF ShapeOK
<1>10. PrepOK'
  <2>1. Filled' = Filled
    BY <1>6, <1>7, <1>8 DEF Filled
  <2>2. \A r : LineAt(r)' = LineAt(r)
    BY <1>6, <1>8, <2>1 DEF LineAt
  <2>3. WindowOK => WindowOK'
    BY <1>6, <1>8, <2>1, <2>2 DEF WindowOK
  <2>4. ContextOK => ContextOK'
    BY <1>1, <1>6, <1>7, <1>8, <2>1, <2>3 DEF ContextOK
  <2>5. PlainOK => PlainOK'
    BY <1>1, <1>6, <1>7, <1>8 DEF PlainOK
  <2> QED
    BY <1>3, <1>6, <2>4, <2>5 DEF PrepOK
<1>11. BufferOK'
  BY <1>1, <1>3, <1>6, <1>8 DEF BufferOK
<1>12. LinesOK' /\ CallOK'
  <2>1. LinesOK'
    BY <1>1, <1>3, <1>6, <1>7, <1>8 DEF LinesOK
  <2>2. CallOK'
    BY <1>1, <1>3, <1>6, <1>7, <1>8 DEF CallOK
  <2> QED
    BY <2>1, <2>2
<1>13. MainPassOK'
  BY <1>1, <1>3, <1>4, <1>6 DEF MainPassOK
<1>14. McuOK' /\ Coded' = Coded
  <2>1. McuRow' = McuRow /\ McuCol' = McuCol
    BY <1>1, <1>4 DEF McuRow, McuCol
  <2> QED
    BY <1>1, <1>3, <1>4, <2>1, PlaceStays
<1>15. MainPart'
  BY <1>1, <1>3, <1>9, <1>10, <1>11, <1>12, <1>13, <1>14 DEF MainPart, Cranking
<1>16. StoredOK'
  <2> SUFFICES ASSUME coef_mode' # "pass_thru", NEW c \in Comps, NEW b \in 0..(img.v[c] * (cur_iMCU_row + 1) - 1)
               PROVE  whole_image'[c][b] = Block(c, b)
    <3>1. StoredRows' = cur_iMCU_row + 1
      BY <1>1, <1>3 DEF StoredRows, Cranking
    <3> QED
      BY <1>1, <1>6, <3>1 DEF StoredOK
  <2>1. coef_mode = "save_and_pass" /\ coef_mode # "pass_thru"
    BY <1>3, <1>4 DEF MainPassOK
  <2>2. StoredRow[c][b] = Block(c, b)
    BY <1>1, <1>2, <2>1, RowStored
  <2> QED
    BY <1>4, <2>1, <2>2
<1>17. Written(1, Coded)' = Written(1, Coded)
  BY <1>5, <1>14 DEF Same, SteadyScans
<1>18. MainGoal'
  BY <1>1, <1>2, <1>15, <1>16, <1>17 DEF MainGoal, StoredOK
<1> QED
  BY <1>18, MainDone, PTL

\* The main pass in a step within an iMCU row.
LEMMA MainRests ==
  ASSUME MainGoal, pc = "coding", img' = img, McuOK',
         UNCHANGED <<pc, api_vars, in_row_ctr, in_rows_avail, main_vars, prep_vars, coef_mode, whole_image, iMCU_row_num, master_vars>>,
         file' = IF gather THEN file ELSE Written(1, Coded')
  PROVE  MainGoal'
<1>1. /\ img \in Pictures /\ ShapeOK /\ LinesOK /\ CallOK /\ PrepOK /\ BufferOK /\ MainPassOK /\ McuOK /\ sent = next_scanline
      /\ global_state = "SCANNING"
  BY DEF MainGoal, MainPart
<1>2. UNCHANGED <<sent, global_state, next_scanline, cur_iMCU_row, rowgroup_ctr, suspended, rows_to_go,
                  pass_type, pass_number, scan_number, scan, is_last_pass, gather, call_pass_startup>>
  BY DEF api_vars, main_vars, prep_vars, master_vars, pass_vars
<1>3. Same
  BY PictureStays DEF Same
<1>4. /\ total_iMCU_rows' = total_iMCU_rows /\ total_passes' = total_passes
  BY <1>3 DEF Same, Steady
<1>5. Taken' = Taken /\ Held' = Held
  BY <1>2 DEF Taken, Held
<1>6. ShapeOK' /\ PrepOK' /\ BufferOK'
  BY <1>1, <1>2, <1>5, RowsStay
<1>7. LinesOK' /\ CallOK'
  <2>1. LinesOK'
    BY <1>1, <1>2, <1>4, <1>5 DEF LinesOK
  <2>2. CallOK'
    BY <1>1, <1>2, <1>4, <1>5 DEF CallOK
  <2> QED
    BY <2>1, <2>2
<1>8. MainPassOK' /\ ~call_pass_startup'
  BY <1>1, <1>2, <1>4 DEF MainPassOK
<1>9. MainPart'
  BY <1>1, <1>2, <1>6, <1>7, <1>8 DEF MainPart, Cranking
<1>10. StoredOK'
  <2>1. StoredRows' = StoredRows
    BY <1>2, <1>4 DEF StoredRows, Cranking
  <2> QED
    BY <2>1, StoredStays DEF MainGoal, StoredOK
<1>11. Written(1, Coded)' = Written(1, Coded')
  BY <1>3 DEF Same, SteadyScans
<1>12. gather => file = <<>>
  BY DEF MainGoal
<1> QED
  BY <1>2, <1>8, <1>9, <1>10, <1>11, <1>12 DEF MainGoal, StoredOK

\* A pass over the coefficients in a step within an iMCU row.
LEMMA LaterRests ==
  ASSUME LaterGoal, pc = "cranking", img' = img, McuOK',
         UNCHANGED <<pc, api_vars, iMCU_row, suspended, prep_vars, coef_mode, whole_image, iMCU_row_num, master_vars>>,
         file' = IF gather THEN file ELSE Written(scan, Coded')
  PROVE  LaterGoal'
<1>1. /\ img \in Pictures /\ ShapeOK /\ LaterPassesOK /\ sent = next_scanline /\ sent \in Nat /\ global_state = "SCANNING"
  BY DEF LaterGoal, LaterPart
<1>2. UNCHANGED <<sent, global_state, next_scanline, buffer, color_buf,
                  pass_type, pass_number, scan_number, scan, is_last_pass, gather, call_pass_startup>>
  BY DEF api_vars, prep_vars, master_vars, pass_vars
<1>3. Same
  BY PictureStays DEF Same
<1>4. /\ total_iMCU_rows' = total_iMCU_rows /\ total_passes' = total_passes /\ Comps' = Comps /\ buf_height' = buf_height
      /\ (\A c : rgh(c)' = rgh(c)) /\ \A c, b : Block(c, b)' = Block(c, b)
  BY <1>3 DEF Same, Steady, SteadySizes, SteadyRows
<1>5. ShapeOK'
  BY <1>1, <1>2, <1>4 DEF ShapeOK
<1>6. LaterPassesOK'
  <2>1. PassOK
    BY <1>1 DEF LaterPassesOK
  <2>2. PassOK'
    BY <1>2, <1>4, <2>1 DEF PassOK
  <2> QED
    BY <1>1, <1>2, <1>4, <2>2 DEF LaterPassesOK
<1>7. LaterPart'
  BY <1>1, <1>2, <1>5, <1>6 DEF LaterPart, Filling
<1>8. coef_mode' # "pass_thru" => \A c \in Comps' : \A b \in 0..(img'.v[c] * total_iMCU_rows' - 1) : whole_image'[c][b] = Block(c, b)'
  BY <1>4 DEF LaterGoal
<1>9. Written(scan, Coded)' = Written(scan, Coded') /\ Start(scan_number)' = Start(scan_number)
  BY <1>2, <1>3 DEF Same, SteadyScans
<1> QED
  BY <1>2, <1>7, <1>8, <1>9 DEF LaterGoal

\* An MCU is coded, in the main pass and in the later ones.
LEMMA McuEncoded ==
  ASSUME IInv, encode_mcu
  PROVE  IInv'
<1>1. /\ pc \in {"coding", "cranking"} /\ img' = img /\ file' = (IF gather THEN file ELSE Append(file, MCU(BlocksOf(yoffset))))
      /\ UNCHANGED <<pc, api_vars, in_row_ctr, in_rows_avail, iMCU_row, main_vars, prep_vars, coef_vars, master_vars>>
  BY DEF encode_mcu, Coding
<1>2. UNCHANGED <<coef_mode, whole_image, iMCU_row_num, suspended>>
  BY <1>1 DEF coef_vars, main_vars
<1>3. CASE pc = "coding"
  <2>1. MainGoal
    BY <1>3, PcTells, MainHolds
  <2>2. McuOK' /\ Written(scan, Coded') = Append(Written(scan, Coded), MCU(BlocksOf(yoffset)))
    BY <1>3, <2>1, MainCoder, McuStep
  <2>3. scan = 1 /\ ~call_pass_startup
    BY <1>3, <2>1 DEF MainGoal, MainPart, MainPassOK
  <2>4. file' = IF gather THEN file ELSE Written(1, Coded')
    BY <1>1, <2>1, <2>2, <2>3 DEF MainGoal
  <2>5. MainGoal'
    BY <1>1, <1>2, <1>3, <2>1, <2>2, <2>4, MainRests
  <2> QED
    BY <2>5, MainDone, PTL
<1>4. CASE pc = "cranking"
  <2>1. LaterGoal
    BY <1>4, PcTells, LaterHolds
  <2>2. McuOK' /\ Written(scan, Coded') = Append(Written(scan, Coded), MCU(BlocksOf(yoffset)))
    BY <1>4, <2>1, LaterCoder, McuStep
  <2>3. file' = IF gather THEN file ELSE Written(scan, Coded')
    BY <1>1, <1>4, <2>1, <2>2 DEF LaterGoal
  <2>4. LaterGoal'
    BY <1>1, <1>2, <1>4, <2>1, <2>2, <2>3, LaterRests
  <2> QED
    BY <2>4, LaterDone, PTL
<1> QED
  BY <1>1, <1>3, <1>4

\* An MCU row ends, in the main pass and in the later ones.
LEMMA McuRowEnds ==
  ASSUME IInv, McuRowDone
  PROVE  IInv'
<1>1. /\ pc \in {"coding", "cranking"} /\ img' = img
      /\ UNCHANGED <<file, pc, api_vars, call_vars, main_vars, prep_vars, coef_mode, whole_image, iMCU_row_num, master_vars>>
  BY DEF McuRowDone, Coding
<1>2. UNCHANGED <<in_row_ctr, in_rows_avail, iMCU_row, suspended>>
  BY <1>1 DEF call_vars, main_vars
<1>3. CASE pc = "coding"
  <2>1. MainGoal
    BY <1>3, PcTells, MainHolds
  <2>2. McuOK' /\ Coded' = Coded
    BY <1>3, <2>1, MainCoder, McuRowStep
  <2>3. ~call_pass_startup
    BY <1>3, <2>1 DEF MainGoal, MainPart, MainPassOK
  <2>4. file' = IF gather THEN file ELSE Written(1, Coded')
    BY <1>1, <2>1, <2>2, <2>3 DEF MainGoal
  <2>5. MainGoal'
    BY <1>1, <1>2, <1>3, <2>1, <2>2, <2>4, MainRests
  <2> QED
    BY <2>5, MainDone, PTL
<1>4. CASE pc = "cranking"
  <2>1. LaterGoal
    BY <1>4, PcTells, LaterHolds
  <2>2. McuOK' /\ Coded' = Coded
    BY <1>4, <2>1, LaterCoder, McuRowStep
  <2>3. file' = IF gather THEN file ELSE Written(scan, Coded')
    BY <1>1, <1>4, <2>1, <2>2 DEF LaterGoal
  <2>4. LaterGoal'
    BY <1>1, <1>2, <1>4, <2>1, <2>2, <2>3, LaterRests
  <2> QED
    BY <2>4, LaterDone, PTL
<1> QED
  BY <1>1, <1>3, <1>4

\* When the last iMCU row is coded, no line is to come.
LEMMA LastRowDone ==
  ASSUME img \in Pictures, LinesOK, PrepOK, rowgroup_ctr = DCTSIZE, cur_iMCU_row + 1 = total_iMCU_rows
  PROVE  rows_to_go = 0
<1> DEFINE V == max_v_samp_factor
           H == img.image_height
           n == total_iMCU_rows
           g == Groups
<1>1. /\ V \in 1..4 /\ H \in Nat \ {0} /\ n \in Nat \ {0} /\ DCTSIZE \in Nat \ {0} /\ H <= n * (V * DCTSIZE)
  BY Sizes, ImageAssumption DEF SizesOK
<1>2. rows_to_go \in Nat /\ rows_to_go = H - Taken /\ cur_iMCU_row \in 0..n /\ cur_iMCU_row = n - 1
  <2>1. rows_to_go \in Nat /\ rows_to_go = H - Taken /\ cur_iMCU_row \in 0..n
    BY DEF LinesOK
  <2> QED
    BY <1>1, <2>1
<1>3. g = n * DCTSIZE
  <2>1. g = (n - 1) * DCTSIZE + DCTSIZE
    BY <1>2 DEF Groups
  <2> HIDE DEF g
  <2> QED
    BY <1>1, <2>1
<1>4. g \in Nat \ {0} /\ H <= g * V /\ g * V \in Nat
  <2> HIDE DEF n, V, H, g
  <2>1. n * DCTSIZE \in Nat \ {0}
    BY <1>1
  <2>2. n * (V * DCTSIZE) = (n * DCTSIZE) * V
    BY <1>1
  <2>3. (n * DCTSIZE) * V \in Nat
    BY <1>1, <2>1
  <2> QED
    BY <1>1, <1>3, <2>1, <2>2, <2>3
<1> SUFFICES ASSUME rows_to_go > 0
             PROVE  H <= Taken /\ Taken \in Int
  BY <1>1, <1>2
<1>5. CASE need_context_rows
  <2>1. /\ next_buf_stop \in {V, 2 * V, 3 * V} /\ next_buf_row \in 0..(next_buf_stop - 1)
        /\ next_buf_stop - next_buf_row <= V /\ Taken = Filled
    BY <1>4, <1>5 DEF PrepOK, ContextOK
  <2>2. Filled = (g + 2) * V - next_buf_stop + next_buf_row
    BY DEF Filled
  <2> HIDE DEF g, V, H
  <2>3. (g + 2) * V = g * V + 2 * V
    BY <1>1, <1>4
  <2> QED
    BY <1>1, <1>4, <2>1, <2>2, <2>3
<1>6. CASE ~need_context_rows
  <2>1. next_buf_row \in 0..(V - 1) /\ Taken = g * V + next_buf_row
    BY <1>6 DEF PrepOK, PlainOK
  <2> HIDE DEF g, V, H
  <2> QED
    BY <1>1, <1>4, <2>1
<1> QED
  BY <1>5, <1>6

\* process_data_simple_main after an iMCU row is coded: the line held back is
\* counted again.
LEMMA RowEnds ==
  ASSUME IInv, RowCoded
  PROVE  IInv'
<1>1. /\ pc = "coding" /\ RowDone /\ pc' = "lines" /\ img' = img
      /\ in_row_ctr' = (IF suspended THEN in_row_ctr + 1 ELSE in_row_ctr) /\ suspended' = FALSE
      /\ rowgroup_ctr' = 0 /\ cur_iMCU_row' = cur_iMCU_row + 1
      /\ UNCHANGED <<file, sent, global_state, next_scanline, in_rows_avail, prep_vars, coef_mode, whole_image,
                     pass_type, pass_number, scan_number, is_last_pass, gather, call_pass_startup>>
  BY DEF RowCoded, RowDone, api_vars
<1>2. MainGoal
  BY <1>1, PcTells, MainHolds
<1>3. /\ img \in Pictures /\ ShapeOK /\ LinesOK /\ CallOK /\ PrepOK /\ BufferOK /\ MainPassOK /\ McuOK /\ sent = next_scanline
      /\ global_state = "SCANNING" /\ ~call_pass_startup
  BY <1>1, <1>2 DEF MainGoal, MainPart, MainPassOK
<1>4. /\ sent \in Nat /\ in_row_ctr \in Nat /\ in_rows_avail \in Nat /\ suspended \in BOOLEAN /\ rows_to_go \in Nat
      /\ rows_to_go = img.image_height - Taken /\ rowgroup_ctr = DCTSIZE /\ cur_iMCU_row \in 0..total_iMCU_rows
      /\ (cur_iMCU_row = total_iMCU_rows => rowgroup_ctr = 0)
  BY <1>1, <1>3 DEF LinesOK
<1>5. /\ total_iMCU_rows \in Nat \ {0} /\ DCTSIZE \in Nat \ {0} /\ img.image_height \in Nat
      /\ \A c \in Comps : rgh(c) \in Nat
  <2>1. \A c \in Comps : SamplingOK(c)
    BY <1>3, Sampling
  <2> QED
    BY <1>3, <2>1, Sizes, ImageAssumption DEF SizesOK, SamplingOK
<1>6. cur_iMCU_row \in Nat /\ cur_iMCU_row + 1 \in 0..total_iMCU_rows
  BY <1>4, <1>5
<1>7. Same
  BY <1>1, PictureStays DEF Same
<1>8. /\ total_iMCU_rows' = total_iMCU_rows /\ total_passes' = total_passes /\ (need_context_rows' <=> need_context_rows)
      /\ Comps' = Comps /\ \A c : rgh(c)' = rgh(c)
  BY <1>7 DEF Same, Steady, SteadySizes
<1>9. Held' = 0 /\ in_row_ctr' = in_row_ctr + Held /\ Held \in {0, 1} /\ (Held = 0 <=> ~suspended)
  BY <1>1, <1>4 DEF Held
<1>10. Taken' = Taken
  BY <1>1, <1>4, <1>9 DEF Taken
<1>11. Groups' = Groups
  BY <1>1, <1>4, <1>5, <1>6 DEF Groups
<1>12. rows_to_go' = rows_to_go
  BY <1>1 DEF prep_vars
<1>13. ShapeOK' /\ PrepOK'
  <2>1. CASE need_context_rows
    BY <1>1, <1>3, <1>10, <1>11, <2>1, ContentsStay
  <2>2. CASE ~need_context_rows
    <3>1. rows_to_go = 0 => cur_iMCU_row = total_iMCU_rows - 1
      BY <1>3, <1>4, <1>5, <2>2 DEF PrepOK, PlainOK
    <3>2. rows_to_go = 0 => cur_iMCU_row' = total_iMCU_rows
      BY <1>1, <1>5, <1>6, <3>1
    <3> QED
      BY <1>1, <1>3, <1>10, <1>11, <3>2, ContentsStay
  <2> QED
    BY <2>1, <2>2
<1>14. BufferOK'
  <2>1. \A c \in Comps : 0..(0 * rgh(c) - 1) = {}
    BY <1>5
  <2> QED
    BY <1>1, <1>8, <2>1 DEF BufferOK
<1>15. LinesOK'
  <2>1. cur_iMCU_row + 1 = total_iMCU_rows => rows_to_go = 0
    BY <1>3, <1>4, LastRowDone
  <2>2. in_row_ctr' \in Nat /\ 0 \in 0..DCTSIZE
    BY <1>4, <1>5, <1>9
  <2> QED
    BY <1>1, <1>4, <1>6, <1>8, <1>10, <1>12, <2>1, <2>2 DEF LinesOK
<1>16. CallOK'
  <2>1. in_rows_avail <= img.image_height - sent /\ in_row_ctr + Held <= in_rows_avail
    BY <1>1, <1>3 DEF CallOK
  <2>2. ~(~suspended /\ in_row_ctr = 0)
    BY <1>1, <1>3, <1>4, <1>5 DEF CallOK
  <2>3. in_row_ctr' # 0 /\ in_row_ctr' + 0 = in_row_ctr + Held
    BY <1>4, <1>9, <2>2
  <2> QED
    BY <1>1, <1>9, <2>1, <2>3 DEF CallOK
<1>17. McuOK' /\ Coded' = Coded /\ iMCU_row_num' = iMCU_row_num + 1 /\ scan' = scan
  BY <1>1, <1>2, MainCoder, RowStep
<1>18. MainPassOK'
  BY <1>1, <1>3, <1>8, <1>17 DEF MainPassOK
<1>19. MainPart'
  BY <1>1, <1>3, <1>13, <1>14, <1>15, <1>16, <1>17, <1>18 DEF MainPart, Cranking
<1>20. StoredOK'
  <2>1. StoredRows' = StoredRows
    BY <1>1, <1>3 DEF StoredRows, Cranking
  <2> QED
    BY <1>1, <1>2, <2>1, StoredStays DEF MainGoal, StoredOK
<1>21. Written(1, Coded)' = Written(1, Coded)
  BY <1>7, <1>17 DEF Same, SteadyScans
<1>22. MainGoal'
  BY <1>1, <1>2, <1>19, <1>20, <1>21 DEF MainGoal, StoredOK
<1> QED
  BY <1>22, MainDone, PTL

\* A suspension inside an iMCU row: the last line is held back once, and there
\* is a line to hold back.
LEMMA RowHeldUp ==
  ASSUME IInv, RowSuspended
  PROVE  IInv'
<1>1. /\ pc = "coding" /\ MCU_vert_offset' = yoffset /\ mcu_ctr' = MCU_col_num /\ Uncount /\ suspended' = TRUE /\ pc' = "return"
      /\ img' = img
      /\ UNCHANGED <<file, sent, global_state, next_scanline, in_rows_avail, cur_iMCU_row, rowgroup_ctr, prep_vars,
                     coef_mode, whole_image, iMCU_row_num, MCU_rows,
                     pass_type, pass_number, scan_number, scan, is_last_pass, gather, call_pass_startup>>
  BY DEF RowSuspended, api_vars, master_vars, pass_vars
<1>2. MainGoal
  BY <1>1, PcTells, MainHolds
<1>3. /\ img \in Pictures /\ ShapeOK /\ LinesOK /\ CallOK /\ PrepOK /\ BufferOK /\ MainPassOK /\ McuOK /\ sent = next_scanline
      /\ global_state = "SCANNING" /\ ~call_pass_startup
  BY <1>1, <1>2 DEF MainGoal, MainPart, MainPassOK
<1>4. /\ sent \in Nat /\ in_row_ctr \in Nat /\ in_rows_avail \in Nat /\ suspended \in BOOLEAN /\ rows_to_go \in Nat
      /\ rows_to_go = img.image_height - Taken /\ rowgroup_ctr = DCTSIZE /\ cur_iMCU_row \in 0..total_iMCU_rows
  BY <1>1, <1>3 DEF LinesOK
<1>5. Same
  BY <1>1, PictureStays DEF Same
<1>6. total_iMCU_rows' = total_iMCU_rows /\ total_passes' = total_passes /\ Comps' = Comps /\ \A c, b : Block(c, b)' = Block(c, b)
  BY <1>5 DEF Same, Steady, SteadyRows
<1>7. in_row_ctr' \in Nat /\ in_row_ctr' + 1 = in_row_ctr + Held /\ Held' = 1
  <2>1. ~suspended => in_row_ctr # 0
    BY <1>1, <1>3, <1>4, ImageAssumption DEF CallOK
  <2> QED
    BY <1>1, <1>4, <2>1 DEF Uncount, Held
<1>8. Taken' = Taken
  <2>1. Taken = sent + (in_row_ctr + Held) /\ Taken' = sent + (in_row_ctr' + 1)
    BY <1>1, <1>4, <1>7 DEF Taken, Held
  <2> QED
    BY <1>7, <2>1
<1>9. ShapeOK' /\ PrepOK' /\ BufferOK'
  BY <1>1, <1>3, <1>8, RowsStay
<1>10. rows_to_go' = rows_to_go
  BY <1>1 DEF prep_vars
<1>11. LinesOK'
  BY <1>1, <1>3, <1>4, <1>6, <1>7, <1>8, <1>10 DEF LinesOK
<1>12. CallOK'
  <2>1. in_rows_avail <= img.image_height - sent /\ in_row_ctr + Held <= in_rows_avail
    BY <1>1, <1>3 DEF CallOK
  <2> QED
    BY <1>1, <1>7, <2>1 DEF CallOK
<1>13. MainPassOK'
  BY <1>1, <1>3, <1>6 DEF MainPassOK
<1>14. McuOK' /\ Coded' = Coded
  <2>1. McuRow' = McuRow /\ McuCol' = McuCol
    BY <1>1 DEF McuRow, McuCol
  <2> QED
    BY <1>1, <1>3, <2>1, PlaceStays
<1>15. MainPart'
  BY <1>1, <1>3, <1>9, <1>11, <1>12, <1>13, <1>14 DEF MainPart, Cranking
<1>16. StoredOK'
  <2> SUFFICES ASSUME coef_mode # "pass_thru", NEW c \in Comps, NEW b \in 0..(img.v[c] * cur_iMCU_row - 1)
               PROVE  whole_image[c][b] = Block(c, b)
    <3>1. StoredRows' = cur_iMCU_row
      BY <1>1, <1>3 DEF StoredRows, Cranking
    <3> QED
      BY <1>1, <1>6, <3>1 DEF StoredOK
  <2>1. StoredRows = cur_iMCU_row + 1
    BY <1>1, <1>3 DEF StoredRows, Cranking
  <2>2. b \in 0..(img.v[c] * (cur_iMCU_row + 1) - 1)
    <3> DEFINE v == img.v[c]
               row == cur_iMCU_row
    <3>1. v \in Nat \ {0} /\ row \in Nat
      <4>1. total_iMCU_rows \in Nat
        BY <1>3, Sizes DEF SizesOK
      <4>2. v \in Nat \ {0}
        BY <1>3, SampledRows
      <4> QED
        BY <1>4, <4>1, <4>2
    <3>2. b \in 0..(v * row - 1)
      OBVIOUS
    <3> HIDE DEF v, row
    <3>3. v * (row + 1) = v * row + v /\ v * row \in Nat
      BY <3>1
    <3>4. b \in 0..(v * (row + 1) - 1)
      BY <3>1, <3>2, <3>3
    <3> QED
      BY <3>4 DEF v, row
  <2> QED
    BY <1>2, <2>1, <2>2 DEF MainGoal
<1>17. Written(1, Coded)' = Written(1, Coded)
  BY <1>5, <1>14 DEF Same, SteadyScans
<1>18. MainGoal'
  BY <1>1, <1>2, <1>15, <1>16, <1>17 DEF MainGoal, StoredOK
<1> QED
  BY <1>18, MainDone, PTL

\* jpeg_write_scanlines returns and counts the lines taken.
LEMMA CallReturns ==
  ASSUME IInv, LinesTaken
  PROVE  IInv'
<1>1. /\ pc \in {"lines", "return"} /\ next_scanline' = next_scanline + in_row_ctr /\ sent' = sent + in_row_ctr /\ pc' = "app"
      /\ in_row_ctr' = 0 /\ in_rows_avail' = 0 /\ img' = img
      /\ UNCHANGED <<file, global_state, cur_iMCU_row, rowgroup_ctr, suspended, prep_vars,
                     coef_mode, whole_image, iMCU_row_num, MCU_rows, mcu_ctr, MCU_vert_offset,
                     pass_type, pass_number, scan_number, scan, is_last_pass, gather, call_pass_startup>>
  BY DEF LinesTaken, Forget, main_vars, coef_vars, master_vars, pass_vars
<1>2. MainGoal
  BY <1>1, PcTells, MainHolds
<1>3. /\ img \in Pictures /\ ShapeOK /\ LinesOK /\ CallOK /\ PrepOK /\ BufferOK /\ MainPassOK /\ McuOK /\ sent = next_scanline
      /\ global_state = "SCANNING" /\ ~call_pass_startup
  BY <1>1, <1>2 DEF MainGoal, MainPart, MainPassOK
<1>4. /\ sent \in Nat /\ in_row_ctr \in Nat /\ suspended \in BOOLEAN /\ rows_to_go \in Nat
      /\ rows_to_go = img.image_height - Taken /\ cur_iMCU_row \in 0..total_iMCU_rows /\ rowgroup_ctr \in 0..DCTSIZE
  BY <1>3 DEF LinesOK
<1>5. Same
  BY <1>1, PictureStays DEF Same
<1>6. total_iMCU_rows' = total_iMCU_rows /\ total_passes' = total_passes
  BY <1>5 DEF Same, Steady
<1>7. Taken' = Taken
  BY <1>1, <1>4 DEF Taken, Held
<1>8. ShapeOK' /\ PrepOK' /\ BufferOK'
  BY <1>1, <1>3, <1>7, RowsStay
<1>9. rows_to_go' = rows_to_go
  BY <1>1 DEF prep_vars
<1>10. LinesOK'
  <2>1. sent + in_row_ctr \in Nat /\ 0 \in Nat
    BY <1>4
  <2> QED
    BY <1>1, <1>3, <1>4, <1>6, <1>7, <1>9, <2>1 DEF LinesOK
<1>11. (rowgroup_ctr # DCTSIZE \/ suspended) /\ (rows_to_go = 0 => cur_iMCU_row = total_iMCU_rows \/ suspended)
  <2>1. CASE pc = "return"
    BY <1>3, <2>1 DEF LinesOK
  <2>2. CASE pc = "lines" /\ cur_iMCU_row >= total_iMCU_rows
    <3>1. cur_iMCU_row = total_iMCU_rows
      BY <1>3, <1>4, <2>2, Sizes DEF SizesOK
    <3>2. rowgroup_ctr = 0
      BY <1>3, <3>1 DEF LinesOK
    <3> QED
      BY <3>1, <3>2, ImageAssumption
  <2>3. CASE pc = "lines" /\ rowgroup_ctr < DCTSIZE /\ NeedsLines
    <3>1. rowgroup_ctr # DCTSIZE
      BY <1>4, <2>3, ImageAssumption
    <3>2. need_context_rows => rows_to_go # 0
      BY <2>3 DEF NeedsLines
    <3>3. ~need_context_rows /\ rows_to_go = 0 => cur_iMCU_row = total_iMCU_rows
      BY <1>3, <3>1 DEF PrepOK, PlainOK
    <3> QED
      BY <3>1, <3>2, <3>3
  <2> QED
    BY <2>1, <2>2, <2>3 DEF LinesTaken
<1>12. CallOK'
  BY <1>1, <1>6, <1>9, <1>11 DEF CallOK
<1>13. MainPassOK'
  BY <1>1, <1>3, <1>6 DEF MainPassOK
<1>14. McuOK' /\ Coded' = Coded
  <2>1. McuRow' = McuRow /\ McuCol' = McuCol
    BY <1>1 DEF McuRow, McuCol
  <2>2. ~suspended' => McuRow = 0 /\ McuCol = 0
    BY <1>1, <1>3 DEF McuOK
  <2> QED
    BY <1>1, <1>3, <2>1, <2>2, PlaceStays
<1>15. MainPart'
  BY <1>1, <1>3, <1>8, <1>10, <1>12, <1>13, <1>14 DEF MainPart, Cranking
<1>16. StoredOK'
  <2>1. StoredRows' = StoredRows
    BY <1>1, <1>3 DEF StoredRows, Cranking
  <2> QED
    BY <1>1, <1>2, <2>1, StoredStays DEF MainGoal, StoredOK
<1>17. Written(1, Coded)' = Written(1, Coded)
  BY <1>5, <1>14 DEF Same, SteadyScans
<1>18. MainGoal'
  BY <1>1, <1>2, <1>15, <1>16, <1>17 DEF MainGoal, StoredOK
<1> QED
  BY <1>18, MainDone, PTL

-----------------------------------------------------------------------------
(* The passes                                                                 *)

\* Steps that leave the buffers leave their shape.
LEMMA ShapeSame ==
  ASSUME ShapeOK, img' = img, UNCHANGED <<prep_vars, whole_image>>
  PROVE  ShapeOK'
<1>1. Comps' = Comps /\ buf_height' = buf_height /\ total_iMCU_rows' = total_iMCU_rows /\ \A c : rgh(c)' = rgh(c)
  BY PictureStays DEF Steady, SteadySizes
<1>2. UNCHANGED <<buffer, color_buf, whole_image>>
  BY DEF prep_vars
<1> QED
  BY <1>1, <1>2 DEF ShapeOK

\* The blocks of the picture that are in the coefficient arrays stay there.
AllStored ==
    coef_mode # "pass_thru" => \A c \in Comps : \A b \in 0..(img.v[c] * total_iMCU_rows - 1) : whole_image[c][b] = Block(c, b)

\* Steps of the later passes leave the blocks of the picture stored.
LEMMA AllStoredStays ==
  ASSUME AllStored, img' = img, whole_image' = whole_image, coef_mode # "pass_thru" \/ coef_mode' = coef_mode
  PROVE  AllStored'
<1>1. Comps' = Comps /\ total_iMCU_rows' = total_iMCU_rows /\ \A c, b : Block(c, b)' = Block(c, b)
  BY PictureStays DEF Steady, SteadyRows
<1> QED
  BY <1>1 DEF AllStored

\* jpeg_finish_compress is called with every line taken: it raises no error,
\* and every MCU of the main pass is written or counted.
LEMMA FinishCompress ==
  ASSUME IInv, jpeg_finish_compress
  PROVE  IInv'
<1>1. /\ pc = "app" /\ global_state = "SCANNING" /\ sent = img.image_height /\ img' = img
      /\ UNCHANGED <<file, sent, next_scanline, suspended, prep_vars, coef_mode, whole_image, iMCU_row_num>>
  BY DEF jpeg_finish_compress, main_vars, coef_vars
<1>2. MainGoal
  BY <1>1, MainHolds DEF Filling
<1>3. /\ img \in Pictures /\ ShapeOK /\ LinesOK /\ CallOK /\ MainPassOK /\ McuOK /\ sent = next_scanline /\ MainPart
  BY <1>2 DEF MainGoal, MainPart
<1>4. img.image_height \in Nat \ {0} /\ total_iMCU_rows \in Nat \ {0}
  BY <1>3, Sizes DEF SizesOK
<1>5. finish_pass_master /\ pc' = "passes" /\ global_state' = "SCANNING"
  BY <1>1, <1>3, <1>4 DEF jpeg_finish_compress
<1>6. ~suspended /\ rows_to_go = 0 /\ cur_iMCU_row = total_iMCU_rows
  <2>1. in_row_ctr = 0 /\ rows_to_go \in Nat /\ rows_to_go = img.image_height - Taken /\ Taken = sent + in_row_ctr + Held
    BY <1>1, <1>3 DEF LinesOK, CallOK, Taken
  <2>2. ~suspended /\ rows_to_go = 0
    BY <1>1, <1>4, <2>1 DEF Held
  <2> QED
    BY <1>1, <1>3, <2>2 DEF CallOK
<1>7. /\ scan_number = 0 /\ pass_number = 0 /\ pass_type = "main" /\ scan = 1 /\ gather = img.optimize
      /\ is_last_pass = (total_passes = 1) /\ (total_passes > 1 => coef_mode = "save_and_pass")
      /\ iMCU_row_num = total_iMCU_rows /\ ~call_pass_startup
  BY <1>3, <1>4, <1>6 DEF MainPassOK
<1>8. /\ pass_type' = "output" /\ scan_number' = (IF img.optimize THEN 0 ELSE 1) /\ pass_number' = 1
      /\ UNCHANGED <<scan, is_last_pass, call_pass_startup, gather>>
  <2>1. scan_number + 1 = 1 /\ pass_number + 1 = 1
    BY <1>7
  <2> QED
    BY <1>5, <1>7, <2>1 DEF finish_pass_master
<1>9. Same
  BY <1>1, PictureStays DEF Same
<1>10. total_passes' = total_passes
  BY <1>9 DEF Same, Steady
<1>11. ScanCount \in Nat \ {0} /\ total_passes \in Nat \ {0} /\ img.optimize \in BOOLEAN /\ ScanCount = Len(img.scans)
  BY <1>3, PassCount DEF ScanCount
<1>12. LaterPassesOK'
  <2>1. scan_number' \in 0..Len(img.scans) /\ pass_number' \in 1..total_passes
    BY <1>8, <1>11
  <2> QED
    BY <1>1, <1>5, <1>6, <1>7, <1>8, <1>10, <1>11, <2>1 DEF LaterPassesOK
<1>13. LaterPart'
  <2>1. ShapeOK'
    BY <1>1, <1>3, ShapeSame
  <2> QED
    BY <1>1, <1>3, <1>4, <1>5, <1>12, <2>1 DEF LaterPart, Filling
<1>14. AllStored'
  <2>1. AllStored
    <3>1. StoredRows = total_iMCU_rows
      BY <1>1, <1>3, <1>6 DEF StoredRows, MainPart
    <3> QED
      BY <1>2, <3>1 DEF MainGoal, AllStored
  <2> QED
    BY <1>1, <2>1, AllStoredStays
<1>15. file' = IF scan_number' = 0 THEN <<>> ELSE Start(scan_number')
  <2>1. CASE img.optimize
    BY <1>1, <1>2, <1>7, <1>8, <2>1 DEF MainGoal
  <2>2. CASE ~img.optimize
    <3>1. file = Written(1, Coded)
      BY <1>2, <1>7, <2>2 DEF MainGoal
    <3>2. Coded = McusOf(1)
      BY <1>3, <1>7, MainCoded DEF CodedOK
    <3>3. Written(1, McusOf(1)) = Start(1)
      <4>1. 1 \in 1..ScanCount
        BY <1>11
      <4> QED
        BY <1>3, <4>1, Writes DEF WrittenOK
    <3> QED
      BY <1>1, <1>8, <2>2, <3>1, <3>2, <3>3
  <2> QED
    BY <2>1, <2>2
<1>16. Start(scan_number)' = Start(scan_number')
  BY <1>9 DEF Same, SteadyScans
<1>17. LaterGoal'
  BY <1>5, <1>13, <1>14, <1>15, <1>16 DEF LaterGoal, AllStored
<1> QED
  BY <1>17, LaterDone, PTL

\* The pass that follows one over the coefficients, or over the source.
LEMMA PassBegins ==
  ASSUME IInv, NextPass
  PROVE  IInv'
<1> DEFINE N == ScanCount
           sn == scan_number
           pn == pass_number
<1>1. /\ pc = "passes" /\ ~is_last_pass /\ (HuffOptPass \/ OutputPass) /\ IsLast /\ coef_mode' = "crank_dest" /\ call_pass_startup' = FALSE
      /\ pc' = "rows" /\ iMCU_row' = 0 /\ img' = img
      /\ UNCHANGED <<sent, global_state, next_scanline, suspended, prep_vars, whole_image, scan_number>>
  BY DEF NextPass, api_vars, main_vars
<1>2. LaterGoal
  BY <1>1, PcTells, LaterHolds
<1>3. /\ img \in Pictures /\ ShapeOK /\ LaterPassesOK /\ sent = next_scanline /\ sent \in Nat /\ global_state = "SCANNING"
  BY <1>2 DEF LaterGoal, LaterPart
<1>4. /\ N \in Nat \ {0} /\ N = Len(img.scans) /\ total_passes \in Nat \ {0} /\ img.optimize \in BOOLEAN
      /\ total_passes = IF img.optimize THEN 2 * N ELSE N
  BY <1>3, PassCount DEF ScanCount
<1>5. /\ sent = img.image_height /\ ~suspended /\ sn \in 0..N /\ pn \in 1..total_passes /\ is_last_pass = (pn = total_passes)
      /\ (total_passes > 1 => coef_mode # "pass_thru")
      /\ (img.optimize => /\ pass_type \in {"output", "huff_opt"}
                          /\ pn = 2 * sn + (IF pass_type = "output" THEN 1 ELSE 0)
                          /\ (pass_type = "output" => scan = sn + 1))
      /\ (~img.optimize => pass_type = "output" /\ pn = sn)
  BY <1>1, <1>3, <1>4 DEF LaterPassesOK
<1>6. pn < total_passes /\ coef_mode # "pass_thru"
  <2>1. pn # total_passes
    BY <1>1, <1>5
  <2>2. total_passes \in Nat /\ pn \in 1..total_passes
    BY <1>4, <1>5
  <2>3. pn < total_passes /\ total_passes > 1
    BY <2>1, <2>2
  <2> QED
    BY <1>5, <2>3
<1>7. sn \in Nat /\ sn < N /\ sn + 1 \in 1..N
  <2>1. CASE img.optimize
    BY <1>4, <1>5, <1>6, <2>1
  <2>2. CASE ~img.optimize
    BY <1>4, <1>5, <1>6, <2>2
  <2> QED
    BY <1>4, <2>1, <2>2
<1>8. /\ start_iMCU_row(sn + 1, 0) /\ pass_type' \in {"output", "huff_opt"} /\ gather' = (pass_type' = "huff_opt")
      /\ (img.optimize => pass_number' = 2 * sn + (IF pass_type' = "output" THEN 1 ELSE 0))
      /\ (~img.optimize => pass_type' = "output" /\ pass_number' = sn)
      /\ file' = (IF gather' THEN file ELSE file \o Headers(sn + 1))
  <2>1. CASE HuffOptPass
    <3>1. img.optimize /\ pass_type = "huff_opt" /\ pn = 2 * sn + 0
      BY <1>4, <1>5, <2>1 DEF HuffOptPass
    <3> QED
      BY <2>1, <3>1 DEF HuffOptPass
  <2>2. CASE OutputPass
    <3>1. pass_type \in {"output", "huff_opt"} /\ gather' = FALSE /\ pass_type' = "output"
      BY <2>2 DEF OutputPass
    <3>2. (IF pass_type = "output" /\ img.optimize THEN scan ELSE sn + 1) = sn + 1
      BY <1>4, <1>5
    <3>3. start_iMCU_row(sn + 1, 0)
      BY <2>2, <3>2 DEF OutputPass
    <3>4. scan' = sn + 1
      BY <3>3 DEF start_iMCU_row
    <3>5. pass_number' = (IF pass_type = "huff_opt" THEN pn + 1 ELSE pn) /\ file' = file \o Headers(scan')
      BY <2>2 DEF OutputPass
    <3>6. img.optimize => pass_number' = 2 * sn + 1
      BY <1>5, <1>7, <3>1, <3>5
    <3>7. ~img.optimize => pass_number' = sn
      BY <1>5, <3>5
    <3> QED
      BY <3>1, <3>3, <3>4, <3>5, <3>6, <3>7
  <2> QED
    BY <1>1, <2>1, <2>2
<1>9. McuOK' /\ Coded' = 0 /\ scan' = sn + 1 /\ iMCU_row_num' = 0
  BY <1>1, <1>3, <1>7, <1>8, ScanBegins
<1>10. pass_number' \in 1..total_passes /\ pass_number' < total_passes
  <2>1. CASE img.optimize
    <3>1. pass_number' < total_passes /\ pass_number' \in Nat
      BY <1>4, <1>7, <1>8, <2>1
    <3>2. pass_number' # 0
      <4>1. CASE OutputPass
        BY <1>7, <1>8, <2>1, <4>1 DEF OutputPass
      <4>2. CASE HuffOptPass
        BY <1>4, <1>5, <4>2 DEF HuffOptPass
      <4> QED
        BY <1>1, <4>1, <4>2
    <3> QED
      BY <1>4, <3>1, <3>2
  <2>2. CASE ~img.optimize
    BY <1>4, <1>5, <1>7, <1>8, <2>2
  <2> QED
    BY <1>4, <2>1, <2>2
<1>11. Same
  BY <1>1, PictureStays DEF Same
<1>12. total_passes' = total_passes /\ total_iMCU_rows' = total_iMCU_rows
  BY <1>11 DEF Same, Steady
<1>13. PassOK'
  <2>1. is_last_pass' = (pass_number' + 1 = total_passes)
    BY <1>1, <1>4, <1>10, <1>12 DEF IsLast
  <2>2. 0 \in 0..total_iMCU_rows
    BY <1>3, Sizes DEF SizesOK
  <2> QED
    BY <1>1, <1>4, <1>7, <1>8, <1>9, <1>10, <1>12, <2>1, <2>2 DEF PassOK
<1>14. LaterPassesOK'
  BY <1>1, <1>4, <1>5, <1>8, <1>10, <1>12, <1>13 DEF LaterPassesOK
<1>15. LaterPart'
  <2>1. ShapeOK'
    BY <1>1, <1>3, ShapeSame
  <2> QED
    BY <1>1, <1>3, <1>9, <1>14, <2>1 DEF LaterPart, Filling
<1>16. AllStored'
  BY <1>1, <1>2, <1>6, AllStoredStays DEF LaterGoal, AllStored
<1>17. file = IF sn = 0 THEN <<>> ELSE Start(sn)
  BY <1>1, <1>2 DEF LaterGoal
<1>18. file \o Headers(sn + 1) = Written(sn + 1, 0)
  <2>1. Written(sn + 1, 0) = Start((sn + 1) - 1) \o <<SOS(sn + 1)>>
    BY <1>3, <1>7, Writes DEF WrittenOK
  <2>2. (sn + 1) - 1 = sn
    BY <1>7
  <2>3. CASE sn = 0
    <3>1. Start(sn) = <<SOF>>
      BY <1>3, <2>3, Starts DEF StartsOK
    <3>2. file \o Headers(sn + 1) = <<>> \o (<<SOF>> \o <<SOS(sn + 1)>>)
      BY <1>17, <2>3 DEF Headers
    <3>3. <<>> \o (<<SOF>> \o <<SOS(sn + 1)>>) = <<SOF>> \o <<SOS(sn + 1)>>
      OBVIOUS
    <3> QED
      BY <2>1, <2>2, <3>1, <3>2, <3>3
  <2>4. CASE sn # 0
    <3>1. file \o Headers(sn + 1) = Start(sn) \o (<<>> \o <<SOS(sn + 1)>>)
      BY <1>17, <2>4 DEF Headers
    <3>2. <<>> \o <<SOS(sn + 1)>> = <<SOS(sn + 1)>>
      OBVIOUS
    <3> QED
      BY <2>1, <2>2, <3>1, <3>2
  <2> QED
    BY <2>3, <2>4
<1>19. Written(scan, Coded)' = Written(sn + 1, 0) /\ Start(scan_number)' = Start(sn)
  BY <1>1, <1>9, <1>11 DEF Same, SteadyScans
<1>20. LaterGoal'
  BY <1>1, <1>8, <1>15, <1>16, <1>17, <1>18, <1>19 DEF LaterGoal, AllStored
<1> QED
  BY <1>20, LaterDone, PTL

\* A row of a pass over the coefficients begins.
LEMMA CrankBegins ==
  ASSUME IInv, CrankRow
  PROVE  IInv'
<1>1. /\ pc = "rows" /\ iMCU_row < total_iMCU_rows /\ compress_data /\ pc' = "cranking" /\ img' = img
      /\ UNCHANGED <<file, sent, global_state, next_scanline, iMCU_row, suspended, prep_vars,
                     pass_type, pass_number, scan_number, scan, is_last_pass, gather, call_pass_startup>>
  BY DEF CrankRow, api_vars, call_vars, main_vars, master_vars, pass_vars
<1>2. LaterGoal
  BY <1>1, PcTells, LaterHolds
<1>3. /\ img \in Pictures /\ ShapeOK /\ LaterPassesOK /\ sent = next_scanline /\ sent \in Nat /\ global_state = "SCANNING"
      /\ McuOK /\ PassOK
  BY <1>1, <1>2 DEF LaterGoal, LaterPart, LaterPassesOK
<1>4. coef_mode = "crank_dest" /\ whole_image' = whole_image /\ yoffset' = MCU_vert_offset /\ MCU_col_num' = mcu_ctr
      /\ UNCHANGED <<coef_mode, iMCU_row_num, MCU_rows>>
  BY <1>1, <1>3 DEF compress_data, PassOK
<1>5. Same
  BY <1>1, PictureStays DEF Same
<1>6. total_passes' = total_passes /\ total_iMCU_rows' = total_iMCU_rows
  BY <1>5 DEF Same, Steady
<1>7. McuOK' /\ Coded' = Coded
  <2>1. McuRow' = McuRow /\ McuCol' = McuCol
    BY <1>1, <1>4 DEF McuRow, McuCol
  <2> QED
    BY <1>1, <1>3, <1>4, <2>1, PlaceStays
<1>8. LaterPassesOK'
  <2>1. PassOK'
    BY <1>1, <1>3, <1>4, <1>6 DEF PassOK
  <2> QED
    BY <1>1, <1>3, <1>4, <1>6, <2>1 DEF LaterPassesOK
<1>9. LaterPart'
  <2>1. ShapeOK'
    BY <1>1, <1>3, <1>4, ShapeSame
  <2> QED
    BY <1>1, <1>3, <1>7, <1>8, <2>1 DEF LaterPart, Filling
<1>10. AllStored'
  BY <1>1, <1>2, <1>4, AllStoredStays DEF LaterGoal, AllStored
<1>11. Written(scan, Coded)' = Written(scan, Coded) /\ Start(scan_number)' = Start(scan_number)
  BY <1>1, <1>5, <1>7 DEF Same, SteadyScans
<1>12. LaterGoal'
  BY <1>1, <1>2, <1>9, <1>10, <1>11 DEF LaterGoal, AllStored
<1> QED
  BY <1>12, LaterDone, PTL

\* A row of a pass over the coefficients ends.
LEMMA CrankEnds ==
  ASSUME IInv, RowCranked
  PROVE  IInv'
<1>1. /\ pc = "cranking" /\ RowDone /\ pc' = "rows" /\ iMCU_row' = iMCU_row + 1 /\ img' = img
      /\ UNCHANGED <<file, sent, global_state, next_scanline, suspended, prep_vars, coef_mode, whole_image,
                     pass_type, pass_number, scan_number, is_last_pass, gather, call_pass_startup>>
  BY DEF RowCranked, RowDone, api_vars, main_vars
<1>2. LaterGoal
  BY <1>1, PcTells, LaterHolds
<1>3. /\ img \in Pictures /\ ShapeOK /\ LaterPassesOK /\ sent = next_scanline /\ sent \in Nat /\ global_state = "SCANNING"
      /\ McuOK /\ PassOK
  BY <1>1, <1>2 DEF LaterGoal, LaterPart, LaterPassesOK
<1>4. McuOK' /\ Coded' = Coded /\ iMCU_row_num' = iMCU_row_num + 1 /\ scan' = scan
  BY <1>1, <1>2, LaterCoder, RowStep
<1>5. Same
  BY <1>1, PictureStays DEF Same
<1>6. total_passes' = total_passes /\ total_iMCU_rows' = total_iMCU_rows
  BY <1>5 DEF Same, Steady
<1>7. LaterPassesOK'
  <2>1. iMCU_row + 1 \in 0..total_iMCU_rows
    <3>1. total_iMCU_rows \in Nat /\ iMCU_row \in 0..total_iMCU_rows /\ iMCU_row < total_iMCU_rows
      BY <1>1, <1>3, Sizes DEF SizesOK, PassOK
    <3> QED
      BY <3>1
  <2>2. PassOK'
    BY <1>1, <1>3, <1>4, <1>6, <2>1 DEF PassOK
  <2> QED
    BY <1>1, <1>3, <1>6, <2>2 DEF LaterPassesOK
<1>8. LaterPart'
  <2>1. ShapeOK'
    BY <1>1, <1>3, ShapeSame
  <2> QED
    BY <1>1, <1>3, <1>4, <1>7, <2>1 DEF LaterPart, Filling
<1>9. AllStored'
  BY <1>1, <1>2, AllStoredStays DEF LaterGoal, AllStored
<1>10. Written(scan, Coded)' = Written(scan, Coded) /\ Start(scan_number)' = Start(scan_number)
  BY <1>1, <1>4, <1>5 DEF Same, SteadyScans
<1>11. LaterGoal'
  BY <1>1, <1>2, <1>8, <1>9, <1>10 DEF LaterGoal, AllStored
<1> QED
  BY <1>11, LaterDone, PTL

\* A pass ends with all the MCUs of its scan coded.
LEMMA PassEnds ==
  ASSUME IInv, PassDone
  PROVE  IInv'
<1> DEFINE N == ScanCount
           sn == scan_number
           pn == pass_number
<1>1. /\ pc = "rows" /\ iMCU_row >= total_iMCU_rows /\ finish_pass_master /\ pc' = "passes" /\ img' = img
      /\ UNCHANGED <<file, sent, global_state, next_scanline, suspended, prep_vars, coef_mode, whole_image>>
  BY DEF PassDone, api_vars, main_vars, coef_vars
<1>2. LaterGoal
  BY <1>1, PcTells, LaterHolds
<1>3. /\ img \in Pictures /\ ShapeOK /\ LaterPassesOK /\ sent = next_scanline /\ sent \in Nat /\ global_state = "SCANNING"
      /\ PassOK /\ LaterPart
  BY <1>1, <1>2 DEF LaterGoal, LaterPart, LaterPassesOK
<1>4. /\ N \in Nat \ {0} /\ N = Len(img.scans) /\ total_passes \in Nat \ {0} /\ img.optimize \in BOOLEAN
  BY <1>3, PassCount DEF ScanCount
<1>5. /\ sent = img.image_height /\ ~suspended /\ ~call_pass_startup /\ sn \in 0..N /\ pn \in 1..total_passes
      /\ pn < total_passes /\ is_last_pass = (pn + 1 = total_passes)
      /\ (total_passes > 1 => coef_mode # "pass_thru") /\ gather = (pass_type = "huff_opt") /\ scan = sn + 1 /\ sn < N
      /\ (img.optimize => /\ pass_type \in {"output", "huff_opt"}
                          /\ pn = 2 * sn + (IF pass_type = "output" THEN 1 ELSE 0))
      /\ (~img.optimize => pass_type = "output" /\ pn = sn)
  BY <1>3, <1>4 DEF LaterPassesOK, PassOK
<1>6. /\ pass_type' = (IF pass_type = "output" /\ img.optimize THEN "huff_opt" ELSE "output")
      /\ scan_number' = (IF pass_type = "output" THEN sn + 1 ELSE sn) /\ pass_number' = pn + 1
      /\ UNCHANGED <<scan, is_last_pass, call_pass_startup, gather>>
  <2>1. pass_type # "main"
    BY <1>4, <1>5
  <2> QED
    BY <1>1, <2>1 DEF finish_pass_master
<1>7. iMCU_row_num = total_iMCU_rows
  <2>1. total_iMCU_rows \in Nat /\ iMCU_row \in 0..total_iMCU_rows /\ iMCU_row = iMCU_row_num
    BY <1>3, Sizes DEF SizesOK, PassOK
  <2> QED
    BY <1>1, <2>1
<1>8. Same
  BY <1>1, PictureStays DEF Same
<1>9. total_passes' = total_passes
  BY <1>8 DEF Same, Steady
<1>10. LaterPassesOK'
  <2>1. scan_number' \in 0..N /\ pass_number' \in 1..total_passes
    BY <1>4, <1>5, <1>6
  <2>2. img.optimize => /\ pass_type' \in {"output", "huff_opt"}
                        /\ pass_number' = 2 * scan_number' + (IF pass_type' = "output" THEN 1 ELSE 0)
                        /\ (pass_type' = "output" => scan = scan_number' + 1)
    BY <1>4, <1>5, <1>6
  <2>3. ~img.optimize => pass_type' = "output" /\ pass_number' = scan_number'
    BY <1>4, <1>5, <1>6
  <2>4. is_last_pass' = (pass_number' = total_passes)
    BY <1>5, <1>6
  <2> QED
    BY <1>1, <1>4, <1>5, <1>6, <1>9, <2>1, <2>2, <2>3, <2>4 DEF LaterPassesOK
<1>11. LaterPart'
  <2>1. ShapeOK'
    BY <1>1, <1>3, ShapeSame
  <2> QED
    BY <1>1, <1>3, <1>10, <2>1 DEF LaterPart, Filling
<1>12. AllStored'
  BY <1>1, <1>2, AllStoredStays DEF LaterGoal, AllStored
<1>13. file = IF scan_number' = 0 THEN <<>> ELSE Start(scan_number')
  <2>1. CASE pass_type = "output"
    <3>1. file = Written(scan, Coded)
      BY <1>1, <1>2, <1>5, <2>1 DEF LaterGoal
    <3>2. Coded = McusOf(scan)
      BY <1>1, <1>3, <1>7, LaterCoded DEF CodedOK
    <3>3. Written(scan, McusOf(scan)) = Start(scan)
      <4>1. scan \in 1..ScanCount
        BY <1>4, <1>5
      <4> QED
        BY <1>3, <4>1, Writes DEF WrittenOK
    <3>4. scan_number' = scan /\ scan # 0
      BY <1>4, <1>5, <1>6, <2>1
    <3> QED
      BY <3>1, <3>2, <3>3, <3>4
  <2>2. CASE pass_type # "output"
    <3>1. gather
      BY <1>4, <1>5, <2>2
    <3> QED
      BY <1>2, <1>6, <2>2, <3>1 DEF LaterGoal
  <2> QED
    BY <2>1, <2>2
<1>14. Start(scan_number)' = Start(scan_number')
  BY <1>8 DEF Same, SteadyScans
<1>15. LaterGoal'
  BY <1>1, <1>11, <1>12, <1>13, <1>14 DEF LaterGoal, AllStored
<1> QED
  BY <1>15, LaterDone, PTL

\* The file is whole when it is closed.
LEMMA FileEnds ==
  ASSUME IInv, FileDone
  PROVE  IInv'
<1> DEFINE N == ScanCount
<1>1. /\ pc = "passes" /\ is_last_pass /\ file' = Append(file, EOI) /\ global_state' = "START" /\ pc' = "app" /\ img' = img
      /\ UNCHANGED <<sent, next_scanline, prep_vars, whole_image>>
  BY DEF FileDone, coef_vars
<1>2. LaterGoal
  BY <1>1, PcTells, LaterHolds
<1>3. /\ img \in Pictures /\ ShapeOK /\ LaterPassesOK /\ sent = next_scanline /\ sent \in Nat
  BY <1>2 DEF LaterGoal, LaterPart
<1>4. /\ N \in Nat \ {0} /\ N = Len(img.scans) /\ img.optimize \in BOOLEAN
      /\ total_passes = IF img.optimize THEN 2 * N ELSE N
  BY <1>3, PassCount DEF ScanCount
<1>5. scan_number = N
  <2>1. pass_number = total_passes /\ scan_number \in 0..N
    BY <1>1, <1>3, <1>4 DEF LaterPassesOK
  <2>2. CASE img.optimize
    <3>1. pass_number = 2 * scan_number \/ pass_number = 2 * scan_number + 1
      <4>1. pass_number = 2 * scan_number + (IF pass_type = "output" THEN 1 ELSE 0)
        BY <1>3, <2>2 DEF LaterPassesOK
      <4> QED
        BY <1>4, <2>1, <4>1
    <3> QED
      BY <1>4, <2>1, <2>2, <3>1
  <2>3. CASE ~img.optimize
    BY <1>3, <1>4, <2>1, <2>3 DEF LaterPassesOK
  <2> QED
    BY <2>2, <2>3
<1>6. file = Start(N)
  BY <1>1, <1>2, <1>4, <1>5 DEF LaterGoal
<1>7. file' = ExpectedFile /\ file' # <<>>
  <2>1. Start(N) \in Seq(Units) /\ ExpectedFile = Start(N) \o <<EOI>>
    BY <1>3, <1>4, Starts DEF StartsOK
  <2>2. Append(Start(N), EOI) = Start(N) \o <<EOI>> /\ Len(Append(Start(N), EOI)) = Len(Start(N)) + 1 /\ Len(Start(N)) \in Nat
    <3>1. EOI \in Units
      BY DEF Units
    <3> HIDE DEF N
    <3> QED
      BY <2>1, <3>1
  <2>3. Append(Start(N), EOI) # <<>>
    BY <2>2
  <2> QED
    BY <1>1, <1>6, <2>1, <2>2, <2>3
<1>8. ExpectedFile' = ExpectedFile
  BY <1>1, PictureStays DEF Steady
<1>9. ~Filling' /\ ~Cranking'
  BY <1>1 DEF Filling, Cranking
<1>10. StateOK'
  BY <1>1, <1>3, <1>7, <1>8 DEF StateOK
<1>11. ShapeOK'
  BY <1>1, <1>3, ShapeSame
<1> QED
  BY <1>9, <1>10, <1>11 DEF IInv, FillingOK, CrankingOK, PlaceOK, ImageOK, FileOK

-----------------------------------------------------------------------------
(* The theorem                                                                *)

\* No step of the compressor breaks its invariant.
LEMMA StepHolds ==
  ASSUME IInv, [CompressorNext]_compressor
  PROVE  IInv'
<1>1. CASE jpeg_start_compress
  BY <1>1, StartCompress
<1>2. CASE \E n \in Lines, r \in Rooms : jpeg_write_scanlines(n, r)
  BY <1>2, WriteScanlines
<1>3. CASE PreProcess
  BY <1>3, PreProcessed
<1>4. CASE CodeRow
  BY <1>4, RowBegins
<1>5. CASE encode_mcu
  BY <1>5, McuEncoded
<1>6. CASE McuRowDone
  BY <1>6, McuRowEnds
<1>7. CASE RowCoded
  BY <1>7, RowEnds
<1>8. CASE RowSuspended
  BY <1>8, RowHeldUp
<1>9. CASE LinesTaken
  BY <1>9, CallReturns
<1>10. CASE jpeg_finish_compress
  BY <1>10, FinishCompress
<1>11. CASE NextPass
  BY <1>11, PassBegins
<1>12. CASE CrankRow
  BY <1>12, CrankBegins
<1>13. CASE RowCranked
  BY <1>13, CrankEnds
<1>14. CASE PassDone
  BY <1>14, PassEnds
<1>15. CASE FileDone
  BY <1>15, FileEnds
<1>16. CASE UNCHANGED compressor
  <2>1. /\ UNCHANGED <<img, file, pc, sent, global_state, next_scanline, in_row_ctr, in_rows_avail, iMCU_row,
                       cur_iMCU_row, rowgroup_ctr, suspended, prep_vars, coef_mode, whole_image, iMCU_row_num, MCU_rows, mcu_ctr,
                       MCU_vert_offset, MCU_col_num, yoffset, master_vars>>
    BY <1>16 DEF compressor, api_vars, call_vars, main_vars, coef_vars, loop_vars
  <2>2. UNCHANGED <<call_pass_startup, pass_type, pass_number, scan_number, scan, is_last_pass, gather>>
    BY <2>1 DEF master_vars, pass_vars
  <2>3. Same
    BY <2>1, PictureStays DEF Same
  <2>4. CASE Filling
    <3>1. MainGoal
      BY <2>4, MainHolds
    <3>2. MainPart
      BY <3>1 DEF MainGoal
    <3>3. McuOK' /\ Coded' = Coded
      <4>1. McuRow' = McuRow /\ McuCol' = McuCol
        BY <2>1 DEF McuRow, McuCol
      <4> QED
        BY <2>1, <2>2, <3>2, <4>1, PlaceStays DEF MainPart, McuOK
    <3>4. /\ total_iMCU_rows' = total_iMCU_rows /\ total_passes' = total_passes
      BY <2>3 DEF Same, Steady
    <3>5. Taken' = Taken /\ Held' = Held
      BY <2>1 DEF Taken, Held
    <3>6. ShapeOK' /\ PrepOK' /\ BufferOK'
      BY <2>1, <3>2, <3>5, RowsStay DEF MainPart
    <3>7. rows_to_go' = rows_to_go
      BY <2>1 DEF prep_vars
    <3>8. LinesOK'
      <4>1. LinesOK
        BY <3>2 DEF MainPart
      <4> QED
        BY <2>1, <3>4, <3>5, <3>7, <4>1 DEF LinesOK
    <3>9. CallOK'
      <4>1. CallOK
        BY <3>2 DEF MainPart
      <4> QED
        BY <2>1, <3>4, <3>5, <3>7, <4>1 DEF CallOK
    <3>10. MainPassOK'
      <4>1. MainPassOK
        BY <3>2 DEF MainPart
      <4> QED
        BY <2>1, <2>2, <3>4, <4>1 DEF MainPassOK
    <3>11. ~Cranking'
      BY <2>1, <3>2 DEF MainPart, Cranking
    <3>12. img' \in Pictures /\ sent' = next_scanline' /\ global_state' = "SCANNING" /\ pc' \in {"app", "lines", "coding", "return"}
      BY <2>1, <3>2 DEF MainPart
    <3>13. MainPart'
      BY <3>3, <3>6, <3>8, <3>9, <3>10, <3>11, <3>12 DEF MainPart
    <3>14. StoredOK'
      <4>1. StoredRows' = StoredRows
        BY <2>1, <3>4 DEF StoredRows, Cranking
      <4> QED
        BY <2>1, <3>1, <4>1, StoredStays DEF MainGoal, StoredOK
    <3>15. Written(1, Coded)' = Written(1, Coded)
      BY <2>3, <3>3 DEF Same, SteadyScans
    <3>16. MainGoal'
      BY <2>1, <2>2, <3>1, <3>13, <3>14, <3>15 DEF MainGoal, StoredOK
    <3> QED
      BY <3>16, MainDone, PTL
  <2>5. CASE Cranking
    <3>1. LaterGoal
      BY <2>5, LaterHolds
    <3>2. LaterPart
      BY <3>1 DEF LaterGoal
    <3>3. pc # "passes" => McuOK' /\ Coded' = Coded
      <4>1. McuRow' = McuRow /\ McuCol' = McuCol
        BY <2>1 DEF McuRow, McuCol
      <4> QED
        BY <2>1, <2>2, <3>2, <4>1, PlaceStays DEF LaterPart, McuOK
    <3>4. /\ total_iMCU_rows' = total_iMCU_rows /\ total_passes' = total_passes
      BY <2>3 DEF Same, Steady
    <3>5. ShapeOK'
      BY <2>1, <3>2, ShapeSame DEF LaterPart
    <3>6. LaterPassesOK'
      <4>1. LaterPassesOK
        BY <3>2 DEF LaterPart
      <4>2. PassOK => PassOK'
        BY <2>1, <2>2, <3>4 DEF PassOK
      <4> QED
        BY <2>1, <2>2, <3>4, <4>1, <4>2 DEF LaterPassesOK
    <3>7. LaterPart'
      BY <2>1, <3>2, <3>3, <3>5, <3>6 DEF LaterPart, Filling
    <3>8. AllStored'
      BY <2>1, <3>1, AllStoredStays DEF LaterGoal, AllStored
    <3>9. (pc # "passes" => Written(scan, Coded)' = Written(scan, Coded)) /\ Start(scan_number)' = Start(scan_number)
      BY <2>2, <2>3, <3>3 DEF Same, SteadyScans
    <3>10. LaterGoal'
      BY <2>1, <2>2, <3>1, <3>7, <3>8, <3>9 DEF LaterGoal, AllStored
    <3> QED
      BY <3>10, LaterDone, PTL
  <2>6. CASE ~Filling /\ ~Cranking
    <3>1. ~Filling' /\ ~Cranking'
      BY <2>1, <2>6 DEF Filling, Cranking
    <3>2. ExpectedFile' = ExpectedFile
      BY <2>3 DEF Same, Steady
    <3>3. StateOK'
      BY <2>1, <2>2, <2>6, <3>1, <3>2 DEF IInv, StateOK
    <3>4. ShapeOK'
      BY <2>1, ShapeSame DEF IInv
    <3> QED
      BY <3>1, <3>3, <3>4 DEF IInv, FillingOK, CrankingOK, PlaceOK, ImageOK, FileOK
  <2> QED
    BY <2>4, <2>5, <2>6
<1> QED
  BY <1>1, <1>2, <1>3, <1>4, <1>5, <1>6, <1>7, <1>8, <1>9, <1>10, <1>11, <1>12, <1>13, <1>14, <1>15, <1>16 DEF CompressorNext

\* The compressor keeps its invariant: what its controllers hold is what the
\* picture has at the place they have come to.
THEOREM CompressorInvariant == CompressorSpec => []IInv
BY InitHolds, StepHolds, PTL DEF CompressorSpec

\* What is written is the beginning of the file of the picture.
LEMMA FileFollows ==
  ASSUME IInv
  PROVE  FileIsImage
<1>1. img \in Pictures /\ global_state \in {"START", "SCANNING"} /\ (global_state = "SCANNING" => Filling \/ Cranking)
      /\ (global_state = "START" => file \in {<<>>, ExpectedFile})
  BY DEF IInv, StateOK
<1>2. \A k \in 0..ScanCount : Continues(Start(k))
  BY <1>1, StartContinues
<1>3. \A k \in 1..ScanCount : \A n \in 0..McusOf(k) : Continues(Written(k, n))
  BY <1>1, StartContinues
<1>4. Continues(<<>>) /\ Continues(ExpectedFile)
  BY <1>1, StartContinues
<1>5. Continues(file)
  <2>1. CASE global_state = "START"
    BY <1>1, <1>4, <2>1
  <2>2. CASE Filling
    <3>1. MainGoal
      BY <2>2, MainHolds
    <3>2. CodedOK /\ scan = 1
      BY <3>1, MainCoded DEF MainGoal, MainPart, MainPassOK
    <3>3. Continues(Written(1, Coded))
      BY <1>3, <3>2 DEF CodedOK
    <3> QED
      BY <1>4, <3>1, <3>3 DEF MainGoal
  <2>3. CASE Cranking
    <3>1. LaterGoal
      BY <2>3, LaterHolds
    <3>2. LaterPart
      BY <3>1 DEF LaterGoal
    <3>3. scan_number \in 0..ScanCount
      BY <3>2 DEF LaterPart, LaterPassesOK, ScanCount
    <3>4. Continues(Start(scan_number))
      BY <1>2, <3>3
    <3>5. pc # "passes" => Continues(Written(scan, Coded))
      <4>1. pc # "passes" => CodedOK
        BY <3>2, LaterCoded
      <4> QED
        BY <1>3, <4>1 DEF CodedOK
    <3> QED
      BY <1>4, <3>1, <3>4, <3>5 DEF LaterGoal
  <2> QED
    BY <1>1, <2>1, <2>2, <2>3
<1>6. IsPrefix(file, ExpectedFile)
  BY <1>5, PrefixContinues
<1> QED
  BY <1>1, <1>6 DEF FileIsImage

\* However the lines of a picture come and wherever its destination suspends,
\* the compressor writes the file of the picture, and no other.
THEOREM CompressorWritesImage == CompressorSpec => []FileIsImage
<1>1. IInv => FileIsImage
  BY FileFollows
<1> QED
  BY <1>1, CompressorInvariant, PTL
=============================================================================

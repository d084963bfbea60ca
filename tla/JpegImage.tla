---------------------------- MODULE JpegImage ----------------------------
(* The geometry of a picture, which jcmaster.c computes for the compressor  *)
(* and jdinput.c and jdmaster.c compute again for the decompressor.         *)
(* The horizontal direction is folded: the MCU_width blocks that a          *)
(* component has in a block row of an MCU are one block here.               *)
EXTENDS Integers, Sequences, FiniteSetsExt, SequencesExt

CONSTANTS DCTSIZE,       \* rows of a block, 8 in the code
          MCUsPerRow

ASSUME ImageAssumption == DCTSIZE \in Nat \ {0} /\ MCUsPerRow \in Nat \ {0}

VARIABLES
  img,       \* the picture: image_height, v (the v_samp_factor of each
             \* component), scans (each with its comps, Ss, Ah and Al), and the
             \* choices progressive, optimize, smoothing, fancy of its compressor
  file       \* its compressed form, a sequence of markers and MCUs

SOF == [t |-> "SOF"]
EOI == [t |-> "EOI"]
SOS(k) == [t |-> "SOS", scan |-> k]
MCU(blocks) == [t |-> "MCU", blocks |-> blocks]

jdiv_round_up(a, b) == (a + b - 1) \div b
LeastOf(a, b) == IF a < b THEN a ELSE b
Comps == 1..Len(img.v)
Columns == 0..(MCUsPerRow - 1)
max_v_samp_factor == Max({img.v[c] : c \in Comps})
total_iMCU_rows == jdiv_round_up(img.image_height, max_v_samp_factor * DCTSIZE)
height_in_blocks(c) == jdiv_round_up(img.image_height * img.v[c], max_v_samp_factor * DCTSIZE)
last_row_height(c) == LET rest == height_in_blocks(c) % img.v[c] IN IF rest = 0 THEN img.v[c] ELSE rest
MCU_height(comps, c) == IF Len(comps) = 1 THEN 1 ELSE img.v[c]
MCU_rows_per_iMCU_row(comps, row) ==
    IF Len(comps) > 1 THEN 1
    ELSE IF row < total_iMCU_rows - 1 THEN img.v[comps[1]] ELSE last_row_height(comps[1])

\* Blocks of components with less than the full sampling get a DCT of twice or
\* four times the size, as far as the limit for it and the sampling allow; the
\* horizontal sampling is taken to allow as much.
DCT_v_scaled_size(c, min, fancy) ==
    LET Doubles(ssize) == /\ min * ssize <= IF fancy THEN DCTSIZE ELSE DCTSIZE \div 2
                          /\ max_v_samp_factor % (img.v[c] * ssize * 2) = 0
    IN  min * (IF ~Doubles(1) THEN 1 ELSE IF ~Doubles(2) THEN 2 ELSE 4)
rowgroup_height(c, min, fancy) == (img.v[c] * DCT_v_scaled_size(c, min, fancy)) \div min

\* The rows of a block of m rows that show in row j of the block at n rows.
RowsShown(j, n, m) == {i \in 0..(m - 1) : i * n < (j + 1) * m /\ (i + 1) * n > j * m}
=============================================================================

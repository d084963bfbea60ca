--------------------------- MODULE MCJpegEntropy ---------------------------
(***************************************************************************)
(* Small pictures for JpegEntropy: blocks of 1 by 1 or 2 by 2 coefficients *)
(* in every mode of the coders.                                            *)
(***************************************************************************)
EXTENDS JpegEntropy

\* A 2 by 2 block, in zigzag order; a 1 by 1 block.
Blk(dc, k1, k2, k3) == [ZeroBlock EXCEPT ![0] = dc, ![1] = k1, ![8] = k2, ![9] = k3]
Dot(dc) == [ZeroBlock EXCEPT ![0] = dc]

Scan(comps, Ss, Se, Ah, Al) == [comps |-> comps, Ss |-> Ss, Se |-> Se, Ah |-> Ah, Al |-> Al]
Table(bits, huffval) ==
  [bits |-> [l \in 1..MaxCodeLength |-> IF l \in DOMAIN bits THEN bits[l] ELSE 0], huffval |-> huffval]
DcTable == Table(<<1, 1, 1, 1>>, <<1, 0, 2, 3>>)
AcTable == Table(<<0, 2, 3, 1>>, <<0, 1, 17, 2, 34, 33>>)
BothTables == [dc |-> <<DcTable, DcTable>>, ac |-> <<AcTable, AcTable>>]

Job(picture, samp, n, script) ==
  [picture |-> picture, samp |-> samp, tbl |-> [c \in DOMAIN samp |-> 1], n |-> n, script |-> script,
   progressive |-> FALSE, arith |-> FALSE, optimize |-> FALSE, restart_interval |-> 0, tables |-> BothTables,
   dsize |-> [c \in DOMAIN samp |-> <<n, n>>], needed |-> [c \in DOMAIN samp |-> TRUE]]

\* Two components, one of them subsampled; a restart marker every second MCU.
TwoComponents ==
  [Job(<< <<Blk(3, 1, 0, 0), Blk(2, 0, -1, 0), Blk(2, 0, 0, 0), Blk(-1, 0, 0, 3), Blk(0, -2, 0, -1), Blk(1, 0, 0, 0)>>,
          <<Blk(-2, 0, 0, 1), Blk(-3, 0, 0, 0), Blk(0, 3, 1, 0)>> >>, <<2, 1>>, 2, <<Scan(<<1, 2>>, 0, 3, 0, 0)>>)
     EXCEPT !.restart_interval = 2, !.tbl = <<1, 2>>]
\* The same, for an inverse DCT that is smaller than the blocks.
Scaled == [TwoComponents EXCEPT !.dsize = <<<<1, 2>>, <<2, 1>>>>, !.needed = <<TRUE, TRUE>>]
Unneeded == [TwoComponents EXCEPT !.dsize = <<<<2, 1>>, <<2, 2>>>>, !.needed = <<TRUE, FALSE>>, !.optimize = TRUE]

\* All bits of the coefficients in four scans.
Levels == <<Scan(<<1>>, 0, 0, 0, 1), Scan(<<1>>, 1, 3, 0, 1), Scan(<<1>>, 0, 0, 1, 0), Scan(<<1>>, 1, 3, 1, 0)>>
Shades == <<Blk(3, 2, 0, -1), Blk(-3, 0, 0, 0), Blk(-2, 0, -3, 1), Blk(1, 0, 2, 0), Blk(0, 0, 0, 0),
            Blk(2, 1, -2, 3), Blk(0, -1, 2, 1), Blk(1, 1, -3, 2), Blk(0, 2, 1, 2)>>
Progression == [Job(<<Shades>>, <<1>>, 2, Levels) EXCEPT !.progressive = TRUE, !.optimize = TRUE]
ProgressionInParts == [Progression EXCEPT !.restart_interval = 2]

\* DC in a scan of both components, AC in a scan of each.
Mixed ==
  [TwoComponents EXCEPT !.progressive = TRUE, !.optimize = TRUE,
     !.script = <<Scan(<<1, 2>>, 0, 0, 0, 1), Scan(<<1>>, 1, 3, 0, 0), Scan(<<2>>, 1, 3, 0, 1),
                  Scan(<<1, 2>>, 0, 0, 1, 0), Scan(<<2>>, 1, 3, 1, 0)>>]

\* A distribution of differences whose best code has five bits.
Skewed ==
  [Job(<<<<Dot(0), Dot(0), Dot(0), Dot(0), Dot(0), Dot(0), Dot(0), Dot(0), Dot(1), Dot(2), Dot(1), Dot(2), Dot(1),
           Dot(-1), Dot(1), Dot(-1), Dot(3), Dot(3), Dot(7), Dot(20)>>>>, <<1>>, 1, <<Scan(<<1>>, 0, 0, 0, 0)>>)
     EXCEPT !.optimize = TRUE]

Arithmetic == [TwoComponents EXCEPT !.arith = TRUE]
ArithmeticLevels == [ProgressionInParts EXCEPT !.arith = TRUE]

\* More restart intervals than restart markers have numbers.
Dots == <<Dot(1), Dot(-2), Dot(3), Dot(0), Dot(1), Dot(1), Dot(-3), Dot(2), Dot(0), Dot(-1)>>
Intervals == [Job(<<Dots>>, <<1>>, 1, <<Scan(<<1>>, 0, 0, 0, 0)>>) EXCEPT !.restart_interval = 1]
ArithmeticIntervals == [Intervals EXCEPT !.arith = TRUE]

\* Intervals so long that one is read to its end before its marker has come.
LongIntervals ==
  [Job(<<<<Blk(200, 100, -90, 1), Blk(-20, 90, 80, -100)>>>>, <<1>>, 2, <<Scan(<<1>>, 0, 3, 0, 0)>>)
     EXCEPT !.restart_interval = 1, !.optimize = TRUE]

MCJobs == {TwoComponents, Scaled, Unneeded, Progression, ProgressionInParts, Mixed, Skewed, Arithmetic, ArithmeticLevels,
           Intervals, LongIntervals, ArithmeticIntervals}
=============================================================================

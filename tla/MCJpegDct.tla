------------------------------ MODULE MCJpegDct ------------------------------
EXTENDS JpegDct, TLC

AllSizes == DctSizes
Unfaulty == AllSizes \ {<<12, 12>>, <<14, 14>>, <<12, 6>>, <<14, 7>>}

Flat(q) == [v \in 0..7 |-> [u \in 0..7 |-> q]]
Coarse == [v \in 0..7 |-> [u \in 0..7 |-> 24 + 3 * (u + v)]]
MCQuantTables == (0 :> Coarse) @@ (1 :> Flat(1))

Single(tbl, c, d) == [tbl |-> <<tbl>>, csize |-> <<c>>, dsize |-> <<d>>]
SizeSetups == {Single(t, s, s) : t \in {0, 1}, s \in Unfaulty}
              \cup {Single(0, s, d) : s \in {<<8, 8>>, <<5, 5>>}, d \in AllSizes}
FaultySetups == {Single(0, s, s) : s \in AllSizes \ Unfaulty}

Picture(F(_, _, _, _)) ==
  [s \in AllSizes |-> [i \in 0..s[2] - 1 |-> [j \in 0..s[1] - 1 |-> F(i, j, s[2], s[1])]]]
Ramp == Picture(LAMBDA i, j, h, w : 40 + (150 * j) \div w + (40 * i) \div h)
Wave == Picture(LAMBDA i, j, h, w : 128 + 60 * (IF (4 * j) \div w \in {0, 3} THEN 1 ELSE -1)
                                         + (IF (4 * i) \div h \in {1, 2} THEN 30 ELSE -30))
Corner == Picture(LAMBDA i, j, h, w : IF 2 * i < h /\ 2 * j < w THEN 255 ELSE 20)
MCPictures == {Ramp, Wave, Corner}
Pair(t1, t2, c1, c2, d1, d2) == [tbl |-> <<t1, t2>>, csize |-> <<c1, c2>>, dsize |-> <<d1, d2>>]
PassSetups == {Pair(0, 1, <<8, 8>>, <<16, 16>>, <<8, 8>>, <<8, 8>>),
               Pair(0, 0, <<8, 8>>, <<8, 8>>, <<8, 8>>, <<16, 8>>),
               Pair(0, 0, <<8, 8>>, <<16, 16>>, <<8, 8>>, <<16, 16>>),
               Pair(1, 1, <<4, 4>>, <<8, 8>>, <<4, 4>>, <<8, 8>>)}
MCSetups == SizeSetups \cup PassSetups
MCMethods == {ISLOW, IFAST}
=============================================================================

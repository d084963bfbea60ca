----------------------------- MODULE MCJpegCodec -----------------------------
(***************************************************************************)
(* Small pictures for JpegCodec: blocks of two rows, MCU rows of two MCUs. *)
(***************************************************************************)
EXTENDS JpegCodec

Scanned(comps, Ss, Ah, Al) == [comps |-> comps, Ss |-> Ss, Ah |-> Ah, Al |-> Al]
Together == <<Scanned(<<1, 2>>, 0, 0, 0)>>
OneByOne == <<Scanned(<<1>>, 0, 0, 0), Scanned(<<2>>, 0, 0, 0)>>
Alone == <<Scanned(<<1>>, 0, 0, 0)>>
Progression == <<Scanned(<<1, 2>>, 0, 0, 1), Scanned(<<1>>, 1, 0, 0), Scanned(<<1, 2>>, 0, 1, 0)>>

Picture(height, v, scans) ==
    [image_height |-> height, v |-> v, scans |-> scans, progressive |-> scans = Progression,
     optimize |-> FALSE, smoothing |-> FALSE, fancy |-> TRUE]
Opt(scaled_size, fancy) ==
    [scaled_size |-> scaled_size, fancy |-> fancy, raw |-> FALSE, quant |-> "none", buffered |-> FALSE]
Case(pic, opts, cuts) == [img |-> pic, opts |-> opts, cuts |-> cuts]
Raw(o) == [o EXCEPT !.raw = TRUE]
Quant(o, q) == [o EXCEPT !.quant = q]
Buffered(o) == [o EXCEPT !.buffered = TRUE]

MCCases == {
    Case(Picture(5, <<2, 1>>, Together),
         {Opt(2, TRUE), Opt(2, FALSE), Opt(1, TRUE), Raw(Opt(2, TRUE)), Quant(Opt(2, TRUE), "two"), Quant(Opt(2, FALSE), "one")}, {4}),
    Case([Picture(5, <<2, 1>>, Together) EXCEPT !.smoothing = TRUE, !.fancy = FALSE], {Opt(4, FALSE), Opt(2, TRUE)}, {}),
    Case([Picture(5, <<2, 1>>, Progression) EXCEPT !.optimize = TRUE, !.smoothing = TRUE],
         {Opt(2, TRUE), Buffered(Opt(2, TRUE))}, {}),
    Case(Picture(5, <<2, 1>>, OneByOne), {Opt(2, TRUE), Buffered(Opt(1, FALSE))}, {8}),
    Case(Picture(3, <<2, 1>>, Together), {Quant(Buffered(Opt(2, FALSE)), "two")}, {}),
    Case(Picture(3, <<1, 1>>, Together), {Opt(2, FALSE)}, {3}),
    Case(Picture(3, <<2>>, Alone), {Opt(2, TRUE), Quant(Opt(2, TRUE), "two")}, {}),
    Case(Picture(2, <<3, 1>>, Together), {Opt(2, FALSE), Quant(Opt(2, FALSE), "two")}, {})}
MCPictures == {case.img : case \in MCCases}
==============================================================================

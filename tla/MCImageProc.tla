----------------------------- MODULE MCImageProc -----------------------------
(* One small picture for ImageProc.                                           *)
EXTENDS ImageProc

MCPictures == {[image_height |-> 5, v |-> <<2, 1>>, scans |-> <<[comps |-> <<1, 2>>, Ss |-> 0, Ah |-> 0, Al |-> 0]>>,
                progressive |-> FALSE, optimize |-> FALSE, smoothing |-> FALSE, fancy |-> TRUE]}
==============================================================================

------------------------- MODULE MCMjpegInputStream -------------------------
(* The instance of MjpegInputStream for TLC: images of four to eleven       *)
(* bytes, one with a stuffed 0xFF, one with a fill byte before its end      *)
(* marker and one with a thumbnail, and headers of zero to two bytes, or    *)
(* nine, beside the length line, against a search limit of ten bytes.       *)
EXTENDS MjpegInputStream

SmallBodies == {<<>>, <<FF>>, <<FF, 0>>, <<FF, 216, FF, 217>>, <<0, 0, 0>>, <<0, 0, 0, 0, 0, 0, 0>>}
SmallPreambles == {<<>>, <<13>>, <<13, 10>>, <<13, 13, 13, 13, 13, 13, 13, 13, 10>>}
=============================================================================

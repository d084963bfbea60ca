--------------------------- MODULE MCMjpegActivity ---------------------------
(* The instance of MjpegActivity for TLC: its configurations give the views  *)
(* the numbers 1 and 2 and everything else model values.                     *)
EXTENDS MjpegActivity
=============================================================================

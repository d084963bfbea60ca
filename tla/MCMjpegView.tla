---------------------------- MODULE MCMjpegView ----------------------------
(* Instances of MjpegView for TLC. *)
EXTENDS MjpegView
=============================================================================

---------------------------- MODULE MCJpegGather ----------------------------
(***************************************************************************)
(* Five symbols, DC or AC, whose counts grow as skewed as twelve of them   *)
(* allow; with codes of at most three bits, some have to be shortened, and *)
(* some are too long to be.  A scan has two components on one table, one   *)
(* may end in a run of blocks, and one has a table of each kind.           *)
(***************************************************************************)
EXTENDS JpegGather

MCSymbols == {0, 1, 17, 33, 240}
MCScript == <<<<"dc1", "dc1">>, <<"ac1">>, <<"dc1", "ac1">>>>
MCMaxSymbols == <<12, 1, 2>>
=============================================================================

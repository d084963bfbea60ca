----------------------------- MODULE JpegDctDefs -----------------------------
(***************************************************************************)
(* What the forward and the inverse DCT of jpeg8d share: the fixed-point   *)
(* scale of the accurate integer method and the rounding of jdct.h.        *)
(***************************************************************************)
EXTENDS Integers, Sequences

CONST_BITS == 13
PASS1_BITS == 2
ONE == 2 ^ CONST_BITS

MAXJSAMPLE == 255
CENTERJSAMPLE == 128

\* DESCALE of jdct.h, and the RIGHT_SHIFT of a value with its rounding "fudge
\* factor" added: an arithmetic shift, rounding half up.
DESCALE(x, n) == (x + 2 ^ (n - 1)) \div (2 ^ n)

\* MULTIPLY of the fast methods: eight bits of fraction, cut off.
Multiply(var, const) == (var * const) \div 256
=============================================================================

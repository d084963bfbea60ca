------------------------------- MODULE JpegDct -------------------------------
(***************************************************************************)
(* The DCT managers of jpeg8d, jcdctmgr.c and jddctmgr.c, over the         *)
(* transforms of JpegForwardDct and JpegInverseDct.                        *)
(*                                                                         *)
(* A picture of a few components, one block each, is compressed, the file  *)
(* is shown in one or more output passes, as an application in             *)
(* buffered-image mode does while the file is still coming in, and a       *)
(* picture that was shown may be compressed once more.  A component has    *)
(* its DCT size in the compressor and in the decompressor, and the number  *)
(* of its quantization table, which components may share.                  *)
(***************************************************************************)
EXTENDS JpegForwardDct, JpegInverseDct, FiniteSets, SequencesExt

CONSTANTS
  QuantTables,    \* table number -> [0..7 -> [0..7 -> 1..255]]
  Setups,         \* [tbl, csize, dsize], each a sequence with an entry for every component
  Methods,        \* the J_DCT_METHODs the application asks for, 8x8 blocks only
  Pictures,       \* what is compressed: a function of a size to samples
  MaxPasses,      \* bound on output passes
  NULL

ISLOW == "JDCT_ISLOW"
IFAST == "JDCT_IFAST"
MAX_COMPONENTS == 10  \* jmorecfg.h

\* The sizes <<width, height>> there is a transform for.
DctSizes == {<<n, n>> : n \in 1..16} \cup {<<2 * n, n>> : n \in 1..8} \cup {<<n, 2 * n>> : n \in 1..8}
Samples(size) == [0..size[2] - 1 -> [0..size[1] - 1 -> 0..MAXJSAMPLE]]
Images(size) == [1..size[2] -> [1..size[1] -> 0..MAXJSAMPLE]]

ASSUME DctAssumption ==
  /\ NULL \notin Methods \cup {ISLOW}
  /\ \A t \in DOMAIN QuantTables :
       QuantTables[t] # NULL /\ QuantTables[t] \in [0..7 -> [0..7 -> 1..255]]
  /\ \A s \in Setups :
       /\ s.tbl \in Seq(DOMAIN QuantTables) /\ Len(s.tbl) <= MAX_COMPONENTS
       /\ s.csize \in [DOMAIN s.tbl -> DctSizes] /\ s.dsize \in [DOMAIN s.tbl -> DctSizes]
  /\ \A p \in Pictures : \A size \in DctSizes : p[size] \in Samples(size)
  /\ MaxPasses \in Nat

VARIABLES
  setup,          \* compptr->quant_tbl_no and DCT_*_scaled_size of every component
  samples,        \* the component's block in the compressor
  do_dct,         \* fdct->do_dct: component -> the method it runs, NULL before a pass
  divisors,       \* fdct->divisors: table number -> divisors or NULL
  coefs,          \* component -> the quantized block, NULL until compressed
  first,          \* the coefs of the first compression
  quant_table,    \* compptr->quant_table: latched when the component's data comes
  inverse_DCT,    \* idct->inverse_DCT: component -> the method it runs
  cur_method,     \* idct->cur_method: the method dct_table is for
  dct_table,      \* compptr->dct_table: multipliers, zero at first
  blank,          \* components that had no data when the output pass began
  shown,          \* component -> the samples put out in this pass or NULL
  passes          \* output passes begun

Components == DOMAIN setup.tbl

encoder == <<samples, do_dct, divisors, coefs, first>>
decoder == <<quant_table, inverse_DCT, cur_method, dct_table, blank, shown, passes>>
vars == <<setup, encoder, decoder>>

-----------------------------------------------------------------------------
Block == [0..7 -> [0..7 -> Int]]
Zero == [v \in 0..7 |-> [u \in 0..7 |-> 0]]
EachCoef(Op(_, _), a, b) == [v \in 0..7 |-> [u \in 0..7 |-> Op(a[v][u], b[v][u])]]

\* The scale factors of Arai, Agui and Nakajima, times 2^14.
aanscales == <<
  <<16384, 22725, 21407, 19266, 16384, 12873,  8867,  4520>>,
  <<22725, 31521, 29692, 26722, 22725, 17855, 12299,  6270>>,
  <<21407, 29692, 27969, 25172, 21407, 16819, 11585,  5906>>,
  <<19266, 26722, 25172, 22654, 19266, 15137, 10426,  5315>>,
  <<16384, 22725, 21407, 19266, 16384, 12873,  8867,  4520>>,
  <<12873, 17855, 16819, 15137, 12873, 10114,  6967,  3552>>,
  << 8867, 12299, 11585, 10426,  8867,  6967,  4799,  2446>>,
  << 4520,  6270,  5906,  5315,  4520,  3552,  2446,  1247>> >>
Scaled(quantval, bits) ==
  [v \in 0..7 |-> [u \in 0..7 |-> DESCALE(quantval[v][u] * aanscales[v + 1][u + 1], 14 - bits)]]

\* Any size but 8x8 is in the accurate method's hands.
MethodOf(size, dct_method) == IF size = <<8, 8>> THEN dct_method ELSE ISLOW

FdctPasses(size) ==
  CASE size = <<8, 8>> -> jpeg_fdct_islow
    [] size = <<1, 1>> -> jpeg_fdct_1x1       [] size = <<2, 2>> -> jpeg_fdct_2x2
    [] size = <<3, 3>> -> jpeg_fdct_3x3       [] size = <<4, 4>> -> jpeg_fdct_4x4
    [] size = <<5, 5>> -> jpeg_fdct_5x5       [] size = <<6, 6>> -> jpeg_fdct_6x6
    [] size = <<7, 7>> -> jpeg_fdct_7x7       [] size = <<9, 9>> -> jpeg_fdct_9x9
    [] size = <<10, 10>> -> jpeg_fdct_10x10   [] size = <<11, 11>> -> jpeg_fdct_11x11
    [] size = <<12, 12>> -> jpeg_fdct_12x12   [] size = <<13, 13>> -> jpeg_fdct_13x13
    [] size = <<14, 14>> -> jpeg_fdct_14x14   [] size = <<15, 15>> -> jpeg_fdct_15x15
    [] size = <<16, 16>> -> jpeg_fdct_16x16
    [] size = <<16, 8>> -> jpeg_fdct_16x8     [] size = <<14, 7>> -> jpeg_fdct_14x7
    [] size = <<12, 6>> -> jpeg_fdct_12x6     [] size = <<10, 5>> -> jpeg_fdct_10x5
    [] size = <<8, 4>> -> jpeg_fdct_8x4       [] size = <<6, 3>> -> jpeg_fdct_6x3
    [] size = <<4, 2>> -> jpeg_fdct_4x2       [] size = <<2, 1>> -> jpeg_fdct_2x1
    [] size = <<8, 16>> -> jpeg_fdct_8x16     [] size = <<7, 14>> -> jpeg_fdct_7x14
    [] size = <<6, 12>> -> jpeg_fdct_6x12     [] size = <<5, 10>> -> jpeg_fdct_5x10
    [] size = <<4, 8>> -> jpeg_fdct_4x8       [] size = <<3, 6>> -> jpeg_fdct_3x6
    [] size = <<2, 4>> -> jpeg_fdct_2x4       [] size = <<1, 2>> -> jpeg_fdct_1x2

Fdct(size, method, x) ==
  IF size = <<8, 8>> /\ method # ISLOW THEN jpeg_fdct_ifast(x) ELSE ForwardBlock(FdctPasses(size), x)

Idct(size, method, b) ==
  CASE size = <<8, 8>> -> IF method = ISLOW THEN jpeg_idct_islow(b) ELSE jpeg_idct_ifast(b)
    [] size = <<1, 1>> -> jpeg_idct_1x1(b)       [] size = <<2, 2>> -> jpeg_idct_2x2(b)
    [] size = <<3, 3>> -> jpeg_idct_3x3(b)       [] size = <<4, 4>> -> jpeg_idct_4x4(b)
    [] size = <<5, 5>> -> jpeg_idct_5x5(b)       [] size = <<6, 6>> -> jpeg_idct_6x6(b)
    [] size = <<7, 7>> -> jpeg_idct_7x7(b)       [] size = <<9, 9>> -> jpeg_idct_9x9(b)
    [] size = <<10, 10>> -> jpeg_idct_10x10(b)   [] size = <<11, 11>> -> jpeg_idct_11x11(b)
    [] size = <<12, 12>> -> jpeg_idct_12x12(b)   [] size = <<13, 13>> -> jpeg_idct_13x13(b)
    [] size = <<14, 14>> -> jpeg_idct_14x14(b)   [] size = <<15, 15>> -> jpeg_idct_15x15(b)
    [] size = <<16, 16>> -> jpeg_idct_16x16(b)
    [] size = <<16, 8>> -> jpeg_idct_16x8(b)     [] size = <<14, 7>> -> jpeg_idct_14x7(b)
    [] size = <<12, 6>> -> jpeg_idct_12x6(b)     [] size = <<10, 5>> -> jpeg_idct_10x5(b)
    [] size = <<8, 4>> -> jpeg_idct_8x4(b)       [] size = <<6, 3>> -> jpeg_idct_6x3(b)
    [] size = <<4, 2>> -> jpeg_idct_4x2(b)       [] size = <<2, 1>> -> jpeg_idct_2x1(b)
    [] size = <<8, 16>> -> jpeg_idct_8x16(b)     [] size = <<7, 14>> -> jpeg_idct_7x14(b)
    [] size = <<6, 12>> -> jpeg_idct_6x12(b)     [] size = <<5, 10>> -> jpeg_idct_5x10(b)
    [] size = <<4, 8>> -> jpeg_idct_4x8(b)       [] size = <<3, 6>> -> jpeg_idct_3x6(b)
    [] size = <<2, 4>> -> jpeg_idct_2x4(b)       [] size = <<1, 2>> -> jpeg_idct_1x2(b)

\* What a method's transform must be divided by, and what the coefficients of
\* its inverse must be multiplied by.
DivisorsAsMultiplied(method, quantval) ==
  IF method = ISLOW THEN [v \in 0..7 |-> [u \in 0..7 |-> quantval[v][u] * 8]] ELSE Scaled(quantval, 2)
Divisors(method, quantval) ==
  IF method = ISLOW THEN [v \in 0..7 |-> [u \in 0..7 |-> quantval[v][u] * 8]] ELSE Scaled(quantval, 3)
MultipliersUnscaled(method, quantval) == quantval
Multipliers(method, quantval) == IF method = ISLOW THEN quantval ELSE Scaled(quantval, 2)

\* Division that rounds half away from zero.
QuantizeDown(temp, qval) == IF temp < 0 THEN -((-temp) \div qval) ELSE temp \div qval
Quantize(temp, qval) ==
  IF temp < 0 THEN -((-temp + qval \div 2) \div qval) ELSE (temp + qval \div 2) \div qval

-----------------------------------------------------------------------------
\* jinit_forward_dct, jinit_inverse_dct; InitUncleared leaves the multipliers as
\* they come from the allocator.
InitWith(multipliers) ==
  /\ setup \in Setups
  /\ samples \in {[c \in Components |-> p[setup.csize[c]]] : p \in Pictures}
  /\ do_dct = [c \in Components |-> NULL]
  /\ divisors = [t \in DOMAIN QuantTables |-> NULL]
  /\ coefs = [c \in Components |-> NULL]
  /\ first = [c \in Components |-> NULL]
  /\ quant_table = [c \in Components |-> NULL]
  /\ inverse_DCT = [c \in Components |-> NULL]
  /\ cur_method = [c \in Components |-> NULL]
  /\ dct_table = [c \in Components |-> multipliers]
  /\ blank = {}
  /\ shown = [c \in Components |-> NULL]
  /\ passes = 0
InitUncleared == InitWith(QuantTables[0])
Init == InitWith(Zero)

\* The divisors of a table are computed for every component that has it, in the
\* order of the components, each time for the method of that component.
Users(t) == {c \in Components : setup.tbl[c] = t}
LastUser(t) == CHOOSE c \in Users(t) : \A d \in Users(t) : d <= c
start_pass_fdctmgr(dct_method) ==
  LET method(c) == MethodOf(setup.csize[c], dct_method)
  IN  /\ \A c \in Components : do_dct[c] = NULL
      /\ do_dct' = [c \in Components |-> method(c)]
      /\ divisors' = [t \in DOMAIN divisors |->
                       IF Users(t) = {} THEN divisors[t] ELSE Divisors(method(LastUser(t)), QuantTables[t])]
      /\ UNCHANGED <<setup, samples, coefs, first, decoder>>

forward_DCT(c) ==
  /\ do_dct[c] # NULL /\ coefs[c] = NULL
  /\ coefs' = [coefs EXCEPT ![c] =
       EachCoef(Quantize, Fdct(setup.csize[c], do_dct[c], samples[c]), divisors[setup.tbl[c]])]
  /\ UNCHANGED <<setup, samples, do_dct, divisors, first, decoder>>

\* A decompressor meets the first scan of a component (latch_quant_tables).
LatchTable(c) ==
  /\ \A d \in Components : coefs[d] # NULL
  /\ quant_table[c] = NULL
  /\ quant_table' = [quant_table EXCEPT ![c] = QuantTables[setup.tbl[c]]]
  /\ UNCHANGED <<setup, encoder, inverse_DCT, cur_method, dct_table, blank, shown, passes>>

\* An output pass begins: a component's multipliers are computed only if they
\* are not yet those of its method, and if its table is there.
CurMethodEarly(c, method, computed) == method
CurMethod(c, method, computed) == IF c \in computed THEN method ELSE cur_method[c]
start_pass(dct_method) ==
  LET method(c) == MethodOf(setup.dsize[c], dct_method)
      computed == {c \in Components : cur_method[c] # method(c) /\ quant_table[c] # NULL}
  IN  /\ \A d \in Components : coefs[d] # NULL
      /\ passes < MaxPasses /\ passes' = passes + 1
      /\ inverse_DCT' = [c \in Components |-> method(c)]
      /\ cur_method' = [c \in Components |-> CurMethod(c, method(c), computed)]
      /\ dct_table' = [c \in Components |->
                        IF c \in computed THEN Multipliers(method(c), quant_table[c]) ELSE dct_table[c]]
      /\ blank' = {c \in Components : quant_table[c] = NULL}
      /\ shown' = [c \in Components |-> NULL]
      /\ UNCHANGED <<setup, encoder, quant_table>>

\* The block of a component whose scan is yet to come is all zero.
InverseDCT(c) ==
  /\ inverse_DCT[c] # NULL /\ shown[c] = NULL
  /\ shown' = [shown EXCEPT ![c] =
       Idct(setup.dsize[c], inverse_DCT[c],
            EachCoef(LAMBDA x, y : x * y, IF quant_table[c] = NULL THEN Zero ELSE coefs[c], dct_table[c]))]
  /\ UNCHANGED <<setup, encoder, quant_table, inverse_DCT, cur_method, dct_table, blank, passes>>

\* What was shown is compressed once more, by a new compressor.
Recompress ==
  /\ first = [c \in Components |-> NULL]
  /\ blank = {} /\ \A c \in Components : shown[c] # NULL
  /\ setup.csize = setup.dsize
  /\ first' = coefs
  /\ samples' = [c \in Components |->
       [i \in 0..Len(shown[c]) - 1 |-> [j \in 0..Len(shown[c][1]) - 1 |-> shown[c][i + 1][j + 1]]]]
  /\ do_dct' = [c \in Components |-> NULL]
  /\ divisors' = [t \in DOMAIN divisors |-> NULL]
  /\ coefs' = [c \in Components |-> NULL]
  /\ inverse_DCT' = [c \in Components |-> NULL]
  /\ passes' = MaxPasses
  /\ UNCHANGED <<setup, quant_table, cur_method, dct_table, blank, shown>>

Next ==
  \/ \E m \in Methods : start_pass_fdctmgr(m) \/ start_pass(m)
  \/ \E c \in Components : forward_DCT(c) \/ LatchTable(c) \/ InverseDCT(c)
  \/ Recompress

Spec == Init /\ [][Next]_vars

-----------------------------------------------------------------------------
Absolute(x) == IF x < 0 THEN -x ELSE x
Fine(c) == \A v \in 0..7 : \A u \in 0..7 : QuantTables[setup.tbl[c]][v][u] = 1
AllShown(c, P(_)) == \A y \in 1..Len(shown[c]) : \A x \in 1..Len(shown[c][y]) : P(shown[c][y][x])
Unlimited(c) == AllShown(c, LAMBDA sample : sample \in 1..MAXJSAMPLE - 1)

\* The types of the state.  That every transform of every size gives integers for
\* its block, that what is shown has the size asked for and the range of a
\* sample, and that no divisor is zero, is the work of the arithmetic: a divisor
\* of the fast method is a rounded product (jcdctmgr.c:398-408).
TypeOK ==
  /\ setup \in Setups
  /\ DOMAIN samples = Components
  /\ do_dct \in [Components -> Methods \cup {ISLOW, NULL}]
  /\ divisors \in [DOMAIN QuantTables -> [0..7 -> [0..7 -> Nat \ {0}]] \cup {NULL}]
  /\ coefs \in [Components -> Block \cup {NULL}]
  /\ first \in [Components -> Block \cup {NULL}]
  /\ DOMAIN quant_table = Components
  /\ inverse_DCT \in [Components -> Methods \cup {ISLOW, NULL}]
  /\ cur_method \in [Components -> Methods \cup {ISLOW, NULL}]
  /\ dct_table \in [Components -> Block]
  /\ blank \subseteq Components
  /\ DOMAIN shown = Components
  /\ passes \in 0..MaxPasses
  /\ \A c \in Components :
       /\ samples[c] \in Samples(setup.csize[c])
       /\ quant_table[c] \in {NULL, QuantTables[setup.tbl[c]]}
       /\ shown[c] # NULL => shown[c] \in Images(setup.dsize[c])

\* Whether the divisors of c's table are those of another method, which a later
\* component on the same table has put there (jcdctmgr.c:356-413).
Overwritten(c) ==
  MethodOf(setup.csize[LastUser(setup.tbl[c])], IFAST) # MethodOf(setup.csize[c], IFAST)

\* The DC term of every block says the mean of its samples, to half a step and a
\* quarter of a level, at every size and by either method, also where components
\* of different methods overwrite one another's divisors.
MeanCoded ==
  \A c \in Components :
    coefs[c] # NULL =>
      LET n == setup.csize[c][1] * setup.csize[c][2]
          q == QuantTables[setup.tbl[c]][0][0]
          Sum(f, last) == FoldFunction(LAMBDA a, b : a + b, 0, [i \in 0..last |-> f[i]])
          sum == Sum([i \in DOMAIN samples[c] |-> Sum(samples[c][i], setup.csize[c][1] - 1)], setup.csize[c][2] - 1)
      IN  Absolute(8 * (sum - n * CENTERJSAMPLE) - n * q * coefs[c][0][0]) <= n * (q \div 2 + 2)

\* However the scans of the file, the output passes and the methods asked for
\* them interleave, a component whose data was there when the pass began is put
\* out with the multipliers of the pass's method and of its own table
\* (start_pass skips a component whose method is the same).
MultipliersMatch ==
  \A c \in Components :
    inverse_DCT[c] # NULL /\ c \notin blank =>
      dct_table[c] = Multipliers(inverse_DCT[c], QuantTables[setup.tbl[c]])

\* A component whose data was not there when the first output pass began is put
\* out grey in that pass, even if its data comes before its block is put out:
\* never is it multiplied by another component's or another method's table.
BlankIsGrey ==
  \A c \in Components :
    c \in blank /\ shown[c] # NULL => AllShown(c, LAMBDA sample : sample = CENTERJSAMPLE)

\* A picture compressed with a fine table by the accurate method is shown as it
\* was, to one level, at every size up to 8x8, that is where no coefficient is
\* dropped, unless another component has overwritten its divisors.
ShownClose ==
  \A c \in Components :
    /\ shown[c] # NULL /\ c \notin blank /\ first[c] = NULL /\ ~Overwritten(c)
    /\ Fine(c) /\ do_dct[c] = ISLOW /\ inverse_DCT[c] = ISLOW
    /\ setup.csize[c] = setup.dsize[c] /\ setup.csize[c][1] <= 8 /\ setup.csize[c][2] <= 8
    => \A y \in 1..Len(shown[c]) : \A x \in 1..Len(shown[c][y]) :
         Absolute(shown[c][y][x] - samples[c][y - 1][x - 1]) <= 1

\* A picture shown in any size, unless samples of it were limited, has the mean
\* that the DC term of its file says, to one level.
MeanKept ==
  \A c \in Components :
    shown[c] # NULL /\ c \notin blank /\ coefs[c] # NULL /\ Unlimited(c) =>
      LET n == Len(shown[c]) * Len(shown[c][1])
          Total(seq) == FoldLeft(LAMBDA a, b : a + b, 0, seq)
          sum == Total([y \in 1..Len(shown[c]) |-> Total(shown[c][y]) - Len(shown[c][1]) * CENTERJSAMPLE])
      IN  Absolute(8 * sum - n * coefs[c][0][0] * QuantTables[setup.tbl[c]][0][0]) <= 8 * n

\* A picture that was shown, unless samples of it were limited, is compressed
\* to the coefficients that it was shown from: with steps coarser than the
\* rounding of samples, what the first compression lost is all that is lost.  It is
\* not so for a component whose divisors another one has overwritten.
RecompressedSame ==
  \A c \in Components :
    first[c] # NULL /\ coefs[c] # NULL /\ ~Fine(c) /\ ~Overwritten(c) /\ Unlimited(c) => coefs[c] = first[c]
=============================================================================

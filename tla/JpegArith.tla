------------------------------ MODULE JpegArith ------------------------------
(***************************************************************************)
(* The arithmetic coders of jpeg8d: jcarith.c, jdarith.c and jaricom.c.    *)
(*                                                                         *)
(* A decision is a statistics bin, <<kind, table, index>>, and a bit.  The *)
(* encoder of a block is the sequence of its decisions; the decoder makes  *)
(* them one at a time.  A bin that was never used is zero.                 *)
(***************************************************************************)
EXTENDS JpegEntropyDefs

CONSTANTS
  arith_dc_L, arith_dc_U, arith_ac_K    \* conditioning parameters

\* Qe, the state after the less and after the more probable symbol; 128 is added
\* to the former where the sense of the bin switches.
jpeg_aritab == <<
  <<23069,129,1>>, <<9606,14,2>>, <<4372,16,3>>, <<2059,18,4>>, <<984,20,5>>, <<474,23,6>>,
  <<229,25,7>>, <<111,28,8>>, <<54,30,9>>, <<26,33,10>>, <<13,35,11>>, <<6,9,12>>,
  <<3,10,13>>, <<1,12,13>>, <<23167,143,15>>, <<16165,36,16>>, <<11506,38,17>>, <<8316,39,18>>,
  <<6073,40,19>>, <<4482,42,20>>, <<3311,43,21>>, <<2465,45,22>>, <<1839,46,23>>, <<1372,48,24>>,
  <<1030,49,25>>, <<771,51,26>>, <<576,52,27>>, <<433,54,28>>, <<324,56,29>>, <<245,57,30>>,
  <<183,59,31>>, <<138,60,32>>, <<104,62,33>>, <<78,63,34>>, <<59,32,35>>, <<44,33,9>>,
  <<23265,165,37>>, <<18508,64,38>>, <<14861,65,39>>, <<12017,67,40>>, <<9759,68,41>>, <<7987,69,42>>,
  <<6568,70,43>>, <<5400,72,44>>, <<4471,73,45>>, <<3700,74,46>>, <<3067,75,47>>, <<2552,77,48>>,
  <<2145,78,49>>, <<1798,79,50>>, <<1485,48,51>>, <<1246,50,52>>, <<1039,50,53>>, <<867,51,54>>,
  <<724,52,55>>, <<604,53,56>>, <<504,54,57>>, <<420,55,58>>, <<352,56,59>>, <<293,57,60>>,
  <<246,58,61>>, <<203,59,62>>, <<171,61,63>>, <<143,61,32>>, <<23314,193,65>>, <<19716,80,66>>,
  <<16684,81,67>>, <<14296,82,68>>, <<12264,83,69>>, <<10556,84,70>>, <<9081,86,71>>, <<7903,87,72>>,
  <<6825,87,73>>, <<5966,72,74>>, <<5156,72,75>>, <<4508,74,76>>, <<3947,74,77>>, <<3409,75,78>>,
  <<2998,77,79>>, <<2624,77,48>>, <<22578,208,81>>, <<19740,88,82>>, <<17294,89,83>>, <<15325,90,84>>,
  <<13550,91,85>>, <<11950,92,86>>, <<10650,93,87>>, <<9494,86,71>>, <<21872,216,89>>, <<19625,95,90>>,
  <<17625,96,91>>, <<15906,97,92>>, <<14372,99,93>>, <<12980,99,94>>, <<11799,93,86>>, <<22184,223,96>>,
  <<20294,101,97>>, <<18405,102,98>>, <<16847,103,99>>, <<15421,104,100>>, <<14174,99,93>>, <<21041,105,102>>,
  <<19471,106,103>>, <<17977,107,104>>, <<16734,103,99>>, <<22055,233,106>>, <<20711,108,107>>, <<19333,109,103>>,
  <<21911,110,109>>, <<20559,111,107>>, <<23056,238,111>>, <<21794,112,109>>, <<23019,240,111>>, <<23069,113,113>> >>

fixed_bin == <<"fixed", 0, 0>>
Bin(stats, bin) == IF bin = fixed_bin THEN 113 ELSE IF bin \in DOMAIN stats THEN stats[bin] ELSE 0
Qe(sv) == jpeg_aritab[(sv % 128) + 1]
\* A bin's next state: (sv & 0x80) ^ next.
NextBin(sv, next) == (next % 128) + 128 * ((sv \div 128 + next \div 128) % 2)
SetBin(stats, bin, sv) ==
  IF bin = fixed_bin THEN stats ELSE [x \in DOMAIN stats \cup {bin} |-> IF x = bin THEN sv ELSE stats[x]]

-----------------------------------------------------------------------------
\* The encoder: the interval c and a, the shifts ct left until a byte is done,
\* the byte that may still take a carry in buffer (-1 if none), zc zeros before
\* it and sc bytes 0xFF after it that wait for the carry.
FreshEncoder == [c |-> 0, a |-> 65536, sc |-> 0, zc |-> 0, ct |-> 11, buffer |-> -1]

Stuffed(byte) == IF byte = 255 THEN <<255, 0>> ELSE <<byte>>
\* The waiting zeros, then bytes.
PutBytes(e, bytes) == [e EXCEPT !.out = @ \o Times(e.zc, 0) \o bytes, !.zc = 0]

\* There is a carry: it makes the waiting 0xFFs zeros.
Carry(e) ==
  LET p == IF e.buffer >= 0 THEN PutBytes(e, Stuffed(e.buffer + 1)) ELSE e
  IN  [p EXCEPT !.zc = @ + e.sc, !.sc = 0]
\* There can be no carry any more.
SettleStack(e) == IF e.sc = 0 THEN e ELSE [PutBytes(e, FlattenSeq(Times(e.sc, <<255, 0>>))) EXCEPT !.sc = 0]
SettleBuffer(e) ==
  IF e.buffer = 0 THEN [e EXCEPT !.zc = @ + 1]
  ELSE IF e.buffer > 0 THEN PutBytes(e, <<e.buffer>>) ELSE e
Settle(e) == SettleStack(SettleBuffer(e))

ByteOut(e) ==
  LET temp == e.c \div 2^19
      done == IF temp > 255 THEN [Carry(e) EXCEPT !.buffer = temp % 256]
              ELSE IF temp = 255 THEN [e EXCEPT !.sc = @ + 1]
              ELSE [Settle(e) EXCEPT !.buffer = temp]
  IN  [done EXCEPT !.c = @ % 2^19, !.ct = @ + 8]

RECURSIVE Renorm(_)
Renorm(e) ==
  LET s == [e EXCEPT !.a = 2 * @, !.c = 2 * @, !.ct = @ - 1]
      b == IF s.ct = 0 THEN ByteOut(s) ELSE s
  IN  IF b.a < 32768 THEN Renorm(b) ELSE b

\* The interval of the less probable symbol is the upper one, except when it is
\* the larger (conditional exchange).
arith_encode(e, bin, val) ==
  LET sv == Bin(e.stats, bin)
      q == Qe(sv)
      a == e.a - q[1]
      lps == val # sv \div 128
      upper == lps <=> a >= q[1]
      to == IF upper THEN [e EXCEPT !.c = @ + a, !.a = q[1]] ELSE [e EXCEPT !.a = a]
  IN  IF ~lps /\ a >= 32768 THEN [e EXCEPT !.a = a]
      ELSE Renorm([to EXCEPT !.stats = SetBin(@, bin, NextBin(sv, IF lps THEN q[2] ELSE q[3]))])

\* The interval's value with the most trailing zeros goes out, without those.
finish_pass(e) ==
  LET top == ((e.a - 1 + e.c) \div 65536) * 65536
      c == (IF top < e.c THEN top + 32768 ELSE top) * 2^e.ct
      s == IF c >= 2^27 THEN Carry(e) ELSE Settle(e)
      high == (c \div 2^19) % 256
      low == (c \div 2^11) % 256
  IN  IF c % 2^27 < 2^11 THEN s
      ELSE PutBytes(s, Stuffed(high) \o IF low = 0 THEN <<>> ELSE Stuffed(low))

-----------------------------------------------------------------------------
\* Decisions.  A magnitude v >= 1 is coded as w = v - 1: a one for each bit of w,
\* a zero, and the bits of w below the leading one.
UnaryDC(tbl, st, i) == <<"dc", tbl, IF i = 0 THEN st ELSE 19 + i>>
UnaryAC(tbl, st, k, i) ==
  <<"ac", tbl, IF i < 2 THEN st ELSE (IF k <= arith_ac_K THEN 189 ELSE 217) + i - 2>>
Later(bin, n) == <<bin[1], bin[2], bin[3] + n>>
Magnitude(w, unary) ==
  LET n == NBits(w)
      low == Later(unary[n], 14)
  IN  [i \in 1..n |-> <<unary[i - 1], 1>>] \o <<<<unary[n], 0>>>>
        \o SubSeq([i \in 1..n |-> <<low, Bits(w, n)[i]>>], 2, n)

\* How large this difference was decides the bin of the next one.
DcContext(w, negative) ==
  LET m == IF w = 0 THEN 0 ELSE 2^(NBits(w) - 1)
  IN  IF m < 2^arith_dc_L \div 2 THEN 0
      ELSE (IF negative THEN 8 ELSE 4) + IF m > 2^arith_dc_U \div 2 THEN 8 ELSE 0
DcNext(v) == IF v = 0 THEN 0 ELSE DcContext(Abs(v) - 1, v < 0)
DcDecisions(tbl, ctx, v) ==
  LET st == ctx + IF v > 0 THEN 2 ELSE 3
  IN  IF v = 0 THEN <<<<<<"dc", tbl, ctx>>, 0>>>>
      ELSE <<<<<<"dc", tbl, ctx>>, 1>>, <<<<"dc", tbl, ctx + 1>>, IF v > 0 THEN 0 ELSE 1>>>>
             \o Magnitude(Abs(v) - 1, [i \in 0..16 |-> UnaryDC(tbl, st, i)])

\* The coefficients of a band, value[k]; at is true where the end of block may
\* be: at the start and after each nonzero coefficient.
AcBin(tbl, k, i) == <<"ac", tbl, 3 * (k - 1) + i>>
AcDecisions(tbl, value, Ss, Se) ==
  LET ke == Max({0} \cup {k \in Ss..Se : value[k] # 0})
      coef(k, v) == IF v = 0 THEN <<<<AcBin(tbl, k, 1), 0>>>>
                    ELSE <<<<AcBin(tbl, k, 1), 1>>, <<fixed_bin, IF v < 0 THEN 1 ELSE 0>>>>
                           \o Magnitude(Abs(v) - 1, [i \in 0..16 |-> UnaryAC(tbl, 3 * (k - 1) + 2, k, i)])
      more(k) == IF k = Ss \/ value[k - 1] # 0 THEN <<<<AcBin(tbl, k, 0), 0>>>> ELSE <<>>
      last == IF ke = 0 THEN Ss ELSE ke + 1
  IN  FoldLeft(LAMBDA ds, k : ds \o more(k) \o coef(k, value[k]), <<>>,
               IF ke = 0 THEN <<>> ELSE [i \in 1..ke - Ss + 1 |-> Ss + i - 1])
        \o IF last <= Se THEN <<<<AcBin(tbl, last, 0), 1>>>> ELSE <<>>

\* Above kex, the last coefficient that is nonzero already, the end of block is
\* coded; a coefficient that is nonzero already has a correction bit.
RefineDecisions(tbl, value, old, Ss, Se) ==
  LET ke == Max({0} \cup {k \in Ss..Se : value[k] # 0})
      kex == Max({0} \cup {k \in Ss..Se : old[k] # 0})
      coef(k, v) == CASE v = 0 -> <<<<AcBin(tbl, k, 1), 0>>>>
                      [] old[k] # 0 -> <<<<AcBin(tbl, k, 2), Abs(v) % 2>>>>
                      [] OTHER -> <<<<AcBin(tbl, k, 1), 1>>, <<fixed_bin, IF v < 0 THEN 1 ELSE 0>>>>
      more(k) == IF k > kex /\ (k = Ss \/ value[k - 1] # 0) THEN <<<<AcBin(tbl, k, 0), 0>>>> ELSE <<>>
      last == IF ke = 0 THEN Ss ELSE ke + 1
  IN  FoldLeft(LAMBDA ds, k : ds \o more(k) \o coef(k, value[k]), <<>>,
               IF ke = 0 THEN <<>> ELSE [i \in 1..ke - Ss + 1 |-> Ss + i - 1])
        \o IF last <= Se THEN <<<<AcBin(tbl, last, 0), 1>>>> ELSE <<>>

Encode(e, decisions) == FoldLeft(LAMBDA a, d : arith_encode(a, d[1], d[2]), e, decisions)

-----------------------------------------------------------------------------
\* The decoder is a reader of markers with c, a and ct, the statistics, and
\* block, the block being filled.  val is the bit of the last decision; ct is -1
\* after an impossible one, until the next restart marker.
FreshDecoder == [c |-> 0, a |-> 0, ct |-> -16]

\* Zeros stand for the data after a marker.
Fetched(d, b) ==
  IF b.ok THEN [d EXCEPT !.c = @ * 256 + b.byte, !.pos = b.pos, !.unread = b.marker] ELSE [d EXCEPT !.ok = FALSE]
Fetch(src, d) == IF d.unread # 0 THEN [d EXCEPT !.c = @ * 256] ELSE Fetched(d, DataByte(src, d.pos))

\* Another eight bits are there; the first two bytes only fill c.
Filled(d, ct) ==
  IF ct < 0 THEN [d EXCEPT !.ct = ct + 1, !.a = IF ct = -1 THEN 32768 ELSE @] ELSE [d EXCEPT !.ct = ct]
Doubled(d) == [d EXCEPT !.a = 2 * @]
RECURSIVE Refill(_, _)
Refill(src, d) ==
  CASE d.a >= 32768 -> d
    [] d.a < 32768 /\ d.ct > 0 -> Refill(src, Doubled([d EXCEPT !.ct = @ - 1]))
    [] d.a < 32768 /\ d.ct <= 0 -> Then(Fetch(src, d), LAMBDA f : Refill(src, Doubled(Filled(f, f.ct + 7))))

\* The decision in a bin whose state is sv and whose line of the table is q.
Decide(d, bin, sv, q) ==
  LET a == d.a - q[1]
      upper == d.c >= a * 2^d.ct
      lps == upper <=> a >= q[1]
      mps == sv \div 128
      to == [d EXCEPT !.c = IF upper THEN @ - a * 2^d.ct ELSE @, !.a = IF upper THEN q[1] ELSE a]
  IN  IF ~upper /\ a >= 32768 THEN [to EXCEPT !.val = mps]
      ELSE [to EXCEPT !.stats = SetBin(@, bin, NextBin(sv, IF lps THEN q[2] ELSE q[3])),
                      !.val = IF lps THEN 1 - mps ELSE mps]
arith_decode(src, d, bin) ==
  Then(Refill(src, d), LAMBDA r : Decide(r, bin, Bin(r.stats, bin), Qe(Bin(r.stats, bin))))

Bad(d) == [d EXCEPT !.ct = -1]

RECURSIVE LowBits(_, _, _, _, _)
LowBits(src, d, bin, m, v) ==
  IF m = 0 THEN [d EXCEPT !.val = v]
  ELSE Then(arith_decode(src, d, bin), LAMBDA b : LowBits(src, b, bin, m \div 2, v + b.val * m))
RECURSIVE GetMagnitude(_, _, _, _)
GetMagnitude(src, d, unary, n) ==
  LET m == IF n = 0 THEN 0 ELSE 2^(n - 1)
      after(b) == CASE b.val = 0 -> LowBits(src, b, Later(unary[n], 14), m \div 2, m)
                    [] b.val = 1 /\ n < 15 -> GetMagnitude(src, b, unary, n + 1)
                    [] b.val = 1 /\ n = 15 -> Bad(b)
  IN  Then(arith_decode(src, d, unary[n]), after)
\* A magnitude, then something is done with the value, unless it was impossible.
Value(src, sign, unary, Use(_, _)) ==
  Then(GetMagnitude(src, sign, unary, 0),
       LAMBDA w : IF w.ct = -1 THEN w ELSE Use(w, IF sign.val = 1 THEN -(w.val + 1) ELSE w.val + 1))

DecodeDC(src, d, c, tbl, Al) ==
  LET ctx == d.dc_context[c]
      put(x) == [x EXCEPT !.block[0] = JCOEF(x.last_dc_val[c] * 2^Al)]
      difference(w, v) == put([w EXCEPT !.dc_context[c] = DcContext(w.val, v < 0), !.last_dc_val[c] = @ + v])
      signed(s) == Value(src, s, [i \in 0..16 |-> UnaryDC(tbl, ctx + 2 + s.val, i)], difference)
      first(b) == IF b.val = 0 THEN put([b EXCEPT !.dc_context[c] = 0])
                  ELSE Then(arith_decode(src, b, <<"dc", tbl, ctx + 1>>), signed)
  IN  Then(arith_decode(src, d, <<"dc", tbl, ctx>>), first)

\* At coefficient k; inrun says that the end of block cannot come here.
RECURSIVE DecodeAC(_, _, _, _, _, _, _, _)
DecodeAC(src, d, tbl, k, inrun, Se, Al, n) ==
  LET set(w, v) == DecodeAC(src, [w EXCEPT !.block[jpeg_natural_order[n][k]] = JCOEF(v * 2^Al)],
                            tbl, k + 1, FALSE, Se, Al, n)
      signed(s) == Value(src, s, [i \in 0..16 |-> UnaryAC(tbl, 3 * (k - 1) + 2, k, i)], set)
      coef(nz) == IF nz.val = 0 THEN DecodeAC(src, nz, tbl, k + 1, TRUE, Se, Al, n)
                  ELSE Then(arith_decode(src, nz, fixed_bin), signed)
      start == IF inrun THEN [d EXCEPT !.val = 0] ELSE arith_decode(src, d, AcBin(tbl, k, 0))
      goOn(eob) == IF eob.val = 1 THEN eob ELSE Then(arith_decode(src, eob, AcBin(tbl, k, 1)), coef)
  IN  IF k > Se THEN IF inrun THEN Bad(d) ELSE d ELSE Then(start, goOn)

DecodeDCRefine(src, d, Al) ==
  Then(arith_decode(src, d, fixed_bin),
       LAMBDA b : IF b.val = 1 /\ (b.block[0] \div 2^Al) % 2 = 0 THEN [b EXCEPT !.block[0] = @ + 2^Al] ELSE b)

RECURSIVE DecodeRefine(_, _, _, _, _, _, _, _)
DecodeRefine(src, d, tbl, k, inrun, kex, s, n) ==
  LET pos == jpeg_natural_order[n][k]
      next(x, run) == DecodeRefine(src, x, tbl, k + 1, run, kex, s, n)
      fixed(f) == next(IF f.val = 0 THEN f
                       ELSE [f EXCEPT !.block[pos] = @ + IF @ < 0 THEN -(2^s.Al) ELSE 2^s.Al], FALSE)
      new(sign) == next([sign EXCEPT !.block[pos] = IF sign.val = 1 THEN -(2^s.Al) ELSE 2^s.Al], FALSE)
      coef(nz) == IF nz.val = 1 THEN Then(arith_decode(src, nz, fixed_bin), new) ELSE next(nz, TRUE)
      start == IF ~inrun /\ k > kex THEN arith_decode(src, d, AcBin(tbl, k, 0)) ELSE [d EXCEPT !.val = 0]
      goOn(eob) == CASE eob.val = 1 -> eob
                     [] eob.val = 0 /\ d.block[pos] # 0 -> Then(arith_decode(src, eob, AcBin(tbl, k, 2)), fixed)
                     [] eob.val = 0 /\ d.block[pos] = 0 -> Then(arith_decode(src, eob, AcBin(tbl, k, 1)), coef)
  IN  IF k > s.Se THEN IF inrun THEN Bad(d) ELSE d ELSE Then(start, goOn)
DecodeACRefine(src, d, tbl, s, n) ==
  LET kex == Max({0} \cup {k \in 1..s.Se : d.block[jpeg_natural_order[n][k]] # 0})
  IN  DecodeRefine(src, d, tbl, s.Ss, FALSE, kex, s, n)
=============================================================================

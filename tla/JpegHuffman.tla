----------------------------- MODULE JpegHuffman -----------------------------
(***************************************************************************)
(* The Huffman coders of jpeg8d: jchuff.c and jdhuff.c; JpegHuffTables has *)
(* the tables they use.                                                    *)
(*                                                                         *)
(* The encoder of a block is a sequence of items: a symbol of a table with *)
(* the bits that follow it, bare bits, or a restart marker.  The pass that *)
(* gathers statistics counts the symbols of the items the output pass      *)
(* writes.                                                                 *)
(***************************************************************************)
EXTENDS JpegEntropyDefs, JpegHuffTables

CONSTANTS
  MAX_EOBRUN,     \* 0x7FFF in the code
  MAX_CORR_BITS,  \* correction bits that may wait before they are forced out, 937
  HUFF_LOOKAHEAD  \* bits the decoder looks up at once, 8

-----------------------------------------------------------------------------
\* ehufco and ehufsi, as the bits of a symbol's code; a symbol without a code
\* is an error of the encoder.
jpeg_make_c_derived_tbl(tbl) ==
  LET codes == Codes(tbl)
  IN  [sym \in ToSet(tbl.huffval) |->
         LET p == CHOOSE q \in DOMAIN codes : tbl.huffval[q] = sym
         IN  Bits(codes[p].code, codes[p].size)]

\* maxcode and valoffset by length, and the lookahead table by the next bits.
jpeg_make_d_derived_tbl(tbl) ==
  LET codes == Codes(tbl)
      of(l) == {p \in DOMAIN codes : codes[p].size = l}
      last(l) == codes[Max(of(l))].code
  IN  [maxcode |-> [l \in 1..MaxCodeLength + 1 |-> IF l = MaxCodeLength + 1 THEN 1048575 ELSE IF of(l) = {} THEN -1 ELSE last(l)],
       valoffset |-> [l \in 1..MaxCodeLength |-> IF of(l) = {} THEN 0 ELSE Max(of(l)) - last(l)],
       look |-> [v \in 0..2^HUFF_LOOKAHEAD - 1 |->
                  {p \in DOMAIN codes : /\ codes[p].size <= HUFF_LOOKAHEAD
                                        /\ v \div 2^(HUFF_LOOKAHEAD - codes[p].size) = codes[p].code}],
       codes |-> codes,
       huffval |-> tbl.huffval]

-----------------------------------------------------------------------------
\* Items.
Dc(v) == <<[kind |-> "dc", sym |-> NBits(Abs(v)), extra |-> Extra(v)]>>
Ac(sym, extra) == <<[kind |-> "ac", sym |-> sym, extra |-> extra]>>
Raw(bits) == <<[kind |-> "raw", sym |-> 0, extra |-> bits]>>
Rst(n) == <<[kind |-> "rst", sym |-> n, extra |-> <<>>]>>

\* Coefficient v after a run of r zeros.
Run(r, v) == Times(r \div 16, Ac(240, <<>>)[1]) \o Ac((r % 16) * 16 + NBits(Abs(v)), Extra(v))

\* The coefficients value[k] of a band that are not zero, each with the run
\* before it, and the length of the run after the last.
Runs(value, Ss, Se) ==
  FoldLeft(LAMBDA a, k : IF value[k] = 0 THEN [a EXCEPT !.r = @ + 1]
                         ELSE [items |-> a.items \o Run(a.r, value[k]), r |-> 0],
           [items |-> <<>>, r |-> 0], [i \in 1..Se - Ss + 1 |-> Ss + i - 1])

\* encode_one_block, and htest_one_block that counts its symbols.
encode_one_block(block, last_dc_val, n, Se) ==
  LET ac == Runs([k \in 0..Se |-> block[jpeg_natural_order[n][k]]], 1, Se)
  IN  Dc(block[0] - last_dc_val) \o ac.items \o IF ac.r > 0 THEN Ac(0, <<>>) ELSE <<>>

\* The run of blocks without a new coefficient is written, with the correction
\* bits of those blocks.
emit_eobrun(h) ==
  [h EXCEPT !.items = @ \o (IF h.EOBRUN = 0 THEN <<>>
                            ELSE LET n == NBits(h.EOBRUN) - 1
                                 IN  Ac(n * 16, Bits(h.EOBRUN % 2^n, n)))
                        \o (IF h.BE = <<>> THEN <<>> ELSE Raw(h.BE)),
            !.EOBRUN = 0, !.BE = <<>>]

EncodeDCFirst(h, c, block, Al) ==
  LET v == ShiftDC(block[0], Al)
  IN  [h EXCEPT !.items = @ \o Dc(v - h.last_dc_val[c]), !.last_dc_val[c] = v]

EncodeDCRefine(h, block, Al) == [h EXCEPT !.items = @ \o Raw(<<(block[0] \div 2^Al) % 2>>)]

EncodeACFirst(h, block, n, s) ==
  LET ac == Runs([k \in s.Ss..s.Se |-> ShiftAC(block[jpeg_natural_order[n][k]], s.Al)], s.Ss, s.Se)
      before == IF ac.items = <<>> THEN h ELSE emit_eobrun(h)
      more == [before EXCEPT !.items = @ \o ac.items, !.EOBRUN = @ + IF ac.r > 0 THEN 1 ELSE 0]
  IN  IF more.EOBRUN = MAX_EOBRUN THEN emit_eobrun(more) ELSE more

\* A coefficient that was nonzero before this scan gives a correction bit,
\* which waits in BR until the next symbol of this block, or in BE until the run
\* of blocks is written.
EncodeACRefine(h, block, n, s) ==
  LET absvalue[k \in s.Ss..s.Se] == Abs(block[jpeg_natural_order[n][k]]) \div 2^s.Al
      EOB == Max({0} \cup {k \in s.Ss..s.Se : absvalue[k] = 1})
      corrections(a) == IF a.BR = <<>> THEN <<>> ELSE Raw(a.BR)
      zrl(a) ==
        IF a.r < 16 THEN a
        ELSE LET e == emit_eobrun(a)
             IN  [e EXCEPT !.items = @ \o Ac(240, <<>>) \o corrections(a)
                                       \o Times(a.r \div 16 - 1, Ac(240, <<>>)[1]),
                           !.r = @ % 16, !.BR = <<>>]
      new(a, k) ==
        LET e == emit_eobrun(a)
        IN  [e EXCEPT !.items = @ \o Ac(a.r * 16 + 1, <<IF block[jpeg_natural_order[n][k]] < 0 THEN 0 ELSE 1>>)
                                  \o corrections(a),
                      !.r = 0, !.BR = <<>>]
      step(a, k) ==
        LET z == IF k <= EOB THEN zrl(a) ELSE a
        IN  CASE absvalue[k] = 0 -> [a EXCEPT !.r = @ + 1]
              [] absvalue[k] = 1 -> new(z, k)
              [] OTHER -> [z EXCEPT !.BR = Append(@, absvalue[k] % 2)]
      a == FoldLeft(step, [items |-> h.items, EOBRUN |-> h.EOBRUN, BE |-> h.BE, r |-> 0, BR |-> <<>>],
                    [i \in 1..s.Se - s.Ss + 1 |-> s.Ss + i - 1])
      rest == a.r > 0 \/ a.BR # <<>>
      more == [h EXCEPT !.items = a.items, !.EOBRUN = a.EOBRUN + IF rest THEN 1 ELSE 0, !.BE = a.BE \o a.BR]
  IN  IF rest /\ (more.EOBRUN = MAX_EOBRUN \/ Len(more.BE) > MAX_CORR_BITS) THEN emit_eobrun(more) ELSE more

\* The symbols of items, counted by kind, table and symbol.
Count(counts, items) ==
  LET key(i) == <<items[i].kind, items[i].tbl, items[i].sym>>
      symbols == {i \in DOMAIN items : items[i].kind \in {"dc", "ac"}}
      old(x) == IF x \in DOMAIN counts THEN counts[x] ELSE 0
  IN  [x \in DOMAIN counts \cup {key(i) : i \in symbols} |->
         old(x) + Cardinality({i \in symbols : key(i) = x})]

-----------------------------------------------------------------------------
\* The bits in put go out as whole bytes, with a zero after each 0xFF.
RECURSIVE emit_bits(_)
emit_bits(w) ==
  IF Len(w.put) < 8 THEN w
  ELSE LET c == Number(SubSeq(w.put, 1, 8))
       IN  emit_bits([w EXCEPT !.out = @ \o IF c = 255 THEN <<255, 0>> ELSE <<c>>,
                               !.put = SubSeq(@, 9, Len(@))])

\* A partial byte is filled with ones.
flush_bits(w) == [emit_bits([w EXCEPT !.put = @ \o Times(7, 1)]) EXCEPT !.put = <<>>]

\* Items go out; code[kind][tbl] is the derived table.  missing is the error of a
\* symbol that has no code.
Write(w, items, code) ==
  LET step(a, i) ==
        CASE i.kind = "rst" -> [flush_bits(a) EXCEPT !.out = @ \o <<255, RST0 + i.sym>>]
          [] i.kind = "raw" -> emit_bits([a EXCEPT !.put = @ \o i.extra])
          [] i.sym \notin DOMAIN code[i.kind][i.tbl] -> [a EXCEPT !.missing = TRUE]
          [] OTHER -> emit_bits([a EXCEPT !.put = @ \o code[i.kind][i.tbl][i.sym] \o i.extra])
  IN  FoldLeft(step, w, items)

-----------------------------------------------------------------------------
\* The decoder's bit reader is a reader of markers with buf, the bits read, and
\* insuf, insufficient_data.  val is what the last call got.
MIN_GET_BITS == 25

\* Zeros stand for the data that is missing before a marker.
NoMoreBytes(b, nbits) ==
  IF nbits <= Len(b.buf) THEN b
  ELSE [b EXCEPT !.buf = @ \o Times(MIN_GET_BITS - Len(@), 0), !.insuf = TRUE]

RECURSIVE jpeg_fill_bit_buffer(_, _, _)
jpeg_fill_bit_buffer(src, b, nbits) ==
  LET with(c) ==
        CASE ~c.ok -> [b EXCEPT !.ok = FALSE]
          [] c.ok /\ c.marker # 0 -> NoMoreBytes([b EXCEPT !.unread = c.marker, !.pos = c.pos], nbits)
          [] c.ok /\ c.marker = 0 ->
               jpeg_fill_bit_buffer(src, [b EXCEPT !.pos = c.pos, !.buf = @ \o Bits(c.byte, 8)], nbits)
  IN  IF b.unread # 0 THEN NoMoreBytes(b, nbits)
      ELSE IF Len(b.buf) >= MIN_GET_BITS THEN b ELSE with(DataByte(src, b.pos))

GET_BITS(src, b, n) ==
  Then(IF Len(b.buf) < n THEN jpeg_fill_bit_buffer(src, b, n) ELSE b,
       LAMBDA f : [f EXCEPT !.val = Number(SubSeq(f.buf, 1, n)), !.buf = SubSeq(@, n + 1, Len(@))])

\* A code one bit longer, until it is one of the table's; none is longer than MaxCodeLength.
RECURSIVE Longer(_, _, _, _, _)
Longer(src, b, t, code, l) ==
  IF code <= t.maxcode[l]
  THEN [b EXCEPT !.val = IF l > MaxCodeLength THEN 0 ELSE t.huffval[code + t.valoffset[l]]]
  ELSE Then(GET_BITS(src, b, 1), LAMBDA g : Longer(src, g, t, 2 * code + g.val, l + 1))
jpeg_huff_decode(src, b, t, min_bits) ==
  Then(GET_BITS(src, b, min_bits), LAMBDA g : Longer(src, g, t, g.val, min_bits))

HUFF_DECODE(src, b, t) ==
  LET symbol(f, p) == [f EXCEPT !.val = t.huffval[p], !.buf = SubSeq(@, t.codes[p].size + 1, Len(@))]
      lookup(f) == LET found == t.look[Number(SubSeq(f.buf, 1, HUFF_LOOKAHEAD))]
                   IN  IF found = {} THEN jpeg_huff_decode(src, f, t, HUFF_LOOKAHEAD + 1)
                       ELSE symbol(f, CHOOSE p \in found : TRUE)
  IN  Then(IF Len(b.buf) < HUFF_LOOKAHEAD THEN jpeg_fill_bit_buffer(src, b, 0) ELSE b,
           LAMBDA f : IF Len(f.buf) < HUFF_LOOKAHEAD THEN jpeg_huff_decode(src, f, t, 1) ELSE lookup(f))

-----------------------------------------------------------------------------
\* Decoding.  d is the bit reader with the state a suspended call gives up,
\* last_dc_val and EOBRUN, and block, the block being filled.  A call that needs
\* more data than there is ends with ok FALSE.
DcDifference(src, d, t) ==
  Then(HUFF_DECODE(src, d, t),
       LAMBDA s : Then(GET_BITS(src, s, s.val), LAMBDA g : [g EXCEPT !.val = HUFF_EXTEND(@, s.val)]))

DecodeDC(src, d, c, t, needed, Al) ==
  LET put(v) == [v EXCEPT !.last_dc_val[c] = @ + v.val, !.block[0] = JCOEF((v.last_dc_val[c] + v.val) * 2^Al)]
  IN  Then(DcDifference(src, d, t), LAMBDA v : IF needed THEN put(v) ELSE v)

\* The coefficients k..Se of a sequential block; those from limit on are read
\* and dropped.
RECURSIVE DecodeAC(_, _, _, _, _, _, _)
DecodeAC(src, d, t, k, Se, limit, n) ==
  LET put(g, at, size) ==
        IF k < limit THEN [g EXCEPT !.block[jpeg_natural_order[n][at]] = JCOEF(HUFF_EXTEND(g.val, size))] ELSE g
      symbol(s, r, size) ==
        CASE size = 0 /\ r # 15 -> s
          [] size = 0 /\ r = 15 -> DecodeAC(src, s, t, k + 16, Se, limit, n)
          [] size # 0 -> Then(GET_BITS(src, s, size),
                              LAMBDA g : DecodeAC(src, put(g, k + r, size), t, k + r + 1, Se, limit, n))
  IN  IF k > Se THEN d ELSE Then(HUFF_DECODE(src, d, t), LAMBDA s : symbol(s, s.val \div 16, s.val % 16))

DecodeBlock(src, d, c, dctbl, actbl, limit, n, Se) ==
  Then(DecodeDC(src, d, c, dctbl, limit > 0, 0), LAMBDA dc : DecodeAC(src, dc, actbl, 1, Se, limit, n))

\* The run of blocks whose band ends here.
EobRun(src, d, r) == Then(GET_BITS(src, d, r), LAMBDA g : [g EXCEPT !.EOBRUN = 2^r + g.val])

RECURSIVE BandFirst(_, _, _, _, _, _)
BandFirst(src, d, t, k, s, n) ==
  LET put(g, at, size) ==
        [g EXCEPT !.block[jpeg_natural_order[n][at]] = JCOEF(HUFF_EXTEND(g.val, size) * 2^s.Al)]
      symbol(h, r, size) ==
        CASE size = 0 /\ r = 15 -> BandFirst(src, h, t, k + 16, s, n)
          [] size = 0 /\ r # 15 -> Then(EobRun(src, h, r), LAMBDA e : [e EXCEPT !.EOBRUN = @ - 1])
          [] size # 0 -> Then(GET_BITS(src, h, size),
                              LAMBDA g : BandFirst(src, put(g, k + r, size), t, k + r + 1, s, n))
  IN  IF k > s.Se THEN d ELSE Then(HUFF_DECODE(src, d, t), LAMBDA h : symbol(h, h.val \div 16, h.val % 16))
DecodeACFirst(src, d, t, s, n) ==
  IF d.EOBRUN > 0 THEN [d EXCEPT !.EOBRUN = @ - 1] ELSE BandFirst(src, d, t, s.Ss, s, n)

\* A bit is or-ed into the coefficient, whatever its sign.
DecodeDCRefine(src, d, Al) ==
  Then(GET_BITS(src, d, 1),
       LAMBDA g : IF g.val = 1 /\ (g.block[0] \div 2^Al) % 2 = 0 THEN [g EXCEPT !.block[0] = @ + 2^Al] ELSE g)

\* A correction bit of a coefficient, which an earlier try of this block may
\* already have set.
TwosComplementBit(v, Al) == (v \div 2^Al) % 2
Correct(src, d, pos, Al) ==
  Then(GET_BITS(src, d, 1),
       LAMBDA g : IF g.val = 1 /\ TwosComplementBit(g.block[pos], Al) = 0
                  THEN [g EXCEPT !.block[pos] = @ + IF @ >= 0 THEN 2^Al ELSE -(2^Al)]
                  ELSE g)

\* The correction bits of the coefficients from k on, until r zeros are passed.
RECURSIVE PassOver(_, _, _, _, _, _)
PassOver(src, d, k, r, s, n) ==
  LET pos == jpeg_natural_order[n][k]
  IN  CASE k > s.Se \/ (d.block[pos] = 0 /\ r = 0) -> [d EXCEPT !.k = k]
        [] k <= s.Se /\ d.block[pos] = 0 /\ r > 0 -> PassOver(src, d, k + 1, r - 1, s, n)
        [] k <= s.Se /\ d.block[pos] # 0 ->
             Then(Correct(src, d, pos, s.Al), LAMBDA g : PassOver(src, g, k + 1, r, s, n))

\* A coefficient that was zero becomes v; newnz is the positions this call made
\* nonzero.
NewNonzero(d, pos, v) == [d EXCEPT !.block[pos] = v, !.newnz = @ \cup {pos}]

RECURSIVE BandRefine(_, _, _, _, _, _)
BandRefine(src, d, t, k, s, n) ==
  LET place(over, v) ==
        BandRefine(src, IF v = 0 THEN over ELSE NewNonzero(over, jpeg_natural_order[n][over.k], v), t, over.k + 1, s, n)
      pass(x, r, v) == Then(PassOver(src, x, k, r, s, n), LAMBDA over : place(over, v))
      symbol(h, r, size) ==
        CASE size = 0 /\ r # 15 -> Then(EobRun(src, h, r), LAMBDA e : [e EXCEPT !.k = k])
          [] size = 0 /\ r = 15 -> pass(h, r, 0)
          [] size # 0 -> Then(GET_BITS(src, h, 1),
                              LAMBDA g : pass(g, r, IF g.val = 1 THEN 2^s.Al ELSE -(2^s.Al)))
  IN  IF k > s.Se THEN d ELSE Then(HUFF_DECODE(src, d, t), LAMBDA h : symbol(h, h.val \div 16, h.val % 16))

UndoNone(d) == d
Undo(d) == [d EXCEPT !.block = [p \in Positions |-> IF p \in d.newnz THEN 0 ELSE d.block[p]]]
DecodeACRefine(src, d, t, s, n) ==
  LET start == [d EXCEPT !.newnz = {}, !.k = s.Ss]
      rest(b) == IF b.EOBRUN = 0 THEN b
                 ELSE Then(PassOver(src, b, b.k, 64, s, n), LAMBDA o : [o EXCEPT !.EOBRUN = @ - 1])
      end(o) == IF o.ok THEN o ELSE Undo(o)
  IN  end(Then(IF d.EOBRUN = 0 THEN BandRefine(src, start, t, s.Ss, s, n) ELSE start, rest))
=============================================================================

----------------------------- MODULE JpegEntropy -----------------------------
(***************************************************************************)
(* Entropy coding in jpeg8d from end to end.  An encoder writes the        *)
(* coefficients of a picture, scan by scan; the bytes travel to a decoder, *)
(* in pieces, or with some of them lost; the decoder reads them back into  *)
(* coefficients.  A scan is [comps, Ss, Se, Ah, Al]: its components, its   *)
(* band of coefficients and the bits it sends of them.                     *)
(*                                                                         *)
(* The blocks of a component are in one row.  A scan of one component has  *)
(* a block in an MCU; a scan of several has samp[c] blocks of each.        *)
(***************************************************************************)
EXTENDS JpegEntropyDefs

CONSTANTS
  Jobs,           \* pictures with the way they are coded, see MCJpegEntropy
  BufferSize,     \* bytes in the destination manager's buffer, enough for an MCU
  FinishRoom,     \* bytes the application sees to before jpeg_finish_compress
  MaxCut,         \* bound on the bytes lost
  MaxLostMarkers, \* bound on the restart markers lost
  MAX_EOBRUN, MAX_CORR_BITS, MaxCodeLength, MAX_CLEN, HUFF_LOOKAHEAD, arith_dc_L, arith_dc_U, arith_ac_K,
  NULL

H == INSTANCE JpegHuffman
A == INSTANCE JpegArith

VARIABLES
  job,            \* the picture and the parameters of both sides
  e,              \* the entropy encoder
  tables,         \* cinfo->dc_huff_tbl_ptrs and ac_huff_tbl_ptrs by kind and number
  out,            \* the bytes written
  headers,        \* the tables written before each scan
  room,           \* free_in_buffer, counted for the Huffman encoder
  cut,            \* the restart intervals the lost bytes were in, NULL before
  avail,          \* how many bytes have come to the decoder
  d,              \* the entropy decoder and its marker reader
  blocks          \* the coefficient arrays: component -> sequence of blocks

vars == <<job, e, tables, out, headers, room, cut, avail, d, blocks>>

-----------------------------------------------------------------------------
Script == job.script
Progressive == job.progressive
Components == DOMAIN job.samp

\* The blocks of MCU m, counted from 0, in the order of MCU_membership.
McuBlocks(scan, m) ==
  IF Len(scan.comps) = 1 THEN <<<<scan.comps[1], m + 1>>>>
  ELSE FlattenSeq([i \in DOMAIN scan.comps |->
         LET c == scan.comps[i] IN [x \in 1..job.samp[c] |-> <<c, m * job.samp[c] + x>>]])
Mcus(scan) ==
  LET c == scan.comps[1] IN IF Len(scan.comps) = 1 THEN Len(job.picture[c]) ELSE Len(job.picture[c]) \div job.samp[c]

RestartDue(togo) == job.restart_interval > 0 /\ togo = 0
\* The counter after an MCU.
ToGo(togo) ==
  IF job.restart_interval = 0 THEN 0 ELSE (IF togo = 0 THEN job.restart_interval ELSE togo) - 1

-----------------------------------------------------------------------------
\* The encoder.  Before a scan of a Huffman file whose tables are to be optimal,
\* a pass gathers statistics; a scan that refines DC has no symbols.
Gathers(s) == ~job.arith /\ job.optimize /\ (s.Ss # 0 \/ s.Ah = 0)

FreshHuffman == [put |-> <<>>, last_dc_val |-> [c \in Components |-> 0], EOBRUN |-> 0, BE |-> <<>>]
FreshArith ==
  A!FreshEncoder @@ [last_dc_val |-> [c \in Components |-> 0], dc_context |-> [c \in Components |-> 0],
                     stats |-> <<>>, out |-> <<>>]
start_pass(scan, gather) ==
  [scan |-> scan, gather |-> gather, mcu |-> 0, togo |-> job.restart_interval, next_rst |-> 0, counts |-> <<>>,
   stalled |-> FALSE, h |-> FreshHuffman, a |-> FreshArith]

Tagged(items, c) == [i \in DOMAIN items |-> items[i] @@ [tbl |-> job.tbl[c]]]

HuffmanBlock(h, c, block, s) ==
  CASE ~Progressive -> [h EXCEPT !.items = H!encode_one_block(block, h.last_dc_val[c], job.n, s.Se),
                                 !.last_dc_val[c] = block[0]]
    [] s.Ss = 0 /\ s.Ah = 0 -> H!EncodeDCFirst(h, c, block, s.Al)
    [] s.Ss = 0 /\ s.Ah > 0 -> H!EncodeDCRefine(h, block, s.Al)
    [] s.Ss > 0 /\ s.Ah = 0 -> H!EncodeACFirst(h, block, job.n, s)
    [] s.Ss > 0 /\ s.Ah > 0 -> H!EncodeACRefine(h, block, job.n, s)

\* emit_restart: the run of blocks ends before the marker.
HuffmanRestart(h, c) ==
  [H!emit_eobrun(h) EXCEPT !.items = Tagged(@ \o H!Rst(e.next_rst), c), !.last_dc_val = [x \in Components |-> 0]]

\* The items of the MCU and the encoder's state after it.
After(h, b, c) == [b EXCEPT !.items = h.items \o Tagged(@, c)]
HuffmanMcu(s) ==
  FoldLeft(LAMBDA h, cb :
             After(h, HuffmanBlock([h EXCEPT !.items = <<>>], cb[1], job.picture[cb[1]][cb[2]], s), cb[1]),
           IF RestartDue(e.togo) THEN HuffmanRestart(e.h @@ [items |-> <<>>], s.comps[1]) ELSE e.h @@ [items |-> <<>>],
           McuBlocks(s, e.mcu))

ArithBlock(a, c, block, s) ==
  LET at(k, l) == IF k = 0 THEN ShiftDC(block[0], l) ELSE ShiftAC(block[jpeg_natural_order[job.n][k]], l)
      value == [k \in 0..s.Se |-> at(k, s.Al)]
      old == [k \in 0..s.Se |-> at(k, s.Ah)]
      diff == value[0] - a.last_dc_val[c]
      ac == A!AcDecisions(job.tbl[c], value, IF s.Ss = 0 THEN 1 ELSE s.Ss, s.Se)
      dc == A!DcDecisions(job.tbl[c], a.dc_context[c], diff)
      first(ds) == [A!Encode(a, ds) EXCEPT !.dc_context[c] = A!DcNext(diff), !.last_dc_val[c] = value[0]]
  IN  CASE s.Ss = 0 /\ s.Ah = 0 -> first(dc \o ac)
        [] s.Ss = 0 /\ s.Ah > 0 -> A!Encode(a, <<<<A!fixed_bin, value[0] % 2>>>>)
        [] s.Ss > 0 /\ s.Ah = 0 -> A!Encode(a, ac)
        [] s.Ss > 0 /\ s.Ah > 0 -> A!Encode(a, A!RefineDecisions(job.tbl[c], value, old, s.Ss, s.Se))

ArithMcu(s) ==
  LET fresh == IF RestartDue(e.togo)
               THEN [FreshArith EXCEPT !.out = A!finish_pass(e.a).out \o <<255, RST0 + e.next_rst>>]
               ELSE e.a
  IN  FoldLeft(LAMBDA a, cb : ArithBlock(a, cb[1], job.picture[cb[1]][cb[2]], s), fresh, McuBlocks(s, e.mcu))

Counted(e1) ==
  [e1 EXCEPT !.mcu = @ + 1, !.togo = ToGo(e1.togo),
             !.next_rst = IF RestartDue(e1.togo) THEN (@ + 1) % 8 ELSE @]

Derived(kind) == [t \in DOMAIN tables[kind] |-> H!jpeg_make_c_derived_tbl(tables[kind][t])]
Code == [dc |-> Derived("dc"), ac |-> Derived("ac")]

GatherMcu ==
  /\ e.scan \in DOMAIN Script /\ e.gather /\ e.mcu < Mcus(Script[e.scan])
  /\ \E h \in {HuffmanMcu(Script[e.scan])} :
       e' = [Counted(e) EXCEPT !.counts = H!Count(@, h.items),
                               !.h.last_dc_val = h.last_dc_val, !.h.EOBRUN = h.EOBRUN, !.h.BE = h.BE]
  /\ UNCHANGED <<job, tables, out, headers, room, cut, avail, d, blocks>>

\* Only the sequential Huffman encoder can suspend, and then keeps nothing of
\* the MCU.  Where the output pass is made by jpeg_finish_compress (optimal tables,
\* several scans), libjpeg.txt:1668 has the application use a destination that
\* always makes room.
Suspends == ~job.arith /\ ~Progressive /\ ~job.optimize /\ Len(Script) = 1
HuffmanEncodeMcu ==
  /\ e.scan \in DOMAIN Script /\ ~job.arith /\ ~e.gather /\ ~e.stalled /\ e.mcu < Mcus(Script[e.scan])
  /\ \E h \in {HuffmanMcu(Script[e.scan])} :
     \E w \in {H!Write([out |-> <<>>, put |-> e.h.put, missing |-> FALSE], h.items, Code)} :
       IF Len(w.out) >= room /\ Suspends
       THEN e' = [e EXCEPT !.stalled = TRUE] /\ UNCHANGED <<out, room>>
       ELSE /\ e' = [Counted(e) EXCEPT !.h = [put |-> w.put, last_dc_val |-> h.last_dc_val,
                                              EOBRUN |-> h.EOBRUN, BE |-> h.BE]]
            /\ out' = out \o w.out
            /\ room' = IF Len(w.out) < room THEN room - Len(w.out) ELSE BufferSize
            /\ ~w.missing
  /\ UNCHANGED <<job, tables, headers, cut, avail, d, blocks>>

ArithEncodeMcu ==
  /\ e.scan \in DOMAIN Script /\ job.arith /\ e.mcu < Mcus(Script[e.scan])
  /\ \E a \in {ArithMcu(Script[e.scan])} :
       e' = [Counted(e) EXCEPT !.a = [a EXCEPT !.out = <<>>]] /\ out' = out \o a.out
  /\ UNCHANGED <<job, tables, headers, room, cut, avail, d, blocks>>

AllWritten == e.scan \in DOMAIN Script /\ ~e.gather /\ ~e.stalled /\ e.mcu = Mcus(Script[e.scan])

\* The application writes the buffer out and calls again; it does so too before
\* jpeg_finish_compress, which cannot suspend, if little room is left
\* (libjpeg.txt:1662).
EmptyBufferKeeping ==
  /\ e.stalled
  /\ e' = [e EXCEPT !.stalled = FALSE]
  /\ UNCHANGED <<job, tables, out, headers, room, cut, avail, d, blocks>>
EmptyBuffer ==
  /\ e.stalled \/ (AllWritten /\ Suspends /\ room < FinishRoom)
  /\ e' = [e EXCEPT !.stalled = FALSE]
  /\ room' = BufferSize
  /\ UNCHANGED <<job, tables, out, headers, cut, avail, d, blocks>>

\* finish_pass_gather: each table that was counted is made once, however many
\* components use it.
OptimalTables(counts) ==
  [kind \in {"dc", "ac"} |-> [t \in DOMAIN tables[kind] |->
     LET syms == {x[3] : x \in {y \in DOMAIN counts : y[1] = kind /\ y[2] = t}}
     IN  IF syms = {} THEN tables[kind][t]
         ELSE H!jpeg_gen_optimal_table([sym \in syms |-> counts[<<kind, t, sym>>]])]]
LastRun == Tagged(H!emit_eobrun(e.h @@ [items |-> <<>>]).items, Script[e.scan].comps[1])

FinishGather ==
  /\ e.scan \in DOMAIN Script /\ e.gather /\ e.mcu = Mcus(Script[e.scan])
  /\ tables' = OptimalTables(H!Count(e.counts, LastRun))
  /\ e' = start_pass(e.scan, FALSE)
  /\ UNCHANGED <<job, out, headers, room, cut, avail, d, blocks>>

\* A scan starts with its SOS marker and the last one is followed by EOI; what
\* comes before the marker, the decoder has in headers.  Without room for what is
\* left the sequential Huffman encoder raises JERR_CANT_SUSPEND, and there is no
\* step.  After EOI term_destination empties the buffer.
FinishPass ==
  LET w == H!flush_bits(H!Write([out |-> <<>>, put |-> e.h.put, missing |-> FALSE], LastRun, Code))
      next == e.scan + 1
      more == next \in DOMAIN Script
      written == (IF job.arith THEN A!finish_pass(e.a).out ELSE w.out) \o <<255, IF more THEN SOS ELSE EOI>>
  IN  /\ AllWritten
      /\ Suspends => room >= FinishRoom /\ Len(written) < room
      /\ out' = out \o written
      /\ room' = IF more /\ Len(written) < room THEN room - Len(written) ELSE BufferSize
      /\ headers' = Append(headers, tables)
      /\ e' = start_pass(next, more /\ Gathers(Script[next]))
      /\ UNCHANGED <<job, tables, cut, avail, d, blocks>>

-----------------------------------------------------------------------------
\* The way.  Whole bytes of entropy coded data, or restart markers, may be lost
\* once, out of data that comes in one piece.
Encoded == e.scan > Len(Script)
Markers(lo, hi) == {p \in lo..hi - 1 : out[p] = 255 /\ out[p + 1] # 0}
ScanStart(p) == Max({q \in Markers(1, p) : out[q + 1] = SOS} \cup {0})
Interval(p) == Cardinality(Markers(ScanStart(p) + 1, p))
ScanOf(p) == Cardinality({q \in Markers(1, p) : out[q + 1] = SOS})

Lose(i, j) ==
  /\ Encoded /\ cut = NULL /\ avail = 0
  /\ i > 2 /\ i <= j /\ j < Len(out) - 1
  /\ out[i - 1] # 255 /\ out[j] # 255
  /\ \A q \in Markers(i, j + 1) : out[q + 1] \in RST0..RST0 + 7
  /\ Cardinality(Markers(i, j + 1)) <= MaxLostMarkers
  /\ cut' = [scan |-> ScanOf(i), touched |-> Interval(i)..Interval(j + 1)]
  /\ out' = SubSeq(out, 1, i - 1) \o SubSeq(out, j + 1, Len(out))
  /\ avail' = Len(out')
  /\ UNCHANGED <<job, e, tables, headers, room, d, blocks>>

Arrive ==
  /\ Encoded /\ avail < Len(out)
  /\ avail' \in {avail + 1} \cup IF avail = 0 THEN {Len(out)} ELSE {}
  /\ UNCHANGED <<job, e, tables, out, headers, room, cut, d, blocks>>

-----------------------------------------------------------------------------
\* The decoder.  mcu is NULL between scans.
Src == SubSeq(out, 1, avail)
FreshBits == [buf |-> <<>>, insuf |-> FALSE, EOBRUN |-> 0]
Scratch == [ok |-> TRUE, val |-> 0, k |-> 0, newnz |-> {}, block |-> ZeroBlock]
FreshScan ==
  FreshBits @@ Scratch @@ A!FreshDecoder @@
  [last_dc_val |-> [c \in Components |-> 0], dc_context |-> [c \in Components |-> 0], stats |-> <<>>]

Over == d.mcu = NULL /\ d.unread = EOI

\* consume_markers: a scan begins, or the data has ended; any other marker is a
\* stray restart marker.
ReadMarker ==
  /\ Encoded /\ d.mcu = NULL /\ ~Over
  /\ \E r \in {IF d.unread = 0 THEN next_marker(Src, d) ELSE d} :
       /\ r.ok
       /\ d' = CASE r.unread = SOS ->
                      FreshScan @@ [pos |-> r.pos, unread |-> 0, next_rst |-> 0, scan |-> d.scan + 1, mcu |-> 0,
                                    togo |-> job.restart_interval]
                 [] r.unread = EOI -> r
                 [] OTHER -> [r EXCEPT !.unread = 0]
  /\ UNCHANGED <<job, e, tables, out, headers, room, cut, avail, blocks>>

\* process_restart: the rest of the bits is thrown away, and the data that was
\* missing is missed no more unless a marker still stands there.
Restarted(x) ==
  Then(read_restart_marker(Src, x),
       LAMBDA r : [FreshScan EXCEPT !.insuf = r.unread # 0 /\ x.insuf]
                    @@ [pos |-> r.pos, unread |-> r.unread, next_rst |-> r.next_rst, scan |-> x.scan,
                        mcu |-> x.mcu, togo |-> job.restart_interval])

Limit(c) ==
  IF ~job.needed[c] THEN 0 ELSE CoefLimit(job.n, job.dsize[c][1], job.dsize[c][2])
Tables(kind) ==
  LET ptrs == headers[d.scan][kind] IN [t \in DOMAIN ptrs |-> H!jpeg_make_d_derived_tbl(ptrs[t])]

HuffmanDecodeBlock(x, c, s, dctbl, actbl) ==
  CASE ~Progressive -> H!DecodeBlock(Src, x, c, dctbl[job.tbl[c]], actbl[job.tbl[c]], Limit(c), job.n, s.Se)
    [] s.Ss = 0 /\ s.Ah = 0 -> H!DecodeDC(Src, x, c, dctbl[job.tbl[c]], TRUE, s.Al)
    [] s.Ss = 0 /\ s.Ah > 0 -> H!DecodeDCRefine(Src, x, s.Al)
    [] s.Ss > 0 /\ s.Ah = 0 -> H!DecodeACFirst(Src, x, actbl[job.tbl[c]], s, job.n)
    [] s.Ss > 0 /\ s.Ah > 0 -> H!DecodeACRefine(Src, x, actbl[job.tbl[c]], s, job.n)

ArithDecodeBlock(x, c, s) ==
  LET ac(dc) == IF dc.ct = -1 THEN dc ELSE A!DecodeAC(Src, dc, job.tbl[c], 1, FALSE, s.Se, s.Al, job.n)
  IN  CASE s.Ss = 0 /\ s.Ah = 0 -> ac(A!DecodeDC(Src, x, c, job.tbl[c], s.Al))
        [] s.Ss = 0 /\ s.Ah > 0 -> A!DecodeDCRefine(Src, x, s.Al)
        [] s.Ss > 0 /\ s.Ah = 0 -> A!DecodeAC(Src, x, job.tbl[c], s.Ss, FALSE, s.Se, s.Al, job.n)
        [] s.Ss > 0 /\ s.Ah > 0 -> A!DecodeACRefine(Src, x, job.tbl[c], s, job.n)

\* The blocks of an MCU, until one needs more data or is in error: x is the
\* decoder and bs the blocks.
Stored(x, bs, cb) == [x |-> x, blocks |-> [bs EXCEPT ![cb[1]][cb[2]] = x.block]]
EachBlock(Decode(_, _), x, s) ==
  FoldLeft(LAMBDA a, cb :
             IF ~a.x.ok \/ a.x.ct = -1 THEN a
             ELSE Stored(Decode([a.x EXCEPT !.block = a.blocks[cb[1]][cb[2]]], cb[1]), a.blocks, cb),
           [x |-> x, blocks |-> blocks], McuBlocks(s, d.mcu))

Decoded(x, s) ==
  [x EXCEPT !.mcu = IF @ + 1 = Mcus(s) THEN NULL ELSE @ + 1, !.togo = ToGo(@),
            !.val = 0, !.k = 0, !.newnz = {}, !.block = ZeroBlock]

\* Once the data of an interval has run out, the MCUs of the interval are left as
\* they are, but for the scans that refine DC, which would not change them.
LeftAsTheyAre(x, s) == x.insuf /\ ~(Progressive /\ s.Ss = 0 /\ s.Ah > 0)

\* A suspended call keeps what a restart marker did, and the blocks as they are;
\* one that gets nowhere is not a step.
HuffmanDecodeMcu ==
  LET s == Script[d.scan]
  IN  /\ d.mcu # NULL /\ ~job.arith
      /\ \E r \in {IF RestartDue(d.togo) THEN Restarted([d EXCEPT !.buf = <<>>]) ELSE d} :
           CASE ~r.ok -> d' = [r EXCEPT !.ok = TRUE] /\ UNCHANGED blocks
             [] r.ok /\ LeftAsTheyAre(r, s) -> d' = Decoded(r, s) /\ UNCHANGED blocks
             [] r.ok /\ ~LeftAsTheyAre(r, s) ->
                  \E dctbl \in {Tables("dc")}, actbl \in {Tables("ac")} :
                  \E m \in {EachBlock(LAMBDA x, c : HuffmanDecodeBlock(x, c, s, dctbl, actbl), r, s)} :
                    blocks' = m.blocks /\ d' = IF m.x.ok THEN Decoded(m.x, s) ELSE r
      /\ d' # d \/ blocks' # blocks
      /\ UNCHANGED <<job, e, tables, out, headers, room, cut, avail>>

\* The arithmetic decoder cannot suspend: its source waits for the data.  After
\* an impossible decision the rest of the interval is skipped.
ArithDecodeMcu ==
  LET s == Script[d.scan]
  IN  /\ d.mcu # NULL /\ job.arith /\ avail = Len(out)
      /\ \E r \in {IF RestartDue(d.togo) THEN Restarted(d) ELSE d} :
         \E m \in {EachBlock(LAMBDA x, c : ArithDecodeBlock(x, c, s), r, s)} :
           d' = Decoded(m.x, s) /\ blocks' = m.blocks
      /\ UNCHANGED <<job, e, tables, out, headers, room, cut, avail>>

-----------------------------------------------------------------------------
Init ==
  /\ job \in Jobs
  /\ e = start_pass(1, Gathers(Script[1]))
  /\ tables = job.tables
  /\ out = <<255, SOS>> /\ headers = <<>>
  /\ room \in 1..BufferSize
  /\ cut = NULL /\ avail = 0
  /\ d = FreshScan @@ [pos |-> 1, unread |-> 0, next_rst |-> 0, scan |-> 0, mcu |-> NULL, togo |-> 0]
  /\ blocks = [c \in Components |-> [b \in DOMAIN job.picture[c] |-> ZeroBlock]]

Encode == GatherMcu \/ HuffmanEncodeMcu \/ ArithEncodeMcu \/ EmptyBuffer \/ FinishGather \/ FinishPass
Decode == ReadMarker \/ HuffmanDecodeMcu \/ ArithDecodeMcu
Next ==
  \/ Encode
  \/ \E i \in 1..Len(out), n \in 0..MaxCut - 1 : Lose(i, i + n)
  \/ Arrive
  \/ Decode
  \/ Over /\ UNCHANGED vars

\* Weak fairness of an action, with a plain condition for its ENABLED, which has
\* to compute the whole step: that there is no deadlock before the end shows that
\* the action is enabled wherever the condition holds.
Spec ==
  /\ Init /\ [][Next]_vars
  /\ []<>Encoded \/ []<><<Encode>>_vars
  /\ []<>~(Encoded /\ avail < Len(out)) \/ []<><<Arrive>>_vars
  /\ []<>~(Encoded /\ avail = Len(out) /\ ~Over) \/ []<><<Decode>>_vars

-----------------------------------------------------------------------------
\* What scans 1..n sent of coefficient k, in zigzag order, of a block.
SentBy(n, c, k) ==
  {i \in 1..n : c \in ToSet(Script[i].comps) /\ k \in Script[i].Ss..Script[i].Se}
Sent(n, c, b, k) ==
  LET by == SentBy(n, c, k)
      Al == Script[Max(by)].Al
      v == job.picture[c][b][jpeg_natural_order[job.n][k]]
  IN  IF by = {} THEN 0 ELSE 2^Al * IF k = 0 THEN ShiftDC(v, Al) ELSE ShiftAC(v, Al)
\* Whether the inverse DCT of component c looks at coefficient k.
Used(c, k) ==
  LET p == jpeg_natural_order[job.n][k]
  IN  job.needed[c] /\ p \div 8 < job.dsize[c][1] /\ p % 8 < job.dsize[c][2]
AsSent(n, c, b) ==
  \A k \in 0..job.n * job.n - 1 : Used(c, k) => blocks[c][b][jpeg_natural_order[job.n][k]] = Sent(n, c, b, k)

\* Whenever the decoder has read a scan to its end, the coefficients the inverse
\* DCT will look at are those that were encoded, to the precision sent so far:
\* however the encoder's buffer filled up and the data arrived in pieces, with a
\* call given up and tried again after each.
ScansExact ==
  cut = NULL /\ d.mcu = NULL => \A c \in Components : \A b \in DOMAIN blocks[c] : AsSent(d.scan, c, b)

\* Lost data costs the restart intervals it was in, and no block of any other:
\* the decoder finds the restart marker after the damage and takes it for the
\* one it is.  The number of the interval of a scan that block b of c is in:
IntervalOf(scan, c, b) ==
  IF job.restart_interval = 0 THEN 0
  ELSE (IF Len(scan.comps) = 1 THEN b - 1 ELSE (b - 1) \div job.samp[c]) \div job.restart_interval
DamageContained ==
  cut # NULL /\ Over =>
    \A c \in Components : \A b \in DOMAIN blocks[c] :
      \/ AsSent(Len(Script), c, b)
      \/ c \in ToSet(Script[cut.scan].comps) /\ IntervalOf(Script[cut.scan], c, b) \in cut.touched

\* The encoder finds room and codes for all it has to write, to the last bits
\* that may not suspend, if the application empties its buffer when it is asked
\* to, and the decoder comes to the end of the image, with whatever data is
\* missing.
ImageEnds == <>Over
=============================================================================

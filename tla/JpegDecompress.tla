---------------------------- MODULE JpegDecompress ----------------------------
(* The decompressor between the entropy decoder and the application: the      *)
(* calls of jdapimin.c and jdapistd.c, the input controller (jdinput.c), the  *)
(* master (jdmaster.c), the coefficient (jdcoefct.c), main (jdmainct.c) and   *)
(* postprocessing (jdpostct.c) controllers and the upsamplers (jdsample.c,    *)
(* jdmerge.c), with a source that may suspend before every marker and MCU.    *)
(* A sample is the set src of picture rows it shows, the set seen of scans it *)
(* has been made from, and near, the DC scans seen of each block that         *)
(* smoothing compared it with. A call is a function of the decompressor.      *)
EXTENDS JpegImage

VARIABLE dinfo    \* the decompressor, with its application's choices in opt

opt == dinfo.opt
dct(c) == DCT_v_scaled_size(c, opt.scaled_size, opt.fancy)
rgh(c) == rowgroup_height(c, opt.scaled_size, opt.fancy)
output_height == jdiv_round_up(img.image_height * opt.scaled_size, DCTSIZE)
last_iMCU_row == total_iMCU_rows - 1
quantize_colors == opt.quant # "none"
enable_2pass_quant == opt.quant = "two" /\ Len(img.v) > 1
fullsize(c) == rgh(c) = max_v_samp_factor
use_merged_upsample ==
    /\ ~opt.fancy /\ Len(img.v) > 1 /\ img.v[1] <= 2
    /\ \A c \in Comps : dct(c) = opt.scaled_size /\ (c > 1 => img.v[c] = 1)

Gray == [src |-> {}, seen |-> {}, near |-> {}]
GrayRows(n) == [r \in 0..(n - 1) |-> [col \in Columns |-> Gray]]
ERREXIT(s) == [s EXCEPT !.global_state = "ERREXIT", !.ret = "ERREXIT"]
Stopped(s) == s.ret \in {"SUSPENDED", "ERREXIT"}
\* The rest of a call, unless it had to stop; a call of the application returns
\* FALSE then.
Unless(s, Rest(_)) == IF Stopped(s) THEN s ELSE Rest(s)
UnlessFalse(s, Rest(_)) == IF Stopped(s) THEN [s EXCEPT !.ret = "FALSE"] ELSE Rest(s)

-----------------------------------------------------------------------------
(* Input. The source delivers s.left more units during a call.                *)

Scan(s) == img.scans[s.scan]
Available(s) == s.left > 0 /\ s.pos < Len(file)
Take(s) == [s EXCEPT !.pos = @ + 1, !.left = @ - 1]

RECURSIVE read_markers(_)
Marker(s, unit) ==
    CASE unit.t = "SOS" -> [s EXCEPT !.scan = unit.scan, !.input_scan_number = @ + 1, !.ret = "REACHED_SOS"]
      [] unit.t = "EOI" -> [s EXCEPT !.ret = "REACHED_EOI"]
      [] OTHER -> read_markers(s)
read_markers(s) ==
    CASE s.unread_marker -> Marker([s EXCEPT !.unread_marker = FALSE], file[s.pos])
      [] ~s.unread_marker /\ Available(s) -> Marker(Take(s), file[s.pos + 1])
      [] OTHER -> [s EXCEPT !.ret = "SUSPENDED"]

\* Data that ends before the scan does is taken for zeroes once the marker
\* that follows has been seen.
decode_mcuWaiting(s) ==
    IF Available(s) /\ file[s.pos + 1].t = "MCU"
    THEN [Take(s) EXCEPT !.ret = "MCU", !.mcu = file[s.pos + 1].blocks] ELSE [s EXCEPT !.ret = "SUSPENDED"]
decode_mcu(s) ==
    IF s.unread_marker THEN [s EXCEPT !.ret = "MCU", !.mcu = <<>>]
    ELSE IF ~Available(s) THEN [s EXCEPT !.ret = "SUSPENDED"]
    ELSE LET unit == file[s.pos + 1]
         IN  [Take(s) EXCEPT !.ret = "MCU", !.mcu = IF unit.t = "MCU" THEN unit.blocks ELSE <<>>,
                             !.unread_marker = (unit.t # "MCU")]

start_iMCU_row(s) ==
    [s EXCEPT !.MCU_rows = MCU_rows_per_iMCU_row(Scan(s).comps, s.input_iMCU_row), !.MCU_ctr = 0, !.MCU_vert_offset = 0]

\* The bits of each component known so far: -1 for none, 0 for all.
StartEntropyPass(s) ==
    [s EXCEPT !.coef_bits = [c \in Comps |->
        IF ~img.progressive \/ c \notin ToSet(Scan(s).comps) THEN @[c]
        ELSE IF Scan(s).Ss = 0 THEN [@[c] EXCEPT !.dc = Scan(s).Al] ELSE [@[c] EXCEPT !.ac = Scan(s).Al]]]

full_buffer(s) == s.has_multiple_scans \/ opt.buffered
start_input_pass(s) ==
    start_iMCU_row([StartEntropyPass(s) EXCEPT
        !.latched = @ \cup ToSet(Scan(s).comps), !.input_iMCU_row = 0,
        !.consume_input = IF full_buffer(s) THEN "data" ELSE "dummy"])

HasMultipleScansOneEach(s) == Len(Scan(s).comps) < Len(img.v)
HasMultipleScans(s) == Len(Scan(s).comps) < Len(img.v) \/ img.progressive
MarkersRead(s) ==
    CASE s.ret = "REACHED_SOS" /\ s.inheaders ->
           [s EXCEPT !.inheaders = FALSE, !.has_multiple_scans = HasMultipleScans(s)]
      [] s.ret = "REACHED_SOS" /\ ~s.inheaders -> IF s.has_multiple_scans THEN start_input_pass(s) ELSE ERREXIT(s)
      [] s.ret = "REACHED_EOI" /\ s.inheaders -> ERREXIT(s)
      [] s.ret = "REACHED_EOI" /\ ~s.inheaders ->
           [s EXCEPT !.eoi_reached = TRUE, !.output_scan_number = LeastOf(@, s.input_scan_number)]
      [] OTHER -> s
consume_markers(s) == IF s.eoi_reached THEN [s EXCEPT !.ret = "REACHED_EOI"] ELSE MarkersRead(read_markers(s))

-----------------------------------------------------------------------------
(* Coefficients: MCUs into the virtual arrays, or straight into the samples   *)
(* of the main buffer when there is one scan and nobody wants to wait.        *)

BlockAt(mcu, comps, k, y) ==
    mcu[FoldLeft(LAMBDA n, c : n + MCU_height(comps, c), 0, SubSeq(comps, 1, k - 1)) + y + 1]
RowsOf(block) == IF "rows" \in DOMAIN block THEN block.rows ELSE <<>>

idct(parts, c, near) ==
    [j \in 0..(dct(c) - 1) |->
        [src |-> UNION {UNION {p[2][i + 1].mid : i \in RowsShown(j, dct(c), Len(p[2]))} : p \in parts},
         seen |-> {p[1] : p \in parts}, near |-> near]]

\* What the MCU in s.mcu adds to block y of the MCU, for the component k-th in the scan.
Part(s, k, y) == IF s.mcu = <<>> THEN {} ELSE {<<s.scan, RowsOf(BlockAt(s.mcu, Scan(s).comps, k, y))>>}

StoreImage(s, yoffset, col) ==
    LET comps == Scan(s).comps
        New(k, b) == LET y == b - s.input_iMCU_row * img.v[comps[k]] - yoffset
                     IN  IF y \in 0..(MCU_height(comps, comps[k]) - 1) THEN Part(s, k, y) ELSE {}
    IN  [s EXCEPT !.image = [c \in Comps |->
            IF c \notin ToSet(comps) THEN @[c]
            ELSE LET k == CHOOSE n \in DOMAIN comps : comps[n] = c
                 IN  [b \in DOMAIN @[c] |-> [@[c][b] EXCEPT ![col] = @ \cup New(k, b)]]]]

\* Dummy blocks below the picture are not shown.
StoreSamples(s, yoffset, col) ==
    LET comps == Scan(s).comps
    IN  [s EXCEPT !.buffer = [c \in Comps |->
            LET k == CHOOSE n \in DOMAIN comps : comps[n] = c
                Shown(b) == /\ b - yoffset \in 0..(MCU_height(comps, c) - 1)
                            /\ s.input_iMCU_row < last_iMCU_row \/ b < last_row_height(c)
            IN  [r \in DOMAIN @[c] |->
                    IF Shown(r \div dct(c))
                    THEN [@[c][r] EXCEPT ![col] = idct(Part(s, k, r \div dct(c) - yoffset), c, {})[r % dct(c)]]
                    ELSE @[c][r]]]]

RowCompleted(s) ==
    IF s.input_iMCU_row < total_iMCU_rows THEN [start_iMCU_row(s) EXCEPT !.ret = "ROW_COMPLETED"]
    ELSE [s EXCEPT !.consume_input = "markers", !.ret = "SCAN_COMPLETED"]

RECURSIVE DecodeMcus(_, _, _)
StoreMcu(s, yoffset, col) ==
    IF Stopped(s) THEN [s EXCEPT !.MCU_vert_offset = yoffset, !.MCU_ctr = col]
    ELSE DecodeMcus(IF full_buffer(s) THEN StoreImage(s, yoffset, col) ELSE StoreSamples(s, yoffset, col), yoffset, col + 1)
DecodeMcus(s, yoffset, col) ==
    IF yoffset >= s.MCU_rows
    THEN RowCompleted([s EXCEPT !.input_iMCU_row = @ + 1, !.output_iMCU_row = IF full_buffer(s) THEN @ ELSE @ + 1])
    ELSE IF col >= MCUsPerRow THEN DecodeMcus([s EXCEPT !.MCU_ctr = 0], yoffset + 1, 0)
    ELSE StoreMcu(decode_mcu(s), yoffset, col)

consume_data(s) == DecodeMcus(s, s.MCU_vert_offset, s.MCU_ctr)
decompress_onepass(s) == DecodeMcus(s, s.MCU_vert_offset, s.MCU_ctr)
dummy_consume_data(s) == [s EXCEPT !.ret = "SUSPENDED"]
consume_input(s) ==
    CASE s.consume_input = "markers" -> consume_markers(s)
      [] s.consume_input = "data" -> consume_data(s)
      [] s.consume_input = "dummy" -> dummy_consume_data(s)

\* Output waits until the input is past the row, or with smoothing, past the
\* row below it too while the scan carries DC.
deltaNone(s) == 0
delta(s) == IF Scan(s).Ss = 0 THEN 1 ELSE 0
Waits(s) ==
    IF s.method = "smooth"
    THEN /\ s.input_scan_number <= s.output_scan_number /\ ~s.eoi_reached
         /\ ~ /\ s.input_scan_number = s.output_scan_number
              /\ s.input_iMCU_row > s.output_iMCU_row + delta(s)
    ELSE \/ s.input_scan_number < s.output_scan_number
         \/ s.input_scan_number = s.output_scan_number /\ s.input_iMCU_row <= s.output_iMCU_row

RECURSIVE Absorb(_)
Absorb(s) ==
    IF ~Waits(s) THEN [s EXCEPT !.ret = "ROW_COMPLETED"] ELSE Unless(consume_input(s), LAMBDA r : Absorb(r))

\* The DC scans seen of the blocks around one, the picture's edge apart.
Neighbours(s, c, b, col) ==
    LET last == height_in_blocks(c) - 1
        rows == {IF b = 0 THEN b ELSE b - 1, b, IF b = last THEN b ELSE b + 1}
    IN  {{p[1] : p \in {q \in s.image[c][r][k] : img.scans[q[1]].Ss = 0}} :
            r \in rows, k \in {k \in Columns : k - col \in {-1, 0, 1}}}

block_rows(s, c) == IF s.output_iMCU_row < last_iMCU_row THEN img.v[c] ELSE last_row_height(c)
OutputRow(s) ==
    [s EXCEPT !.output_iMCU_row = @ + 1,
              !.buffer = [c \in Comps |-> [r \in DOMAIN @[c] |->
                  IF r \div dct(c) >= block_rows(s, c) THEN @[c][r]
                  ELSE LET b == s.output_iMCU_row * img.v[c] + r \div dct(c)
                       IN  [col \in Columns |->
                              idct(s.image[c][b][col], c, IF s.method = "smooth" THEN Neighbours(s, c, b, col) ELSE {})[r % dct(c)]]]]]

decompress_data(s) ==
    IF s.method = "onepass" THEN decompress_onepass(s) ELSE Unless(Absorb(s), LAMBDA r : OutputRow(r))

smoothing_ok(s) ==
    /\ img.progressive
    /\ \A c \in Comps : c \in s.latched /\ s.coef_bits[c].dc >= 0
    /\ \E c \in Comps : s.coef_bits[c].ac # 0

start_output_pass(s) ==
    [s EXCEPT !.output_iMCU_row = 0,
              !.method = IF ~full_buffer(s) THEN @ ELSE IF smoothing_ok(s) THEN "smooth" ELSE "data"]

-----------------------------------------------------------------------------
(* Upsampling: the next lines of the row group s.rowgroup_ctr of the main     *)
(* buffer, at most room of them, into s.upsampled.                            *)

Expanded(s) ==
    [c \in Comps |-> [i \in 0..(max_v_samp_factor - 1) |->
        IF fullsize(c) THEN [col \in Columns |-> Gray]
        ELSE s.buffer[c][s.rowgroup_ctr * rgh(c) + i \div (max_v_samp_factor \div rgh(c))]]]

\* fullsize_upsample points into the main buffer, the others copy.
ColorLine(s, i) ==
    [c \in Comps |-> IF fullsize(c) THEN s.buffer[c][s.color_from * max_v_samp_factor + i] ELSE s.color_buf[c][i]]

ColorLines(s, num_rows) ==
    [s EXCEPT !.upsampled = [i \in 1..num_rows |-> ColorLine(s, s.next_row_out + i - 1)],
              !.rows_to_go = @ - num_rows, !.next_row_out = @ + num_rows,
              !.rowgroup_ctr = IF s.next_row_out + num_rows >= max_v_samp_factor THEN @ + 1 ELSE @]
NextColorLines(s, room) == ColorLines(s, LeastOf(max_v_samp_factor - s.next_row_out, LeastOf(s.rows_to_go, room)))
sep_upsample(s, room) ==
    NextColorLines(IF s.next_row_out < max_v_samp_factor THEN s
                   ELSE [s EXCEPT !.color_buf = Expanded(s), !.color_from = s.rowgroup_ctr, !.next_row_out = 0],
                   room)

MergedLine(s, i) == [c \in Comps |-> s.buffer[c][s.rowgroup_ctr * img.v[c] + IF c = 1 THEN i ELSE 0]]

merged_2v_upsample(s, room) ==
    IF s.spare_full
    THEN [s EXCEPT !.upsampled = <<s.spare_row>>, !.spare_full = FALSE, !.rows_to_go = @ - 1, !.rowgroup_ctr = @ + 1]
    ELSE LET num_rows == LeastOf(2, LeastOf(s.rows_to_go, room))
         IN  [s EXCEPT !.upsampled = [i \in 1..num_rows |-> MergedLine(s, i - 1)], !.rows_to_go = @ - num_rows,
                       !.spare_full = (num_rows <= 1), !.spare_row = IF num_rows <= 1 THEN MergedLine(s, 1) ELSE @,
                       !.rowgroup_ctr = IF num_rows <= 1 THEN @ ELSE @ + 1]
merged_1v_upsample(s) == [s EXCEPT !.upsampled = <<MergedLine(s, 0)>>, !.rowgroup_ctr = @ + 1]

upsample(s, room) ==
    IF ~use_merged_upsample THEN sep_upsample(s, room)
    ELSE IF max_v_samp_factor = 2 THEN merged_2v_upsample(s, room) ELSE merged_1v_upsample(s)

-----------------------------------------------------------------------------
(* Postprocessing and the main controller. strip_height is max_v_samp_factor. *)

Delivered(s, lines) == [s EXCEPT !.lines = @ \o lines, !.out_row_ctr = @ + Len(lines), !.upsampled = <<>>]
Upsampled(s) == Delivered(s, s.upsampled)
StripRowsInOneStrip(s, n) ==
    [s EXCEPT !.next_row = IF @ + n >= max_v_samp_factor THEN 0 ELSE @ + n]
StripRows(s, n) ==
    IF s.next_row + n >= max_v_samp_factor
    THEN [s EXCEPT !.starting_row = @ + max_v_samp_factor, !.next_row = 0]
    ELSE [s EXCEPT !.next_row = @ + n]

post_process_1pass(s, room) == Upsampled(upsample(s, LeastOf(room, max_v_samp_factor)))

\* The first pass of two-pass quantization keeps the lines and shows none.
KeepLines(s, from, n) ==
    StripRows([s EXCEPT !.whole_lines = [r \in DOMAIN @ |-> IF r \in from..(from + n - 1) THEN s.upsampled[r - from + 1] ELSE @[r]],
                        !.out_row_ctr = @ + n, !.upsampled = <<>>], n)
Kept(s) == KeepLines(s, s.starting_row + s.next_row, Len(s.upsampled))
post_process_prepass(s) == Kept(upsample(s, max_v_samp_factor - s.next_row))

post_process_2pass(s, room) ==
    LET n == LeastOf(LeastOf(max_v_samp_factor - s.next_row, room), output_height - s.starting_row)
    IN  StripRows(Delivered(s, [i \in 1..n |-> s.whole_lines[s.starting_row + s.next_row + i - 1]]), n)

post_process_data(s, room) ==
    CASE s.post = "upsample" -> Upsampled(upsample(s, room))
      [] s.post = "1pass" -> post_process_1pass(s, room)
      [] s.post = "prepass" -> post_process_prepass(s)
      [] s.post = "2pass" -> post_process_2pass(s, room)

RowGroupsUsed(s) ==
    IF s.rowgroup_ctr >= opt.scaled_size THEN [s EXCEPT !.buffer_full = FALSE, !.rowgroup_ctr = 0] ELSE s
process_data_simple_main(s, room) ==
    Unless(IF s.buffer_full THEN s ELSE decompress_data(s),
           LAMBDA d : RowGroupsUsed(post_process_data([d EXCEPT !.buffer_full = TRUE], room)))

process_data(s, room) == IF s.main = "crank" THEN post_process_data(s, room) ELSE process_data_simple_main(s, room)

-----------------------------------------------------------------------------
(* The master: what one output pass needs.                                    *)

jinit_master_decompress(s) ==
    start_input_pass([s EXCEPT
        !.image = [c \in Comps |-> [b \in 0..(img.v[c] * total_iMCU_rows - 1) |-> [col \in Columns |-> {}]]],
        !.buffer = [c \in Comps |-> GrayRows(rgh(c) * opt.scaled_size)],
        !.whole_lines = IF enable_2pass_quant
                        THEN [r \in 0..(max_v_samp_factor * jdiv_round_up(output_height, max_v_samp_factor) - 1) |-> <<>>] ELSE <<>>,
        !.coef_bits = [c \in Comps |-> [dc |-> -1, ac |-> -1]],
        !.method = IF full_buffer(s) THEN "data" ELSE "onepass"])

prepare_for_output_pass(s) ==
    IF s.is_dummy_pass THEN [s EXCEPT !.is_dummy_pass = FALSE, !.post = "2pass", !.main = "crank", !.starting_row = 0, !.next_row = 0]
    ELSE LET dummy == quantize_colors /\ ~s.colormap /\ enable_2pass_quant
             t == start_output_pass(s)
         IN  IF opt.raw THEN t
             ELSE [t EXCEPT !.is_dummy_pass = dummy, !.colormap = quantize_colors /\ ~dummy,
                            !.next_row_out = max_v_samp_factor, !.rows_to_go = output_height, !.spare_full = FALSE,
                            !.post = IF dummy THEN "prepass" ELSE IF quantize_colors THEN "1pass" ELSE "upsample",
                            !.starting_row = 0, !.next_row = 0, !.main = "simple", !.buffer_full = FALSE, !.rowgroup_ctr = 0]

finish_output_pass(s) == [s EXCEPT !.colormap = @ \/ s.is_dummy_pass]

RECURSIVE DummyPass(_)
DummyLines(s) ==
    IF s.out_row_ctr = s.output_scanline THEN [s EXCEPT !.ret = "FALSE"]
    ELSE DummyPass([s EXCEPT !.output_scanline = s.out_row_ctr])
DummyPass(s) ==
    IF ~s.is_dummy_pass
    THEN [s EXCEPT !.global_state = IF opt.raw THEN "RAW_OK" ELSE "SCANNING", !.ret = "TRUE"]
    ELSE IF s.output_scanline < output_height
    THEN DummyLines(process_data([s EXCEPT !.out_row_ctr = s.output_scanline], 0))
    ELSE DummyPass([prepare_for_output_pass(finish_output_pass(s)) EXCEPT !.output_scanline = 0])

output_pass_setup(s) ==
    DummyPass(IF s.global_state = "PRESCAN" THEN s
              ELSE [prepare_for_output_pass(s) EXCEPT !.output_scanline = 0, !.global_state = "PRESCAN"])

-----------------------------------------------------------------------------
(* The calls of the application.                                              *)

Created(o) ==
    [opt |-> o, global_state |-> "START", ret |-> "", pos |-> 0, left |-> 0, unread_marker |-> FALSE, mcu |-> <<>>,
     scan |-> 0, input_scan_number |-> 0, output_scan_number |-> 0, inheaders |-> TRUE, eoi_reached |-> FALSE,
     has_multiple_scans |-> FALSE, consume_input |-> "markers", latched |-> {}, coef_bits |-> <<>>,
     input_iMCU_row |-> 0, output_iMCU_row |-> 0, MCU_rows |-> 0, MCU_ctr |-> 0, MCU_vert_offset |-> 0,
     image |-> <<>>, method |-> "onepass", buffer |-> <<>>, buffer_full |-> FALSE, rowgroup_ctr |-> 0, main |-> "simple",
     upsampled |-> <<>>, color_buf |-> <<>>, color_from |-> 0, next_row_out |-> 0, rows_to_go |-> 0,
     spare_full |-> FALSE, spare_row |-> <<>>, post |-> "upsample", whole_lines |-> <<>>, starting_row |-> 0, next_row |-> 0,
     is_dummy_pass |-> FALSE, colormap |-> FALSE, output_scanline |-> 0, out_row_ctr |-> 0, lines |-> <<>>]

\* The pools of the picture go; what stays is set again before it is read.
jpeg_abort(s) == [Created(s.opt) EXCEPT !.pos = s.pos, !.ret = "TRUE"]

HeaderRead(s) == IF s.ret = "REACHED_SOS" THEN [s EXCEPT !.global_state = "READY"] ELSE s
jpeg_consume_input(s) ==
    CASE s.global_state \in {"START", "INHEADER"} -> HeaderRead(consume_input([s EXCEPT !.global_state = "INHEADER"]))
      [] s.global_state = "READY" -> [s EXCEPT !.ret = "REACHED_SOS"]
      [] OTHER -> consume_input(s)

jpeg_read_header(s) ==
    IF s.global_state \notin {"START", "INHEADER"} THEN ERREXIT(s) ELSE jpeg_consume_input(s)

RECURSIVE Preload(_)
Preload(s) == Unless(consume_input(s), LAMBDA r : IF r.ret = "REACHED_EOI" THEN r ELSE Preload(r))

StartOnlyPass(s) ==
    UnlessFalse(IF s.has_multiple_scans THEN Preload(s) ELSE s,
                LAMBDA r : output_pass_setup([r EXCEPT !.output_scan_number = r.input_scan_number]))
jpeg_start_decompress(s) ==
    CASE s.global_state = "READY" /\ opt.buffered ->
           [jinit_master_decompress(s) EXCEPT !.global_state = "BUFIMAGE", !.ret = "TRUE"]
      [] s.global_state = "READY" /\ ~opt.buffered ->
           StartOnlyPass([jinit_master_decompress(s) EXCEPT !.global_state = "PRELOAD"])
      [] s.global_state = "PRELOAD" -> StartOnlyPass(s)
      [] s.global_state = "PRESCAN" -> output_pass_setup(s)
      [] OTHER -> ERREXIT(s)

Counted(s) == [s EXCEPT !.output_scanline = @ + s.out_row_ctr]
jpeg_read_scanlines(s, max_lines) ==
    IF s.global_state # "SCANNING" THEN ERREXIT(s)
    ELSE IF s.output_scanline >= output_height THEN s
    ELSE Counted(process_data(s, max_lines))

\* A line of raw data is its component rows, as a line of the same height shows them.
RawLines(s) ==
    [i \in 1..(max_v_samp_factor * opt.scaled_size) |->
        [c \in Comps |-> s.buffer[c][((i - 1) * rgh(c)) \div max_v_samp_factor]]]

jpeg_read_raw_data(s) ==
    IF s.global_state # "RAW_OK" THEN ERREXIT(s)
    ELSE IF s.output_scanline >= output_height THEN s
    ELSE Unless(decompress_data(s),
                LAMBDA r : [r EXCEPT !.lines = RawLines(r), !.output_scanline = @ + max_v_samp_factor * opt.scaled_size])

jpeg_start_output(s, scan_number) ==
    IF s.global_state \notin {"BUFIMAGE", "PRESCAN"} THEN ERREXIT(s)
    ELSE output_pass_setup([s EXCEPT !.output_scan_number =
             IF s.eoi_reached THEN LeastOf(scan_number, s.input_scan_number) ELSE scan_number])

RECURSIVE ReadPast(_)
ReadPast(s) ==
    IF s.input_scan_number > s.output_scan_number \/ s.eoi_reached THEN [s EXCEPT !.global_state = "BUFIMAGE", !.ret = "TRUE"]
    ELSE UnlessFalse(consume_input(s), LAMBDA r : ReadPast(r))

jpeg_finish_output(s) ==
    IF s.global_state \in {"SCANNING", "RAW_OK"} /\ opt.buffered
    THEN ReadPast([finish_output_pass(s) EXCEPT !.global_state = "BUFPOST"])
    ELSE IF s.global_state = "BUFPOST" THEN ReadPast(s) ELSE ERREXIT(s)

RECURSIVE ReadToEnd(_)
ReadToEnd(s) ==
    IF s.eoi_reached THEN jpeg_abort(s) ELSE UnlessFalse(consume_input(s), LAMBDA r : ReadToEnd(r))

jpeg_finish_decompress(s) ==
    IF s.global_state \in {"SCANNING", "RAW_OK"} /\ ~opt.buffered
    THEN IF s.output_scanline < output_height THEN ERREXIT(s)
         ELSE ReadToEnd([finish_output_pass(s) EXCEPT !.global_state = "STOPPING"])
    ELSE IF s.global_state \in {"BUFIMAGE", "STOPPING"} THEN ReadToEnd([s EXCEPT !.global_state = "STOPPING"])
    ELSE ERREXIT(s)
=============================================================================

---------------------------- MODULE JpegCompress ----------------------------
(* The compressor between the application and the entropy encoder: the      *)
(* calls of jcapistd.c and jcapimin.c, the master's passes (jcmaster.c), the *)
(* main (jcmainct.c), preprocessing (jcprepct.c) and coefficient             *)
(* (jccoefct.c) controllers and the downsampler (jcsample.c), with a         *)
(* destination that may suspend before every MCU.                            *)
(* A sample row is the set mid of the source rows it is made of and the set  *)
(* near of the rows that smoothing mixed in; a block is its sample rows, or, *)
(* for the dummy blocks below the picture, the rows of the block above whose *)
(* DC it repeats. The output is a sequence of marker and MCU units.          *)
(* A call of the application is an action for its beginning, one for every   *)
(* round of the loops in it and one for its return.                          *)
EXTENDS JpegImage

CONSTANTS
  Pictures,    \* what the applications compress
  Lines,       \* lines an application offers in a call
  Rooms        \* MCUs a destination takes during a call

MAX_SAMP_FACTOR == 4
Scans(p) == [comps : Seq(DOMAIN p.v), Ss : Nat, Ah : Nat, Al : Nat]

\* What initial_setup, jinit_downsampler and validate_script do not refuse.
ASSUME CompressAssumption ==
    /\ Lines \subseteq Nat \ {0} /\ Rooms \subseteq Nat
    /\ \A p \in Pictures :
          /\ p.image_height \in Nat \ {0} /\ {p.optimize, p.smoothing, p.fancy} \subseteq BOOLEAN
          /\ p.v \in Seq(1..MAX_SAMP_FACTOR)
          /\ \E c \in DOMAIN p.v : \A d \in DOMAIN p.v : p.v[d] <= p.v[c] /\ p.v[c] % p.v[d] = 0
          /\ p.scans \in Seq(Scans(p)) /\ p.scans # <<>>
          /\ \A k \in DOMAIN p.scans : p.scans[k].comps # <<>>

VARIABLES
  \* The application: where it is in a call, and the scan lines it knows to be
  \* taken.
  pc, sent,
  \* The compressor, and what is local to a call: the lines taken and offered,
  \* the MCUs the destination has room for, the iMCU row of a pass.
  global_state, next_scanline, in_row_ctr, in_rows_avail, room, iMCU_row,
  \* The main controller.
  cur_iMCU_row, rowgroup_ctr, suspended, buffer,
  \* The preprocessor.
  color_buf, rows_to_go, next_buf_row, this_row_group, next_buf_stop,
  \* The coefficient controller; the last two are local to compress_data.
  coef_mode, whole_image, iMCU_row_num, MCU_rows, mcu_ctr, MCU_vert_offset, MCU_col_num, yoffset,
  \* The master; gather is the entropy encoder's.
  pass_type, pass_number, scan_number, scan, is_last_pass, call_pass_startup, gather

api_vars == <<sent, global_state, next_scanline>>
call_vars == <<in_row_ctr, in_rows_avail, room, iMCU_row>>
main_vars == <<cur_iMCU_row, rowgroup_ctr, suspended>>
prep_vars == <<buffer, color_buf, rows_to_go, next_buf_row, this_row_group, next_buf_stop>>
coef_vars == <<coef_mode, whole_image, iMCU_row_num, MCU_rows, mcu_ctr, MCU_vert_offset>>
loop_vars == <<MCU_col_num, yoffset>>
pass_vars == <<pass_type, pass_number, scan_number, scan, is_last_pass, gather>>
master_vars == <<pass_vars, call_pass_startup>>
compressor == <<img, file, pc, api_vars, call_vars, main_vars, prep_vars, coef_vars, loop_vars, master_vars>>

-----------------------------------------------------------------------------
(* Sampling, with max_v rows of colour in a row group.                       *)

dct(c) == DCT_v_scaled_size(c, DCTSIZE, img.fancy)
rgh(c) == rowgroup_height(c, DCTSIZE, img.fancy)
v_expand(c) == max_v_samp_factor \div rgh(c)
need_context_rows == img.smoothing
Smooths(c) == img.smoothing /\ v_expand(c) \in {1, 2}
buf_height == (IF need_context_rows THEN 3 ELSE 1) * max_v_samp_factor

\* sep_downsample and its methods: row i of the row group that starts at
\* color[first]. The pointers of create_context_buffer wrap around.
Downsample(color, first, c, i) ==
    LET At(k) == color[(first + k) % buf_height]
        top == i * v_expand(c)
    IN  [mid |-> {At(top + k) : k \in 0..(v_expand(c) - 1)},
         near |-> IF Smooths(c) THEN {At(top - 1 + buf_height), At(top + v_expand(c))} ELSE {}]

Downsampled(color, first) ==
    [c \in Comps |-> [r \in DOMAIN buffer[c] |->
        IF r \div rgh(c) = rowgroup_ctr THEN Downsample(color, first, c, r % rgh(c)) ELSE buffer[c][r]]]

-----------------------------------------------------------------------------
(* Preprocessing: input lines become row groups of the main buffer.          *)

\* Rows from to to-1 of a buffer become the row above them.
expand_bottom_edge(buf, from, to, height) ==
    [r \in DOMAIN buf |-> IF r \in from..(to - 1) THEN buf[(from - 1 + height) % height] ELSE buf[r]]

\* The color buffer with numrows more lines of the application.
color_convert(numrows) ==
    [r \in DOMAIN color_buf |->
        IF r \in next_buf_row..(next_buf_row + numrows - 1) THEN sent + in_row_ctr + r - next_buf_row ELSE color_buf[r]]

\* The rest of the main buffer when the picture is at its end.
PadBuffer(buf, groups) ==
    [c \in Comps |-> expand_bottom_edge(buf[c], groups * rgh(c), DCTSIZE * rgh(c), DCTSIZE * rgh(c))]

pre_process_data ==
    LET numrows == LeastOf(max_v_samp_factor - next_buf_row, in_rows_avail - in_row_ctr)
        row == next_buf_row + numrows
        bottom == rows_to_go = numrows
        full == bottom \/ row = max_v_samp_factor
        color == IF bottom THEN expand_bottom_edge(color_convert(numrows), row, max_v_samp_factor, max_v_samp_factor)
                 ELSE color_convert(numrows)
        groups == IF full THEN rowgroup_ctr + 1 ELSE rowgroup_ctr
        rows == IF full THEN Downsampled(color, 0) ELSE buffer
    IN  /\ in_row_ctr < in_rows_avail
        /\ in_row_ctr' = in_row_ctr + numrows
        /\ rows_to_go' = rows_to_go - numrows
        /\ color_buf' = color
        /\ next_buf_row' = IF full THEN 0 ELSE row
        /\ buffer' = IF bottom THEN PadBuffer(rows, groups) ELSE rows
        /\ rowgroup_ctr' = IF bottom THEN DCTSIZE ELSE groups
        /\ UNCHANGED <<this_row_group, next_buf_stop>>

\* With context rows three row groups are kept; the first line is also the
\* context above the picture.
TopContext(color) ==
    IF rows_to_go = img.image_height
    THEN [r \in DOMAIN color |-> IF r >= buf_height - max_v_samp_factor THEN color[0] ELSE color[r]]
    ELSE color

RowGroupDone(color, row) ==
    LET group == this_row_group + max_v_samp_factor
        start == IF row >= buf_height THEN 0 ELSE row
    IN  /\ buffer' = Downsampled(color, this_row_group)
        /\ rowgroup_ctr' = rowgroup_ctr + 1
        /\ this_row_group' = IF group >= buf_height THEN 0 ELSE group
        /\ next_buf_row' = start
        /\ next_buf_stop' = start + max_v_samp_factor

\* The color buffer has become color, filled up to row.
ContextRows(color, row) ==
    /\ color_buf' = color
    /\ IF row = next_buf_stop THEN RowGroupDone(color, row)
       ELSE next_buf_row' = row /\ UNCHANGED <<buffer, rowgroup_ctr, this_row_group, next_buf_stop>>

ContextLines ==
    LET numrows == LeastOf(next_buf_stop - next_buf_row, in_rows_avail - in_row_ctr)
    IN  /\ in_row_ctr < in_rows_avail
        /\ in_row_ctr' = in_row_ctr + numrows
        /\ rows_to_go' = rows_to_go - numrows
        /\ ContextRows(TopContext(color_convert(numrows)), next_buf_row + numrows)

ContextBottom ==
    /\ in_row_ctr >= in_rows_avail /\ rows_to_go = 0
    /\ ContextRows(expand_bottom_edge(color_buf, next_buf_row, next_buf_stop, buf_height), next_buf_stop)
    /\ UNCHANGED <<in_row_ctr, rows_to_go>>

pre_process_context == ContextLines \/ ContextBottom

\* A round of the loop of the preprocessor; what ends the loop.
PreProcess ==
    /\ pc = "lines" /\ cur_iMCU_row < total_iMCU_rows /\ rowgroup_ctr < DCTSIZE
    /\ IF need_context_rows THEN pre_process_context ELSE pre_process_data
    /\ UNCHANGED <<img, file, pc, api_vars, in_rows_avail, room, iMCU_row, cur_iMCU_row, suspended, coef_vars, loop_vars, master_vars>>
NeedsLines == in_row_ctr >= in_rows_avail /\ (need_context_rows => rows_to_go # 0)

-----------------------------------------------------------------------------
(* Coefficients: an iMCU row is coded MCU by MCU. A destination without room *)
(* ends the call; the next one takes up the loops where they were.           *)

comps_in_scan == img.scans[scan].comps
last_iMCU_row == total_iMCU_rows - 1

start_iMCU_row(k, row) ==
    /\ scan' = k /\ iMCU_row_num' = row
    /\ MCU_rows' = MCU_rows_per_iMCU_row(img.scans[k].comps, row)
    /\ mcu_ctr' = 0 /\ MCU_vert_offset' = 0

RowsOfBlock(c, b) == [i \in 1..dct(c) |-> buffer[c][b * dct(c) + i - 1]]
BlockRow(c, b) ==
    IF iMCU_row_num < last_iMCU_row \/ b < last_row_height(c) THEN [rows |-> RowsOfBlock(c, b)]
    ELSE [dc |-> RowsOfBlock(c, last_row_height(c) - 1)]

\* The blocks of an MCU in MCU row y, from the sample buffer or from the
\* coefficient arrays.
BlocksOf(y) ==
    FlattenSeq([k \in 1..Len(comps_in_scan) |->
        LET c == comps_in_scan[k]
        IN  [i \in 1..MCU_height(comps_in_scan, c) |->
                IF coef_mode = "pass_thru" THEN BlockRow(c, y + i - 1)
                ELSE whole_image[c][iMCU_row_num * img.v[c] + y + i - 1]]])

StoredRow ==
    [c \in Comps |-> [b \in DOMAIN whole_image[c] |->
        IF b \div img.v[c] = iMCU_row_num THEN BlockRow(c, b % img.v[c]) ELSE whole_image[c][b]]]

compress_data ==
    /\ whole_image' = IF coef_mode = "save_and_pass" THEN StoredRow ELSE whole_image
    /\ yoffset' = MCU_vert_offset /\ MCU_col_num' = mcu_ctr
    /\ UNCHANGED <<coef_mode, iMCU_row_num, MCU_rows, mcu_ctr, MCU_vert_offset>>

Coding == pc \in {"coding", "cranking"}
MoreMcus == yoffset < MCU_rows /\ MCU_col_num < MCUsPerRow
HasRoom == gather \/ pc = "cranking" \/ room > 0

encode_mcu ==
    /\ Coding /\ MoreMcus /\ HasRoom
    /\ file' = IF gather THEN file ELSE Append(file, MCU(BlocksOf(yoffset)))
    /\ room' = IF gather \/ pc = "cranking" THEN room ELSE room - 1
    /\ MCU_col_num' = MCU_col_num + 1
    /\ UNCHANGED <<img, pc, api_vars, in_row_ctr, in_rows_avail, iMCU_row, main_vars, prep_vars, coef_vars, yoffset, master_vars>>

McuRowDone ==
    /\ Coding /\ yoffset < MCU_rows /\ MCU_col_num >= MCUsPerRow
    /\ mcu_ctr' = 0 /\ MCU_col_num' = 0 /\ yoffset' = yoffset + 1
    /\ UNCHANGED <<img, file, pc, api_vars, call_vars, main_vars, prep_vars, coef_mode, whole_image, iMCU_row_num, MCU_rows, MCU_vert_offset, master_vars>>

\* The counters of an iMCU row that is done are those of the next one.
RowDone ==
    /\ Coding /\ yoffset >= MCU_rows
    /\ start_iMCU_row(scan, iMCU_row_num + 1)
    /\ MCU_col_num' = 0 /\ yoffset' = 0
    /\ UNCHANGED <<img, file, api_vars, in_rows_avail, room, prep_vars, coef_mode, whole_image,
                   pass_type, pass_number, scan_number, is_last_pass, gather, call_pass_startup>>

-----------------------------------------------------------------------------
(* The main controller. When the coder cannot take the iMCU row, the last    *)
(* line is not counted as taken, so that the application comes back.         *)

CodeRow ==
    /\ pc = "lines" /\ cur_iMCU_row < total_iMCU_rows /\ rowgroup_ctr = DCTSIZE
    /\ compress_data /\ pc' = "coding"
    /\ UNCHANGED <<img, file, api_vars, call_vars, main_vars, prep_vars, master_vars>>

RowCoded ==
    /\ pc = "coding" /\ RowDone /\ pc' = "lines"
    /\ in_row_ctr' = (IF suspended THEN in_row_ctr + 1 ELSE in_row_ctr) /\ suspended' = FALSE
    /\ rowgroup_ctr' = 0 /\ cur_iMCU_row' = cur_iMCU_row + 1
    /\ UNCHANGED iMCU_row

UncountNone == in_row_ctr' = in_row_ctr
Uncount == in_row_ctr' = IF suspended THEN in_row_ctr ELSE in_row_ctr - 1

RowSuspended ==
    /\ pc = "coding" /\ MoreMcus /\ ~HasRoom
    /\ MCU_vert_offset' = yoffset /\ mcu_ctr' = MCU_col_num
    /\ Uncount /\ suspended' = TRUE /\ pc' = "return"
    /\ UNCHANGED <<img, file, api_vars, in_rows_avail, room, iMCU_row, cur_iMCU_row, rowgroup_ctr, prep_vars,
                   coef_mode, whole_image, iMCU_row_num, MCU_rows, loop_vars, master_vars>>

-----------------------------------------------------------------------------
(* The master: a main pass over the source, then passes over the             *)
(* coefficients, one that counts and one that writes for each scan.          *)

total_passes == Len(img.scans) * (IF img.optimize THEN 2 ELSE 1)

MainPass ==
    /\ rows_to_go' = img.image_height /\ next_buf_row' = 0 /\ this_row_group' = 0
    /\ next_buf_stop' = 2 * max_v_samp_factor
    /\ gather' = img.optimize /\ call_pass_startup' = ~img.optimize
    /\ coef_mode' = IF total_passes > 1 THEN "save_and_pass" ELSE "pass_thru"
    /\ start_iMCU_row(scan_number + 1, 0)
    /\ cur_iMCU_row' = 0 /\ rowgroup_ctr' = 0 /\ suspended' = FALSE
    /\ UNCHANGED <<file, pass_type, pass_number, scan_number, buffer, color_buf, whole_image>>

Headers(k) == (IF scan_number = 0 THEN <<SOF>> ELSE <<>>) \o <<SOS(k)>>

\* A scan that refines DC needs no table, hence no statistics pass.
NeedsTable(k) == img.scans[k].Ss # 0 \/ img.scans[k].Ah = 0

HuffOptPass ==
    /\ pass_type = "huff_opt" /\ NeedsTable(scan_number + 1)
    /\ start_iMCU_row(scan_number + 1, 0)
    /\ gather' = TRUE
    /\ UNCHANGED <<file, pass_type, pass_number>>

OutputPass ==
    /\ pass_type = "output" \/ (pass_type = "huff_opt" /\ ~NeedsTable(scan_number + 1))
    /\ start_iMCU_row(IF pass_type = "output" /\ img.optimize THEN scan ELSE scan_number + 1, 0)
    /\ gather' = FALSE
    /\ file' = file \o Headers(scan')
    /\ pass_type' = "output"
    /\ pass_number' = IF pass_type = "huff_opt" THEN pass_number + 1 ELSE pass_number

IsLast == is_last_pass' = (pass_number' = total_passes - 1)

finish_pass_master ==
    /\ pass_type' = IF pass_type = "output" /\ img.optimize THEN "huff_opt" ELSE "output"
    /\ scan_number' = IF pass_type = "output" \/ (pass_type = "main" /\ ~img.optimize) THEN scan_number + 1 ELSE scan_number
    /\ pass_number' = pass_number + 1
    /\ UNCHANGED <<scan, is_last_pass, call_pass_startup, gather>>

-----------------------------------------------------------------------------
(* The calls of the application.                                             *)

Unset == [mid |-> {-1}, near |-> {}]
CompressorInit ==
    /\ img \in Pictures /\ file = <<>> /\ pc = "app" /\ sent = 0 /\ global_state = "START" /\ next_scanline = 0
    /\ in_row_ctr = 0 /\ in_rows_avail = 0 /\ room = 0 /\ iMCU_row = 0
    /\ cur_iMCU_row = 0 /\ rowgroup_ctr = 0 /\ suspended = FALSE
    /\ buffer = [c \in Comps |-> [r \in 0..(DCTSIZE * rgh(c) - 1) |-> Unset]]
    /\ color_buf = [r \in 0..(buf_height - 1) |-> -1]
    /\ rows_to_go = 0 /\ next_buf_row = 0 /\ this_row_group = 0 /\ next_buf_stop = 0
    /\ coef_mode = "none" /\ iMCU_row_num = 0 /\ MCU_rows = 0 /\ mcu_ctr = 0 /\ MCU_vert_offset = 0
    /\ whole_image = [c \in Comps |-> [b \in 0..(img.v[c] * total_iMCU_rows - 1) |-> [dc |-> <<>>]]]
    /\ MCU_col_num = 0 /\ yoffset = 0
    /\ pass_type = "main" /\ pass_number = 0 /\ scan_number = 0 /\ scan = 1
    /\ is_last_pass = FALSE /\ call_pass_startup = FALSE /\ gather = FALSE

jpeg_start_compress ==
    /\ pc = "app" /\ global_state = "START" /\ file = <<>>
    /\ MainPass /\ IsLast
    /\ global_state' = "SCANNING" /\ next_scanline' = 0
    /\ UNCHANGED <<img, pc, sent, call_vars, loop_vars>>

pass_startup == call_pass_startup' = FALSE /\ file' = file \o Headers(scan)

jpeg_write_scanlines(num_lines, dest_room) ==
    /\ pc = "app" /\ global_state = "SCANNING" /\ sent < img.image_height
    /\ IF call_pass_startup THEN pass_startup ELSE UNCHANGED <<file, call_pass_startup>>
    /\ in_rows_avail' = LeastOf(num_lines, img.image_height - next_scanline)
    /\ in_row_ctr' = 0 /\ room' = dest_room /\ pc' = "lines"
    /\ UNCHANGED <<img, api_vars, iMCU_row, main_vars, prep_vars, coef_vars, loop_vars, pass_vars>>

\* What is local to a call is forgotten.
Forget == in_row_ctr' = 0 /\ in_rows_avail' = 0 /\ room' = 0 /\ iMCU_row' = 0 /\ MCU_col_num' = 0 /\ yoffset' = 0

LinesTaken ==
    /\ \/ pc = "return"
       \/ pc = "lines" /\ cur_iMCU_row >= total_iMCU_rows
       \/ pc = "lines" /\ rowgroup_ctr < DCTSIZE /\ NeedsLines
    /\ next_scanline' = next_scanline + in_row_ctr /\ sent' = sent + in_row_ctr
    /\ pc' = "app" /\ Forget
    /\ UNCHANGED <<img, file, global_state, main_vars, prep_vars, coef_vars, master_vars>>

jpeg_finish_compress ==
    /\ pc = "app" /\ global_state = "SCANNING" /\ sent = img.image_height
    /\ IF next_scanline < img.image_height THEN global_state' = "ERREXIT" /\ UNCHANGED <<pc, master_vars>>
       ELSE finish_pass_master /\ pc' = "passes" /\ UNCHANGED global_state
    /\ UNCHANGED <<img, file, sent, next_scanline, call_vars, main_vars, prep_vars, coef_vars, loop_vars>>

\* prepare_for_pass after the main pass.
NextPass ==
    /\ pc = "passes" /\ ~is_last_pass
    /\ HuffOptPass \/ OutputPass
    /\ IsLast /\ coef_mode' = "crank_dest" /\ call_pass_startup' = FALSE
    /\ pc' = "rows" /\ iMCU_row' = 0
    /\ UNCHANGED <<img, api_vars, in_row_ctr, in_rows_avail, room, main_vars, prep_vars, whole_image, scan_number, loop_vars>>

\* The rows of a pass over the coefficients. A destination may not suspend in
\* them (libjpeg.txt:1668; the code raises JERR_CANT_SUSPEND).
CrankRow ==
    /\ pc = "rows" /\ iMCU_row < total_iMCU_rows
    /\ compress_data /\ pc' = "cranking"
    /\ UNCHANGED <<img, file, api_vars, call_vars, main_vars, prep_vars, master_vars>>

RowCranked ==
    /\ pc = "cranking" /\ RowDone /\ pc' = "rows"
    /\ iMCU_row' = iMCU_row + 1
    /\ UNCHANGED <<in_row_ctr, main_vars>>

PassDone ==
    /\ pc = "rows" /\ iMCU_row >= total_iMCU_rows
    /\ finish_pass_master /\ pc' = "passes"
    /\ UNCHANGED <<img, file, api_vars, call_vars, main_vars, prep_vars, coef_vars, loop_vars>>

\* The pools are freed: nothing of the compressor is read again.
FileDone ==
    /\ pc = "passes" /\ is_last_pass
    /\ file' = Append(file, EOI)
    /\ global_state' = "START" /\ pc' = "app" /\ Forget
    /\ UNCHANGED <<img, sent, next_scanline, main_vars, prep_vars, coef_vars, master_vars>>

CompressorNext ==
    \/ jpeg_start_compress
    \/ \E n \in Lines, r \in Rooms : jpeg_write_scanlines(n, r)
    \/ PreProcess \/ CodeRow \/ encode_mcu \/ McuRowDone \/ RowCoded \/ RowSuspended \/ LinesTaken
    \/ jpeg_finish_compress \/ NextPass \/ CrankRow \/ RowCranked \/ PassDone \/ FileDone

CompressorSpec == CompressorInit /\ [][CompressorNext]_compressor

-----------------------------------------------------------------------------
(* What the compressor promises, computed from the picture alone.            *)

Clamp(r) == IF r < 0 THEN 0 ELSE LeastOf(r, img.image_height - 1)
\* Without context rows the last row of samples repeats below the picture.
Padded(c, R) ==
    IF need_context_rows THEN R
    ELSE LeastOf(R, jdiv_round_up(img.image_height, max_v_samp_factor) * rgh(c) - 1)
SampleRow(c, R) ==
    LET top == Padded(c, R) * v_expand(c)
    IN  [mid |-> {Clamp(top + k) : k \in 0..(v_expand(c) - 1)},
         near |-> IF Smooths(c) THEN {Clamp(top - 1), Clamp(top + v_expand(c))} ELSE {}]
SampleRows(c, b) == [i \in 1..dct(c) |-> SampleRow(c, b * dct(c) + i - 1)]
Block(c, b) ==
    IF b < height_in_blocks(c) THEN [rows |-> SampleRows(c, b)] ELSE [dc |-> SampleRows(c, height_in_blocks(c) - 1)]

McuAt(comps, row) ==
    MCU(FlattenSeq([k \in 1..Len(comps) |->
            LET n == MCU_height(comps, comps[k]) IN [i \in 1..n |-> Block(comps[k], row * n + i - 1)]]))
McuRows(comps) == IF Len(comps) = 1 THEN height_in_blocks(comps[1]) ELSE total_iMCU_rows
ScanUnits(k) ==
    LET comps == img.scans[k].comps
    IN  <<SOS(k)>> \o [i \in 1..(MCUsPerRow * McuRows(comps)) |-> McuAt(comps, (i - 1) \div MCUsPerRow)]
ExpectedFile == <<SOF>> \o FlattenSeq([k \in 1..Len(img.scans) |-> ScanUnits(k)]) \o <<EOI>>

\* However its lines come and wherever the destination suspends, the compressor
\* writes the file of the picture (jcmainct.c, jcprepct.c, jccoefct.c, jcmaster.c).
FileIsImage ==
    LET whole == ExpectedFile
    IN  /\ global_state # "ERREXIT" /\ IsPrefix(file, whole)
        /\ (global_state = "START" /\ file # <<>>) => file = whole
=============================================================================

------------------------------ MODULE ImageProc ------------------------------
(* The native frame decoder (ImageProc.c): pixeltobmp hands one frame of the  *)
(* stream to processimage, which decodes it into the static buffer rgb with   *)
(* the decompressor of JpegDecompress, and copies rgb into the bitmap.        *)
(* All the bytes of the frame are in the source from the beginning; when they *)
(* are used up, fill_input_buffer returns FALSE.                              *)
EXTENDS JpegImage

CONSTANTS Pictures,    \* pictures that cameras send
          MaxFrames, MaxRows

VARIABLES
  dinfo,    \* mycinfo
  rgb,      \* whether it is allocated, IMG_HEIGHT and the line in each row
  proc,     \* where processimage is, its row y and the line in jpegbuffer
  shown,    \* the rows of the bitmap
  frames    \* frames received

D == INSTANCE JpegDecompress
vars == <<img, file, dinfo, rgb, proc, shown, frames>>

Defaults == [scaled_size |-> DCTSIZE, fancy |-> TRUE, raw |-> FALSE, quant |-> "none", buffered |-> FALSE]
Idle == [pc |-> "idle", y |-> 0, jpegbuffer |-> <<>>]

\* A frame of a camera: one scan of all components.
FrameRow(c, R) ==
    LET n == max_v_samp_factor \div img.v[c]
    IN  [mid |-> {LeastOf(R * n + k, img.image_height - 1) : k \in 0..(n - 1)}, near |-> {}]
FrameMcu(row) ==
    MCU(FlattenSeq([c \in Comps |-> [i \in 1..img.v[c] |->
            [rows |-> [r \in 1..DCTSIZE |-> FrameRow(c, (row * img.v[c] + i - 1) * DCTSIZE + r - 1)]]]]))
Frame == <<SOF, SOS(1)>> \o [i \in 1..(MCUsPerRow * total_iMCU_rows) |-> FrameMcu((i - 1) \div MCUsPerRow)] \o <<EOI>>

Init ==
    /\ img \in Pictures /\ file = <<>> /\ frames = 0
    /\ dinfo = D!Created(Defaults)
    /\ rgb = [allocated |-> FALSE, height |-> 0, rows |-> [y \in 0..(MaxRows - 1) |-> <<>>]]
    /\ proc = Idle /\ shown = <<>>

\* The next frame of the stream, all of it or what the stream gave.
pixeltobmp ==
    /\ proc.pc = "idle" /\ frames < MaxFrames
    /\ \E cut \in 0..Len(Frame) : file' = SubSeq(Frame, 1, cut)
    /\ frames' = frames + 1 /\ dinfo' = D!Created(Defaults)
    /\ proc' = [Idle EXCEPT !.pc = "header"]
    /\ UNCHANGED <<img, rgb, shown>>

\* A call of the library with the rest of the frame: error_exit jumps out of
\* processimage, whatever else the call returns is not looked at.
Call(call, next) ==
    \E r \in {call} :
       IF r.global_state = "ERREXIT" THEN dinfo' = D!Created(Defaults) /\ proc' = [Idle EXCEPT !.pc = "show"]
       ELSE dinfo' = [r EXCEPT !.ret = "", !.left = 0, !.mcu = <<>>, !.lines = <<>>, !.out_row_ctr = 0] /\ proc' = next
Given == [dinfo EXCEPT !.left = Len(file)]

ReadHeader ==
    /\ proc.pc = "header" /\ Call(D!jpeg_read_header(Given), [proc EXCEPT !.pc = "start"])
    /\ UNCHANGED <<img, file, rgb, shown, frames>>

StartDecompress ==
    /\ proc.pc = "start" /\ Call(D!jpeg_start_decompress(Given), [proc EXCEPT !.pc = "lines"])
    /\ rgb' = IF ~rgb.allocated /\ proc'.pc = "lines" THEN [rgb EXCEPT !.allocated = TRUE, !.height = img.image_height] ELSE rgb
    /\ UNCHANGED <<img, file, shown, frames>>

\* One round of the loop: a line is read and jpegbuffer is copied to row y.
ReadAndCopyLine ==
    /\ proc.pc = "lines" /\ dinfo.output_scanline < img.image_height /\ proc.y < MaxRows
    /\ \E r \in {D!jpeg_read_scanlines(Given, 1)} :
          LET line == IF r.lines = <<>> THEN proc.jpegbuffer ELSE r.lines[1]
          IN  /\ Call(r, [proc EXCEPT !.y = @ + 1, !.jpegbuffer = line])
              /\ rgb' = IF r.global_state = "ERREXIT" THEN rgb ELSE [rgb EXCEPT !.rows[proc.y] = line]
    /\ UNCHANGED <<img, file, shown, frames>>

FinishDecompress ==
    /\ proc.pc = "lines" /\ dinfo.output_scanline >= img.image_height
    /\ Call(D!jpeg_finish_decompress(Given), [Idle EXCEPT !.pc = "show"])
    /\ UNCHANGED <<img, file, rgb, shown, frames>>

\* The bitmap has the size of the picture. A freed rgb is a null pointer.
ShowBitmap ==
    /\ proc.pc = "show"
    /\ IF rgb.height # img.image_height THEN proc' = Idle /\ UNCHANGED shown
       ELSE IF rgb.allocated THEN proc' = Idle /\ shown' = [y \in 0..(rgb.height - 1) |-> rgb.rows[y]]
       ELSE proc' = [Idle EXCEPT !.pc = "crashed"] /\ UNCHANGED shown
    /\ UNCHANGED <<img, file, dinfo, rgb, frames>>

freeCameraMemory ==
    /\ proc.pc = "idle" /\ rgb.allocated
    /\ rgb' = [rgb EXCEPT !.allocated = FALSE]
    /\ img' \in Pictures
    /\ UNCHANGED <<file, dinfo, proc, shown, frames>>

Next == \/ pixeltobmp \/ ReadHeader \/ StartDecompress \/ ReadAndCopyLine \/ FinishDecompress
        \/ ShowBitmap \/ freeCameraMemory
Spec == Init /\ [][Next]_vars

\* libjpeg.txt:1687 tells an application to recognize a call that came back
\* without a line and to repeat it when there is more data: every row that
\* processimage has copied is then a line it has read.
RowsCopiedAreRead == proc.pc = "lines" => proc.y = dinfo.output_scanline
=============================================================================

------------------------------ MODULE JpegCodec ------------------------------
(* A picture through the whole library: an application compresses it line by  *)
(* line, the file travels, perhaps losing its end, and another application    *)
(* decompresses it with the options of its choice, from a source that may     *)
(* suspend. Both keep to the rules of libjpeg.txt and know nothing but what   *)
(* the calls have returned.                                                   *)
EXTENDS JpegCompress

CONSTANTS
  Cases,       \* the pictures, each with the options opts of its readers and the
               \* lengths cuts its file may be cut to
  Feeds,       \* units a source delivers during a call
  MaxPasses    \* output passes of a buffered-image application

ASSUME CodecAssumption == Pictures = {case.img : case \in Cases}

VARIABLES
  received,  \* the file as the reader's source has it
  dinfo,     \* the decompressor
  app        \* its application: phase, got lines in this pass, the scan it
             \* asked for, passes begun, whether its file is whole, and idle,
             \* which changes when a call that had data has done nothing

D == INSTANCE JpegDecompress WITH file <- received
vars == <<compressor, received, dinfo, app>>

NoOptions == [scaled_size |-> DCTSIZE, fancy |-> TRUE, raw |-> FALSE, quant |-> "none", buffered |-> FALSE]

Init ==
    /\ CompressorInit
    /\ received = <<>>
    /\ dinfo = D!Created(NoOptions)
    /\ app = [phase |-> "none", got |-> 0, asked |-> 0, passes |-> 0, whole |-> TRUE, idle |-> FALSE]

Compress == app.phase = "none" /\ CompressorNext /\ UNCHANGED <<received, dinfo, app>>

\* A reader that runs out of data inserts an EOI, as libjpeg.txt recommends.
Transmit ==
    /\ app.phase = "none" /\ global_state = "START" /\ file # <<>>
    /\ \E case \in {k \in Cases : k.img = img} :
        \E o \in case.opts, cut \in case.cuts \cup {Len(file)} :
            /\ received' = IF cut = Len(file) THEN file ELSE Append(SubSeq(file, 1, cut), EOI)
            /\ dinfo' = D!Created(o)
            /\ app' = [app EXCEPT !.phase = "header", !.whole = (cut = Len(file)), !.asked = Len(img.scans)]
    /\ UNCHANGED compressor

-----------------------------------------------------------------------------
(* The reader.                                                                *)

Asking(feed) == [dinfo EXCEPT !.left = feed, !.ret = "", !.lines = <<>>]
AfterCall(r) == [r EXCEPT !.left = 0, !.ret = "", !.mcu = <<>>, !.out_row_ctr = 0]

\* The call has left r, and the application goes on as a.
Answered(r, feed, a) ==
    LET still == AfterCall(r) = dinfo /\ a = app
    IN  /\ still => feed > 0
        /\ dinfo' = AfterCall(r)
        /\ app' = [a EXCEPT !.idle = still /\ ~app.idle]

\* The application stays in its phase until the call returns done.
Await(call, feed, done, next) ==
    \E r \in {call} : Answered(r, feed, [app EXCEPT !.phase = IF r.ret = done THEN next ELSE @])

Read(feed) ==
    /\ UNCHANGED <<compressor, received>>
    /\ \/ /\ app.phase = "header"
          /\ Await(D!jpeg_read_header(Asking(feed)), feed, "REACHED_SOS", "ready")
       \/ /\ app.phase = "ready"
          /\ Await(D!jpeg_start_decompress(Asking(feed)), feed, "TRUE", IF dinfo.opt.buffered THEN "between" ELSE "output")
       \/ app.phase = "starting" /\ Await(D!jpeg_start_output(Asking(feed), app.asked), feed, "TRUE", "output")
       \/ app.phase = "finishing" /\ Await(D!jpeg_finish_output(Asking(feed)), feed, "TRUE", "between")
       \/ app.phase = "ending" /\ Await(D!jpeg_finish_decompress(Asking(feed)), feed, "TRUE", "done")
       \/ /\ app.phase = "output" /\ app.got < D!output_height
          /\ \E n \in Lines :
             \E r \in {IF dinfo.opt.raw THEN D!jpeg_read_raw_data(Asking(feed)) ELSE D!jpeg_read_scanlines(Asking(feed), n)} :
                Answered(r, feed, [app EXCEPT !.got = @ + Len(r.lines)])

\* A decision of the application: no call, or one that the next phase makes.
Decide(phase) == app' = [app EXCEPT !.phase = phase] /\ UNCHANGED <<compressor, received, dinfo>>
EndPass == app.phase = "output" /\ app.got >= D!output_height /\ Decide(IF dinfo.opt.buffered THEN "finishing" ELSE "ending")
CutPassShort == app.phase = "output" /\ app.got < D!output_height /\ dinfo.opt.buffered /\ Decide("finishing")
BeginPass ==
    /\ app.phase = "between" /\ app.passes < MaxPasses
    /\ \E n \in 1..Len(img.scans) : app' = [app EXCEPT !.phase = "starting", !.asked = n, !.got = 0, !.passes = @ + 1]
    /\ UNCHANGED <<compressor, received, dinfo>>
Finish == app.phase = "between" /\ app.passes > 0 /\ Decide("ending")

\* Allowed wherever input is: here while the application has a pass or none.
Consume(feed) ==
    /\ app.phase \in {"between", "output"} /\ dinfo.opt.buffered
    /\ dinfo' = AfterCall(D!jpeg_consume_input(Asking(feed))) /\ dinfo' # dinfo
    /\ UNCHANGED <<compressor, received, app>>

Over == app.phase = "done"
Next ==
    \/ Compress \/ Transmit
    \/ \E feed \in Feeds : Read(feed) \/ Consume(feed)
    \/ EndPass \/ CutPassShort \/ BeginPass \/ Finish
    \/ Over /\ UNCHANGED vars

\* The applications go on: the reader repeats its calls to a source that
\* delivers, and a destination that had no room for the writer's has some again.
Advances == <<file, sent, received, dinfo, app>>
Spec == Init /\ [][Next]_vars /\ ([]<>Over \/ []<><<TRUE>>_Advances)

-----------------------------------------------------------------------------
(* What the library promises, computed from the picture alone.                *)

\* The picture rows that line r should show of component c.
Source(c, r) ==
    LET R == (r * D!rgh(c)) \div max_v_samp_factor
        n == D!dct(c)
    IN  UNION {SampleRow(c, (R \div n) * dct(c) + i).mid : i \in RowsShown(R % n, n, dct(c))}
FirstLine == app.got - Len(dinfo.lines)
LinesRead == {i \in 1..Len(dinfo.lines) : FirstLine + i - 1 < D!output_height}

\* Every line handed out, of every component and column, is the next one of the
\* picture, whatever the sampling, scaling, quantization and suspensions
\* (jdcoefct.c, jdmainct.c, jdsample.c, jdmerge.c, jdpostct.c).  Two-pass
\* quantization bounds its lines by those left at the start of a strip, not by
\* those left of it (jdpostct.c:224): with strips of three lines or more, a short
\* request and then a longer one get lines from below the picture.
LinesBounded == dinfo.opt.quant = "two" => max_v_samp_factor < 3
ShownRowsAreSource ==
    /\ ~dinfo.opt.raw /\ LinesBounded => app.got <= D!output_height
    /\ \A i \in LinesRead, c \in Comps, col \in Columns :
            LET sample == dinfo.lines[i][c][col]
                r == FirstLine + i - 1
            IN  IF sample.seen = {} THEN sample.src = {}
                ELSE sample.src = Source(c, r) /\ (r * DCTSIZE) \div dinfo.opt.scaled_size \in sample.src

\* A line is made of all the scans up to the one asked for, and smoothing
\* compares blocks that have had all the DC scans up to it (jdcoefct.c).
ScansTo(n, c) == {k \in 1..n : c \in ToSet(img.scans[k].comps)}
ShownUpToScan ==
    app.whole => \A i \in LinesRead, c \in Comps, col \in Columns :
        LET sample == dinfo.lines[i][c][col]
            wanted == ScansTo(app.asked, c)
        IN  /\ wanted \subseteq sample.seen
            /\ \A seen \in sample.near : {k \in wanted : img.scans[k].Ss = 0} \subseteq seen

\* An application that repeats what was suspended and otherwise goes by what the
\* calls returned is never refused one (jdapistd.c, jdapimin.c, jdinput.c).
CallsAreLegal == dinfo.global_state # "ERREXIT"

\* With a source that goes on delivering, the picture is read to its end, even
\* if its file was not (jdapistd.c, jdcoefct.c, jdinput.c).
CodecEnds == <>Over
=============================================================================

# A formal model of BWARG Master

BWARG Master is an Android application that shows the MJPEG streams of two
camera phones ("slaves") side by side in a VR headset. Its own code is seven
Java classes in `app/src/main/java/com/bwarg/master` and one C file,
`app/src/main/jni/ImageProc/ImageProc.c`, over the JPEG library that the
repository carries in source, `app/src/main/jni/jpeg8d`. Java files are named
below relative to the first directory, C files by their own name.

This directory holds TLA+ modules translated from that code, configurations for
the model checker TLC, and proofs for the proof system TLAPS.

## The system: inventory

| Component | State it keeps | Operations | Modelled in |
|---|---|---|---|
| `MjpegView` | `mRun`, `surfaceDone`, `suspending`, `mIn`, `thread` | `setSource`, `startPlayback`, `resumePlayback`, `stopPlayback`, surface callbacks; the thread's `run` | `MjpegView` |
| `MjpegActivity` | `suspending`, two views, two status texts, preferences | `onCreate`, `onResume`, `onPause`, `onDestroy`, `DoRead`, `setImageError`, `restartApp`, `onActivityResult` | `MjpegActivity`; its preferences in `Settings` |
| `MjpegInputStream` | position and mark of the stream, `mContentLength`, `headerLenPrev`, `frameData` | `readMjpegFrame` | `MjpegInputStream` |
| Window system (external) | the surface and its canvas | create, destroy, lock, unlock | `SurfaceUse` |
| `DiscoverNetworkActivity` | `clientTask`, list of profiles, `mNsdManager` | lifecycle, background scan, `NsdManager` callbacks, the address of a profile | `Discovery` |
| `CamSettingsActivity`, `GeneralSettingsActivity`, `StreamPreferences` | the preferences being edited, the saved ones | edits, results, save, load, restart | `Settings` |
| `ImageProc.c` | one static pixel buffer | `pixeltobmp`, `processimage`, `freeCameraMemory` | `ImageProc`; no Java code of this version calls it |
| jpeg8d: DCT and quantization (`jfdct*`, `jidct*`, `jcdctmgr`, `jddctmgr`) | divisors, multipliers, the method of each component | start of a pass, one block forward or inverse | `JpegForwardDct`, `JpegInverseDct`, `JpegDct` |
| jpeg8d: entropy coding (`jchuff`, `jdhuff`, `jcarith`, `jdarith`, restart markers of `jdmarker`) | bit buffers, predictions, runs, statistics, restart counters | encode and decode an MCU, gather, make tables, resynchronize | `JpegHuffTables`, `JpegHuffman`, `JpegArith`, `JpegEntropy`, `JpegGather` |
| jpeg8d: compressor (`jcapi*`, `jcmaster`, `jcmainct`, `jcprepct`, `jcsample`, `jccoefct`) | passes, row buffers, counters, coefficient arrays | `jpeg_start_compress`, `jpeg_write_scanlines`, `jpeg_finish_compress` | `JpegCompress` |
| jpeg8d: decompressor (`jdapi*`, `jdinput`, `jdmaster`, `jdcoefct`, `jdmainct`, `jdsample`, `jdmerge`, `jdpostct`) | the same on the other side, the scan being read and the one being shown | `jpeg_read_header` to `jpeg_finish_decompress` | `JpegDecompress` |
| jpeg8d: markers (`jcmarker`, `jdmarker`) | tables, frame and scan parameters | write and read markers | partly: SOF, SOS, EOI, restarts |
| jpeg8d: colour quantization, colour conversion, memory, files, errors, transcoding, tools | | | not modelled, see the end |
| Resources, build files, `.so` | | | not modelled: no logic |

**How they interact.** The UI thread runs every lifecycle and surface callback
and every message of the main looper. `DoRead` connects a camera on a pool
thread and posts its result to the looper, which calls `setSource`. `setSource`
starts a decoder thread, one per view, which reads frames from the stream and
draws them on the view's surface; on a null frame it posts an error to the
looper and ends. `stopPlayback` (called by `onPause` and by `surfaceDestroyed`)
clears `mRun`, joins the decoder and closes the stream. Settings travel by
intents and results between three activities and end in a restart. An
application of jpeg8d calls the compressor or the decompressor, whose
controllers call one another down to the entropy coder; the destination and the
source are the application's, and may suspend a call.

**What is hard here.** Decoder and UI thread share plain fields with no lock
and no `volatile`. The surface may go at any moment, also while a frame is being
read or drawn. `join` blocks the UI thread on a decoder that may be inside a
socket read. Results of `DoRead` and image errors are posted, and arrive during
and after pauses. One flag, `suspending` of the activity, stands for two views.
The reader of frames must find image ends by searching, with a mark limit, when
a camera gives no `Content-Length`. Two main activities overlap in a restart,
and both save. In jpeg8d, a call may be given up at any byte and be repeated:
what it had done must be undone or be remembered, in every controller. Output of
a file in several scans overtakes or follows its input. Lost data must cost no
more than a restart interval. Sixty-two passes of arithmetic are scaled by hand.
`PROJECT.json` lists these hazards, each at its line.

**What makes each component correct.** A view: one decoder, no drawing without
a surface, no reading of a closed stream, flags that tell the truth about the
decoder, a stop that returns. The activity: nothing left running after a pause,
status texts that do not claim a dead decoder is connected, every result and
error shown in the end, every suspended view reconnected. The reader: images
come out whole and in order, lengths never reach an array unchecked, every call
gets on in the stream. The scan: no task outlives the screen, the race on
`mNsdManager` is harmless. The settings: what is saved is what was confirmed
last, camera by camera. The DCT: a picture is shown as it was compressed, and
every component meets its own tables. The entropy coders: what is decoded is
what was encoded, and damage stays where it happened. Compressor and
decompressor: the file does not depend on how the lines come, every line shown
is the right one and of the right scans, and calls that are repeated come to
their end. The native decoder: every row copied is a row read.

## The modules

### SurfaceUse: what the window system asks for

The abstract specification: a canvas is locked only while the surface exists, by
one thread at a time, and the surface does not go while a canvas is locked.

### MjpegView: the views under any client

One set of variables per view `c \in Cams`. The five Java fields keep their
names. `pc[c][k]` says where the decoder thread object `k` is; `surface` is
the window system's side; `open` the streams given to a view and not closed;
`joining` the view whose `stopPlayback` blocks the UI thread; `fault` an uncaught
exception, after which nothing moves, since it ends the process.

| Action | Code |
|---|---|
| `SetSourceNull`, `SetSource` (`StartPlayback`, `StartTwice`, `ResumePlayback`) | `MjpegView.java:246-267, 330-337` |
| `StopPlayback` then `StopEnd`, with the join between | `269-293` |
| `SurfaceCreated`, `SurfaceDestroyed` (then `StopEnd`) | `312-324` |
| `ExitLoop`, `BeginRead`, `BeginReadNull` | the tests of `run`, `139-154` |
| `FrameRead`, `FrameNull`, `FrameIOException`, `FrameNoMarker` | how `readMjpegFrame` can end, `154-160, 217` |
| `LockCanvas`, `UnlockCanvas`, `ReturnAfterError` | `156-220` |

*The data race.* The decoder reads `mRun`, `surfaceDone` and `mIn` without
synchronisation, so a read may return an older value. `Thread.start` orders what
was written before it. `visDone[c]` and `visIn[c]` hold the values a read may
still return: all those written since the start. For `mRun` that set is TRUE and
the current value, so every test may see TRUE, and `ExitLoop` needs the current
value to be FALSE. `BeginRead` may therefore go on with a stale `surfaceDone`
and a stale `mIn`; the safety properties hold all the same, because
`surfaceDestroyed` and `stopPlayback` wait for the thread.

*The grain.* UI code between two join points runs as one step; nothing but the
decoders runs beside it, and they touch only fields whose stale values
are modelled. The decoder is split wherever it touches anything shared.
Thread and stream objects are never reused by the program; the model reuses an
identity once nothing refers to it any more (`Fresh`, `StopEnd`).

### MjpegActivity: the client the application has

Extends `MjpegView` with the lifecycle (`act`), the activity's own `suspending`
(`actSuspending`), the running `DoRead`s per view, the looper as a queue, and
the status texts. `onPause` is a small program (`pausing`): for each view it
asks `isStreaming`, stops it, waits, and goes on; the looper is not served in
between. `onResume` is translated with its two tests of one field
(`Reconnected`). `doubleRead` is a history variable: a view was given a `DoRead`
while another was outstanding or its decoder was there.

### MjpegInputStream: the frame reader

One action, `ReadMjpegFrame`, is one call of `readMjpegFrame()`: it looks ahead
for the start marker, parses the header, searches for the end of the image when
no length is given (near the previous length, then from the mark), skips the
header and reads the image; or ends in one of five other ways. The camera's
bytes are a finite sequence that is fixed at the start. "Content-Length: n" is
one symbol of a header. `mark`/`reset` is "look ahead of `pos`", and `reset`
fails once more than `FRAME_MAX_LENGTH` bytes were read. Two peculiarities of
the code are kept: the near search uses the *field* `headerLen`, which stays -1,
and the worst-case search counts from the mark, header included. The decoder
calls again after a frame and after an `IOException`. The properties name what a
camera must do for them, in terms of what it sends: `HeadersFit`, `EndsSeen`,
`Similar`, and `Plain`: no image holds another one, as one with a thumbnail does.

### Discovery: the screen that scans for cameras

Three parties: the activity on the UI thread, one `NetworkClientTask` per visit
of the screen on pool threads (`taskPc` is the place in `doInBackground`), and
`NsdManager`'s own thread, which calls the listeners of a task from its first
`discoverServices` on (`heard`).

| Action | Code |
|---|---|
| `OnCreate`, `OnResume` (`NewTask`), `OnPause`, `OnStop`, `OnDestroy` (`Leave`), `OnItemClick` | the activity's lifecycle, `DiscoverNetworkActivity.java:55-160` |
| `CloseBegin`, `CloseEnd` | `close()` and `clientTask = null`: the task is cancelled, and only then `mNsdManager` becomes null, `393-397` |
| `Begin`, `GetManager`, `LoopTest`, `DiscoverServices`, `StopServiceDiscovery`, `CallOnNull`, `SleepEnds` | `doInBackground`, `372-390` |
| `OnServiceFound`, `OnServiceResolved`, `OnResolveFailed`, `OnStartDiscoveryFailed`, `OnStopDiscoveryFailed` | the two listeners |
| `RunPosted` | the Runnables of `addServerProfile` and `clearServerProfiles` |
| `SetIpNoPort`, `Parsed` | `ServerProfile.setIpNoPort`, a fold over the characters of the host |

`mNsdManager` is a plain field. A reader that has seen it set may find it null
once `close()` wrote null, and may go on seeing the manager (`MaySeeNull`); the
exception of a call on null ends the process unless the `FutureTask` of a
cancelled task keeps it. Left out: `onPostExecute`, which never runs, since the
loop ends by cancellation only; the complaint of newer Android versions about a
listener already in use.

### Settings: the preferences' way through the screens

`screen` is the activity in front. The preferences of both cameras go from
`saved` (the `SharedPreferences`) into the main activity (`streamPref`), as
extras into `GeneralSettingsActivity` (`general`), one of them on into
`CamSettingsActivity` (`streamPrefs`, with its text fields `text`), perhaps out
to a scan, and back as results; `Done` of the general settings makes the main
activity take both, save and restart. `finished` holds the fields of activities
that are finished and will save them in their `onDestroy`, after their
successor's `onCreate` has loaded: that overlap, `Kill` and the Up buttons,
which start activities without extras, are the hard part.

Three facts of the code are kept as they are: `origStreamPrefs` is the same
object as `streamPrefs` until a scan replaces the latter (`sameObject`,
`CamSettingsActivity.java:50, 91`); the field of the port takes four characters,
also from the program (`FourDigits`, `309-318`); `fillUI` leaves it alone when
there is no port. Of the address one number is modelled, and the stepping
buttons of the others are the same code.

### JpegForwardDct, JpegInverseDct, JpegDct: transforms and their tables

Each of the 32 forward and 32 inverse integer transforms of `jfdctint.c` and
`jidctint.c`, and the two of `jfdctfst.c` and `jidctfst.c`, is an operator on
blocks that gives the integers the C code gives: a pair of passes over rows and
columns (`ForwardBlock`, `InverseBlock`) whose terms are the code's, an inverse
pass being its even part, its odd part and the butterflies that join them.
`JpegDct`
puts the managers over them, with their state across passes: the forward
manager's divisors are kept by *table*, so that of two components with one table
the last one decides (`start_pass_fdctmgr`, `jcdctmgr.c:356-413`); the inverse
manager keeps a component's multipliers while its method stays the same and
skips a component whose table has not come yet (`start_pass`,
`jddctmgr.c:267-270`). An application that begins an output pass before a
component's first scan, or asks for another method, meets both. `Recompress`
feeds what was shown to a compressor again.

### JpegHuffTables, JpegHuffman, JpegArith, JpegEntropy: the entropy coders, end to end

Two libraries of operators hold the coders of a block: sequential, and the
four kinds of a progressive scan, for Huffman and for arithmetic coding, with the
tables of `jcarith.c`/`jaricom.c`. `JpegHuffTables` has what a Huffman table is:
how `jpeg_gen_optimal_table` makes one of counts, and the codes both sides derive
from it. The chains of `others[]` in the C code are `root`, the tree a symbol is
in; `MAX_CLEN` is the 32 bits a code may have before it is shortened.
A decoder's operator reads bits from `src`, and returns the decoder, or one that
has given up for want of data; `Then(r, Rest)` goes on with the rest of a call
unless it has ended. `JpegEntropy` is the whole way: statistics pass, optimal
tables, output pass with a buffer that fills up, restart markers; the bytes,
which come in pieces, and of which some are lost (`Lose`); the decoder with its
marker reader, its restarts and `jpeg_resync_to_restart`. `room` is what the
buffer still takes; an encoder that may suspend (`Suspends`) gives an MCU up when
the buffer is full, and in `FinishPass` it has no step when there is no room for
its last bits and the EOI, where the code raises `JERR_CANT_SUSPEND`
(`jchuff.c:1096`). `EmptyBuffer` is the application, which makes room when a call
has been given up and, as `libjpeg.txt:1662` asks, before
`jpeg_finish_compress`. The coefficients of a
picture are exact; the picture is one row of blocks per component, of 1x1 or 2x2
coefficients.

### JpegGather: the statistics passes, for any symbols

The same passes without pictures: a pass may count any symbols of any components
of its scan, `finish_pass_gather` makes the tables, and `written` remembers the
symbols the output pass is going to write. `StartGather` is `start_pass_huff`,
`CountSymbol` an increment in `htest_one_block`, `emit_dc_symbol` or
`emit_ac_symbol`, `FinishGather` is `finish_pass_gather` with the last
`emit_eobrun` of a progressive scan, and `FinishOutput` `finish_pass_huff`. The
tables of both kinds are one set, since DC and AC differ in nothing else; a scan
is the sequence of tables its components use, so that a table may occur twice and
`MakeTable` finds it made (`did_dc`, `did_ac`). What `jpeg_gen_optimal_table`
leaves of its counts stays in `count_ptrs` until the next pass clears it.

### JpegImage, JpegCompress, JpegDecompress, JpegCodec: between application and coder

Here the samples are abstract. In the compressor a sample row is the set of
picture rows it was made of, and of those that smoothing mixed in; a block is
its sample rows; the file is a sequence of `SOF`, `SOS`, MCUs and `EOI`. In the
decompressor a sample is the set of rows it shows, the scans it has been made
from and, where smoothing compared blocks, what the neighbours had seen. The
horizontal direction is folded: the blocks of a component beside one another in
an MCU are one.

A call of the decompressor is a function that ends done, suspended or in
`ERREXIT`; inside, one operator per method of a controller, in the code's order
and with its counters. A call of the compressor is a series of actions, so that
it can be proved about: one for its beginning (`jpeg_write_scanlines`), one for
each round of the loops in it and one for its return.

| Action of `JpegCompress` | Code |
|---|---|
| `jpeg_start_compress` (`MainPass`), `jpeg_finish_compress`, `NextPass` (`HuffOptPass`, `OutputPass`), `PassDone`, `FileDone` | the master's passes, `jcmaster.c:664-799`, `jcapimin.c:154-189` |
| `jpeg_write_scanlines`, `LinesTaken` | the call and its return, `jcapistd.c:76-111` |
| `PreProcess` (`pre_process_data`, `pre_process_context`) | a round of the loop of the preprocessor, `jcprepct.c:127-261`, with the downsampling of a row group, `jcsample.c` |
| `CodeRow`, `RowCoded`, `RowSuspended` | `compress_data` called by the main controller, done, or given up, `jcmainct.c:112-158` |
| `encode_mcu`, `McuRowDone`, `RowDone` | the loops of `compress_data`, `compress_first_pass`, `compress_output`, `jccoefct.c:143-400` |
| `CrankRow`, `RowCranked` | a row of a later pass, where the destination may not suspend (`libjpeg.txt:1668`), `jcapimin.c:170-181` |

`pc` is the place in the call; variables that are local to a call in C are set to 0
at its return (`Forget`). `room` is what the destination takes during a call: any
number of MCUs of `Rooms`, and with 0 the call can be given up before its first.
`JpegCodec` is the application: it writes lines as it likes, gives the file
(`received` is the reader's copy), perhaps cut short and ended with an `EOI` as
`libjpeg.txt:1715-1721` advises, to a reader that repeats what was suspended
(`Answered`), shows passes of a buffered image in any order, begins or ends
them early, or reads raw data. A suspended `jpeg_start_output` is repeated with
the same scan number. A call that had data and changes nothing flips `app.idle`,
so that a reader that stands still is a violation of `CodecEnds` and not a
stutter.

### ImageProc: the native frame decoder

`pixeltobmp` hands a frame, or what the stream gave of it, to `processimage`,
whose three calls of the library and whose rounds of the loop are the actions;
`jpeg_read_scanlines` and the others are those of `JpegDecompress`. `rgb` is
sized by the first frame only. Outside the model: `my_jpeg_load_dht`, which
puts standard Huffman tables over the frame's own, and two decoder threads that
share the static buffer.

## The runs

| Run | Checks | Bounds |
|---|---|---|
| `view` | `IndInv`, `OneDecoder`, `NoDrawWithoutSurface`, `NoReadAfterClose`, `StreamingSeesDecoder`; `SurfaceContract`; `StopReturns`, `SourceIsRead` | 2 views, 2 thread identities per view, 2 streams |
| `activity` | `CrashNeedsDoubleRead`, `DeadDecoderShown`; `PauseLeavesNothing`, `ViewSpec`; `ErrorIsShown`, `ReadIsReported` | 2 views, 1 thread identity, 3 streams, 2 unanswered `DoRead`s per view |
| `activity_resume` | `ResumeReconnectsBoth`: expected violation | the same |
| `stream_reader` | `CountedLossless`, `ImagesAreWhole`, `SearchedInStep`, `NoCrash`; `CallsProgress` | every stream of 1 to 3 frames; images of 4 to 11 bytes, headers of 0 to 2 and of 9 bytes beside the length line, search limit 10 |
| `discovery` | `ScanBelongsToScreen`, `NullOnlyAfterCancel`; `CancelledScanEnds` | 2 tasks; a slave with an IPv4, one with an IPv6 address, a printer and this phone; 2 profiles listed, posted or resolving |
| `settings` | `SavedIsConfirmed`, `OtherCameraKept`, `UneditedIsWhole` | 2 finished activities, 2 confirmations, 2 visits, 1 edit in each; a camera with number 255 and a port of five digits |
| `dct` | `ShownClose`, `MeanKept`, `RecompressedSame`, `MultipliersMatch`, `BlankIsGrey`, `MeanCoded` | all 32 sizes but the faulty four; a coarse and a fine table, three pictures, both methods, 2 passes; two components with one table or two, of the same size or not |
| `dct_faulty` | `RecompressedSame`: expected violation | the sizes 12x12, 12x6, 14x14, 14x7 |
| `entropy` | `ScansExact`, `DamageContained`; `ImageEnds` | 12 pictures, see below |
| `gather` | `TablesSound` | every sequence of at most 12, 1 and 2 of 5 symbols in three scans over two tables; codes of 3 bits, of 4 before they are shortened |
| `codec` | `FileIsImage`, `ShownRowsAreSource`, `ShownUpToScan`, `CallsAreLegal`; `CodecEnds` | 8 pictures, see below |
| `frame` | `RowsCopiedAreRead`: expected violation | 1 picture of 5 rows, 2 frames, 7 rows |

Deadlock is checked in `entropy` and `codec`, where an end is a state of its own
that stutters (`Over`). Elsewhere the system may really stop: an uncaught
exception ends the process, the reader stops at the end of its stream, and the
bounds of `settings`, `dct` and `frame` end their behaviours.

*Why the bounds are enough.* Two thread identities suffice to lose a thread
(one still referenced, one overwritten), and the invariant shows that a third
would never be used; with one identity in the activity's runs a second decoder
would be a missing step, but `OneDecoder` is checked with two and proved for all.
Two streams are one per view, three also one on its way. Two `DoRead`s per
view are what one needs for a doubled one. In the reader, three frames let a first search
(no previous length), a near search and a worst case after a bad length follow
one another; image and header sizes lie on both sides of the search limit, one
image holds a stuffed 0xFF and one a fill byte before its end marker. The looper
is bounded by the number of `DoRead`s and of decoders. Two tasks are the one
that is being closed and the one of the next visit; `MaxListed` only limits how
often the same four services are found again. Two confirmations and two finished
activities let an older activity overtake a newer confirmation.

In `dct` the pictures are a ramp, a wave and a corner with full contrast, so that
low, high and limited values occur at every size. Two components share a table in
sizes of the same method and of different ones. Two passes are one before and
one after a scan has come, or one of each method.

In `entropy` the constants of the coders are small so that their limits are
reached by a few blocks: codes of at most 4 bits (16 in the code) with lookahead
2, so that a skewed picture's best code must be shortened and codes longer than
the lookahead occur; runs of at most 2 blocks and 1 correction bit, so that both
are forced out. `BufferSize` is 24 bytes, enough for
the largest MCU, without which no encoder could go on; it starts with room for any
number of bytes from 1 to 24. `FinishRoom` is 6, the "half a dozen bytes" of
`libjpeg.txt:1662`; with an application that makes sure of 1 byte only, the run
ends in a deadlock, which is `JERR_CANT_SUSPEND`. Up to four consecutive bytes or two
restart markers are lost, at every place; there are more restart intervals than
marker numbers (8), intervals so long that they are read before their marker has
come, and pictures of every mode: sequential, scaled down, with a component that
is not needed, progressive in whole and in parts, of one and two components.

In `gather` five symbols with the pseudo-symbol have codes of up to five bits when
their counts are skewed enough, which takes twelve: so there are tables that fit,
tables that are shortened from four bits to three, and tables that end in
`JERR_HUFF_CLEN_OVERFLOW`. The first scan has two components on one table, the
second may end in a run of blocks, the third has two tables and counts again what
the first two have spoilt.

In `codec` a block has 2 rows and an MCU row 2 MCUs; pictures have 3 or 5 rows,
so that the last MCU row is incomplete and dummy blocks occur; the sampling is
2:1, 3:1, 1:1 or a single component. Calls give or ask 1 or 3 lines; a destination has
room for no MCU, for one or for all; the source delivers nothing, one unit or
all. The cases are sequential and progressive
files, one scan per component, smoothing on either side, scaling to half and to
double, both upsamplers, both quantizations, raw output, buffered images of two
passes with any scans, and files cut within and between scans. One picture
has a vertical sampling of 3. Two-pass quantization bounds the rows it gives by
the rows of the picture below the start of a strip, and does not count those of
the strip it has given already (`jdpostct.c:224`): with sampling factors of 3 or
4, a short request in the last strip and then a longer one get rows from below
the picture. The run has this behaviour (2 lines, asked for as 1 and then 3);
`ShownRowsAreSource` has a premise for it, `LinesBounded`.

*Fairness.* In `MjpegView` a decoder that can go on goes on, the UI thread
returns from a finished join, and in `MjpegActivity` the looper gets to its
messages (strongly fair, because the UI thread is busy now and then with
callbacks). Two assumptions go beyond
ordinary scheduling and are named at `Fairness`: a decoder that keeps testing
`mRun` and `surfaceDone` sometime sees their latest value, which the Java memory
model does not promise for plain fields. Nothing is assumed of the network:
`StopReturns`, `ErrorIsShown` and `ReadIsReported` carry the premise that no
read blocks for ever. That premise is the point of `StopReturns`: the socket has
no timeout and `stopPlayback` closes it only after the join, so a silent camera
blocks the UI thread. In `Discovery` only the pool threads are fair: `NsdManager`
owes nobody an answer. In `JpegEntropy` the two sides and the transport each get
on: a call that ended for want of room or data is repeated once there is some.
In `JpegCodec` the application goes on calling, the destination has room and the
source delivers: until it is over, again and again a line, a unit or a state of
the reader is new (`Advances`), which suspensions without end would not be. Both
write weak fairness with a plain condition in the place of `ENABLED`, which
would compute the whole call again: that no state deadlocks shows the step to be
possible wherever the condition holds.

*What the runs show of the code's limits.* `CrashNeedsDoubleRead` says which
histories lead to `IllegalThreadStateException` or a null `mIn`: only those with
a doubled `DoRead`, as when the user leaves and returns before the connection
is answered. `NoCrash` of the reader names what a camera must
do for the decoder to survive: headers within the limit, and a length line or an
end marker the search can see, in a frame *below* the limit: a search that begins
at the second byte of a header comes to a limit equal to the frame one byte
before the next start marker is complete, which the attempt to prove `NoCrash`
showed. The run `discovery` has `USE_NSD_MANAGER` TRUE (the proofs allow both
values). As shipped the flag is FALSE, and then the model has a single step:
`onCreate` makes no task, still calls `clientTask.executeOnExecutor`
(`DiscoverNetworkActivity.java:92`), and the process ends (`fault = "nullTask"`),
although the repository's `README.md:7` tells the user to "scan to find them".
That needs no model checker, so no run of its own is kept for it. `ImagesAreWhole` without lengths needs `Plain`: in an image that holds
another one, a reader that lost the place finds the start of the inner
one. `Similar` names when the search keeps in
step: an image must be more than half as long as the one before. `SavedIsConfirmed` has one
exception, `overtaken`: an activity that is destroyed after a later one has
confirmed other settings writes its own back. `UneditedIsWhole` has two: the
fifth digit of a port is lost, and a scan that is cancelled after one that was
not mixes two cameras (`mixed`). `ShownClose` and
`RecompressedSame` except the components whose divisors another one has
`Overwritten`: with the fast method, a component of 8x8 and one of another size on
one table are divided by the divisors of the later of them
(`jcdctmgr.c:356-413`), and their pictures change; the comment at line 356 says
of computing divisors more than once that it is "not a big deal". The run has
such components; without `~Overwritten(c)` in `RecompressedSame` TLC finds a
picture, 8x8 beside 16x16, that is not compressed to what it was shown from.
What is left to them is the mean of each block: `MeanCoded`, and for all tables
and sizes `DcAlwaysUnharmed`.

### The findings

`activity_resume` checks that when `onResume` reconnects a view it reconnects
every view that `onPause` suspended. TLC refutes it: `MjpegActivity.java:120`
clears `suspending` for the left view before line 124 tests it for the right
one, so the right camera is not reconnected. `README.md:6` describes a
double decoder for two cameras.

`dct_faulty` checks that a picture which was shown is compressed to the
coefficients it was shown from. TLC refutes it at the sizes 12x12 and 12x6
(`jfdctint.c:1472`, `2770`) and 14x14 and 14x7 (`1874`, `2644`): one term of the
row pass is added unshifted to products scaled by 2^13. The comments at
`jfdctint.c:1418` and `1782` announce the DCT.

`frame` checks that every row `processimage` has copied is a row it has read, as
`libjpeg.txt:1687` asks of applications. TLC refutes it: on a frame that ends
early `jpeg_read_scanlines` returns no line, the loop at `ImageProc.c:232` does
not look, copies the last one again and again, and does not end.

## The proofs

| Theorem | Says | From |
|---|---|---|
| `Invariance`, `TypeCorrect` (`MjpegActivityProofs`, first part) | `Spec => []IndInv`, `Spec => []TypeOK` | `NullsAssumption` |
| `OneDecoderAlways`, `DrawingHasSurface`, `ReadingIsOpen`, `ViewsApart`, `FlagsTellDecoder` | the safety properties of the views, under any client | the same |
| `SurfaceRefinement` | `Spec => SurfaceContract`: every step locks, unlocks, creates, destroys or stutters | the same |
| `ActivityRefinesViews`, `ActivityViewsSafe` (`MjpegActivityProofs`, second part) | the activity is a client the views allow, hence the safety of the views in the application | `ActivityAssumption` too |
| `ActInvariance` | `ActSpec => []ActInv` | the same |
| `CrashesExplained`, `DeadDecoderTold`, `SuspendingIsKept` | the activity's own safety properties | the same |
| `PauseLeavesNothingBehind` | the action property of `onPause` | the same |
| `ScanEndsWithScreen`, `NullIsHarmless` (`DiscoveryProofs`) | no scan outlives its screen; only cancelled tasks find `mNsdManager` null | `DiscoveryAssumption` |
| `SavedAlwaysConfirmed`, `OtherCameraAlwaysKept`, `UneditedAlwaysWhole` (`SettingsProofs`) | the safety properties of the preferences, and their types (`TypeCorrect`) | `SettingsAssumption` |
| `CountedStreamLossless` (`MjpegInputStreamProofs`) | with a length in every header all images come out as sent, whatever they hold | `StreamAssumption` |
| `ReaderInvariant`, `EachCallProgresses`, `WithinLimitsNoCrash` | the reader is where it can go on; every call consumes something or is the last; no length below zero reaches an array within the limits | the same |
| `ImagesComeWhole` | of plain images without lengths only whole ones are handed on | the same |
| `SearchedStaysInStep` | where the search sees every end and lengths are similar, the i-th image out is the i-th sent | the same |
| `DctTypeCorrect`, `BlankAlwaysGrey` (`JpegDctProofs`) | every divisor is positive, every coefficient an integer, every sample within 0..255, at all 32 sizes and with both methods; a component that has no data shows grey | `DctAssumption` |
| `GatherTypeCorrect`, `TablesAlwaysSound` (`JpegGatherProofs`) | whatever symbols a scan has, however often, and however its components share tables: every symbol gets a code, of at most `MaxCodeLength` bits, no prefix of another and not all ones | `LengthsAssumption`, `GatherAssumption` |
| `CompressorInvariant` (`JpegCompressProofs`) | `CompressorSpec => []IInv` | `ImageAssumption`, `CompressAssumption` |
| `CompressorWritesImage` | `CompressorSpec => []FileIsImage`: the file is a prefix of the picture's at every step and the whole of it in the end, and `JERR_TOO_LITTLE_DATA` does not occur, for every picture, every split of its lines and every suspension | the same |
| `MultipliersAlwaysMatch` | components are put out with their own tables, whatever the order of scans, passes and methods | `DctAssumption` |
| `DcAlwaysUnharmed` | the DC term of every block is divided by its own component's step, however components share tables | the same |

The assumptions are those the code justifies: null is no object; there are two
views and at least one `DoRead` each; the flags and sets of the scan are flags and
sets; preferences are records whose address numbers have three digits and whose
ports have 16 bits, and what a scan finds has a port; images are bytes and
headers text, without 0xFF; quantization tables are those of a baseline file, 64
numbers from 1 to 255, and pictures are blocks of samples of each of the 32
sizes; the pictures of the compressor are those that `initial_setup`,
`jinit_downsampler` and `validate_script` do not refuse: at least one line,
vertical sampling factors from 1 to 4 of which each divides the largest, scans
of at least one component. Everything else, the numbers of threads, streams, tasks, services,
preferences, restarts, edits, frames, tables and components, the bytes of an
image and the limits of the reader, is arbitrary.

**The views.** The properties are not inductive: `OneDecoder`, for instance, is
kept by `ResumePlayback` only because a suspended view has no decoder. The
invariant `IndInv`, which TLC checks in `view`, is

- `ThreadReferenced`: the field `thread` refers to the only thread object there
  is, so that the join in `stopPlayback` waits for the right one;
- `FlagsAgree`: `suspending` excludes `mRun` and a thread, and a live decoder
  outside a stop has `mRun` TRUE; so a start never meets a live decoder;
- `SurfaceSeen`: TRUE in `visDone` of a live decoder means that the surface
  exists, also while `surfaceDestroyed` waits;
- `StreamsOpen` and `StreamsApart`: what a live decoder may find in `mIn` is
  open, and no other view's.

After `Joined` and `ThreadReferenced` no decoder of the view is live
(`NoLiveDecoder`), so `StopEnd` may close the stream and let the surface go; a
decoder step changes nothing these parts speak of but its own place; and a start
resets the values the new decoder can see. One lemma per action, combined in
`NextInv`.

**The activity.** `ActNextViews` maps every step of the activity to a step of
the views or a stutter, which gives `IndInv` for free. `ActInv` adds what ties
the activity to its views:

- `ReadsFit`: as long as no view was given a `DoRead` too many, a view has at
  most one, running or answered, and then `setSource` will not throw (`Room`);
- `NullUnseen`: then no decoder can find null in `mIn`;
- `RunHasThread`, `SourceRuns`: `mRun` means a started thread, and an open
  stream means `mRun`; so `onPause`, which asks `mRun`, misses no stream;
- `PauseInOrder`: while `onPause` is at the right view the left one is down;
- `SuspendedWaits`: a view that `onPause` suspended has no `DoRead` on its way,
  so only `onResume` can bring it back.

`Appended` and `Handled` say what posting and taking a message does to the
looper; there is one lemma per action; `PausedIsQuiet` reads `PauseLeavesNothing`
off the last step of `onPause`, at the right view, where `PauseInOrder` speaks for
the left one.

**The scan.** `IndInv` is `TypeOK`, `ScanBelongsToScreen`, and: the task that is
being closed is cancelled (`ClosingCancelled`); a task past `getSystemService`, or
one whose listener `NsdManager` holds, has its manager unless it is cancelled
(`ManagerUnlessCancelled`); a call on null needs a cancelled task
(`NullNeedsCancel`). A new task may start only where no scan is left
(`NoScanLeft`), and `close` cancels before it writes null.

**The preferences.** `SavedIsConfirmed` is inductive as it stands: an activity
that is destroyed writes what was confirmed last, or it sets `overtaken`.
`OtherCameraKept` needs the types only, so that replacing one camera's entry
leaves the other's. `UneditedIsWhole` rests on `FieldsShow` (fields nobody edited
show the preferences behind them, of one camera) and `OriginalIsSame` (until a
scan replaces them, the original preferences are the same object as the edited
ones, so that a cancelled scan fills the fields with what they showed), and on
three lemmas about `FillUI` and `Done`; `DoneOfFillUI` is where the fifth digit
of a port is lost.

**The reader.** Its searches are recursive functions over the bytes, so the proofs
begin with induction (`InductionFacts`): a set of numbers with 0 and every
successor is `Nat`, hence a function that is computed step by step exists and is
one. From it follow what a search returns (`SearchSound`, `SearchSees`), that
the stream is the frames one after the other (`StreamLayout`, `FrameAt`), and
where the first start and end marker after a place are (`StartAhead`, `EndAhead`).
Frames either all have a length or none has.

- With lengths, `CountedInv`: as many images are out as frames are consumed, and
  the reader is at the end of the last of them. One call takes one frame
  (`CountedCall`), whatever bytes the image holds.
- Without, `ReaderInv` says only that the reader is within the stream. A call
  then has four outcomes (`SearchedCall`): an image found near the previous
  length, an image found from the mark, a miss, or a stop. The two crashes need
  a start that is found with an end that is not; a frame below the limit that
  lies ahead excludes it (`WithinLimit`), from wherever the search began.
- `PlainInv` is what `ImagesAreWhole` needs. A reader that overshot is in
  the midst of an image, and may still find the next start from there: it skips
  a frame, which is no harm. What would be harm is to measure an image from
  there. `AtHeader` says that the reader is between two images, `Lost` that its
  search near the previous length reaches beyond the mark limit, so that after a
  miss there the reset fails and nothing is handed on. Each call that goes on
  ends in one of these, or at the end of the stream (`Landed`).
- `StepInv` is what `SearchedInStep` needs: the reader is before the header of the
  next image, in its header, and the previous length is at most that of the image
  before with a header added (`InStep`). `Similar`
  makes the search start before the next end (`NearInStep`), and a worst case
  that overshoots is followed by a call that makes up for it (`WorstInStep`,
  `NextHeader`).

**The transforms.** `TypeOK` of `JpegDct` holds because each of the passes maps
integers to integers, and the clamp maps them to samples: `RANGE_MASK` keeps ten
bits, and `RangeLimit` has a value from 0 to 255 for each of them
(`RangeLimitSample`). There is one lemma per building block (`FdctBlock`,
`InverseInt`, `IdctImage`), with a case per size. A divisor of the fast method is
a product scaled down by 2^11; it is positive since the least scale factor is 1247
(`AanRange`). For `BlankIsGrey` the same lemmas say that a block of zeros becomes
the level 128 at every size, because every pass maps zeros to zeros; `BlankTables`
adds that the multipliers of a component without data are the zeros they were
made with, as no pass has computed any.

**The Huffman tables.** The code's own comment says that it is "not real clear"
why symbols sorted by the lengths from before the shortening have the right codes
after it (`jchuff.c:1374`). The argument is about the Kraft sum. Of codes of which
`bits[l]` have `l` bits, `IsKraft` counts, length by length, the strings that
begin with one of them, and `IsTotal` the codes; both are recursive functions, and
`InductionFacts` says that such a chain exists, is unique and stays in its sets.

- `Forest`: between the merges of Huffman's algorithm every symbol counted is in
  one tree, and the codes of a tree use all strings up (`IsFull`); two trees with
  a bit more each do so again (`JoinIsFull`). One tree is left in the end, and
  its codes are `Complete` (`LengthsComplete`), if none is beyond `MAX_CLEN`.
- `PairAndShorter`: complete codes have an even number of the greatest length, and,
  as they are no more than 2^`MaxCodeLength`, one that is shorter than the prefix
  of a pair; so neither `bits[i] -= 2` nor the search for `j` runs below zero.
  `PairShortened` says that the codes are as many and as complete after each
  round, `AllShortened` that they end within `MaxCodeLength`.
- `PseudoRemoved`: without one of the longest codes some string is unused
  (`HasRoom`). The codes by number are the next of the code before with zeros
  added (`CodeIsNth`), so none is all ones and none begins another
  (`CodesArePrefixFree`). Only the number of codes matters, not which symbol has
  which: that is why sorting by the earlier lengths works. `SortedLists` says that
  each symbol is in the list once.
- `IndInv`: in a statistics pass every table of the scan has counts, positive for
  each symbol that will be written (`IsCounted`); `OneMade` says that making one
  table leaves the counts of those not yet made, and `did` keeps the code from
  making one again.

`GatherAssumption` asks for at most 2^`MaxCodeLength` - 1 symbols, at most 254 so
that no number of codes wraps around in a `UINT8`; the coder has at most 176, and 16
bits. Counts are unbounded numbers: the sentinel 1000000000 of the search for the
rarest (`jchuff.c:1285`) is not modelled, and a picture has fewer symbols.

**The compressor.** `FileIsImage` says what the file is; why, is in the
buffers and counters which the controllers pass on to one another. `IInv` says
what each of them stands for in terms of the picture, at every place in a call:

- `LinesOK`, `CallOK`: the lines taken are those the application counts, those of
  this call, and the one a suspension holds back (`Held`). While the call is not
  suspended there is one to hold back, so that `(*in_row_ctr)--` in
  `jcmainct.c:143` does not run below 0, and the application always has another
  line to offer until the last iMCU row is coded.
- `PlainOK`, `ContextOK`: the row groups downsampled and the lines in the color
  buffer add up to the lines taken. With context rows the buffer is a ring of
  three row groups: row `r` holds the line `LineAt(r)`, clamped to the picture
  (`WindowOK`), so that the rows smoothing takes from above and below are there
  when a row group is downsampled, also where the pointers wrap around
  (`RingIndex`), at the top, and in the padding below the picture.
- `BufferOK`: the row groups in the main buffer are the picture's (`SampleRow`).
- `McuOK`: `MCU_vert_offset` and `mcu_ctr`, or the loop variables of a call under
  way, are a place in the iMCU row. `Coded` is the number of MCUs of the scan up
  to there: a suspension moves the place from the loops to the counters and leaves
  `Coded` as it is, hence no MCU is lost or written twice.
- `MainPassOK`, `LaterPassesOK`, `PassOK`: how `pass_number`, `scan_number` and
  `pass_type` belong together. `NextPass` may skip a statistics pass
  (`NeedsTable`), and yet `is_last_pass` is set at the last scan.
- `ImageOK`: the coefficient arrays hold the picture's blocks, those of the iMCU
  rows coded so far or, in later passes, all.
- `FileOK`: the file is the scans before (`Start`), the header of this one and
  `Coded` MCUs of it (`Written`).

There is one lemma per action, from `StartCompress` to `FileEnds`, after
`PlainStep` and `ContextStep` for the two preprocessors, `McuCoded` (the MCU that
is encoded is the next of the scan, dummy blocks included), `RowsPlaced` (the MCU
rows of successive iMCU rows follow one another in scans of one component too) and
`Starts` to `StartContinues`, which say how the expected file is put together.
`MainHolds`/`MainDone` and `LaterHolds`/`LaterDone` take the invariant apart and
put it together for the two halves of a compression.

**The tables of the DCT.** For the inverse side `OutputInv` says that a kept
quantization table is the component's own (`TablesLatched`), that multipliers
kept under a method were computed for it (`CurMethodTrue`), and that a pass has
set up every component that is not blank (`PassSetUp`). For the forward side
divisors are kept by table, and those of one component may be overwritten for
another's method; `InputInv` says what survives that, by `DcDivisor`: both methods
divide the DC term by 8 times the step, and nothing is coded before the divisors
are there nor kept when they go.

*Only model-checked:* the liveness properties, since fairness is out of the
prover's reach; how close the transforms come to the picture (`ShownClose`,
`MeanCoded`, `MeanKept`, `RecompressedSame`): these are bounds on the accumulated rounding of
sixty-two passes, and hold for pictures that survive quantization, not for
arbitrary coefficients, which wrap around in the clamp; `JpegHuffman`,
`JpegArith`, `JpegEntropy`, `JpegDecompress` and `ImageProc`, which are built from
recursive operators: the provers see recursion only in functions. Of
`JpegCodec`, which has the compressor and the decompressor in it, the part of the
compressor is proved in its own module, for the specification `CompressorSpec`
whose steps `Compress` takes.

## Not modelled

In the application: display geometry (`destRect`, `setSurfaceSize`), the FPS
overlay, display setters, the dead fisheye code, `readMjpegFrame(Bitmap)`,
decoding a bitmap, logging. Android may kill the process without `onDestroy`:
nothing of the views outlives it, and `Settings` has `Kill`. In `ImageProc.c`,
`my_jpeg_load_dht` and the pixel buffer between threads.

In jpeg8d:

- the floating-point DCT, which TLC has no numbers for;
- the errors for coefficients out of range, and in the entropy coders the DCT
  sizes above 8, of which 8x8 coefficients are coded;
- raw input, colour conversion and the horizontal direction of the controllers,
  which repeats the vertical one without suspension;
- the main controller with context rows: no upsampler of this version asks for
  it (`jdsample.c:308`, `jdmerge.c:379`); external colour maps;
- the parameters of the markers other than SOF, SOS, EOI and restarts: they are
  read field by field and checked;
- the choice of colours and the dithering (`jquant1.c`, `jquant2.c`), whose
  outcome has no right or wrong short of its looks; colour conversion, the
  memory manager, files and messages; lossless transformations and the
  command-line tools, which the application does not use.

Layouts, build files and prebuilt libraries hold no logic.

## Plan

Proofs first: that the lines shown are the picture's (`ShownRowsAreSource`) and
that no call is refused (`CallsAreLegal`), after the decompressor has been taken
apart into steps as the compressor has. Then the model:

1. The virtual arrays of `jmemmgr.c`: rows swapped in and out of memory, which
   the coefficient controllers rely on.
2. The parameters of the remaining markers, with tables replaced between scans.
3. The geometry of `destRect` against a reference definition.

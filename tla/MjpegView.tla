------------------------------ MODULE MjpegView ------------------------------
(***************************************************************************)
(* The video views of the application (MjpegView.java): each view owns one *)
(* decoder thread, the stream it reads and the flags both sides share      *)
(* without synchronisation.  The UI thread runs setSource, stopPlayback    *)
(* and the surface callbacks; the decoder threads run MjpegViewThread.run. *)
(*                                                                         *)
(* This module is a view under ANY client that calls it from the UI        *)
(* thread; MjpegActivity.tla is the client the application has.            *)
(*                                                                         *)
(* mRun, surfaceDone and mIn are plain fields: a decoder reads them while  *)
(* the UI thread writes them.  Thread.start orders what was written        *)
(* before it; after that a decoder's read may return any value written     *)
(* since.  visDone and visIn hold the values such a read may return (for   *)
(* mRun they are TRUE, which every start writes, and the current value).   *)
(***************************************************************************)
EXTENDS Naturals

CONSTANTS
  Cams,       \* the camNum of every view
  Slots,      \* identities for the MjpegViewThread objects of one view
  Streams,    \* identities for the MjpegInputStream objects
  NoThread,   \* thread == null
  NoStream,   \* mIn == null
  NoCam       \* the UI thread is in no view's stopPlayback

ASSUME NullsAssumption ==
  /\ NoThread \notin Slots
  /\ NoStream \notin Streams
  /\ NoCam \notin Cams

VARIABLES
  mRun,         \* field mRun of each view
  surfaceDone,  \* field surfaceDone of each view
  suspending,   \* field suspending of each view
  mIn,          \* field mIn of each view
  thread,       \* field thread of each view
  pc,           \* where each decoder thread is
  reading,      \* the stream a decoder is inside readMjpegFrame of
  visDone,      \* values a decoder's read of surfaceDone may return
  visIn,        \* values a decoder's read of mIn may return
  open,         \* streams given to a view and not closed
  surface,      \* whether the window system's surface exists
  joining,      \* the view whose stopPlayback blocks the UI thread, or NoCam
  destroying,   \* that call was made by surfaceDestroyed
  fault         \* the uncaught exception that ended the process, or "none"

fields == <<mRun, surfaceDone, suspending, mIn, thread>>
viewVars == <<mRun, surfaceDone, suspending, mIn, thread, pc, reading,
              visDone, visIn, open, surface, joining, destroying, fault>>

\* "unused": no thread object has this identity; "new": constructed, not
\* started; "loop": at the tests of run; "read": inside readMjpegFrame;
\* "frame": holds a decoded frame; "draw": between lockCanvas and
\* unlockCanvasAndPost; "error": posted the image error; "dead": terminated.
LivePCs == {"loop", "read", "frame", "draw", "error"}
PCs == {"unused", "new", "dead"} \cup LivePCs

Faults == {"none", "illegalThreadState", "nullPointer", "negativeArraySize",
           "nullCanvas"}

TypeOK ==
  /\ mRun \in [Cams -> BOOLEAN]
  /\ surfaceDone \in [Cams -> BOOLEAN]
  /\ suspending \in [Cams -> BOOLEAN]
  /\ mIn \in [Cams -> Streams \cup {NoStream}]
  /\ thread \in [Cams -> Slots \cup {NoThread}]
  /\ pc \in [Cams -> [Slots -> PCs]]
  /\ reading \in [Cams -> [Slots -> Streams \cup {NoStream}]]
  /\ visDone \in [Cams -> SUBSET BOOLEAN]
  /\ visIn \in [Cams -> SUBSET (Streams \cup {NoStream})]
  /\ open \in SUBSET Streams
  /\ surface \in [Cams -> BOOLEAN]
  /\ joining \in Cams \cup {NoCam}
  /\ destroying \in BOOLEAN
  /\ fault \in Faults

-----------------------------------------------------------------------------
(* Helpers *)

Live(c, k) == pc[c][k] \in LivePCs

Decoding(c) == \E k \in Slots : Live(c, k)

Alive == fault = "none"

\* Handlers and callbacks run one at a time on the UI thread.
UiIdle == Alive /\ joining = NoCam

\* Stream s can still be reached through view c.  A stream no view uses is
\* as good as one just constructed.
Uses(c, s) ==
  \/ mIn[c] = s
  \/ \E k \in Slots : reading[c][k] = s
  \/ Decoding(c) /\ s \in visIn[c]

Fresh(s) == s \in Streams /\ \A c \in Cams : ~Uses(c, s)

\* A write of a plain field: a running decoder may see it or what it saw.
Racy(vis, c, v) == IF Decoding(c) THEN vis[c] \cup {v} ELSE {v}

-----------------------------------------------------------------------------
(* UI thread: the public operations of a view *)

\* Mutant: the start forgets mRun = true.
StartThreadIdle(c, k, s) ==
  /\ thread' = [thread EXCEPT ![c] = k]
  /\ pc' = [pc EXCEPT ![c][k] = "loop"]
  /\ visIn' = [visIn EXCEPT ![c] = {s}]
  /\ visDone' = [visDone EXCEPT ![c] = {surfaceDone[c]}]
  /\ UNCHANGED <<mRun, fault>>

\* thread.start() on slot k, with s in mIn
StartThread(c, k, s) ==
  /\ mRun' = [mRun EXCEPT ![c] = TRUE]
  /\ thread' = [thread EXCEPT ![c] = k]
  /\ pc' = [pc EXCEPT ![c][k] = "loop"]
  /\ visIn' = [visIn EXCEPT ![c] = {s}]
  /\ visDone' = [visDone EXCEPT ![c] = {surfaceDone[c]}]
  /\ UNCHANGED fault

\* startPlayback, mIn # null: the thread made by init, or one made here.
StartPlayback(c, s) ==
  /\ \E k \in Slots :
       /\ \/ thread[c] = k /\ pc[c][k] = "new"
          \/ thread[c] = NoThread /\ pc[c][k] = "unused"
       /\ StartThread(c, k, s)
  /\ UNCHANGED suspending

\* startPlayback on a thread that was started before: start() throws.
StartTwice(c, s) ==
  /\ thread[c] # NoThread
  /\ pc[c][thread[c]] # "new"
  /\ mRun' = [mRun EXCEPT ![c] = TRUE]
  /\ fault' = "illegalThreadState"
  /\ visIn' = [visIn EXCEPT ![c] = Racy(visIn, c, s)]
  /\ UNCHANGED <<suspending, thread, pc, visDone>>

\* Mutant: resumePlayback forgets suspending = false.
ResumeAgain(c, s) ==
  /\ \E k \in Slots : pc[c][k] = "unused" /\ StartThread(c, k, s)
  /\ UNCHANGED suspending

\* resumePlayback, suspending and mIn # null: always a new thread object.
ResumePlayback(c, s) ==
  /\ \E k \in Slots : pc[c][k] = "unused" /\ StartThread(c, k, s)
  /\ suspending' = [suspending EXCEPT ![c] = FALSE]

\* setSource(null): both startPlayback and resumePlayback return at once.
SetSourceNull(c) ==
  /\ UiIdle
  /\ mIn' = [mIn EXCEPT ![c] = NoStream]
  /\ visIn' = [visIn EXCEPT ![c] = Racy(visIn, c, NoStream)]
  /\ UNCHANGED <<mRun, surfaceDone, suspending, thread, pc, reading, visDone,
                 open, surface, joining, destroying, fault>>

\* setSource(source) with a stream nobody else holds.
SetSource(c, s) ==
  /\ UiIdle
  /\ Fresh(s)
  /\ mIn' = [mIn EXCEPT ![c] = s]
  /\ open' = open \cup {s}
  /\ \/ ~suspending[c] /\ StartPlayback(c, s)
     \/ ~suspending[c] /\ StartTwice(c, s)
     \/ suspending[c] /\ ResumePlayback(c, s)
  /\ UNCHANGED <<surfaceDone, reading, surface, joining, destroying>>

\* Mutant: stopPlayback forgets mRun = false.
StopBeginRunning(c) ==
  /\ suspending' = [suspending EXCEPT ![c] = @ \/ mRun[c]]
  /\ joining' = c
  /\ UNCHANGED mRun

\* stopPlayback up to thread.join()
StopBegin(c) ==
  /\ suspending' = [suspending EXCEPT ![c] = @ \/ mRun[c]]
  /\ mRun' = [mRun EXCEPT ![c] = FALSE]
  /\ joining' = c

StopPlayback(c) ==
  /\ UiIdle
  /\ StopBegin(c)
  /\ UNCHANGED <<surfaceDone, mIn, thread, pc, reading, visDone, visIn, open,
                 surface, destroying, fault>>

\* Mutant: stopPlayback does not wait for the thread.
JoinedAtOnce(c) == TRUE

\* join() returns for a thread that is dead or was never started.
Joined(c) == thread[c] # NoThread => pc[c][thread[c]] \in {"new", "dead"}

\* The rest of stopPlayback: drop the thread, close the stream.  When
\* surfaceDestroyed made the call, its return takes the surface away.
StopEnd(c) ==
  /\ Alive
  /\ joining = c
  /\ Joined(c)
  /\ thread' = [thread EXCEPT ![c] = NoThread]
  /\ pc' = [pc EXCEPT ![c] = [k \in Slots |->
              IF Live(c, k) THEN pc[c][k] ELSE "unused"]]
  /\ open' = open \ {mIn[c]}
  /\ mIn' = [mIn EXCEPT ![c] = NoStream]
  /\ visIn' = [visIn EXCEPT ![c] = Racy(visIn, c, NoStream)]
  /\ joining' = NoCam
  /\ surface' = [surface EXCEPT ![c] = @ /\ ~destroying]
  /\ destroying' = FALSE
  /\ UNCHANGED <<mRun, surfaceDone, suspending, reading, visDone, fault>>

\* Mutant: surfaceCreated forgets surfaceDone = true.
SurfaceCreatedUnseen(c) ==
  /\ UiIdle
  /\ ~surface[c]
  /\ surface' = [surface EXCEPT ![c] = TRUE]
  /\ UNCHANGED <<mRun, surfaceDone, suspending, mIn, thread, pc, reading,
                 visDone, visIn, open, joining, destroying, fault>>

SurfaceCreated(c) ==
  /\ UiIdle
  /\ ~surface[c]
  /\ surface' = [surface EXCEPT ![c] = TRUE]
  /\ surfaceDone' = [surfaceDone EXCEPT ![c] = TRUE]
  /\ visDone' = [visDone EXCEPT ![c] = Racy(visDone, c, TRUE)]
  /\ UNCHANGED <<mRun, suspending, mIn, thread, pc, reading, visIn, open,
                 joining, destroying, fault>>

\* Mutant: surfaceDestroyed clears its flag but does not stop the decoder.
SurfaceDestroyedUnjoined(c) ==
  /\ UiIdle
  /\ surface[c]
  /\ surface' = [surface EXCEPT ![c] = FALSE]
  /\ surfaceDone' = [surfaceDone EXCEPT ![c] = FALSE]
  /\ visDone' = [visDone EXCEPT ![c] = Racy(visDone, c, FALSE)]
  /\ UNCHANGED <<mRun, suspending, mIn, thread, pc, reading, visIn, open,
                 joining, destroying, fault>>

SurfaceDestroyed(c) ==
  /\ UiIdle
  /\ surface[c]
  /\ surfaceDone' = [surfaceDone EXCEPT ![c] = FALSE]
  /\ visDone' = [visDone EXCEPT ![c] = Racy(visDone, c, FALSE)]
  /\ StopBegin(c)
  /\ destroying' = TRUE
  /\ UNCHANGED <<mIn, thread, pc, reading, visIn, open, surface, fault>>

-----------------------------------------------------------------------------
(* Decoder threads: MjpegViewThread.run *)

\* Every variable but pc, reading and fault belongs to somebody else.
DecoderStep(c, k, from, to, s) ==
  /\ Alive
  /\ pc[c][k] = from
  /\ pc' = [pc EXCEPT ![c][k] = to]
  /\ reading' = [reading EXCEPT ![c][k] = s]
  /\ UNCHANGED <<fields, visDone, visIn, open, surface, joining, destroying>>

\* while (mRun) sees FALSE.
ExitLoop(c, k) ==
  /\ ~mRun[c]
  /\ DecoderStep(c, k, "loop", "dead", NoStream)
  /\ UNCHANGED fault

\* while (mRun) and if (surfaceDone) see TRUE; mIn is read and dereferenced.
BeginRead(c, k) ==
  /\ TRUE \in visDone[c]
  /\ \E s \in visIn[c] \ {NoStream} : DecoderStep(c, k, "loop", "read", s)
  /\ UNCHANGED fault

\* The same with mIn read as null: an uncaught NullPointerException.
BeginReadNull(c, k) ==
  /\ TRUE \in visDone[c]
  /\ NoStream \in visIn[c]
  /\ DecoderStep(c, k, "loop", "dead", NoStream)
  /\ fault' = "nullPointer"

\* readMjpegFrame returns a bitmap ...
FrameRead(c, k) ==
  DecoderStep(c, k, "read", "frame", NoStream) /\ UNCHANGED fault

\* ... or null: setImageError is posted and run returns ...
FrameNull(c, k) ==
  DecoderStep(c, k, "read", "error", NoStream) /\ UNCHANGED fault

\* ... or throws IOException, which is swallowed: back to the loop ...
FrameIOException(c, k) ==
  DecoderStep(c, k, "read", "loop", NoStream) /\ UNCHANGED fault

\* ... or finds no start marker and throws NegativeArraySizeException.
FrameNoMarker(c, k) ==
  DecoderStep(c, k, "read", "dead", NoStream) /\ fault' = "negativeArraySize"

\* lockCanvas answers null once the surface is gone; drawing then throws.
LockCanvas(c, k) ==
  IF surface[c]
    THEN DecoderStep(c, k, "frame", "draw", NoStream) /\ UNCHANGED fault
    ELSE DecoderStep(c, k, "frame", "dead", NoStream) /\ fault' = "nullCanvas"

UnlockCanvas(c, k) ==
  DecoderStep(c, k, "draw", "loop", NoStream) /\ UNCHANGED fault

ReturnAfterError(c, k) ==
  DecoderStep(c, k, "error", "dead", NoStream) /\ UNCHANGED fault

Decoder(c, k) ==
  \/ ExitLoop(c, k)  \/ BeginRead(c, k)  \/ BeginReadNull(c, k)
  \/ FrameRead(c, k) \/ FrameNull(c, k)  \/ FrameIOException(c, k)
  \/ FrameNoMarker(c, k)
  \/ LockCanvas(c, k) \/ UnlockCanvas(c, k) \/ ReturnAfterError(c, k)

-----------------------------------------------------------------------------
(* Specification *)

\* The constructor's init: one unstarted thread, no stream, no surface yet.
Init ==
  /\ mRun = [c \in Cams |-> FALSE]
  /\ surfaceDone = [c \in Cams |-> FALSE]
  /\ suspending = [c \in Cams |-> FALSE]
  /\ mIn = [c \in Cams |-> NoStream]
  /\ \E k \in Slots :
       /\ thread = [c \in Cams |-> k]
       /\ pc = [c \in Cams |-> [j \in Slots |->
                  IF j = k THEN "new" ELSE "unused"]]
  /\ reading = [c \in Cams |-> [k \in Slots |-> NoStream]]
  /\ visDone = [c \in Cams |-> {FALSE}]
  /\ visIn = [c \in Cams |-> {NoStream}]
  /\ open = {}
  /\ surface = [c \in Cams |-> FALSE]
  /\ joining = NoCam
  /\ destroying = FALSE
  /\ fault = "none"

Next ==
  \E c \in Cams :
    \/ SetSourceNull(c)
    \/ \E s \in Streams : SetSource(c, s)
    \/ StopPlayback(c)
    \/ StopEnd(c)
    \/ SurfaceCreated(c)
    \/ SurfaceDestroyed(c)
    \/ \E k \in Slots : Decoder(c, k)

Spec == Init /\ [][Next]_viewVars

\* Scheduling: a decoder that can go on goes on, and the UI thread returns
\* from a finished join.  Two assumptions are named: a decoder that keeps
\* testing mRun and surfaceDone some time sees their latest value (SF on
\* ExitLoop, WF on BeginRead), which the Java memory model does not promise
\* for plain fields; nothing is assumed of the network.
DecoderFairness(c, k) ==
  /\ SF_viewVars(ExitLoop(c, k))
  /\ WF_viewVars(BeginRead(c, k))
  /\ WF_viewVars(LockCanvas(c, k))
  /\ WF_viewVars(UnlockCanvas(c, k))
  /\ WF_viewVars(ReturnAfterError(c, k))

Fairness ==
  \A c \in Cams : WF_viewVars(StopEnd(c)) /\ \A k \in Slots : DecoderFairness(c, k)

FairSpec == Spec /\ Fairness

-----------------------------------------------------------------------------
(* Properties *)

\* A view never has two decoder threads at work on its surface and stream,
\* although startPlayback and resumePlayback both overwrite the field thread.
OneDecoder ==
  \A c \in Cams, j, k \in Slots : Live(c, j) /\ Live(c, k) => j = k

\* No decoder touches the surface after surfaceDestroyed has returned: the
\* surface is there whenever a frame is being drawn, and lockCanvas is never
\* called on a surface that is gone, whatever stale surfaceDone it has read.
NoDrawWithoutSurface ==
  /\ \A c \in Cams, k \in Slots : pc[c][k] \in {"frame", "draw"} => surface[c]
  /\ fault # "nullCanvas"

\* stopPlayback closes the stream only when no decoder is inside a read of
\* it or can still reach it through a stale mIn.
NoReadAfterClose ==
  \A c \in Cams, k \in Slots :
    Live(c, k) => /\ pc[c][k] = "read" => reading[c][k] \in open
                  /\ visIn[c] \subseteq open \cup {NoStream}

\* The two views never share a stream: closing one view's stream cannot cut
\* the other's.
StreamsApart ==
  \A c, d \in Cams, s \in Streams : Uses(c, s) /\ Uses(d, s) => c = d

\* A view that is marked suspended has let go of its decoder, so that
\* resumePlayback may overwrite the field thread without losing a live one.
\* Only the stop in progress may still be waiting for it.
SuspendedIsQuiet ==
  \A c \in Cams : suspending[c] /\ joining # c =>
    thread[c] = NoThread /\ ~Decoding(c) /\ ~mRun[c]

\* isStreaming (mRun) never misses a running decoder: onPause, which skips a
\* view that is not streaming, skips no decoder.
StreamingSeesDecoder ==
  \A c \in Cams : Decoding(c) /\ joining # c => mRun[c]

\* The views whose canvas is locked.
Drawing == [c \in Cams |-> \E k \in Slots : pc[c][k] = "draw"]

\* Each view keeps the window system's contract: the surface, and the canvas
\* held by whichever decoder is drawing, behave as SurfaceUse allows.
Contract == INSTANCE SurfaceUse WITH
  Views <- Cams,
  exists <- surface,
  drawing <- Drawing

SurfaceContract == Contract!Spec

\* If no network read blocks for ever, a call of stopPlayback (and so
\* onPause and surfaceDestroyed) returns, unless the process dies first.
StopReturns ==
  (\A c \in Cams, k \in Slots : []<>(pc[c][k] # "read"))
    => (joining # NoCam ~> (joining = NoCam \/ ~Alive))

\* A view with a source and a surface gets to read from the stream, whichever
\* of the two came first, unless it is stopped or loses its decoder.
SourceIsRead ==
  \A c \in Cams :
    (mRun[c] /\ surface[c] /\ Alive) ~>
      \/ \E k \in Slots : pc[c][k] = "read"
      \/ ~mRun[c] \/ ~surface[c] \/ ~Alive
      \/ \E k \in Slots : pc[c][k] \in {"error", "dead"}

-----------------------------------------------------------------------------
(* The inductive invariant behind the safety properties *)

\* The field thread is the only thread object with an identity.
ThreadReferenced ==
  \A c \in Cams, k \in Slots : pc[c][k] # "unused" <=> thread[c] = k

\* The flags suspending and mRun, and the stop in progress.
FlagsAgree ==
  \A c \in Cams :
    /\ suspending[c] => ~mRun[c] /\ (thread[c] = NoThread \/ joining = c)
    /\ joining = c => ~mRun[c]
    /\ \A k \in Slots : Live(c, k) /\ joining # c => mRun[c]

\* Whatever a decoder may have read from surfaceDone, TRUE means a surface.
SurfaceSeen ==
  /\ fault # "nullCanvas"
  /\ destroying => joining # NoCam
  /\ \A c \in Cams :
       /\ surfaceDone[c] => surface[c]
       /\ destroying /\ joining = c => ~surfaceDone[c]
       /\ \A k \in Slots :
            /\ Live(c, k) /\ TRUE \in visDone[c] => surface[c]
            /\ pc[c][k] \in {"read", "frame", "draw"} => surface[c]

\* Whatever a decoder may have read from mIn is open, or null.
StreamsOpen ==
  \A c \in Cams :
    /\ mIn[c] \in open \cup {NoStream}
    /\ \A k \in Slots :
         /\ Live(c, k) => visIn[c] \subseteq open \cup {NoStream}
         /\ pc[c][k] = "read" => reading[c][k] \in open
         /\ pc[c][k] # "read" => reading[c][k] = NoStream

\* Every step of the views keeps this conjunction: the flags tell the UI
\* thread about the one decoder, which lets a join stand for "no decoder".
IndInv ==
  /\ TypeOK
  /\ ThreadReferenced
  /\ FlagsAgree
  /\ SurfaceSeen
  /\ StreamsOpen
  /\ StreamsApart
=============================================================================

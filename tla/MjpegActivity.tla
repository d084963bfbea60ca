---------------------------- MODULE MjpegActivity ----------------------------
(***************************************************************************)
(* The main activity (MjpegActivity.java), from the end of its onCreate to *)
(* its onDestroy: the two views, the DoRead tasks that connect them on     *)
(* background threads, the messages posted to the main looper, and the     *)
(* lifecycle callbacks.  It is the client of MjpegView.                    *)
(*                                                                         *)
(* Lifecycle and surface callbacks come from the window system at any      *)
(* moment the UI thread is free; results of DoRead and image errors are    *)
(* posted to the looper and handled in the order they were posted.         *)
(***************************************************************************)
EXTENDS MjpegView, Sequences

CONSTANT MaxReads  \* bound: DoReads of one view not yet handled

Left == 1
Right == 2

ASSUME ActivityAssumption ==
  Cams = {Left, Right} /\ MaxReads \in Nat \ {0}

VARIABLES
  act,            \* lifecycle state of the activity
  actSuspending,  \* field suspending of MjpegActivity
  pausing,        \* the view onPause is at, or 0 outside onPause
  reads,          \* per view, the DoReads still in doInBackground
  looper,         \* messages posted to the main looper
  label,          \* what tvLeft and tvRight show
  doubleRead      \* history: views given a DoRead they had no room for

actVars == <<act, actSuspending, pausing, reads, looper, label, doubleRead>>
vars == <<viewVars, actVars>>

Messages == [kind : {"connected", "failed", "imageError"}, cam : Cams]
Message(kind, c) == [kind |-> kind, cam |-> c]

Labels == {"connecting", "connected", "disconnected", "imageError"}

ActTypeOK ==
  /\ act \in {"created", "resumed", "paused", "destroyed"}
  /\ actSuspending \in BOOLEAN
  /\ pausing \in Cams \cup {0}
  /\ reads \in [Cams -> 0..MaxReads]
  /\ looper \in Seq(Messages)
  /\ label \in [Cams -> Labels]
  /\ doubleRead \in SUBSET Cams

-----------------------------------------------------------------------------
(* Helpers *)

Posted(kind, c) == \E i \in DOMAIN looper : looper[i] = Message(kind, c)

\* DoReads of view c whose onPostExecute has not run.
Outstanding(c) ==
  reads[c] > 0 \/ Posted("connected", c) \/ Posted("failed", c)

\* A view has room for a DoRead when it waits for a source and none is on
\* its way: suspended, or never started.
NeedsRead(c) ==
  /\ ~Outstanding(c)
  /\ suspending[c] \/ (thread[c] # NoThread => pc[c][thread[c]] = "new")

\* The stream object a DoRead brings: one nobody else can reach.
NewStream == CHOOSE s \in Streams : Fresh(s)

\* The UI thread may take its next callback or message.
LooperIdle == UiIdle /\ pausing = 0

-----------------------------------------------------------------------------
(* Lifecycle callbacks *)

\* The views onResume starts a DoRead for: both tests read the one field
\* suspending, and the left view's branch clears it.
Reconnected ==
  LET left  == actSuspending
      right == actSuspending /\ ~left
  IN  {c \in Cams : (c = Left /\ left) \/ (c = Right /\ right)}

OnResume ==
  /\ LooperIdle
  /\ act \in {"created", "paused"}
  /\ act' = "resumed"
  /\ \A c \in Reconnected : reads[c] < MaxReads
  /\ reads' = [c \in Cams |-> reads[c] + IF c \in Reconnected THEN 1 ELSE 0]
  /\ doubleRead' = doubleRead \cup {c \in Reconnected : ~NeedsRead(c)}
  /\ actSuspending' = FALSE
  /\ UNCHANGED <<viewVars, pausing, looper, label>>

OnPause ==
  /\ LooperIdle
  /\ act = "resumed"
  /\ pausing' = Left
  /\ UNCHANGED <<viewVars, act, actSuspending, reads, looper, label, doubleRead>>

\* onPause goes on from view c: to the right view, or it is done.
PauseNext(c) ==
  /\ pausing' = IF c = Left THEN Right ELSE 0
  /\ act' = IF c = Left THEN act ELSE "paused"
  /\ UNCHANGED <<reads, looper, label, doubleRead>>

\* Mutant: onPause goes past a view without asking isStreaming.
PauseSkipView(c) ==
  /\ UiIdle
  /\ pausing = c
  /\ PauseNext(c)
  /\ UNCHANGED <<viewVars, actSuspending>>

PauseIdleView(c) ==
  /\ UiIdle
  /\ pausing = c
  /\ ~mRun[c]
  /\ PauseNext(c)
  /\ UNCHANGED <<viewVars, actSuspending>>

PauseStopView(c) ==
  /\ pausing = c
  /\ mRun[c]
  /\ StopPlayback(c)
  /\ UNCHANGED actVars

PauseViewStopped(c) ==
  /\ pausing = c
  /\ StopEnd(c)
  /\ actSuspending' = TRUE
  /\ PauseNext(c)

\* Mutant: onDestroy closes the views' streams itself.
OnDestroyClosing ==
  /\ LooperIdle
  /\ act = "paused"
  /\ act' = "destroyed"
  /\ open' = {}
  /\ UNCHANGED <<fields, pc, reading, visDone, visIn, surface, joining,
                 destroying, fault, actSuspending, pausing, reads, looper,
                 label, doubleRead>>

OnDestroy ==
  /\ LooperIdle
  /\ act = "paused"
  /\ act' = "destroyed"
  /\ UNCHANGED <<viewVars, actSuspending, pausing, reads, looper, label,
                 doubleRead>>

\* The window's surfaces come after the first onResume; they may go at any
\* time, during a pause or after onDestroy.
ActSurfaceCreated(c) ==
  /\ pausing = 0
  /\ act \in {"resumed", "paused"}
  /\ SurfaceCreated(c)
  /\ UNCHANGED actVars

ActSurfaceDestroyed(c) ==
  /\ pausing = 0
  /\ SurfaceDestroyed(c)
  /\ UNCHANGED actVars

ActSurfaceGone(c) ==
  /\ pausing = 0
  /\ StopEnd(c)
  /\ UNCHANGED actVars

-----------------------------------------------------------------------------
(* DoRead and the messages of the looper *)

\* doInBackground returns a stream, or null after an IOException; the result
\* is posted to the looper.
DoInBackground(c, kind) ==
  /\ Alive
  /\ reads[c] > 0
  /\ reads' = [reads EXCEPT ![c] = @ - 1]
  /\ looper' = Append(looper, Message(kind, c))
  /\ UNCHANGED <<viewVars, act, actSuspending, pausing, label, doubleRead>>

Handle(kind, c) ==
  /\ LooperIdle
  /\ looper # <<>>
  /\ Head(looper) = Message(kind, c)
  /\ looper' = Tail(looper)
  /\ UNCHANGED <<act, actSuspending, pausing, reads, doubleRead>>

\* Mutant: onPostExecute sets the source but not the status text.
OnConnectedSilently(c) ==
  /\ Handle("connected", c)
  /\ SetSource(c, NewStream)
  /\ UNCHANGED label

\* onPostExecute with a stream: setSource, then the status text; no text
\* when setSource throws.
OnConnected(c) ==
  /\ Handle("connected", c)
  /\ SetSource(c, NewStream)
  /\ label' = IF fault' = "none" THEN [label EXCEPT ![c] = "connected"] ELSE label

\* Mutant: a failed read clears the source of the left view.
OnFailedLeft(c) ==
  /\ Handle("failed", c)
  /\ SetSourceNull(Left)
  /\ label' = [label EXCEPT ![c] = "disconnected"]

\* onPostExecute with null
OnFailed(c) ==
  /\ Handle("failed", c)
  /\ SetSourceNull(c)
  /\ label' = [label EXCEPT ![c] = "disconnected"]

\* Mutant: every image error is shown for the left view.
OnImageErrorLeft(c) ==
  /\ Handle("imageError", c)
  /\ label' = [label EXCEPT ![Left] = "imageError"]
  /\ UNCHANGED viewVars

\* the Runnable of setImageError
OnImageError(c) ==
  /\ Handle("imageError", c)
  /\ label' = [label EXCEPT ![c] = "imageError"]
  /\ UNCHANGED viewVars

\* Mutant: run returns on a null frame without posting the error.
ActDecoderSilent(c, k) ==
  /\ Decoder(c, k)
  /\ UNCHANGED actVars

\* A decoder's step; a null frame also posts the image error.
ActDecoder(c, k) ==
  /\ \/ FrameNull(c, k) /\ looper' = Append(looper, Message("imageError", c))
     \/ /\ \/ ExitLoop(c, k)  \/ BeginRead(c, k)  \/ BeginReadNull(c, k)
           \/ FrameRead(c, k) \/ FrameIOException(c, k) \/ FrameNoMarker(c, k)
           \/ LockCanvas(c, k) \/ UnlockCanvas(c, k) \/ ReturnAfterError(c, k)
        /\ UNCHANGED looper
  /\ UNCHANGED <<act, actSuspending, pausing, reads, label, doubleRead>>

-----------------------------------------------------------------------------
(* Specification *)

\* The end of onCreate: both views made, both DoReads started.
ActInit ==
  /\ Init
  /\ act = "created"
  /\ actSuspending = FALSE
  /\ pausing = 0
  /\ reads = [c \in Cams |-> 1]
  /\ looper = <<>>
  /\ label = [c \in Cams |-> "connecting"]
  /\ doubleRead = {}

Looper(c) == OnConnected(c) \/ OnFailed(c) \/ OnImageError(c)

PauseStep(c) == PauseIdleView(c) \/ PauseStopView(c) \/ PauseViewStopped(c)

Lifecycle == OnResume \/ OnPause \/ OnDestroy

ActNext ==
  \/ Lifecycle
  \/ \E c \in Cams :
       \/ PauseStep(c)
       \/ ActSurfaceCreated(c) \/ ActSurfaceDestroyed(c) \/ ActSurfaceGone(c)
       \/ DoInBackground(c, "connected") \/ DoInBackground(c, "failed")
       \/ Looper(c)
       \/ \E k \in Slots : ActDecoder(c, k)

ActSpec == ActInit /\ [][ActNext]_vars

\* The looper gets to every message (strongly fair: it is busy now and then,
\* and callbacks are messages of the same queue); onPause and the callbacks
\* run on; the decoders are scheduled as in MjpegView.  Neither the user nor
\* the network is fair.
ActFairness ==
  \A c \in Cams :
    /\ SF_vars(Looper(c))
    /\ WF_vars(PauseStep(c))
    /\ WF_vars(ActSurfaceGone(c))
    /\ \A k \in Slots :
         /\ SF_vars(ExitLoop(c, k) /\ ActDecoder(c, k))
         /\ WF_vars(LockCanvas(c, k) /\ ActDecoder(c, k))
         /\ WF_vars(UnlockCanvas(c, k) /\ ActDecoder(c, k))
         /\ WF_vars(ReturnAfterError(c, k) /\ ActDecoder(c, k))

ActFairSpec == ActSpec /\ ActFairness

-----------------------------------------------------------------------------
(* Properties *)

\* The process dies of a second start of a decoder, or of a source nulled
\* under a running one, only after a view was given a DoRead it had no room
\* for: one was still outstanding or its decoder was there already.
CrashNeedsDoubleRead ==
  fault \in {"illegalThreadState", "nullPointer"} => doubleRead # {}

\* A decoder that died by itself is never presented as connected: its error
\* is shown or still queued, or a later failed read has taken its place.
DeadDecoderShown ==
  \A c \in Cams, k \in Slots :
    /\ Alive /\ joining # c
    /\ pc[c][k] \in {"error", "dead"}
    => Posted("imageError", c) \/ label[c] \in {"imageError", "disconnected"}

\* The activity's suspending is a promise to reconnect made by onPause: it is
\* never set while the activity runs, and as long as nothing was connected
\* behind its back some view really is suspended and waits for onResume.
SuspendingKept ==
  /\ actSuspending /\ act = "resumed" => pausing # 0
  /\ actSuspending /\ doubleRead = {} /\ act = "paused" =>
       \E c \in Cams : suspending[c]

\* When onPause returns, no decoder is left running and no stream open, even
\* with results that were posted while it waited for a join.
PauseLeavesNothing ==
  [][act = "resumed" /\ act' = "paused" =>
       \A c \in Cams : ~Decoding(c)' /\ mIn'[c] \notin open']_vars

\* The activity uses its views as MjpegView specifies them.
ViewSpec == Spec

\* If no network read blocks for ever, the error a decoder posted is shown for
\* its view, even during or after a pause, unless the process dies first.
ErrorIsShown ==
  (\A c \in Cams, k \in Slots : []<>(pc[c][k] # "read")) =>
    \A c \in Cams :
      Posted("imageError", c)
        ~> (label[c] = "imageError" \/ ~Alive)

\* If no network read blocks for ever, an answered DoRead ends with a status
\* text for its view, even when it is answered during a pause.
ReadIsReported ==
  (\A c \in Cams, k \in Slots : []<>(pc[c][k] # "read")) =>
    \A c \in Cams :
      (Posted("connected", c) \/ Posted("failed", c))
        ~> (label[c] \in {"connected", "disconnected"} \/ ~Alive)

\* The application streams from two cameras (README.md:6): when onResume
\* reconnects a view, it reconnects every view onPause suspended.
ResumeReconnectsBoth ==
  [][\A c, d \in Cams :
       /\ act = "paused" /\ act' = "resumed"
       /\ reads'[c] > reads[c]
       /\ suspending[d] /\ ~Outstanding(d)
       => reads'[d] > reads[d]]_vars
=============================================================================

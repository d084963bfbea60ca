------------------------ MODULE MjpegActivityProofs ------------------------
(***************************************************************************)
(* Machine-checked theorems about MjpegView, for every set of views,       *)
(* thread identities and streams, and about MjpegActivity: it is a client  *)
(* of its views that MjpegView allows, so what is proved of the views      *)
(* under any client holds in the application.                              *)
(***************************************************************************)
EXTENDS MjpegActivity, TLAPS

USE NullsAssumption

-----------------------------------------------------------------------------
(* The initial states *)

\* The state the constructors leave satisfies the invariant.
LEMMA InitInv == Init => IndInv
<1> SUFFICES ASSUME Init PROVE IndInv
  OBVIOUS
<1>1. TypeOK
  <2>1. /\ thread \in [Cams -> Slots \cup {NoThread}]
        /\ pc \in [Cams -> [Slots -> PCs]]
    <3>1. PICK k \in Slots :
            /\ thread = [c \in Cams |-> k]
            /\ pc = [c \in Cams |-> [j \in Slots |->
                       IF j = k THEN "new" ELSE "unused"]]
      BY DEF Init
    <3> QED
      BY <3>1 DEF PCs
  <2>2. /\ reading \in [Cams -> [Slots -> Streams \cup {NoStream}]]
        /\ visDone \in [Cams -> SUBSET BOOLEAN]
        /\ visIn \in [Cams -> SUBSET (Streams \cup {NoStream})]
    BY DEF Init
  <2> QED
    BY <2>1, <2>2 DEF Init, TypeOK, Faults
<1>2. ThreadReferenced
  BY DEF Init, ThreadReferenced
<1>3. \A c \in Cams, k \in Slots : ~Live(c, k)
  BY DEF Init, Live, LivePCs
<1>4. FlagsAgree
  BY <1>3 DEF Init, FlagsAgree
<1>5. SurfaceSeen
  BY <1>3 DEF Init, SurfaceSeen
<1>6. StreamsOpen
  BY <1>3 DEF Init, StreamsOpen
<1>7. StreamsApart
  BY <1>3 DEF Init, StreamsApart, Uses, Decoding
<1> QED
  BY <1>1, <1>2, <1>4, <1>5, <1>6, <1>7 DEF IndInv

-----------------------------------------------------------------------------
(* Facts about one view *)

\* A view whose field thread is null, unstarted or dead has no live decoder.
LEMMA NoLiveDecoder ==
  ASSUME ThreadReferenced, NEW c \in Cams, Joined(c)
  PROVE  \A k \in Slots : ~Live(c, k)
BY DEF ThreadReferenced, Joined, Live, LivePCs

\* Live decoders of one view are the same decoder.
LEMMA OnlyOneLive ==
  ASSUME ThreadReferenced, NEW c \in Cams, NEW j \in Slots, NEW k \in Slots,
         Live(c, j), Live(c, k)
  PROVE  j = k
BY DEF ThreadReferenced, Live, LivePCs

-----------------------------------------------------------------------------
(* Decoder threads *)

\* Every step of a decoder goes from a live place to a live place or death,
\* keeps to a surface it has seen, and reads a stream it may have seen.
LEMMA DecoderStepInv ==
  ASSUME IndInv,
         NEW c \in Cams, NEW k \in Slots,
         NEW from \in LivePCs, NEW to \in LivePCs \cup {"dead"},
         NEW s \in Streams \cup {NoStream},
         DecoderStep(c, k, from, to, s),
         to \in {"read", "frame", "draw"} => surface[c],
         to = "read" => s \in visIn[c] \ {NoStream},
         to # "read" => s = NoStream,
         fault' \in Faults \ {"nullCanvas"}
  PROVE  IndInv'
<1> USE DEF DecoderStep, fields
<1>1. TypeOK /\ ThreadReferenced /\ FlagsAgree /\ SurfaceSeen /\ StreamsOpen
      /\ StreamsApart
  BY DEF IndInv
<1>2. /\ pc' \in [Cams -> [Slots -> PCs]]
      /\ pc'[c][k] = to /\ pc[c][k] = from
      /\ \A d \in Cams, j \in Slots :
           d # c \/ j # k => pc'[d][j] = pc[d][j]
  BY <1>1 DEF TypeOK, PCs
<1>3. /\ reading' \in [Cams -> [Slots -> Streams \cup {NoStream}]]
      /\ reading'[c][k] = s
      /\ \A d \in Cams, j \in Slots :
           d # c \/ j # k => reading'[d][j] = reading[d][j]
  BY <1>1 DEF TypeOK
<1>4. Live(c, k)
  BY <1>2 DEF Live
<1>5. \A d \in Cams, j \in Slots : Live(d, j)' => Live(d, j)
  BY <1>2, <1>4 DEF Live
<1>6. TypeOK'
  BY <1>1, <1>2, <1>3 DEF TypeOK
<1>7. ThreadReferenced'
  BY <1>1, <1>2 DEF ThreadReferenced, LivePCs
<1>8. FlagsAgree'
  BY <1>1, <1>5 DEF FlagsAgree
<1>9. SurfaceSeen'
  BY <1>1, <1>2, <1>5 DEF SurfaceSeen
<1>10. StreamsOpen'
  <2>1. visIn[c] \subseteq open \cup {NoStream}
    BY <1>1, <1>4 DEF StreamsOpen
  <2> QED
    BY <1>1, <1>2, <1>3, <1>5, <2>1 DEF StreamsOpen
<1>11. StreamsApart'
  <2>1. \A d \in Cams, r \in Streams : Uses(d, r)' => Uses(d, r)
    <3> SUFFICES ASSUME NEW d \in Cams, NEW r \in Streams, Uses(d, r)'
                 PROVE  Uses(d, r)
      OBVIOUS
    <3>1. CASE mIn'[d] = r
      BY <3>1 DEF Uses
    <3>2. CASE \E j \in Slots : reading'[d][j] = r
      <4>1. PICK j \in Slots : reading'[d][j] = r
        BY <3>2
      <4>2. CASE d = c /\ j = k
        BY <4>1, <4>2, <1>3, <1>4 DEF Uses, Decoding
      <4> QED
        BY <4>1, <4>2, <1>3 DEF Uses
    <3>3. CASE Decoding(d)' /\ r \in visIn'[d]
      BY <3>3, <1>5 DEF Uses, Decoding
    <3> QED
      BY <3>1, <3>2, <3>3 DEF Uses
  <2> QED
    BY <1>1, <2>1 DEF StreamsApart
<1> QED
  BY <1>6, <1>7, <1>8, <1>9, <1>10, <1>11 DEF IndInv

\* One step per action of the decoder.
LEMMA DecoderInv ==
  ASSUME IndInv, NEW c \in Cams, NEW k \in Slots, Decoder(c, k)
  PROVE  IndInv'
<1>1. /\ fault \in Faults \ {"nullCanvas"}
      /\ visIn[c] \subseteq Streams \cup {NoStream}
      /\ pc[c][k] \in {"read", "frame", "draw"} => surface[c]
      /\ Live(c, k) /\ TRUE \in visDone[c] => surface[c]
  BY DEF IndInv, TypeOK, SurfaceSeen
<1>2. CASE ExitLoop(c, k)
  <2>1. DecoderStep(c, k, "loop", "dead", NoStream) /\ fault' = fault
    BY <1>2 DEF ExitLoop
  <2> QED
    BY <1>1, <2>1, DecoderStepInv DEF LivePCs
<1>3. CASE BeginRead(c, k)
  <2>1. PICK s \in visIn[c] \ {NoStream} :
          DecoderStep(c, k, "loop", "read", s)
    BY <1>3 DEF BeginRead
  <2>2. fault' = fault /\ TRUE \in visDone[c]
    BY <1>3 DEF BeginRead
  <2>3. Live(c, k)
    BY <2>1 DEF DecoderStep, Live, LivePCs
  <2> QED
    BY <1>1, <2>1, <2>2, <2>3, DecoderStepInv DEF LivePCs
<1>4. CASE BeginReadNull(c, k)
  <2>1. DecoderStep(c, k, "loop", "dead", NoStream) /\ fault' = "nullPointer"
    BY <1>4 DEF BeginReadNull
  <2> QED
    BY <2>1, DecoderStepInv DEF LivePCs, Faults
<1>5. CASE FrameRead(c, k)
  <2>1. DecoderStep(c, k, "read", "frame", NoStream) /\ fault' = fault
    BY <1>5 DEF FrameRead
  <2>2. surface[c]
    BY <1>1, <2>1 DEF DecoderStep
  <2> QED
    BY <1>1, <2>1, <2>2, DecoderStepInv DEF LivePCs
<1>6. CASE FrameNull(c, k)
  <2>1. DecoderStep(c, k, "read", "error", NoStream) /\ fault' = fault
    BY <1>6 DEF FrameNull
  <2> QED
    BY <1>1, <2>1, DecoderStepInv DEF LivePCs
<1>7. CASE FrameIOException(c, k)
  <2>1. DecoderStep(c, k, "read", "loop", NoStream) /\ fault' = fault
    BY <1>7 DEF FrameIOException
  <2> QED
    BY <1>1, <2>1, DecoderStepInv DEF LivePCs
<1>8. CASE FrameNoMarker(c, k)
  <2>1. /\ DecoderStep(c, k, "read", "dead", NoStream)
        /\ fault' = "negativeArraySize"
    BY <1>8 DEF FrameNoMarker
  <2> QED
    BY <2>1, DecoderStepInv DEF LivePCs, Faults
<1>9. CASE LockCanvas(c, k)
  <2>1. pc[c][k] = "frame"
    BY <1>9 DEF LockCanvas, DecoderStep
  <2>2. surface[c]
    BY <1>1, <2>1
  <2>3. DecoderStep(c, k, "frame", "draw", NoStream) /\ fault' = fault
    BY <1>9, <2>2 DEF LockCanvas
  <2> QED
    BY <1>1, <2>2, <2>3, DecoderStepInv DEF LivePCs
<1>10. CASE UnlockCanvas(c, k)
  <2>1. DecoderStep(c, k, "draw", "loop", NoStream) /\ fault' = fault
    BY <1>10 DEF UnlockCanvas
  <2> QED
    BY <1>1, <2>1, DecoderStepInv DEF LivePCs
<1>11. CASE ReturnAfterError(c, k)
  <2>1. DecoderStep(c, k, "error", "dead", NoStream) /\ fault' = fault
    BY <1>11 DEF ReturnAfterError
  <2> QED
    BY <1>1, <2>1, DecoderStepInv DEF LivePCs
<1> QED
  BY <1>2, <1>3, <1>4, <1>5, <1>6, <1>7, <1>8, <1>9, <1>10, <1>11 DEF Decoder

-----------------------------------------------------------------------------
(* UI thread *)

\* setSource(null) keeps the invariant: a running decoder may now find null.
LEMMA SetSourceNullInv ==
  ASSUME IndInv, NEW c \in Cams, SetSourceNull(c)
  PROVE  IndInv'
<1> USE DEF SetSourceNull
<1>1. TypeOK /\ ThreadReferenced /\ FlagsAgree /\ SurfaceSeen /\ StreamsOpen
      /\ StreamsApart
  BY DEF IndInv
<1>2. \A d \in Cams, j \in Slots : Live(d, j)' <=> Live(d, j)
  BY DEF Live
<1>3. \A d \in Cams : Decoding(d)' <=> Decoding(d)
  BY <1>2 DEF Decoding
<1>4. /\ visIn' \in [Cams -> SUBSET (Streams \cup {NoStream})]
      /\ \A d \in Cams : visIn'[d] \subseteq visIn[d] \cup {NoStream}
  BY <1>1 DEF TypeOK, Racy
<1>5. /\ mIn' \in [Cams -> Streams \cup {NoStream}]
      /\ \A d \in Cams : mIn'[d] \in {mIn[d], NoStream}
  BY <1>1 DEF TypeOK
<1>6. TypeOK'
  BY <1>1, <1>4, <1>5 DEF TypeOK
<1>7. ThreadReferenced'
  BY <1>1 DEF ThreadReferenced
<1>8. FlagsAgree'
  BY <1>1, <1>2 DEF FlagsAgree
<1>9. SurfaceSeen'
  BY <1>1, <1>2 DEF SurfaceSeen
<1>10. StreamsOpen'
  BY <1>1, <1>2, <1>4, <1>5 DEF StreamsOpen
<1>11. StreamsApart'
  <2>1. \A d \in Cams, r \in Streams : Uses(d, r)' => Uses(d, r)
    BY <1>3, <1>4, <1>5 DEF Uses
  <2> QED
    BY <1>1, <2>1 DEF StreamsApart
<1> QED
  BY <1>6, <1>7, <1>8, <1>9, <1>10, <1>11 DEF IndInv

\* stopPlayback and the surface callbacks write flags only; what they have in
\* common is that no thread and no stream moves.
LEMMA StreamsUntouched ==
  ASSUME IndInv, UNCHANGED <<mIn, thread, pc, reading, visIn, open>>
  PROVE  /\ ThreadReferenced' /\ StreamsOpen' /\ StreamsApart'
         /\ \A d \in Cams, j \in Slots : Live(d, j)' <=> Live(d, j)
<1>1. ThreadReferenced /\ StreamsOpen /\ StreamsApart
  BY DEF IndInv
<1>2. \A d \in Cams, j \in Slots : Live(d, j)' <=> Live(d, j)
  BY DEF Live
<1>3. \A d \in Cams, r \in Streams : Uses(d, r)' => Uses(d, r)
  BY <1>2 DEF Uses, Decoding
<1>4. ThreadReferenced'
  BY <1>1 DEF ThreadReferenced
<1>5. StreamsOpen'
  BY <1>1, <1>2 DEF StreamsOpen
<1>6. StreamsApart'
  BY <1>1, <1>3 DEF StreamsApart
<1> QED
  BY <1>2, <1>4, <1>5, <1>6

\* stopPlayback up to its join keeps the invariant: only flags change.
LEMMA StopPlaybackInv ==
  ASSUME IndInv, NEW c \in Cams, StopPlayback(c)
  PROVE  IndInv'
<1> USE DEF StopPlayback, StopBegin, UiIdle
<1>1. TypeOK /\ FlagsAgree /\ SurfaceSeen
  BY DEF IndInv
<1>2. /\ ThreadReferenced' /\ StreamsOpen' /\ StreamsApart'
      /\ \A d \in Cams, j \in Slots : Live(d, j)' <=> Live(d, j)
  BY StreamsUntouched
<1>3. TypeOK'
  BY <1>1 DEF TypeOK
<1>4. FlagsAgree'
  BY <1>1, <1>2 DEF FlagsAgree, TypeOK
<1>5. SurfaceSeen'
  BY <1>1, <1>2 DEF SurfaceSeen
<1> QED
  BY <1>2, <1>3, <1>4, <1>5 DEF IndInv

\* surfaceCreated keeps the invariant: the surface is there before the flag.
LEMMA SurfaceCreatedInv ==
  ASSUME IndInv, NEW c \in Cams, SurfaceCreated(c)
  PROVE  IndInv'
<1> USE DEF SurfaceCreated, UiIdle
<1>1. TypeOK /\ FlagsAgree /\ SurfaceSeen
  BY DEF IndInv
<1>2. /\ ThreadReferenced' /\ StreamsOpen' /\ StreamsApart'
      /\ \A d \in Cams, j \in Slots : Live(d, j)' <=> Live(d, j)
  BY StreamsUntouched
<1>3. TypeOK'
  BY <1>1 DEF TypeOK, Racy
<1>4. FlagsAgree'
  BY <1>1, <1>2 DEF FlagsAgree
<1>5. SurfaceSeen'
  BY <1>1, <1>2 DEF SurfaceSeen, TypeOK
<1> QED
  BY <1>2, <1>3, <1>4, <1>5 DEF IndInv

\* surfaceDestroyed up to its join keeps the invariant: the flag is cleared
\* while the surface still exists.
LEMMA SurfaceDestroyedInv ==
  ASSUME IndInv, NEW c \in Cams, SurfaceDestroyed(c)
  PROVE  IndInv'
<1> USE DEF SurfaceDestroyed, StopBegin, UiIdle
<1>1. TypeOK /\ FlagsAgree /\ SurfaceSeen
  BY DEF IndInv
<1>2. /\ ThreadReferenced' /\ StreamsOpen' /\ StreamsApart'
      /\ \A d \in Cams, j \in Slots : Live(d, j)' <=> Live(d, j)
  BY StreamsUntouched
<1>3. TypeOK'
  BY <1>1 DEF TypeOK, Racy
<1>4. FlagsAgree'
  BY <1>1, <1>2 DEF FlagsAgree, TypeOK
<1>5. SurfaceSeen'
  <2>1. /\ surface[c] /\ ~surfaceDone'[c] /\ joining' = c
        /\ surface' = surface /\ pc' = pc /\ fault' = fault
        /\ \A d \in Cams : d # c => /\ surfaceDone'[d] = surfaceDone[d]
                                    /\ visDone'[d] = visDone[d]
    BY <1>1 DEF TypeOK
  <2> HIDE DEF SurfaceDestroyed, StopBegin
  <2> SUFFICES ASSUME NEW d \in Cams
               PROVE  /\ fault' # "nullCanvas" /\ (destroying' => joining' # NoCam)
                      /\ surfaceDone'[d] => surface'[d]
                      /\ destroying' /\ joining' = d => ~surfaceDone'[d]
                      /\ \A j \in Slots :
                           /\ Live(d, j)' /\ TRUE \in visDone'[d] => surface'[d]
                           /\ pc'[d][j] \in {"read", "frame", "draw"} => surface'[d]
    BY DEF SurfaceSeen
  <2>2. CASE d = c
    BY <1>1, <2>1, <2>2 DEF SurfaceSeen
  <2>3. CASE d # c
    BY <1>1, <1>2, <2>1, <2>3 DEF SurfaceSeen
  <2> QED
    BY <2>2, <2>3
<1> QED
  BY <1>2, <1>3, <1>4, <1>5 DEF IndInv

\* A start leaves the view with one live decoder that knows the present
\* surfaceDone and source only.
LEMMA StartThreadInv ==
  ASSUME IndInv, UiIdle,
         NEW c \in Cams, NEW k \in Slots, NEW s \in Streams, Fresh(s),
         pc[c][k] = "unused" => thread[c] = NoThread,
         pc[c][k] \in {"new", "unused"},
         StartThread(c, k, s),
         mIn' = [mIn EXCEPT ![c] = s],
         open' = open \cup {s},
         suspending' = [suspending EXCEPT ![c] = FALSE],
         UNCHANGED <<surfaceDone, reading, surface, joining, destroying>>
  PROVE  IndInv'
<1> USE DEF StartThread, UiIdle
<1>1. TypeOK /\ ThreadReferenced /\ FlagsAgree /\ SurfaceSeen /\ StreamsOpen
      /\ StreamsApart
  BY DEF IndInv
<1>2. /\ pc'[c][k] = "loop"
      /\ \A d \in Cams, j \in Slots :
           d # c \/ j # k => pc'[d][j] = pc[d][j]
      /\ pc' \in [Cams -> [Slots -> PCs]]
  BY <1>1 DEF TypeOK, PCs, LivePCs
<1>3. \A j \in Slots : j # k => pc[c][j] = "unused"
  BY <1>1 DEF ThreadReferenced
<1>4. \A d \in Cams, j \in Slots :
        Live(d, j)' <=> (d = c /\ j = k) \/ (d # c /\ Live(d, j))
  BY <1>2, <1>3 DEF Live, LivePCs
<1>5. /\ mIn'[c] = s /\ visIn'[c] = {s} /\ visDone'[c] = {surfaceDone[c]}
      /\ mRun'[c] /\ ~suspending'[c] /\ thread'[c] = k
      /\ \A d \in Cams : d # c =>
           /\ mIn'[d] = mIn[d] /\ visIn'[d] = visIn[d]
           /\ visDone'[d] = visDone[d] /\ mRun'[d] = mRun[d]
           /\ suspending'[d] = suspending[d] /\ thread'[d] = thread[d]
  BY <1>1 DEF TypeOK
<1>6. TypeOK'
  BY <1>1, <1>2 DEF TypeOK
<1>7. ThreadReferenced'
  BY <1>1, <1>2, <1>3, <1>5 DEF ThreadReferenced
<1>8. FlagsAgree'
  BY <1>1, <1>4, <1>5 DEF FlagsAgree
<1>9. SurfaceSeen'
  <2> SUFFICES ASSUME NEW d \in Cams
               PROVE  /\ fault' # "nullCanvas" /\ (destroying' => joining' # NoCam)
                      /\ surfaceDone'[d] => surface'[d]
                      /\ destroying' /\ joining' = d => ~surfaceDone'[d]
                      /\ \A j \in Slots :
                           /\ Live(d, j)' /\ TRUE \in visDone'[d] => surface'[d]
                           /\ pc'[d][j] \in {"read", "frame", "draw"} => surface'[d]
    BY DEF SurfaceSeen
  <2>1. CASE d = c
    <3>1. \A j \in Slots : pc'[c][j] \in {"loop", "unused"}
      BY <1>2, <1>3
    <3> QED
      BY <1>1, <1>5, <2>1, <3>1 DEF SurfaceSeen
  <2>2. CASE d # c
    BY <1>1, <1>2, <1>4, <1>5, <2>2 DEF SurfaceSeen
  <2> QED
    BY <2>1, <2>2
<1>10. StreamsOpen'
  BY <1>1, <1>2, <1>4, <1>5 DEF StreamsOpen
<1>11. StreamsApart'
  <2>1. \A d \in Cams : ~Uses(d, s)
    BY DEF Fresh
  <2>2. \A j \in Slots : reading[c][j] = NoStream
    BY <1>1, <1>3 DEF StreamsOpen
  <2>3. \A d \in Cams, r \in Streams :
          Uses(d, r)' <=> (d = c /\ r = s) \/ (d # c /\ Uses(d, r))
    BY <1>4, <1>5, <2>2 DEF Uses, Decoding
  <2> QED
    BY <1>1, <2>1, <2>3 DEF StreamsApart
<1> QED
  BY <1>6, <1>7, <1>8, <1>9, <1>10, <1>11 DEF IndInv

\* setSource(stream) keeps the invariant: it starts a decoder only on a view
\* that has none.
LEMMA SetSourceInv ==
  ASSUME IndInv, NEW c \in Cams, NEW s \in Streams, SetSource(c, s)
  PROVE  IndInv'
<1> USE DEF SetSource
<1>1. TypeOK /\ ThreadReferenced /\ FlagsAgree /\ SurfaceSeen /\ StreamsOpen
      /\ StreamsApart
  BY DEF IndInv
<1>2. CASE ~suspending[c] /\ StartPlayback(c, s)
  <2>1. PICK k \in Slots :
          /\ \/ thread[c] = k /\ pc[c][k] = "new"
             \/ thread[c] = NoThread /\ pc[c][k] = "unused"
          /\ StartThread(c, k, s)
    BY <1>2 DEF StartPlayback
  <2>2. suspending' = [suspending EXCEPT ![c] = FALSE]
    BY <1>1, <1>2 DEF StartPlayback, TypeOK
  <2> QED
    BY <2>1, <2>2, StartThreadInv
<1>3. CASE ~suspending[c] /\ StartTwice(c, s)
  <2> USE <1>3 DEF StartTwice, UiIdle
  <2>1. \A d \in Cams, j \in Slots : Live(d, j)' <=> Live(d, j)
    BY DEF Live
  <2>2. \A d \in Cams : Decoding(d)' <=> Decoding(d)
    BY <2>1 DEF Decoding
  <2>3. /\ visIn' \in [Cams -> SUBSET (Streams \cup {NoStream})]
        /\ visIn'[c] \subseteq visIn[c] \cup {s}
        /\ mIn'[c] = s /\ mRun'[c]
        /\ \A d \in Cams : d # c =>
             visIn'[d] = visIn[d] /\ mIn'[d] = mIn[d] /\ mRun'[d] = mRun[d]
    BY <1>1 DEF TypeOK, Racy
  <2>4. TypeOK'
    BY <1>1, <2>3 DEF TypeOK, Faults
  <2>5. ThreadReferenced'
    BY <1>1 DEF ThreadReferenced
  <2>6. FlagsAgree'
    BY <1>1, <2>1, <2>3 DEF FlagsAgree
  <2>7. SurfaceSeen'
    BY <1>1, <2>1 DEF SurfaceSeen
  <2>8. StreamsOpen'
    BY <1>1, <2>1, <2>3 DEF StreamsOpen
  <2>9. StreamsApart'
    <3>1. \A d \in Cams : ~Uses(d, s)
      BY DEF Fresh
    <3>2. \A d \in Cams, r \in Streams :
            Uses(d, r)' => (d = c /\ r = s) \/ Uses(d, r)
      BY <2>2, <2>3 DEF Uses
    <3> QED
      BY <1>1, <3>1, <3>2 DEF StreamsApart
  <2> QED
    BY <2>4, <2>5, <2>6, <2>7, <2>8, <2>9 DEF IndInv
<1>4. CASE suspending[c] /\ ResumePlayback(c, s)
  <2>1. PICK k \in Slots : pc[c][k] = "unused" /\ StartThread(c, k, s)
    BY <1>4 DEF ResumePlayback
  <2>2. thread[c] = NoThread
    BY <1>1, <1>4 DEF FlagsAgree, UiIdle
  <2> QED
    BY <1>4, <2>1, <2>2, StartThreadInv DEF ResumePlayback
<1> QED
  BY <1>2, <1>3, <1>4

\* After the join no decoder of the view is left: its stream may be closed
\* and its surface may go.
LEMMA StopEndInv ==
  ASSUME IndInv, NEW c \in Cams, StopEnd(c)
  PROVE  IndInv'
<1> USE DEF StopEnd
<1>1. TypeOK /\ ThreadReferenced /\ FlagsAgree /\ SurfaceSeen /\ StreamsOpen
      /\ StreamsApart
  BY DEF IndInv
<1>2. \A k \in Slots : ~Live(c, k)
  BY <1>1, NoLiveDecoder
<1>3. /\ pc' \in [Cams -> [Slots -> PCs]]
      /\ \A k \in Slots : pc'[c][k] = "unused"
      /\ \A d \in Cams, k \in Slots : d # c => pc'[d][k] = pc[d][k]
  BY <1>1, <1>2 DEF TypeOK, PCs
<1>4. \A d \in Cams, k \in Slots : Live(d, k)' <=> d # c /\ Live(d, k)
  BY <1>2, <1>3 DEF Live, LivePCs
<1>5. /\ mIn'[c] = NoStream /\ thread'[c] = NoThread
      /\ visIn' \in [Cams -> SUBSET (Streams \cup {NoStream})]
      /\ \A d \in Cams : d # c =>
           /\ mIn'[d] = mIn[d] /\ visIn'[d] = visIn[d]
           /\ thread'[d] = thread[d] /\ surface'[d] = surface[d]
  BY <1>1 DEF TypeOK, Racy
<1>6. TypeOK'
  BY <1>1, <1>3, <1>5 DEF TypeOK
<1>7. ThreadReferenced'
  BY <1>1, <1>3, <1>5 DEF ThreadReferenced
<1>8. FlagsAgree'
  BY <1>1, <1>4, <1>5 DEF FlagsAgree, TypeOK
<1>9. SurfaceSeen'
  <2> SUFFICES ASSUME NEW d \in Cams
               PROVE  /\ fault' # "nullCanvas" /\ (destroying' => joining' # NoCam)
                      /\ surfaceDone'[d] => surface'[d]
                      /\ destroying' /\ joining' = d => ~surfaceDone'[d]
                      /\ \A j \in Slots :
                           /\ Live(d, j)' /\ TRUE \in visDone'[d] => surface'[d]
                           /\ pc'[d][j] \in {"read", "frame", "draw"} => surface'[d]
    BY DEF SurfaceSeen
  <2>1. CASE d = c
    <3>1. surface'[c] <=> surface[c] /\ ~destroying
      BY <1>1 DEF TypeOK
    <3> QED
      BY <1>1, <1>3, <1>4, <2>1, <3>1 DEF SurfaceSeen
  <2>2. CASE d # c
    BY <1>1, <1>3, <1>4, <1>5, <2>2 DEF SurfaceSeen
  <2> QED
    BY <2>1, <2>2
<1>10. StreamsOpen'
  <2>1. \A d \in Cams, k \in Slots, r \in Streams :
          /\ d # c
          /\ \/ r = mIn[d]
             \/ r = reading[d][k]
             \/ Live(d, k) /\ r \in visIn[d]
          => r # mIn[c]
    BY <1>1 DEF StreamsApart, Uses, Decoding
  <2>2. /\ reading[c] \in [Slots -> {NoStream}]
        /\ \A d \in Cams, k \in Slots : reading'[d][k] = reading[d][k]
    BY <1>1, <1>2 DEF StreamsOpen, TypeOK, Live, LivePCs
  <2>3. open' = open \ {mIn[c]} /\ open \subseteq Streams
    BY <1>1 DEF TypeOK
  <2>4. ASSUME NEW d \in Cams
        PROVE  /\ mIn'[d] \in open' \cup {NoStream}
               /\ \A k \in Slots :
                    Live(d, k)' => visIn'[d] \subseteq open' \cup {NoStream}
    <3>1. CASE d = c
      BY <3>1, <1>4, <1>5
    <3>2. CASE d # c
      <4>1. mIn[d] = NoStream \/ (mIn[d] \in open /\ mIn[d] # mIn[c])
        BY <1>1, <3>2 DEF StreamsOpen, StreamsApart, Uses, TypeOK
      <4>2. ASSUME NEW k \in Slots, Live(d, k)
            PROVE  visIn[d] \subseteq (open \ {mIn[c]}) \cup {NoStream}
        BY <1>1, <2>1, <2>3, <3>2, <4>2 DEF StreamsOpen
      <4> QED
        BY <1>4, <1>5, <2>3, <3>2, <4>1, <4>2
    <3> QED
      BY <3>1, <3>2
  <2>5. ASSUME NEW d \in Cams, NEW k \in Slots
        PROVE  /\ pc'[d][k] = "read" => reading'[d][k] \in open'
               /\ pc'[d][k] # "read" => reading'[d][k] = NoStream
    <3>1. CASE d = c
      BY <3>1, <1>3, <2>2
    <3>2. CASE d # c
      BY <1>1, <1>3, <2>1, <2>2, <2>3, <3>2 DEF StreamsOpen
    <3> QED
      BY <3>1, <3>2
  <2> QED
    BY <2>4, <2>5 DEF StreamsOpen
<1>11. StreamsApart'
  <2>1. \A d \in Cams, r \in Streams : Uses(d, r)' => Uses(d, r)
    BY <1>4, <1>5 DEF Uses, Decoding
  <2> QED
    BY <1>1, <2>1 DEF StreamsApart
<1> QED
  BY <1>6, <1>7, <1>8, <1>9, <1>10, <1>11 DEF IndInv

-----------------------------------------------------------------------------
(* Theorems *)

\* Every step of the views keeps the invariant, action by action.
LEMMA NextInv == IndInv /\ [Next]_viewVars => IndInv'
<1> SUFFICES ASSUME IndInv, [Next]_viewVars PROVE IndInv'
  OBVIOUS
<1>1. CASE UNCHANGED viewVars
  <2> USE <1>1 DEF viewVars, IndInv
  <2>1. /\ ThreadReferenced' /\ StreamsOpen' /\ StreamsApart'
        /\ \A d \in Cams, j \in Slots : Live(d, j)' <=> Live(d, j)
    BY StreamsUntouched
  <2>2. TypeOK'
    BY DEF TypeOK
  <2>3. FlagsAgree'
    BY <2>1 DEF FlagsAgree
  <2>4. SurfaceSeen'
    BY <2>1 DEF SurfaceSeen
  <2> QED
    BY <2>1, <2>2, <2>3, <2>4
<1>2. ASSUME NEW c \in Cams, SetSourceNull(c) PROVE IndInv'
  BY <1>2, SetSourceNullInv
<1>3. ASSUME NEW c \in Cams, NEW s \in Streams, SetSource(c, s) PROVE IndInv'
  BY <1>3, SetSourceInv
<1>4. ASSUME NEW c \in Cams, StopPlayback(c) PROVE IndInv'
  BY <1>4, StopPlaybackInv
<1>5. ASSUME NEW c \in Cams, StopEnd(c) PROVE IndInv'
  BY <1>5, StopEndInv
<1>6. ASSUME NEW c \in Cams, SurfaceCreated(c) PROVE IndInv'
  BY <1>6, SurfaceCreatedInv
<1>7. ASSUME NEW c \in Cams, SurfaceDestroyed(c) PROVE IndInv'
  BY <1>7, SurfaceDestroyedInv
<1>8. ASSUME NEW c \in Cams, NEW k \in Slots, Decoder(c, k) PROVE IndInv'
  BY <1>8, DecoderInv
<1> QED
  BY <1>1, <1>2, <1>3, <1>4, <1>5, <1>6, <1>7, <1>8 DEF Next

\* The invariant of the views holds in every reachable state.
THEOREM Invariance == Spec => []IndInv
<1> QED
  BY InitInv, NextInv, PTL DEF Spec

\* Every field and every ghost of the views keeps its type.
THEOREM TypeCorrect == Spec => []TypeOK
<1>1. IndInv => TypeOK
  BY DEF IndInv
<1> QED
  BY Invariance, <1>1, PTL

\* A view has at most one decoder at work, for any number of views and
\* threads (MjpegView.java:246-293).
THEOREM OneDecoderAlways == Spec => []OneDecoder
<1>1. IndInv => OneDecoder
  BY OnlyOneLive DEF IndInv, OneDecoder
<1> QED
  BY Invariance, <1>1, PTL

\* No decoder holds or asks for a canvas of a surface that is gone, whatever
\* it read from the unsynchronised surfaceDone (MjpegView.java:144-219).
THEOREM DrawingHasSurface == Spec => []NoDrawWithoutSurface
<1>1. IndInv => NoDrawWithoutSurface
  BY DEF IndInv, SurfaceSeen, NoDrawWithoutSurface
<1> QED
  BY Invariance, <1>1, PTL

\* No decoder reads, or can still find in mIn, a stream stopPlayback has
\* closed (MjpegView.java:285-291).
THEOREM ReadingIsOpen == Spec => []NoReadAfterClose
<1>1. IndInv => NoReadAfterClose
  BY DEF IndInv, StreamsOpen, NoReadAfterClose
<1> QED
  BY Invariance, <1>1, PTL

\* The views never reach a common stream.
THEOREM ViewsApart == Spec => []StreamsApart
<1>1. IndInv => StreamsApart
  BY DEF IndInv
<1> QED
  BY Invariance, <1>1, PTL

\* A suspended view has let go of its decoder, and a decoder at work shows in
\* isStreaming.
THEOREM FlagsTellDecoder == Spec => [](SuspendedIsQuiet /\ StreamingSeesDecoder)
<1>1. IndInv => SuspendedIsQuiet /\ StreamingSeesDecoder
  BY DEF IndInv, ThreadReferenced, FlagsAgree, SuspendedIsQuiet,
     StreamingSeesDecoder, Decoding, Live, LivePCs
<1> QED
  BY Invariance, <1>1, PTL

-----------------------------------------------------------------------------
(* The views implement the contract of the surface *)

\* A step that leaves the surfaces alone and no decoder into or out of "draw"
\* is a stutter of the contract.
LEMMA DrawingUnchanged ==
  ASSUME \A c \in Cams, k \in Slots : pc'[c][k] = "draw" <=> pc[c][k] = "draw"
  PROVE  Drawing' = Drawing
BY DEF Drawing

\* A decoder's step locks or unlocks a canvas as the contract allows.
LEMMA DecoderContract ==
  ASSUME IndInv, NEW c \in Cams, NEW k \in Slots, Decoder(c, k)
  PROVE  [Contract!Next]_<<surface, Drawing>>
<1>1. TypeOK /\ ThreadReferenced /\ SurfaceSeen
  BY DEF IndInv
<1>2. surface' = surface
  BY DEF Decoder, ExitLoop, BeginRead, BeginReadNull, FrameRead, FrameNull,
     FrameIOException, FrameNoMarker, LockCanvas, UnlockCanvas,
     ReturnAfterError, DecoderStep
<1>3. CASE LockCanvas(c, k)
  <2>1. pc[c][k] = "frame" /\ surface[c]
    BY <1>1, <1>3 DEF LockCanvas, DecoderStep, SurfaceSeen
  <2>2. pc' = [pc EXCEPT ![c][k] = "draw"]
    BY <1>3, <2>1 DEF LockCanvas, DecoderStep
  <2>3. \A j \in Slots : pc[c][j] # "draw"
    BY <1>1, <2>1, OnlyOneLive DEF Live, LivePCs
  <2>4. Drawing' = [Drawing EXCEPT ![c] = TRUE]
    <3>1. \A d \in Cams : d # c => pc'[d] = pc[d]
      BY <1>1, <2>2 DEF TypeOK
    <3>2. pc'[c][k] = "draw"
      BY <1>1, <2>2 DEF TypeOK
    <3> QED
      BY <3>1, <3>2 DEF Drawing
  <2>5. ~Drawing[c]
    BY <2>3 DEF Drawing
  <2>6. Contract!Lock(c)
    BY <1>2, <2>1, <2>4, <2>5 DEF Contract!Lock
  <2> QED
    BY <2>6 DEF Contract!Next
<1>4. CASE UnlockCanvas(c, k)
  <2>1. pc[c][k] = "draw" /\ pc' = [pc EXCEPT ![c][k] = "loop"]
    BY <1>4 DEF UnlockCanvas, DecoderStep
  <2>2. \A j \in Slots : j # k => pc[c][j] # "draw"
    BY <1>1, <2>1, OnlyOneLive DEF Live, LivePCs
  <2>3. Drawing' = [Drawing EXCEPT ![c] = FALSE]
    <3>1. \A d \in Cams : d # c => pc'[d] = pc[d]
      BY <1>1, <2>1 DEF TypeOK
    <3>2. \A j \in Slots : pc'[c][j] # "draw"
      BY <1>1, <2>1, <2>2 DEF TypeOK
    <3> QED
      BY <3>1, <3>2 DEF Drawing
  <2>4. Drawing[c]
    BY <2>1 DEF Drawing
  <2>5. Contract!Unlock(c)
    BY <1>2, <2>3, <2>4 DEF Contract!Unlock
  <2> QED
    BY <2>5 DEF Contract!Next
<1>5. ASSUME NEW from \in LivePCs \ {"draw"},
             NEW to \in (LivePCs \cup {"dead"}) \ {"draw"}, NEW s,
             DecoderStep(c, k, from, to, s)
      PROVE  Drawing' = Drawing
  <2>1. pc[c][k] = from /\ pc' = [pc EXCEPT ![c][k] = to]
    BY <1>5 DEF DecoderStep
  <2>2. \A d \in Cams, j \in Slots : pc'[d][j] = "draw" <=> pc[d][j] = "draw"
    BY <1>1, <2>1 DEF TypeOK
  <2> QED
    BY <2>2, DrawingUnchanged
<1>6. CASE ~LockCanvas(c, k) /\ ~UnlockCanvas(c, k)
  <2>1. \/ \E s : DecoderStep(c, k, "loop", "dead", s)
        \/ \E s : DecoderStep(c, k, "loop", "read", s)
        \/ \E s : \E to \in {"frame", "error", "loop", "dead"} :
              DecoderStep(c, k, "read", to, s)
        \/ \E s : DecoderStep(c, k, "error", "dead", s)
    BY <1>6 DEF Decoder, ExitLoop, BeginRead, BeginReadNull, FrameRead,
       FrameNull, FrameIOException, FrameNoMarker, ReturnAfterError
  <2>2. Drawing' = Drawing
    BY <1>5, <2>1 DEF LivePCs
  <2> QED
    BY <1>2, <2>2
<1> QED
  BY <1>3, <1>4, <1>6

\* Every step of the views is a step of the contract, or a stutter.
LEMMA NextContract ==
  IndInv /\ [Next]_viewVars => [Contract!Next]_<<surface, Drawing>>
<1> SUFFICES ASSUME IndInv, [Next]_viewVars
             PROVE  [Contract!Next]_<<surface, Drawing>>
  OBVIOUS
<1>1. TypeOK /\ ThreadReferenced /\ FlagsAgree /\ SurfaceSeen
  BY DEF IndInv
<1>2. CASE UNCHANGED viewVars
  BY <1>2 DEF viewVars, Drawing
<1>3. ASSUME NEW c \in Cams, SetSourceNull(c) PROVE UNCHANGED <<surface, Drawing>>
  BY <1>3 DEF SetSourceNull, Drawing
<1>4. ASSUME NEW c \in Cams, NEW s \in Streams, SetSource(c, s)
      PROVE  UNCHANGED <<surface, Drawing>>
  <2>1. \/ UNCHANGED pc
        \/ \E k \in Slots : /\ pc[c][k] \in {"new", "unused"}
                            /\ pc' = [pc EXCEPT ![c][k] = "loop"]
    BY <1>4 DEF SetSource, StartPlayback, StartTwice, ResumePlayback, StartThread
  <2>2. \A d \in Cams, j \in Slots : pc'[d][j] = "draw" <=> pc[d][j] = "draw"
    <3>1. CASE UNCHANGED pc
      BY <3>1
    <3>2. CASE ~UNCHANGED pc
      <4>1. PICK k \in Slots : /\ pc[c][k] \in {"new", "unused"}
                               /\ pc' = [pc EXCEPT ![c][k] = "loop"]
        BY <2>1, <3>2
      <4>2. pc'[c][k] = "loop"
        BY <1>1, <4>1 DEF TypeOK
      <4>3. \A d \in Cams, j \in Slots : d # c \/ j # k => pc'[d][j] = pc[d][j]
        BY <1>1, <4>1 DEF TypeOK
      <4> QED
        BY <4>1, <4>2, <4>3
    <3> QED
      BY <3>1, <3>2
  <2>3. surface' = surface
    BY <1>4 DEF SetSource
  <2> QED
    BY <2>2, <2>3, DrawingUnchanged
<1>5. ASSUME NEW c \in Cams, StopPlayback(c) PROVE UNCHANGED <<surface, Drawing>>
  BY <1>5 DEF StopPlayback, Drawing
<1>6. ASSUME NEW c \in Cams, SurfaceDestroyed(c)
      PROVE  UNCHANGED <<surface, Drawing>>
  BY <1>6 DEF SurfaceDestroyed, Drawing
<1>7. ASSUME NEW c \in Cams, SurfaceCreated(c) PROVE Contract!Next
  <2>1. Drawing' = Drawing
    BY <1>7 DEF SurfaceCreated, Drawing
  <2>2. Contract!Create(c)
    BY <1>7, <2>1 DEF SurfaceCreated, Contract!Create
  <2> QED
    BY <2>2 DEF Contract!Next
<1>8. ASSUME NEW c \in Cams, StopEnd(c)
      PROVE  Contract!Next \/ UNCHANGED <<surface, Drawing>>
  <2>1. \A k \in Slots : ~Live(c, k)
    BY <1>1, <1>8, NoLiveDecoder DEF StopEnd
  <2>2. \A d \in Cams, j \in Slots : pc'[d][j] = "draw" <=> pc[d][j] = "draw"
    <3>1. pc' = [pc EXCEPT ![c] = [k \in Slots |->
                   IF Live(c, k) THEN pc[c][k] ELSE "unused"]]
      BY <1>8 DEF StopEnd
    <3>2. \A d \in Cams : d # c => pc'[d] = pc[d]
      BY <1>1, <3>1 DEF TypeOK
    <3>3. \A j \in Slots : pc'[c][j] = "unused" /\ pc[c][j] # "draw"
      BY <1>1, <2>1, <3>1 DEF TypeOK, Live, LivePCs
    <3> QED
      BY <3>2, <3>3
  <2>3. Drawing' = Drawing
    BY <2>2, DrawingUnchanged
  <2>4. ~Drawing[c]
    BY <2>1 DEF Drawing, Live, LivePCs
  <2>5. CASE destroying /\ surface[c]
    <3>1. surface' = [surface EXCEPT ![c] = FALSE]
      BY <1>8, <2>5 DEF StopEnd
    <3>2. Contract!Destroy(c)
      BY <2>3, <2>4, <2>5, <3>1 DEF Contract!Destroy
    <3> QED
      BY <3>2 DEF Contract!Next
  <2>6. CASE ~(destroying /\ surface[c])
    <3>1. (surface[c] /\ ~destroying) = surface[c]
      BY <1>1, <2>6 DEF TypeOK
    <3>2. surface' = surface
      BY <1>1, <1>8, <3>1 DEF StopEnd, TypeOK
    <3> QED
      BY <2>3, <3>2
  <2> QED
    BY <2>5, <2>6
<1>9. ASSUME NEW c \in Cams, NEW k \in Slots, Decoder(c, k)
      PROVE  [Contract!Next]_<<surface, Drawing>>
  BY <1>9, DecoderContract
<1> QED
  BY <1>2, <1>3, <1>4, <1>5, <1>6, <1>7, <1>8, <1>9 DEF Next

\* The views give their surfaces back only between two frames and draw only
\* on a surface they were given, one canvas at a time.
THEOREM SurfaceRefinement == Spec => SurfaceContract
<1>1. Init => Contract!Init
  BY DEF Init, Contract!Init, Drawing
<1>2. IndInv /\ [Next]_viewVars => [Contract!Next]_(Contract!vars)
  BY NextContract DEF Contract!vars
<1> QED
  BY Invariance, <1>1, <1>2, PTL DEF Spec, SurfaceContract, Contract!Spec

-----------------------------------------------------------------------------
(* The activity *)

USE ActivityAssumption

\* Every step of the activity is a step of one view, or leaves both alone.
LEMMA ActNextViews == [ActNext]_vars => [Next]_viewVars
<1> SUFFICES ASSUME [ActNext]_vars PROVE Next \/ UNCHANGED viewVars
  OBVIOUS
<1>1. CASE UNCHANGED vars
  BY <1>1 DEF vars
<1>2. CASE Lifecycle
  BY <1>2 DEF Lifecycle, OnResume, OnPause, OnDestroy
<1>3. ASSUME NEW c \in Cams, PauseStep(c)
      PROVE  Next \/ UNCHANGED viewVars
  <2>1. CASE PauseIdleView(c)
    BY <2>1 DEF PauseIdleView
  <2>2. CASE PauseStopView(c)
    BY <2>2 DEF PauseStopView, Next
  <2>3. CASE PauseViewStopped(c)
    BY <2>3 DEF PauseViewStopped, Next
  <2> QED
    BY <1>3, <2>1, <2>2, <2>3 DEF PauseStep
<1>4. ASSUME NEW c \in Cams,
             ActSurfaceCreated(c) \/ ActSurfaceDestroyed(c) \/ ActSurfaceGone(c)
      PROVE  Next
  BY <1>4 DEF ActSurfaceCreated, ActSurfaceDestroyed, ActSurfaceGone, Next
<1>5. ASSUME NEW c \in Cams, NEW kind, DoInBackground(c, kind)
      PROVE  UNCHANGED viewVars
  BY <1>5 DEF DoInBackground
<1>6. ASSUME NEW c \in Cams, Looper(c)
      PROVE  Next \/ UNCHANGED viewVars
  <2>1. CASE OnConnected(c)
    <3>1. SetSource(c, NewStream)
      BY <2>1 DEF OnConnected
    <3>2. NewStream \in Streams
      BY <3>1 DEF SetSource, Fresh
    <3> QED
      BY <3>1, <3>2 DEF Next
  <2>2. CASE OnFailed(c)
    BY <2>2 DEF OnFailed, Next
  <2>3. CASE OnImageError(c)
    BY <2>3 DEF OnImageError
  <2> QED
    BY <1>6, <2>1, <2>2, <2>3 DEF Looper
<1>7. ASSUME NEW c \in Cams, NEW k \in Slots, ActDecoder(c, k)
      PROVE  Next
  <2>1. Decoder(c, k)
    BY <1>7 DEF ActDecoder, Decoder
  <2> QED
    BY <2>1 DEF Next
<1> QED
  BY <1>1, <1>2, <1>3, <1>4, <1>5, <1>6, <1>7 DEF ActNext

\* The activity uses its views as MjpegView specifies them, whatever the
\* numbers of threads, streams and outstanding reads.
THEOREM ActivityRefinesViews == ActSpec => ViewSpec
<1>1. ActInit => Init
  BY DEF ActInit
<1> QED
  BY <1>1, ActNextViews, PTL DEF ActSpec, ViewSpec, Spec

\* In the application, too, both sides of a view agree: one decoder, no
\* drawing without a surface, no reading of a closed stream.
THEOREM ActivityViewsSafe ==
  ActSpec => [](OneDecoder /\ NoDrawWithoutSurface /\ NoReadAfterClose)
<1> QED
  BY ActivityRefinesViews, OneDecoderAlways, DrawingHasSurface, ReadingIsOpen,
     PTL DEF ViewSpec

-----------------------------------------------------------------------------
(* The inductive invariant behind the activity's own properties.  Its parts *)
(* that start from doubleRead say what keeps a process alive in which no    *)
(* view was given a DoRead it had no room for.                              *)

\* The looper holds at most one answer of a DoRead of view c.
Answered(c) == Posted("connected", c) \/ Posted("failed", c)
AnswerOnce(c) ==
  \A i, j \in DOMAIN looper :
    /\ looper[i].cam = c /\ looper[i].kind # "imageError"
    /\ looper[j].cam = c /\ looper[j].kind # "imageError"
    => i = j

\* What a view must be for setSource to start a thread and not to throw.
Room(c) == suspending[c] \/ (thread[c] # NoThread => pc[c][thread[c]] = "new")

\* A view has one DoRead or answer at most, and then it has room for it.
ReadsFit ==
  doubleRead = {} =>
    \A c \in Cams : /\ reads[c] <= 1 /\ AnswerOnce(c)
                    /\ reads[c] = 1 => ~Answered(c)
                    /\ Outstanding(c) => Room(c)

\* No decoder can find null in mIn.
NullUnseen ==
  doubleRead = {} => \A c \in Cams, k \in Slots : Live(c, k) => NoStream \notin visIn[c]

\* mRun says that there is a thread object that was started.
RunHasThread ==
  \A c \in Cams : mRun[c] => thread[c] # NoThread /\ pc[c][thread[c]] # "new"

\* An open stream in mIn is one that a stop will find mRun for.
SourceRuns == \A c \in Cams : mIn[c] \in open /\ joining # c => mRun[c]

\* While onPause is at a view, those before it do not run, and only a stop of
\* that view is in progress.
PauseInOrder ==
  pausing # 0 => /\ act = "resumed" /\ joining \in {NoCam, pausing}
                 /\ pausing = Right => ~mRun[Left]

\* A view that onPause suspends has no DoRead on its way, so that nothing but
\* onResume brings it back.
SuspendedWaits ==
  /\ actSuspending /\ act = "resumed" => pausing # 0
  /\ doubleRead = {} =>
       /\ \A c \in Cams : mRun[c] => ~Outstanding(c)
       /\ \A c \in Cams : pausing = c /\ joining = c => suspending[c] /\ ~Outstanding(c)
       /\ actSuspending => \E c \in Cams : suspending[c] /\ ~Outstanding(c)

ActInv ==
  /\ IndInv /\ ActTypeOK
  /\ ReadsFit /\ NullUnseen /\ RunHasThread /\ SourceRuns /\ PauseInOrder /\ SuspendedWaits
  /\ CrashNeedsDoubleRead /\ DeadDecoderShown

-----------------------------------------------------------------------------
(* The looper as a queue *)

\* A message posted changes nothing about the other messages.
LEMMA Appended ==
  ASSUME looper \in Seq(Messages), NEW kind \in {"connected", "failed", "imageError"},
         NEW c \in Cams, looper' = Append(looper, Message(kind, c))
  PROVE  /\ looper' \in Seq(Messages)
         /\ Posted(kind, c)'
         /\ \A d \in Cams, kd \in {"connected", "failed", "imageError"} :
              /\ Posted(kd, d) => Posted(kd, d)'
              /\ kd # kind \/ d # c => (Posted(kd, d)' <=> Posted(kd, d))
         /\ \A d \in Cams : kind = "imageError" \/ d # c => (AnswerOnce(d)' <=> AnswerOnce(d))
         /\ ~Answered(c) => AnswerOnce(c)'
<1> DEFINE m == Message(kind, c)
<1>1. m \in Messages /\ m.kind = kind /\ m.cam = c
  BY DEF Message, Messages
<1>2. /\ looper' \in Seq(Messages) /\ Len(looper') = Len(looper) + 1
      /\ looper'[Len(looper) + 1] = m
      /\ \A i \in DOMAIN looper : looper'[i] = looper[i]
      /\ DOMAIN looper' = DOMAIN looper \cup {Len(looper) + 1}
      /\ Len(looper) + 1 \notin DOMAIN looper
  BY <1>1
<1> HIDE DEF m
<1>3. Posted(kind, c)'
  BY <1>2 DEF Posted, m
<1>4. ASSUME NEW d \in Cams, NEW kd \in {"connected", "failed", "imageError"}
      PROVE  /\ Posted(kd, d) => Posted(kd, d)'
             /\ kd # kind \/ d # c => (Posted(kd, d)' => Posted(kd, d))
  <2>1. kd # kind \/ d # c => Message(kd, d) # m
    BY DEF Message, m
  <2> QED
    BY <1>2, <2>1 DEF Posted
<1>5. ASSUME NEW d \in Cams, kind = "imageError" \/ d # c
      PROVE  (AnswerOnce(d)' <=> AnswerOnce(d))
  BY <1>1, <1>2, <1>5 DEF AnswerOnce
<1>6. ASSUME ~Answered(c) PROVE AnswerOnce(c)'
  <2>1. \A i \in DOMAIN looper : looper[i].cam = c => looper[i].kind = "imageError"
    <3> SUFFICES ASSUME NEW i \in DOMAIN looper, looper[i].cam = c, looper[i].kind # "imageError"
                 PROVE  FALSE
      OBVIOUS
    <3>1. looper[i] \in Messages
      OBVIOUS
    <3>2. looper[i] = Message("connected", c) \/ looper[i] = Message("failed", c)
      BY <3>1 DEF Messages, Message
    <3> QED
      BY <1>6, <3>2 DEF Answered, Posted
  <2> QED
    BY <1>1, <1>2, <2>1 DEF AnswerOnce
<1> QED
  BY <1>2, <1>3, <1>4, <1>5, <1>6

\* The message handled is gone, and only that one.
LEMMA Handled ==
  ASSUME looper \in Seq(Messages), NEW kind \in {"connected", "failed", "imageError"},
         NEW c \in Cams, Handle(kind, c)
  PROVE  /\ looper' \in Seq(Messages)
         /\ Posted(kind, c)
         /\ \A d \in Cams, kd \in {"connected", "failed", "imageError"} :
              /\ Posted(kd, d)' => Posted(kd, d)
              /\ kd # kind \/ d # c => (Posted(kd, d)' <=> Posted(kd, d))
         /\ \A d \in Cams : AnswerOnce(d) => AnswerOnce(d)'
         /\ kind # "imageError" /\ AnswerOnce(c) => ~Answered(c)'
<1> DEFINE m == Message(kind, c)
<1>1. m \in Messages /\ m.kind = kind /\ m.cam = c
  BY DEF Message, Messages
<1>2. looper # <<>> /\ looper[1] = m /\ looper' = Tail(looper)
  BY DEF Handle
<1>3. /\ looper' \in Seq(Messages) /\ 1 \in DOMAIN looper
      /\ \A i \in DOMAIN looper' : i \in Nat /\ i + 1 \in DOMAIN looper /\ i + 1 # 1 /\ looper'[i] = looper[i + 1]
      /\ \A i \in DOMAIN looper : i # 1 => \E j \in DOMAIN looper' : looper'[j] = looper[i]
  <2>1. \A i \in DOMAIN looper : i # 1 => i - 1 \in DOMAIN looper' /\ looper'[i - 1] = looper[i]
    BY <1>2
  <2>2. \A i \in DOMAIN looper : i # 1 => \E j \in DOMAIN looper' : looper'[j] = looper[i]
    BY <2>1
  <2>3. \A i \in DOMAIN looper' : i \in Nat /\ i + 1 \in DOMAIN looper /\ i + 1 # 1 /\ looper'[i] = looper[i + 1]
    BY <1>2
  <2> QED
    BY <1>2, <2>2, <2>3
<1> HIDE DEF m
<1>4. Posted(kind, c)
  BY <1>2, <1>3 DEF Posted, m
<1>5. ASSUME NEW d \in Cams, NEW kd \in {"connected", "failed", "imageError"}
      PROVE  /\ Posted(kd, d)' => Posted(kd, d)
             /\ kd # kind \/ d # c => (Posted(kd, d) => Posted(kd, d)')
  <2>1. kd # kind \/ d # c => Message(kd, d) # m
    BY DEF Message, m
  <2> QED
    BY <1>2, <1>3, <2>1 DEF Posted
<1>6. ASSUME NEW d \in Cams, AnswerOnce(d)
      PROVE  AnswerOnce(d)'
  <2> SUFFICES ASSUME NEW i \in DOMAIN looper', NEW j \in DOMAIN looper',
                      looper'[i].cam = d, looper'[i].kind # "imageError",
                      looper'[j].cam = d, looper'[j].kind # "imageError"
               PROVE  i = j
    BY DEF AnswerOnce
  <2>1. /\ i + 1 \in DOMAIN looper /\ looper[i + 1].cam = d /\ looper[i + 1].kind # "imageError"
        /\ j + 1 \in DOMAIN looper /\ looper[j + 1].cam = d /\ looper[j + 1].kind # "imageError"
        /\ i \in Nat /\ j \in Nat
    BY <1>3
  <2>2. i + 1 = j + 1
    BY <1>6, <2>1 DEF AnswerOnce
  <2> QED
    BY <2>1, <2>2
<1>7. ASSUME kind # "imageError", AnswerOnce(c), Answered(c)'
      PROVE  FALSE
  <2>1. PICK i \in DOMAIN looper' : looper'[i].cam = c /\ looper'[i].kind # "imageError"
    BY <1>7 DEF Answered, Posted, Message
  <2>2. /\ i + 1 \in DOMAIN looper /\ i + 1 # 1
        /\ looper[i + 1].cam = c /\ looper[i + 1].kind # "imageError"
    BY <1>3, <2>1
  <2>3. 1 \in DOMAIN looper /\ looper[1].cam = c /\ looper[1].kind # "imageError"
    BY <1>1, <1>2, <1>3, <1>7
  <2>4. 1 = i + 1
    BY <1>7, <2>2, <2>3 DEF AnswerOnce
  <2> QED
    BY <2>2, <2>4
<1> QED
  BY <1>3, <1>4, <1>5, <1>6, <1>7

\* Whose answers are on their way depends on reads and looper alone.
LEMMA ReadsAlone ==
  ASSUME UNCHANGED <<reads, looper>>
  PROVE  \A c \in Cams :
           /\ Outstanding(c)' <=> Outstanding(c)
           /\ Answered(c)' <=> Answered(c)
           /\ AnswerOnce(c)' <=> AnswerOnce(c)
           /\ Posted("imageError", c)' <=> Posted("imageError", c)
BY DEF Outstanding, Answered, AnswerOnce, Posted

-----------------------------------------------------------------------------
(* Steps of the activity that leave the views alone *)

\* What is said of the views stays true, as long as the history grows.
LEMMA ViewsAlone ==
  ASSUME ActInv, doubleRead \subseteq doubleRead',
         UNCHANGED <<mRun, suspending, mIn, thread, pc, visIn, open, joining, fault>>
  PROVE  /\ NullUnseen' /\ RunHasThread' /\ SourceRuns' /\ CrashNeedsDoubleRead'
         /\ \A c \in Cams : Room(c)' <=> Room(c)
<1>1. NullUnseen /\ RunHasThread /\ SourceRuns /\ CrashNeedsDoubleRead
  BY DEF ActInv
<1>2. NullUnseen'
  BY <1>1 DEF NullUnseen, Live
<1>3. RunHasThread'
  BY <1>1 DEF RunHasThread
<1>4. SourceRuns'
  BY <1>1 DEF SourceRuns
<1>5. CrashNeedsDoubleRead'
  BY <1>1 DEF CrashNeedsDoubleRead
<1>6. \A c \in Cams : Room(c)' <=> Room(c)
  BY <1>1 DEF Room
<1> QED
  BY <1>2, <1>3, <1>4, <1>5, <1>6

\* An unstarted or suspended view is not running.
LEMMA RoomIsIdle ==
  ASSUME ActInv, NEW c \in Cams, Room(c)
  PROVE  ~mRun[c]
BY DEF ActInv, IndInv, FlagsAgree, RunHasThread, Room

\* onPause begins at the left view.
LEMMA OnPauseInv ==
  ASSUME ActInv, IndInv', OnPause
  PROVE  ActInv'
<1> USE DEF OnPause, LooperIdle, UiIdle
<1>1. /\ ActTypeOK /\ ReadsFit /\ SuspendedWaits /\ DeadDecoderShown
      /\ UNCHANGED <<reads, looper, viewVars, doubleRead>>
  BY DEF ActInv
<1>2. /\ NullUnseen' /\ RunHasThread' /\ SourceRuns' /\ CrashNeedsDoubleRead'
      /\ \A c \in Cams : Room(c)' <=> Room(c)
  BY ViewsAlone DEF viewVars
<1>3. ActTypeOK'
  BY <1>1 DEF ActTypeOK
<1>4. ReadsFit'
  BY <1>1, <1>2, ReadsAlone DEF ReadsFit
<1>5. PauseInOrder'
  BY DEF PauseInOrder, Left, Right, viewVars
<1>6. SuspendedWaits'
  BY <1>1, ReadsAlone, NullsAssumption DEF SuspendedWaits, viewVars, Left
<1>7. DeadDecoderShown'
  BY <1>1, ReadsAlone DEF DeadDecoderShown, Alive, viewVars
<1> QED
  BY <1>2, <1>3, <1>4, <1>5, <1>6, <1>7 DEF ActInv

\* onDestroy stops nothing.
LEMMA OnDestroyInv ==
  ASSUME ActInv, IndInv', OnDestroy
  PROVE  ActInv'
<1> USE DEF OnDestroy, LooperIdle, UiIdle
<1>1. /\ ActTypeOK /\ ReadsFit /\ SuspendedWaits /\ DeadDecoderShown
      /\ UNCHANGED <<reads, looper, viewVars, doubleRead>>
  BY DEF ActInv
<1>2. /\ NullUnseen' /\ RunHasThread' /\ SourceRuns' /\ CrashNeedsDoubleRead'
      /\ \A c \in Cams : Room(c)' <=> Room(c)
  BY ViewsAlone DEF viewVars
<1>3. ActTypeOK'
  BY <1>1 DEF ActTypeOK
<1>4. ReadsFit'
  BY <1>1, <1>2, ReadsAlone DEF ReadsFit
<1>5. PauseInOrder'
  BY DEF PauseInOrder
<1>6. SuspendedWaits'
  BY <1>1, ReadsAlone DEF SuspendedWaits, viewVars
<1>7. DeadDecoderShown'
  BY <1>1, ReadsAlone DEF DeadDecoderShown, Alive, viewVars
<1> QED
  BY <1>2, <1>3, <1>4, <1>5, <1>6, <1>7 DEF ActInv

\* onResume: a view that gets a DoRead and has no room for it is in doubleRead.
LEMMA OnResumeInv ==
  ASSUME ActInv, IndInv', OnResume
  PROVE  ActInv'
<1> USE DEF OnResume, LooperIdle, UiIdle
<1>1. /\ ActTypeOK /\ ReadsFit /\ SuspendedWaits /\ DeadDecoderShown
      /\ UNCHANGED <<looper, viewVars, label>>
      /\ Reconnected \subseteq Cams
  BY DEF ActInv, Reconnected
<1>2. /\ NullUnseen' /\ RunHasThread' /\ SourceRuns' /\ CrashNeedsDoubleRead'
      /\ \A c \in Cams : Room(c)' <=> Room(c)
  BY ViewsAlone DEF viewVars
<1>3. \A c \in Cams :
        /\ AnswerOnce(c)' <=> AnswerOnce(c)
        /\ Answered(c)' <=> Answered(c)
        /\ Outstanding(c)' <=> reads'[c] > 0 \/ Answered(c)
        /\ Outstanding(c) <=> reads[c] > 0 \/ Answered(c)
        /\ Posted("imageError", c)' <=> Posted("imageError", c)
  BY DEF AnswerOnce, Answered, Outstanding, Posted
<1>4. ActTypeOK'
  <2>1. \A c \in Cams : reads[c] + (IF c \in Reconnected THEN 1 ELSE 0) \in 0..MaxReads
    <3> SUFFICES ASSUME NEW c \in Cams
                 PROVE  reads[c] + (IF c \in Reconnected THEN 1 ELSE 0) \in 0..MaxReads
      OBVIOUS
    <3>1. reads[c] \in 0..MaxReads /\ MaxReads \in Nat
      BY <1>1 DEF ActTypeOK
    <3>2. c \in Reconnected => reads[c] < MaxReads
      OBVIOUS
    <3> QED
      BY <3>1, <3>2
  <2>2. reads' \in [Cams -> 0..MaxReads]
    BY <2>1
  <2> QED
    BY <1>1, <2>2 DEF ActTypeOK
<1>5. ASSUME doubleRead' = {}
      PROVE  /\ doubleRead = {}
             /\ \A c \in Reconnected : ~Outstanding(c) /\ Room(c)
  BY <1>1, <1>5 DEF NeedsRead, Room
<1>6. /\ reads \in [Cams -> Nat]
      /\ \A c \in Cams : reads'[c] = IF c \in Reconnected THEN reads[c] + 1 ELSE reads[c]
  BY <1>1 DEF ActTypeOK
<1>7. ReadsFit'
  BY <1>1, <1>2, <1>3, <1>5, <1>6 DEF ReadsFit
<1>8. PauseInOrder'
  BY DEF PauseInOrder
<1>9. SuspendedWaits'
  <2>1. ASSUME doubleRead' = {}, NEW c \in Cams, mRun'[c]
        PROVE  ~Outstanding(c)'
    <3>1. mRun[c] /\ ~Outstanding(c)
      BY <1>1, <1>5, <2>1 DEF SuspendedWaits, viewVars
    <3>2. c \notin Reconnected
      BY <1>5, <2>1, <3>1, RoomIsIdle
    <3> QED
      BY <1>3, <1>6, <3>1, <3>2
  <2>2. \A c \in Cams : joining' # c
    BY NullsAssumption DEF viewVars
  <2> QED
    BY <2>1, <2>2 DEF SuspendedWaits
<1>10. DeadDecoderShown'
  BY <1>1, <1>3 DEF DeadDecoderShown, Alive, viewVars
<1> QED
  BY <1>2, <1>4, <1>7, <1>8, <1>9, <1>10 DEF ActInv

\* onPause passes a view that is not streaming.
LEMMA PauseIdleViewInv ==
  ASSUME ActInv, IndInv', NEW c \in Cams, PauseIdleView(c)
  PROVE  ActInv'
<1> USE DEF PauseIdleView, PauseNext, UiIdle
<1>1. /\ ActTypeOK /\ ReadsFit /\ SuspendedWaits /\ DeadDecoderShown /\ PauseInOrder
      /\ UNCHANGED <<reads, looper, viewVars, doubleRead, label, actSuspending>>
  BY DEF ActInv
<1>2. /\ NullUnseen' /\ RunHasThread' /\ SourceRuns' /\ CrashNeedsDoubleRead'
      /\ \A d \in Cams : Room(d)' <=> Room(d)
  BY ViewsAlone DEF viewVars
<1>3. ActTypeOK'
  BY <1>1 DEF ActTypeOK, Left, Right
<1>4. ReadsFit'
  BY <1>1, <1>2, ReadsAlone DEF ReadsFit
<1>5. PauseInOrder'
  BY <1>1 DEF PauseInOrder, Left, Right, viewVars
<1>6. SuspendedWaits'
  <2>1. \A d \in Cams : joining' # d
    BY NullsAssumption DEF viewVars
  <2>2. c # 0
    BY DEF Left, Right
  <2> QED
    BY <1>1, <2>1, <2>2, ReadsAlone DEF SuspendedWaits, viewVars, Left, Right
<1>7. DeadDecoderShown'
  BY <1>1, ReadsAlone DEF DeadDecoderShown, Alive, viewVars
<1> QED
  BY <1>2, <1>3, <1>4, <1>5, <1>6, <1>7 DEF ActInv

\* An answer takes the place of the DoRead it answers.
LEMMA DoInBackgroundInv ==
  ASSUME ActInv, IndInv', NEW c \in Cams, NEW kind \in {"connected", "failed"},
         DoInBackground(c, kind)
  PROVE  ActInv'
<1> USE DEF DoInBackground
<1>1. /\ ActTypeOK /\ ReadsFit /\ SuspendedWaits /\ DeadDecoderShown /\ PauseInOrder
      /\ UNCHANGED <<viewVars, act, actSuspending, pausing, label, doubleRead>>
      /\ looper \in Seq(Messages) /\ reads \in [Cams -> Nat]
      /\ reads[c] > 0 /\ reads' = [reads EXCEPT ![c] = @ - 1]
  BY DEF ActInv, ActTypeOK
<1>2. /\ NullUnseen' /\ RunHasThread' /\ SourceRuns' /\ CrashNeedsDoubleRead'
      /\ \A d \in Cams : Room(d)' <=> Room(d)
  BY ViewsAlone DEF viewVars
<1>3. /\ looper' \in Seq(Messages)
      /\ Posted(kind, c)'
      /\ \A d \in Cams : Posted("imageError", d)' <=> Posted("imageError", d)
      /\ \A d \in Cams : d # c => /\ Answered(d)' <=> Answered(d)
                                  /\ AnswerOnce(d)' <=> AnswerOnce(d)
      /\ ~Answered(c) => AnswerOnce(c)'
  BY <1>1, Appended DEF Answered
<1>4. \A d \in Cams : Outstanding(d)' <=> Outstanding(d)
  <2>1. Outstanding(c) /\ Outstanding(c)'
    BY <1>1, <1>3 DEF Outstanding
  <2>2. \A d \in Cams : d # c => reads'[d] = reads[d]
    BY <1>1
  <2> QED
    BY <1>3, <2>1, <2>2 DEF Outstanding, Answered
<1>5. ActTypeOK'
  <2>1. reads \in [Cams -> 0..MaxReads] /\ MaxReads \in Nat
    BY <1>1 DEF ActTypeOK
  <2>2. reads' \in [Cams -> 0..MaxReads]
    BY <1>1, <2>1
  <2> QED
    BY <1>1, <1>3, <2>2 DEF ActTypeOK
<1>6. ReadsFit'
  <2> SUFFICES ASSUME doubleRead = {}, NEW d \in Cams
               PROVE  /\ reads'[d] <= 1 /\ AnswerOnce(d)'
                      /\ reads'[d] = 1 => ~Answered(d)'
                      /\ Outstanding(d)' => Room(d)'
    BY <1>1 DEF ReadsFit
  <2>1. reads[d] <= 1 /\ AnswerOnce(d) /\ (reads[d] = 1 => ~Answered(d)) /\ (Outstanding(d) => Room(d))
    BY <1>1 DEF ReadsFit
  <2>2. CASE d = c
    <3>1. reads[c] = 1 /\ reads'[c] = 0
      BY <1>1, <2>1, <2>2
    <3> QED
      BY <1>2, <1>3, <1>4, <2>1, <2>2, <3>1
  <2>3. CASE d # c
    <3>1. reads'[d] = reads[d]
      BY <1>1, <2>3
    <3> QED
      BY <1>2, <1>3, <1>4, <2>1, <2>3, <3>1
  <2> QED
    BY <2>2, <2>3
<1>7. PauseInOrder'
  BY <1>1 DEF PauseInOrder, viewVars
<1>8. SuspendedWaits'
  BY <1>1, <1>4 DEF SuspendedWaits, viewVars
<1>9. DeadDecoderShown'
  BY <1>1, <1>3 DEF DeadDecoderShown, Alive, viewVars
<1> QED
  BY <1>2, <1>5, <1>6, <1>7, <1>8, <1>9 DEF ActInv

\* The looper shows the image error of a decoder.
LEMMA OnImageErrorInv ==
  ASSUME ActInv, IndInv', NEW c \in Cams, OnImageError(c)
  PROVE  ActInv'
<1> USE DEF OnImageError
<1>1. /\ ActTypeOK /\ ReadsFit /\ SuspendedWaits /\ DeadDecoderShown /\ PauseInOrder
      /\ UNCHANGED <<viewVars, act, actSuspending, pausing, reads, doubleRead>>
      /\ looper \in Seq(Messages)
      /\ label' = [label EXCEPT ![c] = "imageError"]
      /\ Handle("imageError", c)
  BY DEF ActInv, ActTypeOK, Handle
<1>2. /\ NullUnseen' /\ RunHasThread' /\ SourceRuns' /\ CrashNeedsDoubleRead'
      /\ \A d \in Cams : Room(d)' <=> Room(d)
  BY <1>1, ViewsAlone DEF viewVars
<1>3. /\ looper' \in Seq(Messages)
      /\ \A d \in Cams : /\ d # c => (Posted("imageError", d)' <=> Posted("imageError", d))
                         /\ Answered(d)' <=> Answered(d)
                         /\ AnswerOnce(d) => AnswerOnce(d)'
  BY <1>1, Handled DEF Answered
<1>4. \A d \in Cams : Outstanding(d)' <=> Outstanding(d)
  BY <1>1, <1>3 DEF Outstanding, Answered
<1>5. ActTypeOK'
  BY <1>1, <1>3 DEF ActTypeOK, Labels
<1>6. ReadsFit'
  BY <1>1, <1>2, <1>3, <1>4 DEF ReadsFit
<1>7. PauseInOrder'
  BY <1>1 DEF PauseInOrder, viewVars
<1>8. SuspendedWaits'
  BY <1>1, <1>4 DEF SuspendedWaits, viewVars
<1>9. DeadDecoderShown'
  <2>1. label \in [Cams -> Labels]
    BY <1>1 DEF ActTypeOK
  <2> QED
    BY <1>1, <1>3, <2>1 DEF DeadDecoderShown, Alive, viewVars
<1> QED
  BY <1>2, <1>5, <1>6, <1>7, <1>8, <1>9 DEF ActInv

-----------------------------------------------------------------------------
(* Stops and surfaces *)

\* A surface comes.
LEMMA ActSurfaceCreatedInv ==
  ASSUME ActInv, IndInv', NEW c \in Cams, ActSurfaceCreated(c)
  PROVE  ActInv'
<1> USE DEF ActSurfaceCreated, SurfaceCreated, actVars
<1>1. ActTypeOK /\ ReadsFit /\ SuspendedWaits /\ DeadDecoderShown
  BY DEF ActInv
<1>2. /\ NullUnseen' /\ RunHasThread' /\ SourceRuns' /\ CrashNeedsDoubleRead'
      /\ \A d \in Cams : Room(d)' <=> Room(d)
  BY ViewsAlone
<1>3. ActTypeOK'
  BY <1>1 DEF ActTypeOK
<1>4. ReadsFit'
  BY <1>1, <1>2, ReadsAlone DEF ReadsFit
<1>5. PauseInOrder'
  BY DEF PauseInOrder
<1>6. SuspendedWaits'
  BY <1>1, ReadsAlone DEF SuspendedWaits
<1>7. DeadDecoderShown'
  BY <1>1, ReadsAlone DEF DeadDecoderShown, Alive
<1> QED
  BY <1>2, <1>3, <1>4, <1>5, <1>6, <1>7 DEF ActInv

\* A stop begins: by onPause for a view that streams, or by a surface callback
\* outside onPause.
LEMMA StopBeginActInv ==
  ASSUME ActInv, IndInv', NEW c \in Cams, UiIdle, StopBegin(c),
         UNCHANGED <<mIn, thread, pc, visIn, open, fault, actVars>>,
         (pausing = c /\ mRun[c]) \/ pausing = 0
  PROVE  ActInv'
<1> USE DEF StopBegin, UiIdle, actVars
<1>1. /\ ActTypeOK /\ ReadsFit /\ NullUnseen /\ RunHasThread /\ SourceRuns /\ PauseInOrder
      /\ SuspendedWaits /\ CrashNeedsDoubleRead /\ DeadDecoderShown
      /\ mRun \in [Cams -> BOOLEAN] /\ suspending \in [Cams -> BOOLEAN]
  BY DEF ActInv, IndInv, TypeOK
<1>2. /\ \A d \in Cams : (mRun'[d] => mRun[d]) /\ (suspending[d] => suspending'[d])
      /\ mRun[c] => suspending'[c]
      /\ \A d \in Cams : d # c => mRun'[d] = mRun[d]
      /\ joining' = c /\ joining = NoCam /\ \A d \in Cams : d # NoCam
  BY <1>1, NullsAssumption
<1>3. ActTypeOK'
  BY <1>1 DEF ActTypeOK
<1>4. ReadsFit'
  <2>1. \A d \in Cams : Room(d) => Room(d)'
    BY <1>2 DEF Room
  <2> QED
    BY <1>1, <2>1, ReadsAlone DEF ReadsFit
<1>5. NullUnseen' /\ CrashNeedsDoubleRead'
  BY <1>1 DEF NullUnseen, Live, CrashNeedsDoubleRead
<1>6. RunHasThread'
  BY <1>1, <1>2 DEF RunHasThread
<1>7. SourceRuns'
  BY <1>1, <1>2 DEF SourceRuns
<1>8. PauseInOrder'
  BY <1>1, <1>2 DEF PauseInOrder, Left, Right
<1>9. SuspendedWaits'
  <2>1. ASSUME NEW d \in Cams, pausing' = d, joining' = d, doubleRead' = {}
        PROVE  suspending'[d] /\ ~Outstanding(d)'
    <3>1. d = c /\ mRun[c]
      BY <1>2, <2>1 DEF Left, Right
    <3> QED
      BY <1>1, <1>2, <2>1, <3>1, ReadsAlone DEF SuspendedWaits
  <2> QED
    BY <1>1, <1>2, <2>1, ReadsAlone DEF SuspendedWaits
<1>10. DeadDecoderShown'
  BY <1>1, <1>2, ReadsAlone DEF DeadDecoderShown, Alive
<1> QED
  BY <1>3, <1>4, <1>5, <1>6, <1>7, <1>8, <1>9, <1>10 DEF ActInv

\* A stop ends: the join has seen the decoder's end, the stream is closed.
LEMMA StopEndViews ==
  ASSUME ActInv, IndInv', NEW c \in Cams, StopEnd(c),
         UNCHANGED <<reads, looper, label, doubleRead>>
  PROVE  /\ ReadsFit' /\ NullUnseen' /\ RunHasThread' /\ SourceRuns'
         /\ CrashNeedsDoubleRead' /\ DeadDecoderShown'
         /\ ~mRun[c] /\ \A d \in Cams : joining' # d
<1> USE DEF StopEnd
<1>1. /\ ReadsFit /\ NullUnseen /\ RunHasThread /\ SourceRuns
      /\ CrashNeedsDoubleRead /\ DeadDecoderShown
      /\ TypeOK /\ ThreadReferenced /\ FlagsAgree
  BY DEF ActInv, IndInv
<1>2. /\ \A k \in Slots : ~Live(c, k) /\ pc'[c][k] = "unused"
      /\ \A d \in Cams : d # c => /\ pc'[d] = pc[d] /\ thread'[d] = thread[d]
                                  /\ mIn'[d] = mIn[d] /\ visIn'[d] = visIn[d]
      /\ thread'[c] = NoThread /\ mIn'[c] = NoStream
  BY <1>1, NoLiveDecoder DEF TypeOK
<1>3. /\ ~mRun[c] /\ mRun' = mRun /\ suspending' = suspending /\ fault' = fault
      /\ open' = open \ {mIn[c]} /\ NoStream \notin open /\ joining = c
      /\ \A d \in Cams : joining' # d
  BY <1>1, NullsAssumption DEF FlagsAgree, TypeOK
<1>4. ReadsFit'
  <2>1. \A d \in Cams : Room(d) => Room(d)'
    BY <1>2, <1>3 DEF Room
  <2> QED
    BY <1>1, <2>1, ReadsAlone DEF ReadsFit
<1>5. NullUnseen'
  <2>1. \A d \in Cams, k \in Slots : Live(d, k)' => d # c /\ Live(d, k)
    BY <1>2 DEF Live, LivePCs
  <2> QED
    BY <1>1, <1>2, <2>1 DEF NullUnseen
<1>6. RunHasThread'
  BY <1>1, <1>2, <1>3 DEF RunHasThread
<1>7. SourceRuns'
  BY <1>1, <1>2, <1>3 DEF SourceRuns
<1>8. CrashNeedsDoubleRead'
  BY <1>1, <1>3 DEF CrashNeedsDoubleRead
<1>9. DeadDecoderShown'
  BY <1>1, <1>2, <1>3, ReadsAlone DEF DeadDecoderShown, Alive
<1> QED
  BY <1>3, <1>4, <1>5, <1>6, <1>7, <1>8, <1>9

\* onPause has stopped a view and goes on.
LEMMA PauseViewStoppedInv ==
  ASSUME ActInv, IndInv', NEW c \in Cams, PauseViewStopped(c)
  PROVE  ActInv'
<1> USE DEF PauseViewStopped, PauseNext
<1>1. ActTypeOK /\ SuspendedWaits /\ PauseInOrder
  BY DEF ActInv
<1>2. /\ ReadsFit' /\ NullUnseen' /\ RunHasThread' /\ SourceRuns'
      /\ CrashNeedsDoubleRead' /\ DeadDecoderShown'
      /\ ~mRun[c] /\ \A d \in Cams : joining' # d
  BY StopEndViews
<1>3. /\ mRun' = mRun /\ suspending' = suspending /\ joining' = NoCam /\ joining = c
      /\ pausing = c /\ c \in {Left, Right}
  BY DEF StopEnd
<1>4. ActTypeOK'
  BY <1>1, <1>3 DEF ActTypeOK, Left, Right
<1>5. PauseInOrder'
  BY <1>1, <1>2, <1>3 DEF PauseInOrder, Left, Right
<1>6. SuspendedWaits'
  BY <1>1, <1>2, <1>3, ReadsAlone DEF SuspendedWaits, Left, Right
<1> QED
  BY <1>2, <1>4, <1>5, <1>6 DEF ActInv

\* A surface goes once its decoder has ended.
LEMMA ActSurfaceGoneInv ==
  ASSUME ActInv, IndInv', NEW c \in Cams, ActSurfaceGone(c)
  PROVE  ActInv'
<1> USE DEF ActSurfaceGone, actVars
<1>1. ActTypeOK /\ SuspendedWaits
  BY DEF ActInv
<1>2. /\ ReadsFit' /\ NullUnseen' /\ RunHasThread' /\ SourceRuns'
      /\ CrashNeedsDoubleRead' /\ DeadDecoderShown'
      /\ \A d \in Cams : joining' # d
  BY StopEndViews
<1>3. mRun' = mRun /\ suspending' = suspending
  BY DEF StopEnd
<1>4. ActTypeOK'
  BY <1>1 DEF ActTypeOK
<1>5. PauseInOrder'
  BY DEF PauseInOrder
<1>6. SuspendedWaits'
  BY <1>1, <1>2, <1>3, ReadsAlone DEF SuspendedWaits
<1> QED
  BY <1>2, <1>4, <1>5, <1>6 DEF ActInv

-----------------------------------------------------------------------------
(* Decoders *)

\* Where a decoder's step may lead: to its end only if its view is being
\* stopped, or its error was posted, or with the process.
LEMMA ActDecoderStep ==
  ASSUME ActInv, IndInv', NEW c \in Cams, NEW k \in Slots,
         NEW from \in LivePCs, NEW to \in LivePCs \cup {"dead"}, NEW s,
         DecoderStep(c, k, from, to, s),
         UNCHANGED <<act, actSuspending, pausing, reads, label, doubleRead>>,
         looper' = looper \/ looper' = Append(looper, Message("imageError", c)),
         to = "error" => Posted("imageError", c)',
         to = "dead" => fault' # "none" \/ joining = c \/ from = "error",
         fault' = "illegalThreadState" => fault' = fault,
         fault' = "nullPointer" => doubleRead # {}
  PROVE  ActInv'
<1> USE DEF DecoderStep, fields, Alive
<1>1. /\ ActTypeOK /\ ReadsFit /\ NullUnseen /\ RunHasThread /\ SourceRuns /\ PauseInOrder
      /\ SuspendedWaits /\ CrashNeedsDoubleRead /\ DeadDecoderShown
      /\ pc \in [Cams -> [Slots -> PCs]] /\ looper \in Seq(Messages)
  BY DEF ActInv, IndInv, TypeOK, ActTypeOK
<1>2. /\ looper' \in Seq(Messages)
      /\ \A d \in Cams : /\ Posted("imageError", d) => Posted("imageError", d)'
                         /\ Outstanding(d)' <=> Outstanding(d)
                         /\ Answered(d)' <=> Answered(d)
                         /\ AnswerOnce(d)' <=> AnswerOnce(d)
  <2>1. CASE looper' = looper
    BY <1>1, <2>1, ReadsAlone
  <2>2. CASE looper' = Append(looper, Message("imageError", c))
    BY <1>1, <2>2, Appended DEF Outstanding, Answered
  <2> QED
    BY <2>1, <2>2
<1>3. /\ pc'[c][k] = to /\ to # "new" /\ pc[c][k] # "new" /\ Live(c, k)
      /\ \A d \in Cams, j \in Slots : d # c \/ j # k => pc'[d][j] = pc[d][j]
  BY <1>1 DEF LivePCs, Live
<1>4. ActTypeOK'
  BY <1>1, <1>2 DEF ActTypeOK
<1>5. thread' = thread /\ thread \in [Cams -> Slots \cup {NoThread}]
  BY DEF ActInv, IndInv, TypeOK
<1>6. ReadsFit'
  <2>1. \A d \in Cams : Room(d) => Room(d)'
    BY <1>3, <1>5 DEF Room
  <2> QED
    BY <1>1, <1>2, <2>1 DEF ReadsFit
<1>7. NullUnseen'
  <2>1. \A d \in Cams, j \in Slots : Live(d, j)' => Live(d, j)
    BY <1>3 DEF Live
  <2> QED
    BY <1>1, <2>1 DEF NullUnseen
<1>8. RunHasThread'
  BY <1>1, <1>3, <1>5 DEF RunHasThread
<1>9. SourceRuns'
  BY <1>1 DEF SourceRuns
<1>10. PauseInOrder'
  BY <1>1 DEF PauseInOrder
<1>11. SuspendedWaits'
  BY <1>1, <1>2 DEF SuspendedWaits
<1>12. CrashNeedsDoubleRead'
  BY <1>1 DEF CrashNeedsDoubleRead
<1>13. DeadDecoderShown'
  <2> SUFFICES ASSUME NEW d \in Cams, NEW j \in Slots, fault' = "none", joining # d,
                      pc'[d][j] \in {"error", "dead"}
               PROVE  Posted("imageError", d)' \/ label[d] \in {"imageError", "disconnected"}
    BY DEF DeadDecoderShown
  <2>1. CASE pc[d][j] \in {"error", "dead"}
    BY <1>1, <1>2, <2>1 DEF DeadDecoderShown
  <2>2. CASE pc[d][j] \notin {"error", "dead"}
    <3>1. d = c /\ j = k
      BY <1>3, <2>2
    <3>2. to # "dead"
      BY <2>2, <3>1
    <3> QED
      BY <1>3, <3>1, <3>2
  <2> QED
    BY <2>1, <2>2
<1> QED
  BY <1>4, <1>6, <1>7, <1>8, <1>9, <1>10, <1>11, <1>12, <1>13 DEF ActInv

\* A step of a decoder, which may post its image error to the looper.
LEMMA ActDecoderInv ==
  ASSUME ActInv, IndInv', NEW c \in Cams, NEW k \in Slots, ActDecoder(c, k)
  PROVE  ActInv'
<1> USE DEF LivePCs
<1>1. /\ UNCHANGED <<act, actSuspending, pausing, reads, label, doubleRead>>
      /\ FlagsAgree /\ NullUnseen /\ looper \in Seq(Messages)
  BY DEF ActDecoder, ActInv, IndInv, ActTypeOK
<1>0. fault = "none"
  BY DEF ActDecoder, ExitLoop, BeginRead, BeginReadNull, FrameRead, FrameNull, FrameIOException,
         FrameNoMarker, LockCanvas, UnlockCanvas, ReturnAfterError, DecoderStep, Alive
<1>2. CASE FrameNull(c, k) /\ looper' = Append(looper, Message("imageError", c))
  <2>1. Posted("imageError", c)'
    BY <1>0, <1>1, <1>2, Appended
  <2> QED
    BY <1>0, <1>1, <1>2, <2>1, ActDecoderStep DEF FrameNull
<1>3. CASE ExitLoop(c, k) /\ UNCHANGED looper
  <2>1. joining = c
    BY <1>0, <1>1, <1>3 DEF ExitLoop, DecoderStep, FlagsAgree, Live
  <2> QED
    BY <1>0, <1>1, <1>3, <2>1, ActDecoderStep DEF ExitLoop
<1>4. CASE BeginRead(c, k) /\ UNCHANGED looper
  BY <1>0, <1>1, <1>4, ActDecoderStep DEF BeginRead
<1>5. CASE BeginReadNull(c, k) /\ UNCHANGED looper
  <2>1. doubleRead # {}
    BY <1>0, <1>1, <1>5 DEF BeginReadNull, DecoderStep, NullUnseen, Live
  <2> QED
    BY <1>0, <1>1, <1>5, <2>1, ActDecoderStep DEF BeginReadNull
<1>6. CASE FrameRead(c, k) /\ UNCHANGED looper
  BY <1>0, <1>1, <1>6, ActDecoderStep DEF FrameRead
<1>7. CASE FrameIOException(c, k) /\ UNCHANGED looper
  BY <1>0, <1>1, <1>7, ActDecoderStep DEF FrameIOException
<1>8. CASE FrameNoMarker(c, k) /\ UNCHANGED looper
  BY <1>0, <1>1, <1>8, ActDecoderStep DEF FrameNoMarker
<1>9. CASE LockCanvas(c, k) /\ UNCHANGED looper
  <2>1. CASE surface[c]
    BY <1>0, <1>1, <1>9, <2>1, ActDecoderStep DEF LockCanvas
  <2>2. CASE ~surface[c]
    BY <1>0, <1>1, <1>9, <2>2, ActDecoderStep DEF LockCanvas
  <2> QED
    BY <2>1, <2>2
<1>10. CASE UnlockCanvas(c, k) /\ UNCHANGED looper
  BY <1>0, <1>1, <1>10, ActDecoderStep DEF UnlockCanvas
<1>11. CASE ReturnAfterError(c, k) /\ UNCHANGED looper
  BY <1>0, <1>1, <1>11, ActDecoderStep DEF ReturnAfterError
<1> QED
  BY <1>2, <1>3, <1>4, <1>5, <1>6, <1>7, <1>8, <1>9, <1>10, <1>11 DEF ActDecoder

-----------------------------------------------------------------------------
(* Answers of DoRead *)

\* A view with room for a DoRead has no decoder.
LEMMA RoomIsQuiet ==
  ASSUME ActInv, UiIdle, NEW c \in Cams, Room(c)
  PROVE  \A k \in Slots : ~Live(c, k)
<1>1. ThreadReferenced /\ FlagsAgree /\ joining # c
  BY NullsAssumption DEF ActInv, IndInv, UiIdle
<1>2. CASE suspending[c]
  BY <1>1, <1>2, NullsAssumption DEF FlagsAgree, ThreadReferenced, Live, LivePCs
<1>3. CASE thread[c] # NoThread => pc[c][thread[c]] = "new"
  BY <1>1, <1>3, NullsAssumption DEF ThreadReferenced, Live, LivePCs
<1> QED
  BY <1>2, <1>3 DEF Room

\* What handling an answer for view c does to the looper; before, if the
\* process can live on, the view has room, and this was its only DoRead.
LEMMA AnswerHandled ==
  ASSUME ActInv, NEW c \in Cams, NEW kind \in {"connected", "failed"}, Handle(kind, c)
  PROVE  /\ looper' \in Seq(Messages)
         /\ \A d \in Cams : /\ Posted("imageError", d)' <=> Posted("imageError", d)
                            /\ Outstanding(d)' => Outstanding(d)
                            /\ d # c => (Outstanding(d)' <=> Outstanding(d))
                            /\ Answered(d)' => Answered(d)
                            /\ AnswerOnce(d) => AnswerOnce(d)'
         /\ Outstanding(c)
         /\ doubleRead = {} => Room(c) /\ ~Outstanding(c)'
         /\ pausing = 0 /\ UiIdle
         /\ UNCHANGED <<act, actSuspending, pausing, reads, doubleRead>>
<1>1. /\ looper \in Seq(Messages) /\ ReadsFit /\ reads \in [Cams -> 0..MaxReads]
      /\ UNCHANGED <<act, actSuspending, pausing, reads, doubleRead>>
      /\ pausing = 0 /\ UiIdle
  BY DEF ActInv, ActTypeOK, Handle, LooperIdle
<1>2. /\ looper' \in Seq(Messages)
      /\ Posted(kind, c)
      /\ \A d \in Cams, kd \in {"connected", "failed", "imageError"} :
           /\ Posted(kd, d)' => Posted(kd, d)
           /\ kd # kind \/ d # c => (Posted(kd, d)' <=> Posted(kd, d))
      /\ \A d \in Cams : AnswerOnce(d) => AnswerOnce(d)'
      /\ AnswerOnce(c) => ~Answered(c)'
  BY <1>1, Handled
<1>3. /\ \A d \in Cams : /\ Posted("imageError", d)' <=> Posted("imageError", d)
                         /\ Outstanding(d)' => Outstanding(d)
                         /\ d # c => (Outstanding(d)' <=> Outstanding(d))
                         /\ Answered(d)' => Answered(d)
      /\ Answered(c) /\ Outstanding(c)
  BY <1>1, <1>2 DEF Outstanding, Answered
<1>4. ASSUME doubleRead = {}
      PROVE  Room(c) /\ ~Outstanding(c)'
  <2>1. /\ reads[c] <= 1 /\ AnswerOnce(c) /\ (reads[c] = 1 => ~Answered(c))
        /\ Outstanding(c) => Room(c)
    BY <1>1, <1>4 DEF ReadsFit
  <2>2. reads[c] \in Nat
    BY <1>1, ActivityAssumption
  <2>3. ~(reads'[c] > 0)
    BY <1>1, <1>3, <2>1, <2>2
  <2>4. ~Answered(c)'
    BY <1>2, <2>1
  <2> QED
    BY <1>3, <2>1, <2>3, <2>4 DEF Outstanding, Answered
<1> QED
  BY <1>1, <1>2, <1>3, <1>4

\* A DoRead without a connection is answered.
LEMMA OnFailedInv ==
  ASSUME ActInv, IndInv', NEW c \in Cams, OnFailed(c)
  PROVE  ActInv'
<1> USE DEF OnFailed, SetSourceNull
<1>1. /\ ActTypeOK /\ ReadsFit /\ NullUnseen /\ RunHasThread /\ SourceRuns /\ PauseInOrder
      /\ SuspendedWaits /\ CrashNeedsDoubleRead /\ DeadDecoderShown
      /\ mIn \in [Cams -> Streams \cup {NoStream}] /\ open \subseteq Streams
      /\ visIn \in [Cams -> SUBSET (Streams \cup {NoStream})]
      /\ label \in [Cams -> Labels]
  BY DEF ActInv, IndInv, TypeOK, ActTypeOK
<1>2. /\ looper' \in Seq(Messages)
      /\ \A d \in Cams : /\ Posted("imageError", d)' <=> Posted("imageError", d)
                         /\ Outstanding(d)' => Outstanding(d)
                         /\ Answered(d)' => Answered(d)
                         /\ AnswerOnce(d) => AnswerOnce(d)'
      /\ doubleRead = {} => Room(c)
      /\ pausing = 0 /\ UiIdle
      /\ UNCHANGED <<act, actSuspending, pausing, reads, doubleRead>>
  BY AnswerHandled
<1>3. ActTypeOK'
  BY <1>1, <1>2 DEF ActTypeOK, Labels
<1>4. ReadsFit'
  <2>1. \A d \in Cams : Room(d)' <=> Room(d)
    BY DEF Room
  <2> QED
    BY <1>1, <1>2, <2>1 DEF ReadsFit
<1>5. NullUnseen'
  <2> SUFFICES ASSUME doubleRead = {}, NEW d \in Cams, NEW k \in Slots, Live(d, k)
               PROVE  NoStream \notin visIn'[d]
    BY <1>2 DEF NullUnseen, Live
  <2>1. d # c
    BY <1>2, RoomIsQuiet
  <2> QED
    BY <1>1, <2>1 DEF NullUnseen
<1>6. RunHasThread'
  BY <1>1 DEF RunHasThread
<1>7. SourceRuns'
  BY <1>1, NullsAssumption DEF SourceRuns
<1>8. PauseInOrder'
  BY <1>2 DEF PauseInOrder
<1>9. SuspendedWaits'
  <2>1. \A d \in Cams : joining' # d
    BY <1>2, NullsAssumption DEF UiIdle
  <2> QED
    BY <1>1, <1>2, <2>1 DEF SuspendedWaits
<1>10. CrashNeedsDoubleRead'
  BY <1>1, <1>2 DEF CrashNeedsDoubleRead
<1>11. DeadDecoderShown'
  BY <1>1, <1>2 DEF DeadDecoderShown, Alive
<1> QED
  BY <1>3, <1>4, <1>5, <1>6, <1>7, <1>8, <1>9, <1>10, <1>11 DEF ActInv

\* A source that starts a thread: the view's old thread objects are gone.
LEMMA StartedInv ==
  ASSUME ActInv, IndInv', NEW c \in Cams, NEW s \in Streams, NEW k \in Slots,
         Handle("connected", c), UiIdle, Fresh(s),
         mIn' = [mIn EXCEPT ![c] = s], open' = open \cup {s}, StartThread(c, k, s),
         UNCHANGED joining,
         \A d \in Cams : suspending'[d] => suspending[d],
         \A d \in Cams : d # c => suspending'[d] = suspending[d],
         label' = [label EXCEPT ![c] = "connected"]
  PROVE  ActInv'
<1> USE DEF StartThread
<1>1. /\ ActTypeOK /\ ReadsFit /\ NullUnseen /\ RunHasThread /\ SourceRuns
      /\ SuspendedWaits /\ CrashNeedsDoubleRead /\ DeadDecoderShown
      /\ TypeOK /\ ThreadReferenced' /\ label \in [Cams -> Labels]
  BY DEF ActInv, IndInv, ActTypeOK
<1>2. /\ looper' \in Seq(Messages)
      /\ \A d \in Cams : /\ Posted("imageError", d)' <=> Posted("imageError", d)
                         /\ Outstanding(d)' => Outstanding(d)
                         /\ d # c => (Outstanding(d)' <=> Outstanding(d))
                         /\ Answered(d)' => Answered(d)
                         /\ AnswerOnce(d) => AnswerOnce(d)'
      /\ Outstanding(c)
      /\ doubleRead = {} => ~Outstanding(c)'
      /\ pausing = 0
      /\ UNCHANGED <<act, actSuspending, pausing, reads, doubleRead>>
  BY AnswerHandled
<1>3. /\ pc'[c][k] = "loop" /\ thread'[c] = k /\ visIn'[c] = {s} /\ mRun'[c] = TRUE
      /\ mIn'[c] = s /\ fault' = fault /\ k # NoThread /\ s # NoStream
      /\ \A d \in Cams : d # c => /\ pc'[d] = pc[d] /\ thread'[d] = thread[d]
                                  /\ visIn'[d] = visIn[d] /\ mRun'[d] = mRun[d]
                                  /\ mIn'[d] = mIn[d] /\ mIn[d] # s
  <2>1. TypeOK
    BY <1>1
  <2>2. k # NoThread /\ s # NoStream /\ \A d \in Cams : mIn[d] # s
    BY NullsAssumption DEF Fresh, Uses
  <2>3. pc'[c][k] = "loop" /\ thread'[c] = k /\ visIn'[c] = {s} /\ mRun'[c] = TRUE /\ mIn'[c] = s /\ fault' = fault
    BY <2>1 DEF TypeOK
  <2>4. ASSUME NEW d \in Cams, d # c
        PROVE  /\ pc'[d] = pc[d] /\ thread'[d] = thread[d]
               /\ visIn'[d] = visIn[d] /\ mRun'[d] = mRun[d] /\ mIn'[d] = mIn[d]
    BY <2>1, <2>4 DEF TypeOK
  <2> QED
    BY <2>2, <2>3, <2>4
<1>4. ActTypeOK'
  BY <1>1, <1>2 DEF ActTypeOK, Labels
<1>5. ReadsFit'
  <2>1. \A d \in Cams : d # c => (Room(d)' <=> Room(d))
    BY <1>3 DEF Room
  <2> QED
    BY <1>1, <1>2, <2>1 DEF ReadsFit
<1>6. NullUnseen'
  BY <1>1, <1>2, <1>3 DEF NullUnseen, Live
<1>7. RunHasThread'
  BY <1>1, <1>3 DEF RunHasThread
<1>8. SourceRuns'
  <2> SUFFICES ASSUME NEW d \in Cams, mIn'[d] \in open', joining' # d
               PROVE  mRun'[d]
    BY DEF SourceRuns
  <2>1. CASE d = c
    BY <1>3, <2>1
  <2>2. CASE d # c
    <3>1. mIn'[d] = mIn[d] /\ mIn[d] # s
      BY <1>3, <2>2
    <3>2. mIn[d] \in open \cup {s}
      BY <3>1
    <3>3. mIn[d] \in open /\ joining # d
      BY <3>1, <3>2
    <3> QED
      BY <1>1, <1>3, <2>2, <3>3 DEF SourceRuns
  <2> QED
    BY <2>1, <2>2
<1>9. PauseInOrder'
  BY <1>2 DEF PauseInOrder
<1>10. SuspendedWaits'
  <2>1. \A d \in Cams : joining' # d
    BY NullsAssumption DEF UiIdle
  <2> QED
    BY <1>1, <1>2, <1>3, <2>1 DEF SuspendedWaits
<1>11. CrashNeedsDoubleRead'
  BY <1>1, <1>2, <1>3 DEF CrashNeedsDoubleRead
<1>12. DeadDecoderShown'
  <2> SUFFICES ASSUME NEW d \in Cams, NEW j \in Slots, Alive', joining' # d,
                      pc'[d][j] \in {"error", "dead"}
               PROVE  Posted("imageError", d)' \/ label'[d] \in {"imageError", "disconnected"}
    BY DEF DeadDecoderShown
  <2>1. d # c
    BY <1>1, <1>3 DEF ThreadReferenced
  <2> QED
    BY <1>1, <1>2, <1>3, <2>1 DEF DeadDecoderShown, Alive
<1> QED
  BY <1>4, <1>5, <1>6, <1>7, <1>8, <1>9, <1>10, <1>11, <1>12 DEF ActInv

\* A thread started twice ends the process: only a DoRead too many does that.
LEMMA StartedTwiceInv ==
  ASSUME ActInv, IndInv', NEW c \in Cams, NEW s \in Streams,
         Handle("connected", c), UiIdle, Fresh(s),
         mIn' = [mIn EXCEPT ![c] = s], open' = open \cup {s},
         ~suspending[c], StartTwice(c, s), UNCHANGED <<joining, label>>
  PROVE  ActInv'
<1> USE DEF StartTwice
<1>1. /\ ActTypeOK /\ RunHasThread /\ SourceRuns /\ SuspendedWaits /\ TypeOK
  BY DEF ActInv, IndInv
<1>2. /\ looper' \in Seq(Messages)
      /\ doubleRead = {} => Room(c)
      /\ pausing = 0
      /\ UNCHANGED <<act, actSuspending, pausing, reads, doubleRead>>
  BY AnswerHandled
<1>3. doubleRead' # {}
  BY <1>2 DEF Room
<1>4. /\ mIn'[c] = s /\ mRun'[c] = TRUE
      /\ \A d \in Cams : d # c => mRun'[d] = mRun[d] /\ mIn'[d] = mIn[d] /\ mIn[d] # s
  BY <1>1 DEF TypeOK, Fresh, Uses
<1>5. ActTypeOK'
  BY <1>1, <1>2 DEF ActTypeOK
<1>6. ReadsFit' /\ NullUnseen' /\ CrashNeedsDoubleRead'
  BY <1>3 DEF ReadsFit, NullUnseen, CrashNeedsDoubleRead
<1>7. RunHasThread'
  BY <1>1, <1>4 DEF RunHasThread
<1>8. SourceRuns'
  <2> SUFFICES ASSUME NEW d \in Cams, mIn'[d] \in open', joining' # d
               PROVE  mRun'[d]
    BY DEF SourceRuns
  <2>1. CASE d = c
    BY <1>4, <2>1
  <2>2. CASE d # c
    <3>1. mIn'[d] = mIn[d] /\ mIn[d] # s
      BY <1>4, <2>2
    <3>2. mIn[d] \in open \cup {s}
      BY <3>1
    <3>3. mIn[d] \in open /\ joining # d
      BY <3>1, <3>2
    <3> QED
      BY <1>1, <1>4, <2>2, <3>3 DEF SourceRuns
  <2> QED
    BY <2>1, <2>2
<1>9. PauseInOrder'
  BY <1>2 DEF PauseInOrder
<1>10. SuspendedWaits'
  BY <1>1, <1>2, <1>3 DEF SuspendedWaits
<1>11. DeadDecoderShown'
  BY DEF DeadDecoderShown, Alive
<1> QED
  BY <1>5, <1>6, <1>7, <1>8, <1>9, <1>10, <1>11 DEF ActInv

\* A DoRead with a connection is answered and the view gets its stream.
LEMMA OnConnectedInv ==
  ASSUME ActInv, IndInv', NEW c \in Cams, OnConnected(c)
  PROVE  ActInv'
<1> DEFINE s == NewStream
<1>1. /\ Handle("connected", c) /\ SetSource(c, s) /\ s \in Streams
      /\ label' = IF fault' = "none" THEN [label EXCEPT ![c] = "connected"] ELSE label
      /\ suspending \in [Cams -> BOOLEAN]
  BY DEF OnConnected, SetSource, Fresh, ActInv, IndInv, TypeOK
<1> HIDE DEF s
<1>2. /\ UiIdle /\ Fresh(s) /\ fault = "none"
      /\ mIn' = [mIn EXCEPT ![c] = s] /\ open' = open \cup {s}
      /\ UNCHANGED joining
  BY <1>1 DEF SetSource, UiIdle, Alive
<1>3. CASE ~suspending[c] /\ StartPlayback(c, s)
  <2>1. PICK k \in Slots : StartThread(c, k, s)
    BY <1>3 DEF StartPlayback
  <2>2. UNCHANGED <<suspending, fault>>
    BY <1>3, <2>1 DEF StartPlayback, StartThread
  <2> QED
    BY <1>1, <1>2, <2>1, <2>2, StartedInv
<1>4. CASE ~suspending[c] /\ StartTwice(c, s)
  <2>1. label' = label
    BY <1>1, <1>4 DEF StartTwice
  <2> QED
    BY <1>1, <1>2, <1>4, <2>1, StartedTwiceInv
<1>5. CASE suspending[c] /\ ResumePlayback(c, s)
  <2>1. PICK k \in Slots : StartThread(c, k, s)
    BY <1>5 DEF ResumePlayback
  <2>2. suspending' = [suspending EXCEPT ![c] = FALSE] /\ fault' = fault
    BY <1>5, <2>1 DEF ResumePlayback, StartThread
  <2>3. /\ \A d \in Cams : suspending'[d] => suspending[d]
        /\ \A d \in Cams : d # c => suspending'[d] = suspending[d]
    BY <1>1, <2>2
  <2> QED
    BY <1>1, <1>2, <2>1, <2>2, <2>3, StartedInv
<1> QED
  BY <1>1, <1>3, <1>4, <1>5 DEF SetSource

\* stopPlayback out of onPause.
LEMMA PauseStopViewInv ==
  ASSUME ActInv, IndInv', NEW c \in Cams, PauseStopView(c)
  PROVE  ActInv'
<1>1. /\ UiIdle /\ StopBegin(c) /\ pausing = c /\ mRun[c]
      /\ UNCHANGED <<mIn, thread, pc, visIn, open, fault, actVars>>
  BY DEF PauseStopView, StopPlayback
<1> QED
  BY <1>1, StopBeginActInv

\* A surface is about to go, and its view is stopped.
LEMMA ActSurfaceDestroyedInv ==
  ASSUME ActInv, IndInv', NEW c \in Cams, ActSurfaceDestroyed(c)
  PROVE  ActInv'
<1>1. /\ UiIdle /\ StopBegin(c) /\ pausing = 0
      /\ UNCHANGED <<mIn, thread, pc, visIn, open, fault, actVars>>
  BY DEF ActSurfaceDestroyed, SurfaceDestroyed
<1> QED
  BY <1>1, StopBeginActInv

-----------------------------------------------------------------------------
(* The invariant holds of every behaviour *)

\* No view has a DoRead or a decoder in the beginning.
LEMMA ActInitInv == ActInit => ActInv
<1> SUFFICES ASSUME ActInit PROVE ActInv
  OBVIOUS
<1> USE NullsAssumption DEF ActInit, Init
<1>1. IndInv
  BY InitInv
<1>2. ActTypeOK
  <2>1. looper \in Seq(Messages)
    OBVIOUS
  <2>2. reads \in [Cams -> 0..MaxReads]
    OBVIOUS
  <2>3. label \in [Cams -> Labels]
    BY DEF Labels
  <2> QED
    BY <2>1, <2>2, <2>3 DEF ActTypeOK
<1>3. \A c \in Cams : /\ ~Posted("connected", c) /\ ~Posted("failed", c)
                      /\ AnswerOnce(c) /\ reads[c] <= 1 /\ Room(c)
  BY DEF Posted, AnswerOnce, Room
<1>4. ReadsFit
  BY <1>3 DEF ReadsFit, Answered
<1>5. \A c \in Cams, k \in Slots : ~Live(c, k) /\ pc[c][k] \notin {"error", "dead"}
  BY DEF Live, LivePCs
<1>6. NullUnseen
  BY <1>5 DEF NullUnseen
<1>7. RunHasThread
  BY DEF RunHasThread
<1>8. SourceRuns
  BY DEF SourceRuns
<1>9. PauseInOrder
  BY DEF PauseInOrder
<1>10. SuspendedWaits
  BY DEF SuspendedWaits
<1>11. CrashNeedsDoubleRead
  BY DEF CrashNeedsDoubleRead
<1>12. DeadDecoderShown
  BY <1>5 DEF DeadDecoderShown
<1> QED
  BY <1>1, <1>2, <1>4, <1>6, <1>7, <1>8, <1>9, <1>10, <1>11, <1>12 DEF ActInv

\* A step that changes nothing of the activity and its views.
LEMMA ActStutterInv ==
  ASSUME ActInv, IndInv', UNCHANGED vars
  PROVE  ActInv'
<1> USE DEF vars, viewVars, actVars
<1>1. /\ ActTypeOK /\ ReadsFit /\ SuspendedWaits /\ PauseInOrder /\ DeadDecoderShown
      /\ UNCHANGED <<reads, looper>>
  BY DEF ActInv
<1>2. /\ NullUnseen' /\ RunHasThread' /\ SourceRuns' /\ CrashNeedsDoubleRead'
      /\ \A c \in Cams : Room(c)' <=> Room(c)
  BY ViewsAlone
<1>3. ActTypeOK'
  BY <1>1 DEF ActTypeOK
<1>4. ReadsFit'
  BY <1>1, <1>2, ReadsAlone DEF ReadsFit
<1>5. PauseInOrder'
  BY <1>1 DEF PauseInOrder
<1>6. SuspendedWaits'
  BY <1>1, ReadsAlone DEF SuspendedWaits
<1>7. DeadDecoderShown'
  BY <1>1, ReadsAlone DEF DeadDecoderShown, Alive
<1> QED
  BY <1>2, <1>3, <1>4, <1>5, <1>6, <1>7 DEF ActInv

\* No step of the activity breaks its invariant.
LEMMA ActNextInv == ActInv /\ [ActNext]_vars => ActInv'
<1> SUFFICES ASSUME ActInv, [ActNext]_vars PROVE ActInv'
  OBVIOUS
<1>1. IndInv'
  BY ActNextViews, NextInv DEF ActInv
<1>2. CASE UNCHANGED vars
  BY <1>1, <1>2, ActStutterInv
<1>3. CASE Lifecycle
  BY <1>1, <1>3, OnResumeInv, OnPauseInv, OnDestroyInv DEF Lifecycle
<1>4. ASSUME NEW c \in Cams, PauseStep(c) PROVE ActInv'
  BY <1>1, <1>4, PauseIdleViewInv, PauseStopViewInv, PauseViewStoppedInv DEF PauseStep
<1>5. ASSUME NEW c \in Cams,
             ActSurfaceCreated(c) \/ ActSurfaceDestroyed(c) \/ ActSurfaceGone(c)
      PROVE  ActInv'
  BY <1>1, <1>5, ActSurfaceCreatedInv, ActSurfaceDestroyedInv, ActSurfaceGoneInv
<1>6. ASSUME NEW c \in Cams, NEW kind \in {"connected", "failed"}, DoInBackground(c, kind)
      PROVE  ActInv'
  BY <1>1, <1>6, DoInBackgroundInv
<1>7. ASSUME NEW c \in Cams, Looper(c) PROVE ActInv'
  BY <1>1, <1>7, OnConnectedInv, OnFailedInv, OnImageErrorInv DEF Looper
<1>8. ASSUME NEW c \in Cams, NEW k \in Slots, ActDecoder(c, k) PROVE ActInv'
  BY <1>1, <1>8, ActDecoderInv
<1> QED
  BY <1>2, <1>3, <1>4, <1>5, <1>6, <1>7, <1>8 DEF ActNext

\* The activity's fields, its looper and its views stay in step, whatever the
\* numbers of threads, streams and outstanding reads.
THEOREM ActInvariance == ActSpec => []ActInv
<1> QED
  BY ActInitInv, ActNextInv, PTL DEF ActSpec

\* A source that starts a second decoder, or is nulled under a running one,
\* ends the process only after a view was given a DoRead it had no room for.
THEOREM CrashesExplained == ActSpec => []CrashNeedsDoubleRead
<1>1. ActInv => CrashNeedsDoubleRead
  BY DEF ActInv
<1> QED
  BY <1>1, ActInvariance, PTL

\* The user is never told "connected" of a view whose decoder died by itself,
\* unless the error is still queued behind that text.
THEOREM DeadDecoderTold == ActSpec => []DeadDecoderShown
<1>1. ActInv => DeadDecoderShown
  BY DEF ActInv
<1> QED
  BY <1>1, ActInvariance, PTL

\* What onPause noted in suspending is still true of a view when onResume
\* reads it.
THEOREM SuspendingIsKept == ActSpec => []SuspendingKept
<1>1. ActInv => SuspendingKept
  BY DEF ActInv, SuspendedWaits, SuspendingKept
<1> QED
  BY <1>1, ActInvariance, PTL

\* onPause returns with both decoders gone and both streams closed.
LEMMA PausedIsQuiet ==
  ASSUME ActInv, ActInv', [ActNext]_vars, act = "resumed", act' = "paused"
  PROVE  \A c \in Cams : ~Decoding(c)' /\ mIn'[c] \notin open'
<1>1. /\ FlagsAgree' /\ SourceRuns' /\ PauseInOrder /\ FlagsAgree
      /\ mRun \in [Cams -> BOOLEAN]
  BY DEF ActInv, IndInv, TypeOK
<1>2. pausing = Right /\ UNCHANGED mRun /\ ~mRun[Right] /\ joining' = NoCam
  <2>1. ~ UNCHANGED vars
    BY DEF vars, actVars
  <2>2. PICK c \in Cams : PauseIdleView(c) \/ PauseViewStopped(c)
    BY <2>1 DEF ActNext, Lifecycle, OnResume, OnPause, OnDestroy, PauseStep, PauseStopView,
                ActSurfaceCreated, ActSurfaceDestroyed, ActSurfaceGone, DoInBackground,
                Looper, OnConnected, OnFailed, OnImageError, Handle, ActDecoder, actVars
  <2>3. pausing = c /\ c = Right
    BY <2>2 DEF PauseIdleView, PauseViewStopped, PauseNext
  <2>4. CASE PauseIdleView(c)
    BY <2>3, <2>4 DEF PauseIdleView, UiIdle, viewVars
  <2>5. CASE PauseViewStopped(c)
    BY <1>1, <2>3, <2>5 DEF PauseViewStopped, StopEnd, FlagsAgree
  <2> QED
    BY <2>2, <2>3, <2>4, <2>5
<1>3. \A c \in Cams : ~mRun'[c] /\ joining' # c
  BY <1>1, <1>2, NullsAssumption DEF PauseInOrder, Left, Right
<1> QED
  BY <1>1, <1>3 DEF FlagsAgree, SourceRuns, Decoding

\* When onPause returns nothing of either view is left running or open, even
\* if connections were made while it waited for the first decoder.
THEOREM PauseLeavesNothingBehind == ActSpec => PauseLeavesNothing
<1>1. /\ ActInv /\ ActInv' /\ [ActNext]_vars
      => [act = "resumed" /\ act' = "paused" =>
            \A c \in Cams : ~Decoding(c)' /\ mIn'[c] \notin open']_vars
  BY PausedIsQuiet
<1> QED
  BY <1>1, ActInvariance, PTL DEF ActSpec, PauseLeavesNothing
=============================================================================

--------------------------- MODULE DiscoveryProofs ---------------------------
(***************************************************************************)
(* Machine-checked theorems about Discovery: the scan belongs to its       *)
(* screen, and the race on mNsdManager is harmless, for any number of      *)
(* tasks and services.                                                     *)
(***************************************************************************)
EXTENDS Discovery, TLAPS

USE DiscoveryAssumption

\* While close() is at work it is on the task the activity holds, and that task
\* is cancelled already.
ClosingCancelled ==
  closing # NoTask => closing = clientTask /\ closing \in cancelled

\* A task past getSystemService, or one NsdManager has heard of, has its
\* manager unless it was cancelled.
ManagerUnlessCancelled ==
  \A t \in Tasks :
    taskPc[t] \in {"test", "discover", "stop", "sleep"} \/ t \in heard
      => t \in mNsdManager \/ t \in cancelled

\* A call on null has ended the process only after a task was cancelled.
NullNeedsCancel == fault = "nullManager" => cancelled # {}

IndInv ==
  /\ TypeOK
  /\ ScanBelongsToScreen
  /\ ClosingCancelled
  /\ ManagerUnlessCancelled
  /\ NullNeedsCancel

-----------------------------------------------------------------------------
LEMMA InitInv == Init => IndInv
BY DEF Init, IndInv, TypeOK, Running, ScanBelongsToScreen, ClosingCancelled,
       ManagerUnlessCancelled, NullNeedsCancel

-----------------------------------------------------------------------------
(* The activity *)

\* An idle screen that is not on, or has no task, has no scan going on.
LEMMA NoScanLeft ==
  ASSUME IndInv, UiIdle,
         clientTask = NoTask \/ screen \notin {"created", "resumed"}
  PROVE  \A t \in Tasks : taskPc[t] \in {"unused", "done"} \/ t \in cancelled
BY DEF IndInv, TypeOK, ScanBelongsToScreen, UiIdle

\* A new task may start where no scan is left, on a screen that is on.
LEMMA NewTaskInv ==
  ASSUME IndInv, NewTask, closing = NoTask,
         screen' \in {"created", "resumed"},
         \A t \in Tasks : taskPc[t] \in {"unused", "done"} \/ t \in cancelled,
         UNCHANGED <<finishing, closing, cancelled, mNsdManager, nsdVars, fault>>
  PROVE  IndInv'
<1> USE DEF nsdVars
<1>1. PICK t \in Tasks : /\ taskPc[t] = "unused"
                         /\ taskPc' = [taskPc EXCEPT ![t] = "queued"]
                         /\ clientTask' = t
  BY DEF NewTask
<1>2. TypeOK'
  BY <1>1 DEF IndInv, TypeOK
<1>3. ScanBelongsToScreen'
  BY <1>1 DEF IndInv, TypeOK, ScanBelongsToScreen
<1>4. ManagerUnlessCancelled'
  BY <1>1 DEF IndInv, TypeOK, ManagerUnlessCancelled
<1> QED
  BY <1>2, <1>3, <1>4 DEF IndInv, ClosingCancelled, NullNeedsCancel

LEMMA OnCreateInv == IndInv /\ OnCreate => IndInv'
<1> SUFFICES ASSUME IndInv, OnCreate PROVE IndInv'
  OBVIOUS
<1> USE DEF OnCreate, nsdVars
<1>1. \A t \in Tasks : taskPc[t] \in {"unused", "done"} \/ t \in cancelled
  BY NoScanLeft
<1>2. CASE NewTask /\ UNCHANGED fault
  BY <1>1, <1>2, NewTaskInv DEF UiIdle
<1>3. CASE fault' = "nullTask" /\ UNCHANGED <<taskPc, clientTask>>
  BY <1>1, <1>3 DEF IndInv, TypeOK, ScanBelongsToScreen, ClosingCancelled,
                    ManagerUnlessCancelled, NullNeedsCancel
<1> QED
  BY <1>2, <1>3

LEMMA OnResumeInv == IndInv /\ OnResume => IndInv'
<1> SUFFICES ASSUME IndInv, OnResume PROVE IndInv'
  OBVIOUS
<1> USE DEF OnResume, nsdVars
<1>1. CASE clientTask = NoTask /\ USE_NSD_MANAGER
  <2>1. \A t \in Tasks : taskPc[t] \in {"unused", "done"} \/ t \in cancelled
    BY <1>1, NoScanLeft
  <2> QED
    BY <1>1, <2>1, NewTaskInv DEF UiIdle
<1>2. CASE ~(clientTask = NoTask /\ USE_NSD_MANAGER)
  BY <1>2 DEF IndInv, TypeOK, ScanBelongsToScreen, ClosingCancelled,
              ManagerUnlessCancelled, NullNeedsCancel
<1> QED
  BY <1>1, <1>2

\* A screen that leaves cancels the only scan there may be.
LEMMA LeaveInv ==
  ASSUME IndInv, Leave, screen' \in {"paused", "stopped", "destroyed"}
  PROVE  IndInv'
<1> USE DEF Leave, CloseBegin, nsdVars
<1>1. CASE clientTask # NoTask
  <2>1. TypeOK'
    BY <1>1 DEF IndInv, TypeOK
  <2>2. ScanBelongsToScreen'
    BY <1>1 DEF IndInv, ScanBelongsToScreen
  <2>3. ClosingCancelled'
    BY <1>1 DEF ClosingCancelled
  <2>4. ManagerUnlessCancelled'
    BY <1>1 DEF IndInv, ManagerUnlessCancelled
  <2> QED
    BY <1>1, <2>1, <2>2, <2>3, <2>4 DEF IndInv, NullNeedsCancel
<1>2. CASE clientTask = NoTask
  <2>1. \A t \in Tasks : taskPc[t] \in {"unused", "done"} \/ t \in cancelled
    BY <1>2, NoScanLeft
  <2> QED
    BY <1>2, <2>1 DEF IndInv, TypeOK, ScanBelongsToScreen, ClosingCancelled,
                      ManagerUnlessCancelled, NullNeedsCancel
<1> QED
  BY <1>1, <1>2

\* The manager that close() takes away is that of a cancelled task.
LEMMA CloseEndInv == IndInv /\ CloseEnd => IndInv'
<1> SUFFICES ASSUME IndInv, CloseEnd PROVE IndInv'
  OBVIOUS
<1> USE DEF CloseEnd, nsdVars
<1>1. TypeOK'
  BY DEF IndInv, TypeOK
<1>2. ScanBelongsToScreen'
  BY DEF IndInv, ScanBelongsToScreen, ClosingCancelled
<1>3. ClosingCancelled'
  BY DEF ClosingCancelled
<1>4. ManagerUnlessCancelled'
  BY DEF IndInv, ManagerUnlessCancelled
<1> QED
  BY <1>1, <1>2, <1>3, <1>4 DEF IndInv, NullNeedsCancel

-----------------------------------------------------------------------------
(* The tasks and NsdManager *)

\* A step of doInBackground goes from a place where the task is a scan going on
\* to another, or to its end; it has its manager before it uses it.
LEMMA GotoInv ==
  ASSUME IndInv, NEW t \in Tasks,
         NEW from \in Running \cup {"queued"}, NEW to \in Running \cup {"done"},
         Goto(t, from, to),
         mNsdManager' \in {mNsdManager, mNsdManager \cup {t}},
         heard' \in {heard, heard \cup {t}},
         heard' # heard => from = "discover",
         to \in {"test", "discover", "stop", "sleep"} =>
           t \in mNsdManager' \/ from \in {"test", "discover", "stop", "sleep"},
         UNCHANGED fault
  PROVE  IndInv'
<1> USE DEF Goto, screenVars, Running
<1>1. /\ taskPc' \in [Tasks -> Running \cup {"unused", "queued", "done"}]
      /\ taskPc'[t] = to /\ taskPc[t] = from
      /\ \A u \in Tasks \ {t} : taskPc'[u] = taskPc[u]
  BY DEF IndInv, TypeOK
<1>2. TypeOK'
  BY <1>1 DEF IndInv, TypeOK
<1>3. ScanBelongsToScreen'
  BY <1>1 DEF IndInv, ScanBelongsToScreen
<1>4. ManagerUnlessCancelled'
  BY <1>1 DEF IndInv, ManagerUnlessCancelled
<1> QED
  BY <1>2, <1>3, <1>4 DEF IndInv, ClosingCancelled, NullNeedsCancel

LEMMA BackgroundInv ==
  ASSUME IndInv, NEW t \in Tasks, Background(t)
  PROVE  IndInv'
<1> USE DEF Running
<1>1. CASE Begin(t)
  BY <1>1, GotoInv DEF Begin
<1>2. CASE GetManager(t)
  BY <1>2, GotoInv DEF GetManager
<1>3. CASE LoopTest(t)
  BY <1>3, GotoInv DEF LoopTest
<1>4. CASE DiscoverServices(t)
  BY <1>4, GotoInv DEF DiscoverServices
<1>5. CASE StopServiceDiscovery(t)
  BY <1>5, GotoInv DEF StopServiceDiscovery
<1>6. CASE CallOnNull(t)
  <2>1. PICK from \in {"discover", "stop"} : Goto(t, from, "done")
    BY <1>6 DEF CallOnNull
  <2>2. t \in cancelled
    BY <1>6, <2>1 DEF CallOnNull, MaySeeNull, Goto, IndInv, ManagerUnlessCancelled
  <2> QED
    BY <1>6, <2>1, <2>2, GotoInv DEF CallOnNull
<1>7. CASE SleepEnds(t)
  BY <1>7, GotoInv DEF SleepEnds
<1> QED
  BY <1>1, <1>2, <1>3, <1>4, <1>5, <1>6, <1>7 DEF Background

\* A step that touches no thread's control keeps the invariant, if an exception
\* it brings about is not that of a null manager, or some task was cancelled.
LEMMA CallbackInv ==
  ASSUME IndInv, UNCHANGED <<screen, clientTask, closing, taskVars, heard>>,
         finishing' \in BOOLEAN,
         resolving' \in SUBSET (Tasks \X Services),
         fault' \in {"none", "nullTask", "nullManager", "numberFormat",
                     "arrayIndex", "wrongThread"},
         fault' = "nullManager" => fault = "nullManager" \/ cancelled # {}
  PROVE  IndInv'
BY DEF IndInv, TypeOK, taskVars, ScanBelongsToScreen, ClosingCancelled,
       ManagerUnlessCancelled, NullNeedsCancel

\* A listener finds mNsdManager null only in a cancelled task.
LEMMA HeardHasManager ==
  ASSUME IndInv, NEW t \in Tasks, t \in heard, MaySeeNull(t)
  PROVE  cancelled # {}
BY DEF IndInv, ManagerUnlessCancelled, MaySeeNull

LEMMA NsdInv ==
  ASSUME IndInv, NEW t \in Tasks,
         \/ OnStartDiscoveryFailed(t) \/ OnStopDiscoveryFailed(t)
         \/ \E s \in Services :
              OnServiceFound(t, s) \/ OnServiceResolved(t, s) \/ OnResolveFailed(t, s)
  PROVE  IndInv'
<1> USE DEF Alive, screenVars, nsdVars
<1>1. finishing \in BOOLEAN /\ resolving \in SUBSET (Tasks \X Services)
      /\ fault \in {"none", "nullTask", "nullManager", "numberFormat", "arrayIndex", "wrongThread"}
  BY DEF IndInv, TypeOK
<1>2. CASE OnStartDiscoveryFailed(t)
  BY <1>1, <1>2, HeardHasManager, CallbackInv DEF OnStartDiscoveryFailed
<1>3. CASE OnStopDiscoveryFailed(t)
  BY <1>1, <1>3, HeardHasManager, CallbackInv DEF OnStopDiscoveryFailed
<1>4. ASSUME NEW s \in Services, OnServiceFound(t, s)
      PROVE  IndInv'
  BY <1>1, <1>4, HeardHasManager, CallbackInv DEF OnServiceFound
<1>5. ASSUME NEW s \in Services, OnServiceResolved(t, s)
      PROVE  IndInv'
  BY <1>1, <1>5, CallbackInv DEF OnServiceResolved
<1>6. ASSUME NEW s \in Services, OnResolveFailed(t, s)
      PROVE  IndInv'
  BY <1>1, <1>6, CallbackInv DEF OnResolveFailed
<1> QED
  BY <1>2, <1>3, <1>4, <1>5, <1>6

-----------------------------------------------------------------------------
LEMMA NextInv == IndInv /\ [Next]_vars => IndInv'
<1> SUFFICES ASSUME IndInv, [Next]_vars PROVE IndInv'
  OBVIOUS
<1>1. CASE OnPause \/ OnStop \/ OnDestroy
  BY <1>1, LeaveInv DEF OnPause, OnStop, OnDestroy
<1>2. CASE OnItemClick \/ RunPosted \/ UNCHANGED vars
  <2>1. finishing \in BOOLEAN /\ resolving \in SUBSET (Tasks \X Services)
        /\ fault \in {"none", "nullTask", "nullManager", "numberFormat", "arrayIndex", "wrongThread"}
    BY DEF IndInv, TypeOK
  <2> QED
    BY <1>2, <2>1, CallbackInv
       DEF OnItemClick, RunPosted, vars, screenVars, nsdVars
<1>3. CASE OnCreate
  BY <1>3, OnCreateInv
<1>4. CASE OnResume
  BY <1>4, OnResumeInv
<1>5. CASE CloseEnd
  BY <1>5, CloseEndInv
<1>6. ASSUME NEW t \in Tasks, Background(t)
      PROVE  IndInv'
  BY <1>6, BackgroundInv
<1> QED
  BY <1>1, <1>2, <1>3, <1>4, <1>5, <1>6, NsdInv DEF Next

\* The invariant of the scan: it ties each task's place to its manager, its
\* cancellation and the screen (DiscoverNetworkActivity.java:366-397).
THEOREM Invariance == Spec => []IndInv
<1> QED
  BY InitInv, NextInv, PTL DEF Spec

\* No scan outlives its screen: every path that leaves the screen cancels the
\* one task that may be scanning (onPause, onStop, onDestroy and close()).
THEOREM ScanEndsWithScreen == Spec => []ScanBelongsToScreen
<1>1. IndInv => ScanBelongsToScreen
  BY DEF IndInv
<1> QED
  BY <1>1, Invariance, PTL

\* The plain field mNsdManager is found null by cancelled tasks only, because
\* close() cancels before it writes null (DiscoverNetworkActivity.java:394-396).
THEOREM NullIsHarmless == Spec => []NullOnlyAfterCancel
<1>1. IndInv => NullOnlyAfterCancel
  BY DEF IndInv, ManagerUnlessCancelled, NullNeedsCancel, NullOnlyAfterCancel, MaySeeNull
<1> QED
  BY <1>1, Invariance, PTL
=============================================================================

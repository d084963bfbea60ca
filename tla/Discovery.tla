------------------------------ MODULE Discovery ------------------------------
(***************************************************************************)
(* The screen that scans the network for cameras                           *)
(* (DiscoverNetworkActivity.java): the activity on the UI thread, its      *)
(* NetworkClientTasks on pool threads, and the callbacks NsdManager makes  *)
(* on a thread of its own.                                                 *)
(*                                                                         *)
(* The three meet in the plain field mNsdManager of a task, which close()  *)
(* sets to null on the UI thread, and in the list of profiles.             *)
(***************************************************************************)
EXTENDS Integers, Sequences, SequencesExt

CONSTANTS
  USE_NSD_MANAGER,  \* the public static flag
  Tasks,            \* identities for the NetworkClientTasks
  NoTask,           \* clientTask == null
  Services,         \* what answers a scan, by service name
  Kind,             \* per service: "slave", "master" (this phone) or "other"
  Host,             \* per service: InetAddress.toString(), as characters
  Address,          \* per service: its four numbers, or none
  Port,             \* per service: its port
  MaxListed         \* bound: profiles listed or posted

Dot == 10    \* a '.' or a ':'
Other == 11  \* any other character that is no digit
Digits == 0..9
Chars == Digits \cup {Dot, Other}

ASSUME DiscoveryAssumption ==
  /\ USE_NSD_MANAGER \in BOOLEAN
  /\ NoTask \notin Tasks
  /\ Kind \in [Services -> {"slave", "master", "other"}]
  /\ \A s \in Services : Host[s] \in Seq(Chars) /\ Address[s] \in Seq(Nat)
  /\ Port \in [Services -> Nat]
  /\ MaxListed \in Nat

VARIABLES
  screen,        \* lifecycle state of the activity
  finishing,     \* finish() was called: no way back to "resumed"
  clientTask,    \* field clientTask
  closing,       \* the task close() is in the middle of, or NoTask
  taskPc,        \* where each task's doInBackground is
  cancelled,     \* tasks that were cancelled
  mNsdManager,   \* tasks whose field mNsdManager is not null
  heard,         \* tasks whose listener NsdManager may call
  resolving,     \* pairs of a task and a service under resolution
  ui,            \* Runnables posted to the UI thread, a sequence
  profilesLists, \* the list: a sequence of records with of, ip and port
  fault          \* the uncaught exception that ended the process, or "none"

screenVars == <<screen, finishing, clientTask, closing>>
taskVars == <<taskPc, cancelled, mNsdManager>>
nsdVars == <<heard, resolving>>
listVars == <<ui, profilesLists>>
vars == <<screenVars, taskVars, nsdVars, listVars, fault>>

\* "unused": not made; "queued": executed, on no thread yet; "start": at the
\* test for null; "test": at while; "discover", "stop": at the two calls of
\* NsdManager; "sleep"; "done".
Running == {"start", "test", "discover", "stop", "sleep"}

\* A posted Runnable: add one profile, or clear the list.
Add(profile) == <<profile>>
Clear == <<>>

\* Types, but for the two sequences: what a fold over the characters of a host
\* returns is left to TLC.
TypeOK ==
  /\ screen \in {"new", "created", "resumed", "paused", "stopped", "destroyed"}
  /\ finishing \in BOOLEAN
  /\ clientTask \in Tasks \cup {NoTask}
  /\ closing \in Tasks \cup {NoTask}
  /\ taskPc \in [Tasks -> Running \cup {"unused", "queued", "done"}]
  /\ cancelled \in SUBSET Tasks
  /\ mNsdManager \in SUBSET Tasks
  /\ heard \in SUBSET Tasks
  /\ resolving \in SUBSET (Tasks \X Services)
  /\ fault \in {"none", "nullTask", "nullManager", "numberFormat",
                "arrayIndex", "wrongThread"}

Alive == fault = "none"

\* The UI thread may take its next callback or Runnable.
UiIdle == Alive /\ closing = NoTask

-----------------------------------------------------------------------------
(* ServerProfile.setIpNoPort *)

Number(digits) == FoldLeft(LAMBDA n, d : 10 * n + d, 0, digits)

\* One number is complete: parseInt, and a store into ipResult of length 5.
Store(p) ==
  CASE p.temp = <<>>   -> [p EXCEPT !.fault = "numberFormat"]
    [] Len(p.ip) = 5   -> [p EXCEPT !.fault = "arrayIndex"]
    [] OTHER           -> [p EXCEPT !.ip = Append(@, Number(p.temp)), !.temp = <<>>]

\* A digit goes on the number, a dot or colon ends it, the rest is ignored.
ParseChar(p, c) ==
  CASE p.fault # "none" -> p
    [] p.fault = "none" /\ c \in Digits -> [p EXCEPT !.temp = Append(@, c)]
    [] p.fault = "none" /\ c = Dot      -> Store(p)
    [] OTHER -> p

Parsed(host) ==
  LET p == FoldLeft(ParseChar, [ip |-> <<>>, temp |-> <<>>, fault |-> "none"], host)
  IN  IF p.fault = "none" /\ p.temp # <<>> THEN Store(p) ELSE p

\* ipTab without its last place, which setPort fills.
SetIpNoPort(host) == [i \in 1..4 |-> IF i <= Len(Parsed(host).ip) THEN Parsed(host).ip[i] ELSE 0]

ServerProfile(s) == [of |-> s, ip |-> SetIpNoPort(Host[s]), port |-> Port[s]]

-----------------------------------------------------------------------------
(* UI thread: the activity *)

\* A task is made and executed.
NewTask ==
  \E t \in Tasks :
    /\ taskPc[t] = "unused"
    /\ taskPc' = [taskPc EXCEPT ![t] = "queued"]
    /\ clientTask' = t

\* onCreate executes clientTask whether or not it has made one.
OnCreate ==
  /\ UiIdle
  /\ screen = "new"
  /\ screen' = "created"
  /\ \/ /\ USE_NSD_MANAGER
        /\ NewTask
        /\ UNCHANGED fault
     \/ /\ ~USE_NSD_MANAGER
        /\ fault' = "nullTask"
        /\ UNCHANGED <<taskPc, clientTask>>
  /\ UNCHANGED <<finishing, closing, cancelled, mNsdManager, nsdVars, listVars>>

\* Mutant: onResume does not look whether there is a task.
OnResumeAgain ==
  /\ UiIdle
  /\ screen \in {"created", "paused", "stopped"} /\ ~finishing
  /\ screen' = "resumed"
  /\ NewTask
  /\ UNCHANGED <<finishing, closing, cancelled, mNsdManager, nsdVars, listVars,
                 fault>>

OnResume ==
  /\ UiIdle
  /\ screen \in {"created", "paused", "stopped"} /\ ~finishing
  /\ screen' = "resumed"
  /\ IF clientTask = NoTask /\ USE_NSD_MANAGER
       THEN NewTask
       ELSE UNCHANGED <<taskPc, clientTask>>
  /\ UNCHANGED <<finishing, closing, cancelled, mNsdManager, nsdVars, listVars,
                 fault>>

\* Mutant: close() sets mNsdManager to null and cancels afterwards.
CloseBeginNull ==
  /\ mNsdManager' = mNsdManager \ {clientTask}
  /\ UNCHANGED cancelled

\* close() starts with cancel(true).
CloseBegin ==
  /\ cancelled' = cancelled \cup {clientTask}
  /\ UNCHANGED mNsdManager

\* onPause, onStop and onDestroy clear the list and close the task.
Leave ==
  /\ UiIdle
  /\ profilesLists' = <<>>
  /\ IF clientTask # NoTask
       THEN closing' = clientTask /\ CloseBegin
       ELSE UNCHANGED <<closing, cancelled, mNsdManager>>
  /\ UNCHANGED <<finishing, clientTask, taskPc, nsdVars, ui, fault>>

OnPause   == screen = "resumed" /\ screen' = "paused" /\ Leave
OnStop    == screen = "paused" /\ screen' = "stopped" /\ Leave
OnDestroy == screen = "stopped" /\ screen' = "destroyed" /\ Leave

\* The rest of close(), and clientTask = null.
CloseEnd ==
  /\ Alive
  /\ closing # NoTask
  /\ cancelled' = cancelled \cup {closing}
  /\ mNsdManager' = mNsdManager \ {closing}
  /\ clientTask' = NoTask
  /\ closing' = NoTask
  /\ UNCHANGED <<screen, finishing, taskPc, nsdVars, listVars, fault>>

\* A profile is chosen: its preferences are the result of the activity.
OnItemClick ==
  /\ UiIdle
  /\ screen = "resumed"
  /\ profilesLists # <<>>
  /\ finishing' = TRUE
  /\ UNCHANGED <<screen, clientTask, closing, taskVars, nsdVars, listVars, fault>>

\* A Runnable of addServerProfile or clearServerProfiles.  No profile equals
\* another, so contains is always false.
RunPosted ==
  /\ UiIdle
  /\ ui # <<>>
  /\ ui' = Tail(ui)
  /\ profilesLists' = IF Head(ui) = Clear THEN <<>>
                      ELSE profilesLists \o Head(ui)
  /\ UNCHANGED <<screenVars, taskVars, nsdVars, fault>>

-----------------------------------------------------------------------------
(* Pool threads: NetworkClientTask.doInBackground *)

\* A read of the plain field by a thread that has seen it set: null only if
\* it is null now, the manager in any case.
MaySeeNull(t) == t \notin mNsdManager

Goto(t, from, to) ==
  /\ Alive
  /\ taskPc[t] = from
  /\ taskPc' = [taskPc EXCEPT ![t] = to]
  /\ UNCHANGED <<screenVars, cancelled, resolving, listVars>>

\* A task cancelled before it has a thread never runs.
Begin(t) ==
  /\ Goto(t, "queued", IF t \in cancelled THEN "done" ELSE "start")
  /\ UNCHANGED <<mNsdManager, heard, fault>>

GetManager(t) ==
  /\ Goto(t, "start", "test")
  /\ mNsdManager' = mNsdManager \cup {t}
  /\ UNCHANGED <<heard, fault>>

\* Mutant: the loop does not ask isCancelled.
LoopTestBlind(t) ==
  /\ Goto(t, "test", "discover")
  /\ UNCHANGED <<mNsdManager, heard, fault>>

\* while(!isCancelled())
LoopTest(t) ==
  /\ Goto(t, "test", IF t \in cancelled THEN "done" ELSE "discover")
  /\ UNCHANGED <<mNsdManager, heard, fault>>

DiscoverServices(t) ==
  /\ Goto(t, "discover", "stop")
  /\ heard' = heard \cup {t}
  /\ UNCHANGED <<mNsdManager, fault>>

StopServiceDiscovery(t) ==
  /\ Goto(t, "stop", "sleep")
  /\ UNCHANGED <<mNsdManager, heard, fault>>

\* A call on null: the exception ends doInBackground.  The FutureTask of a
\* cancelled task keeps it to itself; else it ends the process.
CallOnNull(t) ==
  /\ MaySeeNull(t)
  /\ Goto(t, "discover", "done") \/ Goto(t, "stop", "done")
  /\ fault' = IF t \in cancelled THEN fault ELSE "nullManager"
  /\ UNCHANGED <<mNsdManager, heard>>

\* The sleep is over or was interrupted by cancel(true).
SleepEnds(t) ==
  /\ Goto(t, "sleep", "test")
  /\ UNCHANGED <<mNsdManager, heard, fault>>

Background(t) ==
  \/ Begin(t) \/ GetManager(t) \/ LoopTest(t) \/ DiscoverServices(t)
  \/ StopServiceDiscovery(t) \/ CallOnNull(t) \/ SleepEnds(t)

-----------------------------------------------------------------------------
(* NsdManager's thread: the listeners of a task *)

Room == Len(ui) + Len(profilesLists) + Cardinality(resolving) < MaxListed

\* onServiceFound resolves what is not this phone.
OnServiceFound(t, s) ==
  /\ Alive
  /\ t \in heard
  /\ Kind[s] # "master"
  /\ \/ /\ Room
        /\ resolving' = resolving \cup {<<t, s>>}
        /\ UNCHANGED fault
     \/ /\ MaySeeNull(t)
        /\ fault' = "nullManager"
        /\ UNCHANGED resolving
  /\ UNCHANGED <<screenVars, taskVars, heard, listVars>>

\* onServiceResolved posts the profile of a slave.
OnServiceResolved(t, s) ==
  /\ Alive
  /\ <<t, s>> \in resolving
  /\ resolving' = resolving \ {<<t, s>>}
  /\ \/ /\ Kind[s] # "slave"
        /\ UNCHANGED <<ui, fault>>
     \/ /\ Kind[s] = "slave"
        /\ Parsed(Host[s]).fault = "none"
        /\ ui' = Append(ui, Add(ServerProfile(s)))
        /\ UNCHANGED fault
     \/ /\ Kind[s] = "slave"
        /\ fault' \in {"numberFormat", "arrayIndex"}
        /\ fault' = Parsed(Host[s]).fault
        /\ UNCHANGED ui
  /\ UNCHANGED <<screenVars, taskVars, heard, profilesLists>>

OnResolveFailed(t, s) ==
  /\ Alive
  /\ <<t, s>> \in resolving
  /\ resolving' = resolving \ {<<t, s>>}
  /\ UNCHANGED <<screenVars, taskVars, heard, listVars, fault>>

\* Both failure callbacks use mNsdManager; one posts the clearing of the list,
\* the other clears it here, which the list may refuse on this thread.
OnStartDiscoveryFailed(t) ==
  /\ Alive
  /\ t \in heard
  /\ \/ Room /\ ui' = Append(ui, Clear) /\ UNCHANGED fault
     \/ MaySeeNull(t) /\ fault' = "nullManager" /\ UNCHANGED ui
  /\ UNCHANGED <<screenVars, taskVars, nsdVars, profilesLists>>

OnStopDiscoveryFailed(t) ==
  /\ Alive
  /\ t \in heard
  /\ \/ profilesLists' = <<>> /\ fault' \in {"none", "wrongThread"}
     \/ MaySeeNull(t) /\ fault' = "nullManager" /\ UNCHANGED profilesLists
  /\ UNCHANGED <<screenVars, taskVars, nsdVars, ui>>

-----------------------------------------------------------------------------
(* Specification *)

Init ==
  /\ screen = "new"
  /\ finishing = FALSE
  /\ clientTask = NoTask
  /\ closing = NoTask
  /\ taskPc = [t \in Tasks |-> "unused"]
  /\ cancelled = {}
  /\ mNsdManager = {}
  /\ heard = {}
  /\ resolving = {}
  /\ ui = <<>>
  /\ profilesLists = <<>>
  /\ fault = "none"

Next ==
  \/ OnCreate \/ OnResume \/ OnPause \/ OnStop \/ OnDestroy
  \/ CloseEnd \/ OnItemClick \/ RunPosted
  \/ \E t \in Tasks :
       \/ Background(t)
       \/ OnStartDiscoveryFailed(t) \/ OnStopDiscoveryFailed(t)
       \/ \E s \in Services :
            \/ OnServiceFound(t, s)
            \/ OnServiceResolved(t, s) \/ OnResolveFailed(t, s)

Spec == Init /\ [][Next]_vars

\* Pool threads go on; NsdManager owes nobody an answer.
FairSpec == Spec /\ \A t \in Tasks : WF_vars(Background(t))

-----------------------------------------------------------------------------
(* Properties *)

\* No scan outlives its screen: a task that is not cancelled is the one the
\* activity holds, and the activity is on screen or about to be.
ScanBelongsToScreen ==
  \A t \in Tasks :
    /\ taskPc[t] \notin {"unused", "done"}
    /\ t \notin cancelled
    => clientTask = t /\ (screen \in {"created", "resumed"} \/ closing = t)

\* The race on mNsdManager never hits a scan that is going on: whatever the
\* interleaving with close(), a null there is met by cancelled tasks only, and
\* their exception stays in their FutureTask.
NullOnlyAfterCancel ==
  /\ \A t \in Tasks : taskPc[t] \in {"discover", "stop"} /\ MaySeeNull(t)
                        => t \in cancelled
  /\ fault = "nullManager" => cancelled # {}

\* Once cancelled, a scan comes to its end, whatever it is in the middle of.
CancelledScanEnds ==
  \A t \in Tasks : t \in cancelled ~> (taskPc[t] = "done" \/ ~Alive)
=============================================================================

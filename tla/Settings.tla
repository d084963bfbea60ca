------------------------------- MODULE Settings -------------------------------
(***************************************************************************)
(* How the preferences of the two cameras travel: from the saved values    *)
(* into the main activity, from there through GeneralSettingsActivity to   *)
(* CamSettingsActivity, where they are edited or chosen from a scan, and   *)
(* back, until restartApp saves them and starts the main activity anew.    *)
(*                                                                         *)
(* Instances of the main activity overlap: one that is finished saves its  *)
(* preferences in onDestroy, some time after its successor has loaded      *)
(* them.  Of an address one number is modelled, ip_ad4; the four are       *)
(* treated alike.                                                          *)
(***************************************************************************)
EXTENDS Integers, Sequences, SequencesExt, FiniteSetsExt

CONSTANTS
  TypedNumbers,  \* what a user types as a number of an address
  TypedPorts,    \* what a user types as a port
  Profiles,      \* preferences of the cameras a scan can find
  Default,       \* new StreamPreferences()
  MaxFinished,   \* bound: finished main activities not yet destroyed
  MaxConfirms,   \* bound: confirmations of the general settings
  MaxVisits,     \* bound: visits of a camera's settings
  MaxEdits       \* bound: edits by hand in one of them

Cams == {1, 2}
Empty == -1      \* a text field without text

UpTo(n) == 0..n

\* A field of an address takes three digits, that of a port four, and a port
\* of the network has 16 bits.
Numbers == UpTo(999)
ShortPorts == UpTo(9999)
Prefs == [name : {Default.name} \cup {p.name : p \in Profiles},
          ip_ad4 : Numbers, ip_port : UpTo(65535), no_port : BOOLEAN]
BothPrefs == [Cams -> Prefs]
Texts == [ip_ad4 : Numbers \cup {Empty}, port : ShortPorts \cup {Empty}]

\* What a scan finds has a port (DiscoverNetworkActivity.java:300-304).
ASSUME SettingsAssumption ==
  /\ Profiles \cup {Default} \subseteq Prefs
  /\ \A p \in Profiles : ~p.no_port
  /\ TypedNumbers \subseteq Numbers \cup {Empty}
  /\ TypedPorts \subseteq ShortPorts \cup {Empty}
  /\ {MaxFinished, MaxConfirms, MaxVisits, MaxEdits} \subseteq Nat

VARIABLES
  screen,        \* the activity in front
  streamPref,    \* the fields streamPrefLeft and streamPrefRight
  finished,      \* the same fields of finished activities, oldest first
  restarting,    \* RestartApp is executing
  saved,         \* SharedPreferences "SAVED_VALUES"
  general,       \* the fields of GeneralSettingsActivity
  generalAsked,  \* the main activity waits for its result
  cam_number,    \* fields of CamSettingsActivity
  streamPrefs,
  origStreamPrefs,
  sameObject,    \* origStreamPrefs and streamPrefs are one object
  text,          \* its text fields
  camAsked,      \* GeneralSettingsActivity waits for its result
  confirmed,     \* history: the settings last confirmed
  confirms,      \* history: how often
  visits,        \* history: visits of a camera's settings
  overtaken,     \* history: an activity was destroyed after a later confirmation
  touched,       \* history: cameras whose settings were done in this visit
  received,      \* history: what CamSettingsActivity was given
  edits,         \* history: edits by hand since the fields were filled
  mixed          \* history: a scan was cancelled after one that was not

mainVars == <<streamPref, finished, restarting, saved>>
generalVars == <<general, generalAsked, touched>>
camVars == <<cam_number, streamPrefs, origStreamPrefs, sameObject, text,
             camAsked, received, edits, mixed>>
historyVars == <<confirmed, confirms, visits, overtaken>>
vars == <<screen, mainVars, generalVars, camVars, historyVars>>

TypeOK ==
  /\ screen \in {"main", "general", "cam", "scan", "home"}
  /\ streamPref \in BothPrefs
  /\ finished \in Seq(BothPrefs)
  /\ restarting \in BOOLEAN /\ generalAsked \in BOOLEAN /\ camAsked \in BOOLEAN
  /\ sameObject \in BOOLEAN /\ overtaken \in BOOLEAN /\ mixed \in BOOLEAN
  /\ saved \in BothPrefs /\ confirmed \in BothPrefs
  /\ general \in BothPrefs
  /\ cam_number \in Cams
  /\ streamPrefs \in Prefs /\ origStreamPrefs \in Prefs /\ received \in Prefs
  /\ text \in Texts
  /\ edits \in Nat /\ confirms \in Nat /\ visits \in Nat
  /\ touched \subseteq Cams

NoText == [ip_ad4 |-> Empty, port |-> Empty]
Defaults == [c \in Cams |-> Default]

\* An activity is gone, and its fields with it.
CloseGeneral == general' = Defaults /\ generalAsked' = FALSE /\ touched' = {}
CloseCam ==
  /\ cam_number' = 1
  /\ streamPrefs' = Default /\ origStreamPrefs' = Default /\ sameObject' = FALSE
  /\ text' = NoText
  /\ camAsked' = FALSE
  /\ received' = Default
  /\ edits' = 0
  /\ mixed' = FALSE

-----------------------------------------------------------------------------
(* Pure parts *)

\* The field of a port takes four characters (res/layout/cam_settings.xml),
\* also when its text is set by the program.
FourDigits(port) == IF port < 10000 THEN port ELSE port \div 10

\* fillUI leaves the port field alone when the preferences have no port.
FillUI(prefs, before) ==
  [ip_ad4 |-> prefs.ip_ad4,
   port   |-> IF prefs.no_port THEN before.port ELSE FourDigits(prefs.ip_port)]

\* What settings_done makes of the edited preferences and the text fields.
Done(prefs, t) ==
  [name    |-> prefs.name,
   ip_ad4  |-> IF t.ip_ad4 = Empty THEN prefs.ip_ad4 ELSE t.ip_ad4,
   ip_port |-> IF t.port = Empty THEN prefs.ip_port ELSE t.port,
   no_port |-> t.port = Empty]

\* addToAddress: 0 follows 255, and whatever is above.
Added(number, toAdd) ==
  LET sum == IF number \in 0..255 THEN number + toAdd ELSE number
  IN  CASE sum < 0   -> 255
        [] sum > 255 -> 0
        [] OTHER     -> sum

-----------------------------------------------------------------------------
(* MjpegActivity *)

\* onCreate loads what is saved.
NewMain == streamPref' = saved

\* Mutant: restartApp leaves the saving to onDestroy.
RestartAppUnsaved(prefs) == restarting' = TRUE /\ saved' = saved

\* restartApp saves and executes RestartApp.
RestartApp(prefs) == restarting' = TRUE /\ saved' = prefs

RestartButton ==
  /\ screen = "main" /\ ~restarting
  /\ RestartApp(streamPref)
  /\ UNCHANGED <<screen, streamPref, finished, generalVars, camVars,
                 historyVars>>

\* RestartApp: finish() on a pool thread, then startActivity.
RestartDone ==
  /\ screen = "main" /\ restarting
  /\ Len(finished) < MaxFinished
  /\ restarting' = FALSE
  /\ finished' = Append(finished, streamPref)
  /\ NewMain
  /\ UNCHANGED <<screen, saved, generalVars, camVars, historyVars>>

\* onDestroy of a finished activity saves its preferences.
OnDestroy ==
  /\ finished # <<>>
  /\ saved' = Head(finished)
  /\ finished' = Tail(finished)
  /\ overtaken' = (overtaken \/ Head(finished) # confirmed)
  /\ UNCHANGED <<screen, streamPref, restarting, generalVars, camVars,
                 confirmed, confirms, visits>>

\* Back: the activity is finished.
BackHome ==
  /\ screen = "main" /\ ~restarting
  /\ Len(finished) < MaxFinished
  /\ screen' = "home"
  /\ finished' = Append(finished, streamPref)
  /\ streamPref' = Defaults
  /\ UNCHANGED <<restarting, saved, generalVars, camVars, historyVars>>

\* The process is killed: nothing is destroyed in order.
Kill ==
  /\ screen' = "home"
  /\ finished' = <<>>
  /\ restarting' = FALSE
  /\ streamPref' = Defaults
  /\ CloseGeneral /\ CloseCam
  /\ UNCHANGED <<saved, historyVars>>

Launch ==
  /\ screen = "home"
  /\ screen' = "main"
  /\ NewMain
  /\ UNCHANGED <<finished, restarting, saved, generalVars, camVars,
                 historyVars>>

OpenSettings ==
  /\ screen = "main" /\ ~restarting
  /\ screen' = "general"
  /\ general' = streamPref
  /\ generalAsked' = TRUE
  /\ touched' = {}
  /\ UNCHANGED <<mainVars, camVars, historyVars>>

-----------------------------------------------------------------------------
(* GeneralSettingsActivity *)

\* Done: the result reaches onActivityResult of the main activity, which
\* takes both preferences and restarts.
GeneralDone ==
  /\ screen = "general"
  /\ screen' = "main"
  /\ \/ /\ generalAsked
        /\ confirms < MaxConfirms
        /\ streamPref' = general
        /\ RestartApp(general)
        /\ confirmed' = general
        /\ confirms' = confirms + 1
     \/ /\ ~generalAsked
        /\ UNCHANGED <<streamPref, restarting, saved, confirmed, confirms>>
  /\ CloseGeneral
  /\ UNCHANGED <<finished, camVars, visits, overtaken>>

GeneralBack ==
  /\ screen = "general"
  /\ screen' = "main"
  /\ CloseGeneral
  /\ UNCHANGED <<mainVars, camVars, historyVars>>

\* Up: the parent is started anew and the one that was there is finished.
GeneralUp ==
  /\ screen = "general"
  /\ Len(finished) < MaxFinished
  /\ screen' = "main"
  /\ finished' = Append(finished, streamPref)
  /\ NewMain
  /\ CloseGeneral
  /\ UNCHANGED <<restarting, saved, camVars, historyVars>>

\* onCreate of CamSettingsActivity, with the intent's extras.
OpenCam(c) ==
  /\ screen = "general"
  /\ visits < MaxVisits
  /\ visits' = visits + 1
  /\ screen' = "cam"
  /\ cam_number' = c
  /\ streamPrefs' = general[c]
  /\ origStreamPrefs' = general[c] /\ sameObject' = TRUE
  /\ text' = FillUI(general[c], NoText)
  /\ camAsked' = TRUE
  /\ received' = general[c]
  /\ edits' = 0
  /\ mixed' = FALSE
  /\ UNCHANGED <<mainVars, generalVars, confirmed, confirms, overtaken>>

-----------------------------------------------------------------------------
(* CamSettingsActivity *)

\* Mutant: the result does not say which camera it is about.
CamOfResultMissing == 1

\* The extra "cam_number" of the result.
CamOfResult == cam_number

CamDone ==
  /\ screen = "cam"
  /\ screen' = "general"
  /\ IF camAsked
       THEN /\ general' = [general EXCEPT ![CamOfResult] = Done(streamPrefs, text)]
            /\ touched' = touched \cup {cam_number}
       ELSE UNCHANGED <<general, touched>>
  /\ CloseCam
  /\ UNCHANGED <<mainVars, generalAsked, historyVars>>

CamBack ==
  /\ screen = "cam"
  /\ screen' = "general"
  /\ CloseCam
  /\ UNCHANGED <<mainVars, generalVars, historyVars>>

\* Up: a new GeneralSettingsActivity without extras, whose result is awaited
\* by nobody.
CamUp ==
  /\ screen = "cam"
  /\ screen' = "general"
  /\ general' = Defaults
  /\ generalAsked' = FALSE
  /\ touched' = {}
  /\ CloseCam
  /\ UNCHANGED <<mainVars, historyVars>>

\* The object streamPrefs is changed, and with it the original, if it is the
\* same.
SetPrefs(prefs) ==
  /\ streamPrefs' = prefs
  /\ origStreamPrefs' = IF sameObject THEN prefs ELSE origStreamPrefs

EditOnScreen ==
  /\ screen = "cam"
  /\ edits < MaxEdits
  /\ edits' = edits + 1
  /\ UNCHANGED <<screen, mainVars, generalVars, cam_number, sameObject,
                 camAsked, received, mixed, historyVars>>

Type ==
  /\ EditOnScreen
  /\ \/ \E n \in TypedNumbers : text' = [text EXCEPT !.ip_ad4 = n]
     \/ \E p \in TypedPorts : text' = [text EXCEPT !.port = p]
  /\ UNCHANGED <<streamPrefs, origStreamPrefs>>

AddToAddress(toAdd) ==
  /\ EditOnScreen
  /\ LET before == IF text.ip_ad4 = Empty THEN streamPrefs.ip_ad4 ELSE text.ip_ad4
         val == Added(before, toAdd)
     IN  /\ SetPrefs([streamPrefs EXCEPT !.ip_ad4 = val])
         /\ text' = [text EXCEPT !.ip_ad4 = val]

\* The radio buttons "8080" and "no port".
CheckPort(none) ==
  /\ EditOnScreen
  /\ SetPrefs([streamPrefs EXCEPT !.no_port = none])
  /\ text' = [text EXCEPT !.port = IF none THEN Empty ELSE 8080]

OpenNetworkDiscovery ==
  /\ screen = "cam"
  /\ screen' = "scan"
  /\ UNCHANGED <<mainVars, generalVars, camVars, historyVars>>

\* Mutant: the chosen preferences are not shown.
DiscoveryChosenUnshown(p) ==
  /\ screen = "scan"
  /\ screen' = "cam"
  /\ streamPrefs' = p
  /\ sameObject' = FALSE
  /\ edits' = 0
  /\ mixed' = FALSE
  /\ UNCHANGED <<mainVars, generalVars, cam_number, origStreamPrefs, camAsked,
                 text, received, historyVars>>

\* onActivityResult, RESULT_OK
DiscoveryChosen(p) ==
  /\ screen = "scan"
  /\ screen' = "cam"
  /\ streamPrefs' = p
  /\ sameObject' = FALSE
  /\ text' = FillUI(p, text)
  /\ edits' = 0
  /\ mixed' = FALSE
  /\ UNCHANGED <<mainVars, generalVars, cam_number, origStreamPrefs, camAsked,
                 received, historyVars>>

\* onActivityResult, RESULT_CANCELED
DiscoveryCanceled ==
  /\ screen = "scan"
  /\ screen' = "cam"
  /\ text' = FillUI(origStreamPrefs, text)
  /\ mixed' = ~sameObject
  /\ UNCHANGED <<mainVars, generalVars, cam_number, streamPrefs,
                 origStreamPrefs, sameObject, camAsked, received, edits,
                 historyVars>>

\* Up: a new CamSettingsActivity without extras.
DiscoveryUp ==
  /\ screen = "scan"
  /\ screen' = "cam"
  /\ cam_number' = 1
  /\ streamPrefs' = Default
  /\ origStreamPrefs' = Default /\ sameObject' = FALSE
  /\ text' = FillUI(Default, NoText)
  /\ camAsked' = FALSE
  /\ received' = Default
  /\ edits' = 0
  /\ mixed' = FALSE
  /\ UNCHANGED <<mainVars, generalVars, historyVars>>

-----------------------------------------------------------------------------
(* Specification *)

Init ==
  /\ screen = "home"
  /\ streamPref = Defaults
  /\ finished = <<>>
  /\ restarting = FALSE
  /\ saved = Defaults
  /\ general = Defaults /\ generalAsked = FALSE /\ touched = {}
  /\ cam_number = 1
  /\ streamPrefs = Default /\ origStreamPrefs = Default /\ sameObject = FALSE
  /\ text = NoText
  /\ camAsked = FALSE
  /\ received = Default /\ edits = 0 /\ mixed = FALSE
  /\ confirmed = Defaults /\ confirms = 0 /\ visits = 0
  /\ overtaken = FALSE

Main == RestartButton \/ RestartDone \/ OnDestroy \/ BackHome \/ Kill
        \/ Launch \/ OpenSettings
General == GeneralDone \/ GeneralBack \/ GeneralUp \/ \E c \in Cams : OpenCam(c)
Cam == CamDone \/ CamBack \/ CamUp \/ Type
       \/ (\E toAdd \in {-1, 1} : AddToAddress(toAdd))
       \/ (\E none \in BOOLEAN : CheckPort(none))
Scan == OpenNetworkDiscovery \/ (\E p \in Profiles : DiscoveryChosen(p))
        \/ DiscoveryCanceled \/ DiscoveryUp

Next == Main \/ General \/ Cam \/ Scan

Spec == Init /\ [][Next]_vars

-----------------------------------------------------------------------------
(* Properties *)

\* What is saved, and what a main activity in front runs with, are the
\* settings last confirmed, across restarts, kills and late destructions,
\* with one exception: an activity destroyed only after a later one has
\* confirmed other settings writes its own back.
SavedIsConfirmed ==
  \/ overtaken
  \/ /\ saved = confirmed
     /\ screen # "home" => streamPref = confirmed

\* Settings confirmed for one camera do not touch the other one's, through
\* three activities, two results and their extras.
OtherCameraKept ==
  screen \in {"general", "cam", "scan"} /\ generalAsked =>
    \A c \in Cams \ touched : general[c] = streamPref[c]

\* Without an edit by hand, Done gives back one camera's preferences whole:
\* the name goes with the address and with the port (as far as its field can
\* show it), be it the camera received or one chosen from a scan.
UneditedIsWhole ==
  screen = "cam" /\ edits = 0 /\ ~mixed =>
    \E p \in Profiles \cup {received} :
      Done(streamPrefs, text) \in {p, [p EXCEPT !.ip_port = FourDigits(@)]}

=============================================================================

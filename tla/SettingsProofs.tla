---------------------------- MODULE SettingsProofs ----------------------------
(***************************************************************************)
(* Machine-checked theorems about Settings, for any preferences a scan or  *)
(* a user comes up with and any number of restarts, visits and edits.      *)
(***************************************************************************)
EXTENDS Settings, TLAPS

USE DEF Cams, Empty

-----------------------------------------------------------------------------
(* The text fields *)

\* The bounds of fields and ports, which the provers need not enumerate.
LEMMA UpToDef == \A n \in Nat : \A k : k \in UpTo(n) <=> k \in Nat /\ k <= n
BY DEF UpTo

LEMMA NumbersDef == \A k : k \in Numbers <=> k \in Nat /\ k <= 999
BY UpToDef DEF Numbers

LEMMA ShortPortsDef == \A k : k \in ShortPorts <=> k \in Nat /\ k <= 9999
BY UpToDef DEF ShortPorts

\* A port field shows at most four digits.
LEMMA FourDigitsType ==
  ASSUME NEW port \in UpTo(65535)
  PROVE  FourDigits(port) \in ShortPorts
<1>1. port \in Nat /\ port <= 65535
  BY UpToDef
<1>2. CASE port < 10000
  BY <1>1, <1>2, ShortPortsDef DEF FourDigits
<1>3. CASE ~(port < 10000)
  <2>1. port \div 10 \in Nat /\ port \div 10 <= 9999
    BY <1>1
  <2> QED
    BY <1>3, <2>1, ShortPortsDef DEF FourDigits
<1> QED
  BY <1>2, <1>3

LEMMA PrefsFields ==
  ASSUME NEW p \in Prefs
  PROVE  /\ p.ip_ad4 \in Numbers /\ p.ip_port \in UpTo(65535) /\ p.no_port \in BOOLEAN
         /\ p = [name |-> p.name, ip_ad4 |-> p.ip_ad4, ip_port |-> p.ip_port, no_port |-> p.no_port]
BY DEF Prefs

LEMMA FillUIType ==
  ASSUME NEW prefs \in Prefs, NEW before \in Texts
  PROVE  FillUI(prefs, before) \in Texts
<1>1. FourDigits(prefs.ip_port) \in ShortPorts /\ prefs.ip_ad4 \in Numbers
  BY FourDigitsType, PrefsFields
<1>2. before.port \in ShortPorts \cup {Empty}
  BY DEF Texts
<1> QED
  BY <1>1, <1>2 DEF FillUI, Texts

LEMMA DoneType ==
  ASSUME NEW prefs \in Prefs, NEW t \in Texts
  PROVE  Done(prefs, t) \in Prefs
<1>1. t.ip_ad4 \in Numbers \cup {Empty} /\ t.port \in ShortPorts \cup {Empty}
  BY DEF Texts
<1>2. ShortPorts \subseteq UpTo(65535)
  BY UpToDef, ShortPortsDef
<1> QED
  BY <1>1, <1>2 DEF Done, Prefs

LEMMA AddedType ==
  ASSUME NEW number \in Numbers, NEW toAdd \in {-1, 1}
  PROVE  Added(number, toAdd) \in Numbers
<1>1. number \in Nat /\ number <= 999
  BY NumbersDef
<1>2. Added(number, toAdd) \in Nat /\ Added(number, toAdd) <= 999
  <2>1. CASE number <= 255
    BY <1>1, <2>1 DEF Added
  <2>2. CASE ~(number <= 255)
    BY <1>1, <2>2 DEF Added
  <2> QED
    BY <1>1, <2>1, <2>2
<1> QED
  BY <1>2, NumbersDef

LEMMA SamePrefs ==
  ASSUME NEW p \in Prefs, NEW r \in Prefs, p.name = r.name, p.ip_ad4 = r.ip_ad4,
         p.ip_port = r.ip_port, p.no_port <=> r.no_port
  PROVE  p = r
<1>1. p.no_port = r.no_port
  BY PrefsFields
<1> QED
  BY <1>1, PrefsFields

\* Preferences shown in empty fields and taken from them again are the same,
\* but for a port that the field cuts off.
LEMMA DoneOfFillUI ==
  ASSUME NEW p \in Prefs
  PROVE  Done(p, FillUI(p, NoText)) \in {p, [p EXCEPT !.ip_port = FourDigits(@)]}
<1> DEFINE q == FourDigits(p.ip_port)
           t == FillUI(p, NoText)
           short == [p EXCEPT !.ip_port = q]
<1>1. q \in ShortPorts /\ p.ip_ad4 \in Numbers
  BY FourDigitsType, PrefsFields
<1>2. q # Empty /\ p.ip_ad4 # Empty
  BY <1>1, ShortPortsDef, NumbersDef
<1>3. NoText \in Texts
  BY DEF NoText, Texts
<1>4. t.ip_ad4 = p.ip_ad4 /\ t.port = IF p.no_port THEN Empty ELSE q
  BY DEF FillUI, NoText
<1>5. Done(p, t) \in Prefs
  BY <1>3, FillUIType, DoneType
<1>6. /\ short \in Prefs /\ short.name = p.name /\ short.ip_ad4 = p.ip_ad4
      /\ short.ip_port = q /\ short.no_port = p.no_port
  <2>1. q \in UpTo(65535)
    BY <1>1, ShortPortsDef, UpToDef
  <2> HIDE DEF q
  <2> QED
    BY <2>1 DEF Prefs
<1> HIDE DEF q, t
<1>7. CASE p.no_port
  <2>1. Done(p, t) = p
    BY <1>2, <1>4, <1>5, <1>7, SamePrefs DEF Done
  <2> QED
    BY <2>1 DEF t
<1>8. CASE ~p.no_port
  <2>1. /\ Done(p, t).name = p.name /\ Done(p, t).ip_ad4 = p.ip_ad4
        /\ Done(p, t).ip_port = q /\ ~Done(p, t).no_port
    BY <1>2, <1>4, <1>8 DEF Done
  <2>2. Done(p, t) = short
    BY <1>5, <1>6, <1>8, <2>1, SamePrefs
  <2> QED
    BY <2>2 DEF t, q
<1> QED
  BY <1>7, <1>8

\* Of preferences with a port all fields are filled.
LEMMA FillUIOver ==
  ASSUME NEW p, ~p.no_port, NEW before
  PROVE  FillUI(p, before) = FillUI(p, NoText)
BY DEF FillUI

\* Filling the fields with the same preferences again changes nothing.
LEMMA FillUIAgain ==
  ASSUME NEW p, NEW before
  PROVE  FillUI(p, FillUI(p, before)) = FillUI(p, before)
<1> DEFINE once == FillUI(p, before)
<1>1. once.port = IF p.no_port THEN before.port ELSE FourDigits(p.ip_port)
  BY DEF FillUI
<1>2. FillUI(p, once) = [ip_ad4 |-> p.ip_ad4, port |-> once.port]
  BY <1>1 DEF FillUI
<1>3. once = [ip_ad4 |-> p.ip_ad4, port |-> once.port]
  BY <1>1 DEF FillUI
<1> QED
  BY <1>2, <1>3

-----------------------------------------------------------------------------
(* Types *)

LEMMA ConstantsType ==
  /\ Default \in Prefs /\ Profiles \subseteq Prefs
  /\ TypedNumbers \subseteq Numbers \cup {Empty} /\ TypedPorts \subseteq ShortPorts \cup {Empty}
BY SettingsAssumption DEF SettingsAssumption

LEMMA NoTextType == NoText \in Texts
BY DEF NoText, Texts

LEMMA DefaultsType == Defaults \in BothPrefs
BY ConstantsType DEF Defaults, BothPrefs

\* Activities that are finished, one more or none.
LEMMA FinishedType ==
  /\ <<>> \in Seq(BothPrefs)
  /\ \A q \in Seq(BothPrefs) : \A p \in BothPrefs : Append(q, p) \in Seq(BothPrefs)
OBVIOUS

LEMMA TypeInit == Init => TypeOK
<1> SUFFICES ASSUME Init PROVE TypeOK
  OBVIOUS
<1>1. streamPref \in BothPrefs /\ saved \in BothPrefs /\ confirmed \in BothPrefs /\ general \in BothPrefs
  BY DefaultsType DEF Init
<1>2. finished \in Seq(BothPrefs)
  BY FinishedType DEF Init
<1>3. text \in Texts /\ streamPrefs \in Prefs /\ origStreamPrefs \in Prefs /\ received \in Prefs
  BY NoTextType, ConstantsType DEF Init
<1> QED
  BY <1>1, <1>2, <1>3 DEF Init, TypeOK

LEMMA MainType == ASSUME TypeOK, Main PROVE TypeOK'
<1> USE DEF TypeOK, generalVars, camVars, historyVars
<1>1. CASE RestartButton
  BY <1>1 DEF RestartButton, RestartApp
<1>2. CASE RestartDone
  BY <1>2, FinishedType DEF RestartDone, NewMain
<1>3. CASE OnDestroy
  <2>1. /\ Head(finished) \in BothPrefs /\ Tail(finished) \in Seq(BothPrefs)
    BY <1>3 DEF OnDestroy
  <2>2. overtaken' \in BOOLEAN
    BY <1>3 DEF OnDestroy
  <2> QED
    BY <1>3, <2>1, <2>2 DEF OnDestroy
<1>4. CASE BackHome
  BY <1>4, DefaultsType, FinishedType DEF BackHome
<1>5. CASE Kill
  BY <1>5, DefaultsType, NoTextType, ConstantsType, FinishedType DEF Kill, CloseGeneral, CloseCam
<1>6. CASE Launch
  BY <1>6 DEF Launch, NewMain
<1>7. CASE OpenSettings
  BY <1>7 DEF OpenSettings, mainVars
<1> QED
  BY <1>1, <1>2, <1>3, <1>4, <1>5, <1>6, <1>7 DEF Main

LEMMA GeneralType == ASSUME TypeOK, General PROVE TypeOK'
<1> USE DEF TypeOK, mainVars, generalVars, camVars, historyVars
<1>1. CASE GeneralDone
  <2>1. /\ streamPref' \in BothPrefs /\ saved' \in BothPrefs /\ confirmed' \in BothPrefs
        /\ restarting' \in BOOLEAN
    BY <1>1 DEF GeneralDone, RestartApp
  <2>2. confirms' \in Nat
    BY <1>1 DEF GeneralDone
  <2> QED
    BY <1>1, <2>1, <2>2, DefaultsType DEF GeneralDone, CloseGeneral
<1>2. CASE GeneralBack
  BY <1>2, DefaultsType DEF GeneralBack, CloseGeneral
<1>3. CASE GeneralUp
  BY <1>3, DefaultsType, FinishedType DEF GeneralUp, NewMain, CloseGeneral
<1>4. ASSUME NEW c \in Cams, OpenCam(c) PROVE TypeOK'
  <2>1. general[c] \in Prefs /\ FillUI(general[c], NoText) \in Texts
    BY FillUIType, NoTextType DEF BothPrefs
  <2>2. visits' \in Nat /\ 0 \in Nat
    BY <1>4 DEF OpenCam
  <2> QED
    BY <1>4, <2>1, <2>2 DEF OpenCam
<1> QED
  BY <1>1, <1>2, <1>3, <1>4 DEF General

LEMMA CamType == ASSUME TypeOK, Cam PROVE TypeOK'
<1> USE DEF TypeOK, mainVars, generalVars, historyVars
<1>1. CASE CamDone
  <2>1. Done(streamPrefs, text) \in Prefs
    BY DoneType
  <2>2. general' \in BothPrefs /\ touched' \subseteq Cams
    BY <1>1, <2>1 DEF CamDone, CamOfResult, BothPrefs
  <2> QED
    BY <1>1, <2>2, NoTextType, ConstantsType DEF CamDone, CloseCam
<1>2. CASE CamBack
  BY <1>2, NoTextType, ConstantsType DEF CamBack, CloseCam
<1>3. CASE CamUp
  BY <1>3, NoTextType, DefaultsType, ConstantsType DEF CamUp, CloseCam
<1>4. CASE Type
  <2>1. ASSUME NEW n \in Numbers \cup {Empty}, text' = [text EXCEPT !.ip_ad4 = n]
        PROVE  text' \in Texts
    BY <2>1 DEF Texts
  <2>2. ASSUME NEW q \in ShortPorts \cup {Empty}, text' = [text EXCEPT !.port = q]
        PROVE  text' \in Texts
    BY <2>2 DEF Texts
  <2>3. text' \in Texts
    BY <1>4, <2>1, <2>2, ConstantsType DEF Type
  <2> QED
    BY <1>4, <2>3 DEF Type, EditOnScreen
<1>5. ASSUME NEW toAdd \in {-1, 1}, AddToAddress(toAdd) PROVE TypeOK'
  <2> DEFINE before == IF text.ip_ad4 = Empty THEN streamPrefs.ip_ad4 ELSE text.ip_ad4
             val == Added(before, toAdd)
  <2>1. before \in Numbers
    <3>1. text.ip_ad4 \in Numbers \cup {Empty} /\ streamPrefs.ip_ad4 \in Numbers
      BY PrefsFields DEF Texts
    <3> QED
      BY <3>1
  <2>2. val \in Numbers
    BY <2>1, AddedType
  <2>3. /\ streamPrefs' = [streamPrefs EXCEPT !.ip_ad4 = val]
        /\ text' = [text EXCEPT !.ip_ad4 = val]
        /\ origStreamPrefs' \in {streamPrefs', origStreamPrefs}
    BY <1>5 DEF AddToAddress, SetPrefs
  <2> HIDE DEF val
  <2>4. streamPrefs' \in Prefs
    BY <2>2, <2>3 DEF Prefs
  <2>5. text' \in Texts
    BY <2>2, <2>3 DEF Texts
  <2> QED
    BY <1>5, <2>3, <2>4, <2>5 DEF AddToAddress, EditOnScreen
<1>6. ASSUME NEW none \in BOOLEAN, CheckPort(none) PROVE TypeOK'
  <2>1. /\ streamPrefs' = [streamPrefs EXCEPT !.no_port = none]
        /\ text' = [text EXCEPT !.port = IF none THEN Empty ELSE 8080]
        /\ origStreamPrefs' \in {streamPrefs', origStreamPrefs}
    BY <1>6 DEF CheckPort, SetPrefs
  <2>2. streamPrefs' \in Prefs
    BY <2>1 DEF Prefs
  <2>3. 8080 \in ShortPorts
    BY ShortPortsDef
  <2>4. text' \in Texts
    BY <2>1, <2>3 DEF Texts
  <2> QED
    BY <1>6, <2>1, <2>2, <2>4 DEF CheckPort, EditOnScreen
<1> QED
  BY <1>1, <1>2, <1>3, <1>4, <1>5, <1>6 DEF Cam

LEMMA ScanType == ASSUME TypeOK, Scan PROVE TypeOK'
<1> USE DEF TypeOK, mainVars, generalVars, camVars, historyVars
<1>1. CASE OpenNetworkDiscovery
  BY <1>1 DEF OpenNetworkDiscovery
<1>2. ASSUME NEW p \in Profiles, DiscoveryChosen(p) PROVE TypeOK'
  <2>1. FillUI(p, text) \in Texts
    BY FillUIType, ConstantsType
  <2> QED
    BY <1>2, <2>1, ConstantsType DEF DiscoveryChosen
<1>3. CASE DiscoveryCanceled
  <2>1. FillUI(origStreamPrefs, text) \in Texts
    BY FillUIType, ConstantsType
  <2> QED
    BY <1>3, <2>1 DEF DiscoveryCanceled
<1>4. CASE DiscoveryUp
  <2>1. FillUI(Default, NoText) \in Texts
    BY FillUIType, NoTextType, ConstantsType
  <2> QED
    BY <1>4, <2>1, ConstantsType DEF DiscoveryUp
<1> QED
  BY <1>1, <1>2, <1>3, <1>4 DEF Scan

LEMMA TypeNext == TypeOK /\ [Next]_vars => TypeOK'
<1> SUFFICES ASSUME TypeOK, [Next]_vars PROVE TypeOK'
  OBVIOUS
<1>1. CASE UNCHANGED vars
  BY <1>1 DEF TypeOK, vars, mainVars, generalVars, camVars, historyVars
<1> QED
  BY <1>1, MainType, GeneralType, CamType, ScanType DEF Next

\* Whatever is typed, stepped, discovered or cut off, preferences stay
\* preferences, in every activity and every extra between them.
THEOREM TypeCorrect == Spec => []TypeOK
<1> QED
  BY TypeInit, TypeNext, PTL DEF Spec

-----------------------------------------------------------------------------
(* What is saved *)

\* What a step on the screen of one camera does to its preferences.
EditStep ==
  /\ EditOnScreen
  /\ \/ UNCHANGED <<streamPrefs, origStreamPrefs>>
     \/ origStreamPrefs' = IF sameObject THEN streamPrefs' ELSE origStreamPrefs

LEMMA CamSteps == ASSUME Cam PROVE CamDone \/ CamBack \/ CamUp \/ EditStep
<1>1. CASE Type
  BY <1>1 DEF Type, EditStep
<1>2. ASSUME NEW toAdd \in {-1, 1}, AddToAddress(toAdd) PROVE EditStep
  BY <1>2 DEF AddToAddress, SetPrefs, EditStep
<1>3. ASSUME NEW none \in BOOLEAN, CheckPort(none) PROVE EditStep
  BY <1>3 DEF CheckPort, SetPrefs, EditStep
<1> QED
  BY <1>1, <1>2, <1>3 DEF Cam

LEMMA SavedNext == SavedIsConfirmed /\ [Next]_vars => SavedIsConfirmed'
<1> SUFFICES ASSUME SavedIsConfirmed, [Next]_vars PROVE SavedIsConfirmed'
  OBVIOUS
<1> USE DEF SavedIsConfirmed, mainVars, generalVars, camVars, historyVars
<1>1. CASE UNCHANGED vars
  BY <1>1 DEF vars
<1>2. CASE Main
  <2>1. CASE RestartButton
    BY <2>1 DEF RestartButton, RestartApp
  <2>2. CASE RestartDone \/ Launch
    BY <2>2 DEF RestartDone, Launch, NewMain
  <2>3. CASE OnDestroy
    BY <2>3 DEF OnDestroy
  <2>4. CASE BackHome \/ Kill
    BY <2>4 DEF BackHome, Kill
  <2>5. CASE OpenSettings
    BY <2>5 DEF OpenSettings
  <2> QED
    BY <1>2, <2>1, <2>2, <2>3, <2>4, <2>5 DEF Main
<1>3. CASE General
  <2>1. CASE GeneralDone
    BY <2>1 DEF GeneralDone, RestartApp
  <2>2. CASE GeneralBack
    BY <2>2 DEF GeneralBack
  <2>3. CASE GeneralUp
    BY <2>3 DEF GeneralUp, NewMain
  <2>4. ASSUME NEW c \in Cams, OpenCam(c) PROVE SavedIsConfirmed'
    BY <2>4 DEF OpenCam
  <2> QED
    BY <1>3, <2>1, <2>2, <2>3, <2>4 DEF General
<1>4. CASE Cam
  BY <1>4, CamSteps DEF CamDone, CamBack, CamUp, EditStep, EditOnScreen
<1>5. CASE Scan
  BY <1>5 DEF Scan, OpenNetworkDiscovery, DiscoveryChosen, DiscoveryCanceled, DiscoveryUp
<1> QED
  BY <1>1, <1>2, <1>3, <1>4, <1>5 DEF Next

\* Whatever the number of overlapping main activities, kills and restarts,
\* what is saved and what runs was confirmed last, unless an activity was
\* destroyed after a later confirmation (MjpegActivity.java:165-189).
THEOREM SavedAlwaysConfirmed == Spec => []SavedIsConfirmed
<1>1. Init => SavedIsConfirmed
  BY DEF Init, SavedIsConfirmed
<1> QED
  BY <1>1, SavedNext, PTL DEF Spec

-----------------------------------------------------------------------------
(* One camera's settings and the other's *)

LEMMA OtherNext == TypeOK /\ OtherCameraKept /\ [Next]_vars => OtherCameraKept'
<1> SUFFICES ASSUME TypeOK, OtherCameraKept, [Next]_vars PROVE OtherCameraKept'
  OBVIOUS
<1> USE DEF OtherCameraKept, mainVars, generalVars, historyVars
<1>1. CASE UNCHANGED vars
  BY <1>1 DEF vars
<1>2. CASE Main
  BY <1>2 DEF Main, RestartButton, RestartApp, RestartDone, NewMain, OnDestroy, BackHome, Kill,
              Launch, OpenSettings
<1>3. CASE General
  <2>1. CASE GeneralDone \/ GeneralBack \/ GeneralUp
    BY <2>1 DEF GeneralDone, GeneralBack, GeneralUp
  <2>2. ASSUME NEW c \in Cams, OpenCam(c) PROVE OtherCameraKept'
    BY <2>2 DEF OpenCam
  <2> QED
    BY <1>3, <2>1, <2>2 DEF General
<1>4. CASE CamDone
  <2>1. general \in [Cams -> Prefs]
    BY DEF TypeOK, BothPrefs
  <2>2. \A c \in Cams \ touched' : general'[c] = general[c] /\ c \notin touched
    BY <1>4, <2>1 DEF CamDone, CamOfResult
  <2> QED
    BY <1>4, <2>2 DEF CamDone
<1>5. CASE Cam /\ ~CamDone
  BY <1>5, CamSteps DEF CamBack, CamUp, EditStep, EditOnScreen
<1>6. CASE Scan
  BY <1>6 DEF Scan, OpenNetworkDiscovery, DiscoveryChosen, DiscoveryCanceled, DiscoveryUp
<1> QED
  BY <1>1, <1>2, <1>3, <1>4, <1>5, <1>6 DEF Next

\* The result of one camera's settings never lands in the other's
\* (GeneralSettingsActivity.java:109), over any number of visits.
THEOREM OtherCameraAlwaysKept == Spec => []OtherCameraKept
<1>1. Init => OtherCameraKept
  BY DEF Init, OtherCameraKept
<1> QED
  BY <1>1, OtherNext, TypeCorrect, PTL DEF Spec

-----------------------------------------------------------------------------
(* The text fields and the preferences behind them *)

InCam == screen \in {"cam", "scan"}

\* As long as nothing was edited, the fields show one camera's preferences.
FieldsShow ==
  InCam /\ edits = 0 /\ ~mixed =>
    streamPrefs \in Profiles \cup {received} /\ text = FillUI(streamPrefs, NoText)

\* Until a scan replaces them, the original preferences are the edited ones.
OriginalIsSame ==
  InCam /\ sameObject =>
    ~mixed /\ origStreamPrefs = streamPrefs /\ (edits = 0 => streamPrefs = received)

FieldsInv == FieldsShow /\ OriginalIsSame

LEMMA FieldsNext == TypeOK /\ FieldsInv /\ [Next]_vars => FieldsInv'
<1> SUFFICES ASSUME TypeOK, FieldsInv, [Next]_vars PROVE FieldsInv'
  OBVIOUS
<1> USE DEF FieldsInv, FieldsShow, OriginalIsSame, InCam, camVars
<1>1. CASE UNCHANGED vars
  BY <1>1 DEF vars
<1>2. CASE Main
  BY <1>2 DEF Main, RestartButton, RestartDone, OnDestroy, BackHome, Kill, Launch, OpenSettings
<1>3. CASE General
  BY <1>3 DEF General, GeneralDone, GeneralBack, GeneralUp, OpenCam
<1>4. CASE Cam
  <2>1. CASE CamDone \/ CamBack \/ CamUp
    BY <2>1 DEF CamDone, CamBack, CamUp
  <2>2. CASE EditStep
    <3>1. edits' # 0
      BY <2>2 DEF EditStep, EditOnScreen, TypeOK
    <3> QED
      BY <2>2, <3>1 DEF EditStep, EditOnScreen
  <2> QED
    BY <1>4, <2>1, <2>2, CamSteps
<1>5. CASE OpenNetworkDiscovery
  BY <1>5 DEF OpenNetworkDiscovery
<1>6. ASSUME NEW p \in Profiles, DiscoveryChosen(p) PROVE FieldsInv'
  <2>1. FillUI(p, text) = FillUI(p, NoText)
    BY FillUIOver, SettingsAssumption DEF SettingsAssumption
  <2> QED
    BY <1>6, <2>1 DEF DiscoveryChosen
<1>7. CASE DiscoveryCanceled
  BY <1>7, FillUIAgain DEF DiscoveryCanceled
<1>8. CASE DiscoveryUp
  BY <1>8 DEF DiscoveryUp
<1> QED
  BY <1>1, <1>2, <1>3, <1>4, <1>5, <1>6, <1>7, <1>8 DEF Next, Scan

\* What the fields of CamSettingsActivity show and Done takes from them is one
\* camera's preferences whole (fillUI and settings_done), whatever scans, back
\* buttons and cancelled scans came before.
THEOREM UneditedAlwaysWhole == Spec => []UneditedIsWhole
<1>1. Init => FieldsInv
  BY DEF Init, FieldsInv, FieldsShow, OriginalIsSame, InCam
<1>2. TypeOK /\ FieldsInv => UneditedIsWhole
  <2> SUFFICES ASSUME TypeOK, FieldsInv, screen = "cam", edits = 0, ~mixed
               PROVE  \E p \in Profiles \cup {received} :
                        Done(streamPrefs, text) \in {p, [p EXCEPT !.ip_port = FourDigits(@)]}
    BY DEF UneditedIsWhole
  <2>1. /\ streamPrefs \in Profiles \cup {received} /\ streamPrefs \in Prefs
        /\ text = FillUI(streamPrefs, NoText)
    BY DEF FieldsInv, FieldsShow, InCam, TypeOK
  <2> QED
    BY <2>1, DoneOfFillUI
<1> QED
  BY <1>1, <1>2, FieldsNext, TypeCorrect, PTL DEF Spec
=============================================================================

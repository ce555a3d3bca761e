----------------------------- MODULE LaunchProofs -----------------------------
(***************************************************************************)
(* Proofs about a launch at both ends: the daemon's journal of plays       *)
(* (PlaySessions), and the launcher that asks for them and draws what      *)
(* comes of it (LauncherShell, LauncherReads).  For any plays, stop        *)
(* requests and faults the journal never ends a play that goes on and      *)
(* never credits an end twice.  LauncherShell and LauncherReads follow.    *)
(***************************************************************************)
EXTENDS PlaySessions, Integers, Sequences, FiniteSetTheorems, TLAPS

\* Zenon is the default; the leaves that need arithmetic or records name SMT.
USE Zenon

(* The journal of plays *)

\* A session id that can never enter the slot again: its launch was sent, and
\* the bridge has served it.
Past(i) == i \notin atBridge /\ call[i] # "idle"

\* Whoever knows a session of its own id knows it from the bridge's answer, and
\* an actor that is about to close it has seen the slot without it.
Ended ==
    \A i \in Uuids :
        /\ slot = i \/ journal[i] # "absent" \/ call[i] \in {"answered", "done"} => Past(i)
        /\ \A a \in Actors : i \in todo[a] => Past(i) /\ (Finishing(a) => slot # i)
        /\ journal[i] = "closed" => slot # i
        /\ i \in atBridge => call[i] # "idle"

\* An end is credited only while the row is closed.
Credited ==
    \A i \in SessionIds :
        /\ credit[i] <= 1
        /\ journal[i] \in {"absent", "running"} => credit[i] = 0

\* A launch has no row before its handler writes one, and a handler that has
\* written one leaves a row of its own that only a close ends.
Written ==
    \A i \in Uuids :
        /\ call[i] \in {"idle", "waiting", "answered"} => journal[i] = "absent"
        /\ call[i] = "done" => row[i] = i /\ journal[i] \in {"running", "closed"}

PlayInv == TypeOK /\ Ended /\ Credited /\ Written

\* What the assumptions say of sessions and actors.
LEMMA ConstantFacts ==
    /\ \A p \in Plays : SessionOf(p) \in SessionIds
    /\ \A p \in Plays, i \in Uuids : SessionOf(p) = i => p = i
    /\ Uuids \subseteq Plays /\ Uuids \subseteq SessionIds
    /\ None \notin SessionIds
    /\ Watcher \in Actors /\ Stoppers \subseteq Actors /\ Watcher \notin Stoppers
BY PlayAssumption DEF SessionOf, SessionIds, Uuids, Actors

\* TypeOK is inductive.
LEMMA PlayTypes ==
    ASSUME TypeOK, [Next]_vars
    PROVE  TypeOK'
<1> USE ConstantFacts
<1>1. ASSUME NEW p \in Plays,
             Launch(p) \/ BridgeAccepts(p) \/ BridgeRefuses(p) \/ GiveUp(p)
      PROVE  TypeOK'
  BY ZenonT(40), <1>1
     DEF TypeOK, Launch, BridgeAccepts, BridgeRefuses, GiveUp, Calls, Bridge!Take, rowVars,
         finishVars
<1>2. ASSUME NEW p \in Plays, RecordStart(p)
      PROVE  TypeOK'
  BY SMT, <1>2 DEF TypeOK, RecordStart, Calls, Outcomes, finishVars
<1>3. CASE SessionEnds
  BY <1>3 DEF TypeOK, SessionEnds, Bridge!Release, launchVars, rowVars, finishVars
<1>4. ASSUME NEW s \in Stoppers,
             Stop(s) \/ BridgeStops(s) \/ StopFails(s) \/ StopDone(s) \/ AbandonStop(s)
      PROVE  TypeOK'
  BY SMT, <1>4
     DEF TypeOK, Stop, BridgeStops, StopFails, StopDone, AbandonStop, Bridge!Release, launchVars,
         rowVars
<1>6. ASSUME NEW a \in Actors, NEW i \in SessionIds, Close(a, i)
      PROVE  TypeOK'
  <2>2. todo' \in [Actors -> SUBSET SessionIds]
    BY <1>6 DEF TypeOK, Close
  <2>3. journal' \in [SessionIds -> Outcomes] /\ credit' \in [SessionIds -> Nat]
    BY SMT, <1>6 DEF TypeOK, Close, Outcomes
  <2> QED
    BY <1>6, <2>2, <2>3 DEF TypeOK, Close, launchVars
<1>7. CASE WatchList \/ WatchAsk \/ WatchAskFails \/ WatchDone
  BY SMT, <1>7 DEF TypeOK, WatchList, WatchAsk, WatchAskFails, WatchDone, launchVars, rowVars
<1>8. CASE Restart
  BY <1>8 DEF TypeOK, Restart, Swept, Calls, Outcomes
<1>9. CASE UNCHANGED vars
  BY <1>9 DEF TypeOK, vars
<1> QED
  BY <1>1, <1>2, <1>3, <1>4, <1>6, <1>7, <1>8, <1>9 DEF Next

\* With the types, Ended is inductive.
LEMMA EndedStep ==
    ASSUME TypeOK, Ended, [Next]_vars
    PROVE  Ended'
<1> USE ConstantFacts
<1>1. ASSUME NEW p \in Plays, Launch(p) \/ BridgeRefuses(p) \/ GiveUp(p)
      PROVE  Ended'
  BY ZenonT(40), <1>1
     DEF TypeOK, Ended, Past, Finishing, Calls, Launch, BridgeRefuses, GiveUp, rowVars, finishVars
<1>2. ASSUME NEW p \in Plays, BridgeAccepts(p)
      PROVE  Ended'
  BY ZenonT(40), <1>2
     DEF TypeOK, Ended, Past, Finishing, BridgeAccepts, Bridge!Take, rowVars, finishVars
<1>3. ASSUME NEW p \in Plays, RecordStart(p)
      PROVE  Ended'
  BY ZenonT(40), <1>3 DEF TypeOK, Ended, Past, Finishing, RecordStart, finishVars
<1>4. CASE SessionEnds
  BY <1>4 DEF Ended, Past, Finishing, SessionEnds, Bridge!Release, launchVars, rowVars, finishVars
<1>5. ASSUME NEW s \in Stoppers,
             Stop(s) \/ BridgeStops(s) \/ StopFails(s) \/ StopDone(s) \/ AbandonStop(s)
      PROVE  Ended'
  BY SMT, <1>5
     DEF TypeOK, Ended, Past, Finishing, Stop, BridgeStops, StopFails, StopDone, AbandonStop,
         Bridge!Release, launchVars, rowVars, Actors
<1>7. ASSUME NEW a \in Actors, NEW i \in SessionIds, Close(a, i)
      PROVE  Ended'
  BY SMT, <1>7 DEF TypeOK, Ended, Past, Finishing, Close, launchVars
<1>8. CASE WatchList \/ WatchAsk \/ WatchAskFails \/ WatchDone
  BY SMT, <1>8
     DEF TypeOK, Ended, Past, Finishing, WatchList, WatchAsk, WatchAskFails, WatchDone,
         launchVars, rowVars, Actors
<1>9. CASE Restart
  BY <1>9 DEF TypeOK, Ended, Past, Restart, Swept
<1>10. CASE UNCHANGED vars
  BY <1>10 DEF Ended, Past, Finishing, vars
<1> QED
  BY <1>1, <1>2, <1>3, <1>4, <1>5, <1>7, <1>8, <1>9, <1>10 DEF Next

\* With the types, Credited is inductive.
LEMMA CreditedStep ==
    ASSUME TypeOK, Credited, [Next]_vars
    PROVE  Credited'
<1> USE ConstantFacts
<1>1. ASSUME NEW p \in Plays, RecordStart(p)
      PROVE  Credited'
  BY <1>1 DEF TypeOK, Credited, RecordStart
<1>2. ASSUME NEW a \in Actors, NEW i \in SessionIds, Close(a, i)
      PROVE  Credited'
  BY SMT, <1>2 DEF TypeOK, Credited, Close
<1>3. CASE Restart
  BY <1>3 DEF TypeOK, Credited, Restart, Swept
<1>4. CASE UNCHANGED <<journal, credit>>
  BY <1>4 DEF Credited
<1> QED
  BY <1>1, <1>2, <1>3, <1>4
  DEF Next, vars, Launch, BridgeAccepts, BridgeRefuses, GiveUp, SessionEnds, Stop,
      BridgeStops, StopFails, StopDone, AbandonStop, WatchList, WatchAsk,
      WatchAskFails, WatchDone, rowVars

\* With the types, Written is inductive.
LEMMA WrittenStep ==
    ASSUME TypeOK, Written, [Next]_vars
    PROVE  Written'
<1> USE ConstantFacts
<1>1. ASSUME NEW p \in Plays, Launch(p) \/ BridgeAccepts(p) \/ BridgeRefuses(p) \/ GiveUp(p)
      PROVE  Written'
  BY ZenonT(40), <1>1
     DEF TypeOK, Written, Calls, Launch, BridgeAccepts, BridgeRefuses, GiveUp, rowVars
<1>2. ASSUME NEW p \in Plays, RecordStart(p)
      PROVE  Written'
  <2> SUFFICES ASSUME NEW i \in Uuids
               PROVE  /\ call'[i] \in {"idle", "waiting", "answered"} => journal'[i] = "absent"
                      /\ call'[i] = "done" => row'[i] = i /\ journal'[i] \in {"running", "closed"}
    BY DEF Written
  <2>1. CASE p = i
    BY ZenonT(40), <1>2, <2>1 DEF TypeOK, Written, RecordStart, SessionOf, Uuids
  <2>2. CASE p # i
    <3>1. SessionOf(p) # i
      BY <2>2
    <3>2. call'[i] = call[i] /\ journal'[i] = journal[i] /\ row'[i] = row[i]
      BY <1>2, <2>2, <3>1 DEF TypeOK, RecordStart
    <3> QED
      BY <3>2 DEF Written
  <2> QED
    BY <2>1, <2>2
<1>3. ASSUME NEW a \in Actors, NEW i \in SessionIds, Close(a, i)
      PROVE  Written'
  BY <1>3 DEF TypeOK, Written, Close, launchVars
<1>4. CASE Restart
  BY <1>4 DEF TypeOK, Written, Restart, Swept
<1>5. CASE UNCHANGED <<journal, row, call>>
  BY <1>5 DEF Written
<1> QED
  BY <1>1, <1>2, <1>3, <1>4, <1>5
  DEF Next, vars, SessionEnds, Stop, BridgeStops, StopFails, StopDone, AbandonStop, WatchList,
      WatchAsk, WatchAskFails, WatchDone, launchVars, rowVars

\* The invariant behind the theorems.
LEMMA PlayInvariance == Spec => []PlayInv
<1>1. Init => PlayInv
  BY SMT, ConstantFacts
  DEF Init, PlayInv, TypeOK, Ended, Credited, Written, Calls, Outcomes, Actors
<1>2. PlayInv /\ [Next]_vars => PlayInv'
  BY PlayTypes, EndedStep, CreditedStep, WrittenStep DEF PlayInv
<1> QED
  BY <1>1, <1>2, PTL DEF Spec

\* TypeOK is an invariant for any plays, actors and faults.
THEOREM TypeCorrect == Spec => []TypeOK
BY PlayInvariance, PTL DEF PlayInv

\* A play with a session id of its own is closed, and its end announced, only after it
\* has ended, whichever of stop handlers and watcher closes it and whatever they raced;
\* and at most one close of a row, however often one is tried, is answered with the
\* play's source and has it refreshed.
THEOREM PlaysEndOnlyOnce == Spec => [](ClosedOnlyAfterEnd /\ CreditedOnce)
<1>1. PlayInv => ClosedOnlyAfterEnd /\ CreditedOnce
  BY DEF PlayInv, Ended, Credited, ClosedOnlyAfterEnd, CreditedOnce
<1> QED
  BY <1>1, PlayInvariance, PTL

\* A play in progress whose launch was recorded has an open row of its own.
THEOREM PlaysStayOpen == Spec => []OpenWhilePlaying
<1>1. PlayInv => OpenWhilePlaying
  BY DEF PlayInv, Ended, Written, OpenWhilePlaying
<1> QED
  BY <1>1, PlayInvariance, PTL

------------------------------------------------------------------------------
(* The launcher's shell and its reads *)

CONSTANTS MaxChanges, MaxUnheard, MaxFailures, MaxDrops, MaxLoads   \* of LauncherReads

VARIABLES page, ownership, launch, job, timers, caret, dialog, menu, drawer, picker, bar,
          ring, focused, swallowed,
          resource, truth, shown, out, retrying, feed, feedEvents, dashboard, failures,
          drops, loads, missed

Shell == INSTANCE LauncherShell
Reads == INSTANCE LauncherReads WITH events <- feedEvents

\* The sign-in dialog is drawn over the settings screen and leaves with it.
DialogIsOnSettings == dialog # "none" => page = "Settings"

ShellTypes ==
    /\ page \in Shell!Pages /\ ownership \in Shell!Ownerships
    /\ launch \in {"Idle", "Launching", "Failed"}
    /\ job \in Nat /\ timers \in Nat
    /\ caret \in {"none", "Search", "Url", "Dialog"}
    /\ dialog \in {"none", "open", "working"}

SurfaceTypes ==
    /\ menu \in BOOLEAN /\ drawer \in BOOLEAN /\ picker \in BOOLEAN
    /\ bar \in BOOLEAN /\ ring \in BOOLEAN
    /\ focused \in BOOLEAN /\ swallowed \in BOOLEAN

ScreenInv == DialogIsOnSettings /\ Shell!CaretIsOnScreen /\ Shell!NothingHidden

------------------------------------------------------------------------------
\* The stack Back walks: what it leaves is open, and all that lies over it closed.
LEMMA StackOrder ==
    /\ DOMAIN Shell!Stack = 1 .. 11
    /\ Shell!Stack[1] = "caret" /\ Shell!Stack[2] = "dialog" /\ Shell!Stack[3] = "failure"
    /\ Shell!Stack[4] = "launching" /\ Shell!Stack[5] = "menu" /\ Shell!Stack[6] = "drawer"
    /\ Shell!Stack[7] = "picker" /\ Shell!Stack[8] = "details" /\ Shell!Stack[9] = "bar"
    /\ Shell!Stack[10] = "ring" /\ Shell!Stack[11] = "page"
BY SMT DEF Shell!Stack

\* What Back leaves is open, and nothing inside it is.
LEMMA StackPlace ==
    ASSUME NEW n \in 1 .. 11, Shell!Leaves(Shell!Stack[n])
    PROVE  Shell!Open[Shell!Stack[n]] /\ \A j \in 1 .. n - 1 : ~Shell!Open[Shell!Stack[j]]
<1>1. PICK i \in 1 .. 11 : /\ Shell!Stack[i] = Shell!Stack[n] /\ Shell!Open[Shell!Stack[n]]
                           /\ \A j \in 1 .. i - 1 : ~Shell!Open[Shell!Stack[j]]
  BY StackOrder DEF Shell!Leaves
<1>2. i = n
  BY SMT, <1>1, StackOrder
<1> QED
  BY <1>1, <1>2

\* What each surface stands for.
LEMMA OpenFields ==
    /\ Shell!Open["caret"] <=> caret # "none"
    /\ Shell!Open["dialog"] <=> dialog # "none"
    /\ Shell!Open["failure"] <=> launch = "Failed"
    /\ Shell!Open["launching"] <=> launch = "Launching"
    /\ Shell!Open["menu"] = menu
    /\ Shell!Open["drawer"] = drawer
    /\ Shell!Open["picker"] <=> page = "Details" /\ picker
    /\ Shell!Open["details"] <=> page = "Details"
    /\ Shell!Open["bar"] <=> page = "Dashboard" /\ bar
    /\ Shell!Open["ring"] = ring
    /\ Shell!Open["page"] <=> page # "Dashboard"
BY DEF Shell!Open

\* What Back knows about the screen when it leaves a surface.
LEMMA LeavesIs ==
    /\ Shell!Leaves("caret") => caret # "none"
    /\ Shell!Leaves("dialog") => caret = "none" /\ dialog # "none"
    /\ Shell!Leaves("failure") => launch = "Failed"
    /\ Shell!Leaves("menu") => menu
    /\ Shell!Leaves("drawer") => drawer
    /\ Shell!Leaves("picker") => page = "Details" /\ picker
    /\ Shell!Leaves("details") =>
          caret = "none" /\ dialog = "none" /\ page = "Details" /\ ~menu /\ ~picker
    /\ Shell!Leaves("bar") => page = "Dashboard" /\ bar
    /\ Shell!Leaves("ring") => ring
    /\ Shell!Leaves("page") =>
          /\ caret = "none" /\ dialog = "none" /\ page \notin {"Dashboard", "Details"}
          /\ ~menu /\ ~ring
<1> USE StackPlace, StackOrder, OpenFields
<1>1. Shell!Leaves("caret") => caret # "none"
  BY SMT
<1>2. ASSUME Shell!Leaves("dialog") PROVE caret = "none" /\ dialog # "none"
  BY SMT, <1>2
<1>3. Shell!Leaves("failure") => launch = "Failed"
  BY SMT
<1>4. Shell!Leaves("menu") => menu
  BY SMT
<1>5. Shell!Leaves("drawer") => drawer
  BY SMT
<1>6. Shell!Leaves("picker") => page = "Details" /\ picker
  BY SMT
<1>7. ASSUME Shell!Leaves("details")
      PROVE  caret = "none" /\ dialog = "none" /\ page = "Details" /\ ~menu /\ ~picker
  BY SMT, <1>7
<1>8. Shell!Leaves("bar") => page = "Dashboard" /\ bar
  BY SMT
<1>9. Shell!Leaves("ring") => ring
  BY SMT
<1>10. ASSUME Shell!Leaves("page")
       PROVE  /\ caret = "none" /\ dialog = "none" /\ page \notin {"Dashboard", "Details"}
              /\ ~menu /\ ~ring
  BY SMT, <1>10
<1> QED
  BY <1>1, <1>2, <1>3, <1>4, <1>5, <1>6, <1>7, <1>8, <1>9, <1>10

------------------------------------------------------------------------------
\* The strings and the counters.
LEMMA ShellTypesStep == ShellTypes /\ [Shell!Next]_(Shell!vars) => ShellTypes'
<1> SUFFICES ASSUME ShellTypes, [Shell!Next]_(Shell!vars) PROVE ShellTypes'
  OBVIOUS
<1> USE DEF ShellTypes, Shell!input, Shell!starts, Shell!text, Shell!over, Shell!cursors
<1>1. CASE \/ Shell!OpenDashboard \/ Shell!OpenLibrary \/ Shell!OpenSettings \/ Shell!OpenSearch
           \/ Shell!SelectSection
  BY <1>1
     DEF Shell!OpenDashboard, Shell!OpenLibrary, Shell!OpenSettings, Shell!OpenSearch,
         Shell!SelectSection, Shell!SwitchPage, Shell!Pages
<1>2. CASE \/ Shell!ToggleMenu \/ Shell!MenuLost \/ Shell!ToggleDrawer \/ Shell!OpenDetails
           \/ Shell!PickerPressed
  BY <1>2
     DEF Shell!ToggleMenu, Shell!MenuLost, Shell!ToggleDrawer, Shell!OpenDetails,
         Shell!PickerPressed, Shell!SwitchPage, Shell!Pages
<1>3. CASE \/ Shell!FieldFocused \/ Shell!FieldLeft \/ Shell!SignInOpened \/ Shell!SignInPressed
           \/ Shell!SignedIn
  BY <1>3
     DEF Shell!FieldFocused, Shell!FieldLeft, Shell!SignInOpened, Shell!SignInPressed,
         Shell!SignedIn
<1>4. CASE Shell!WalkRing \/ Shell!StepFocus
  BY <1>4 DEF Shell!WalkRing, Shell!StepFocus
<1>5. CASE Shell!BackPressed
  BY <1>5 DEF Shell!BackPressed, Shell!Back, Shell!SwitchPage, Shell!Pages, Shell!vars
<1>6. CASE Shell!Launch \/ Shell!DaemonLaunchResult \/ Shell!DismissLaunch
  BY SMT, <1>6 DEF Shell!Launch, Shell!DaemonLaunchResult, Shell!DismissLaunch, Shell!Ownerships
<1>7. ASSUME NEW b \in BOOLEAN, Shell!SessionObserved(b) \/ Shell!FocusChanged(b)
      PROVE  ShellTypes'
  BY <1>7 DEF Shell!SessionObserved, Shell!FocusChanged, Shell!Ownerships
<1>8. CASE UNCHANGED Shell!vars
  BY <1>8 DEF Shell!vars
<1> QED
  BY <1>1, <1>2, <1>3, <1>4, <1>5, <1>6, <1>7, <1>8 DEF Shell!Next

\* The flags.
LEMMA SurfaceTypesStep == SurfaceTypes /\ [Shell!Next]_(Shell!vars) => SurfaceTypes'
<1> SUFFICES ASSUME SurfaceTypes, [Shell!Next]_(Shell!vars) PROVE SurfaceTypes'
  OBVIOUS
<1> USE DEF SurfaceTypes, Shell!input, Shell!starts, Shell!text, Shell!over, Shell!cursors
<1>1. CASE \/ Shell!OpenDashboard \/ Shell!OpenLibrary \/ Shell!OpenSettings \/ Shell!OpenSearch
           \/ Shell!SelectSection
  BY <1>1, Zenon
     DEF Shell!OpenDashboard, Shell!OpenLibrary, Shell!OpenSettings, Shell!OpenSearch,
         Shell!SelectSection
<1>2. CASE \/ Shell!ToggleMenu \/ Shell!MenuLost \/ Shell!ToggleDrawer \/ Shell!OpenDetails
           \/ Shell!PickerPressed
  BY <1>2, Zenon
     DEF Shell!ToggleMenu, Shell!MenuLost, Shell!ToggleDrawer, Shell!OpenDetails,
         Shell!PickerPressed
<1>3. CASE \/ Shell!FieldFocused \/ Shell!FieldLeft \/ Shell!SignInOpened \/ Shell!SignInPressed
           \/ Shell!SignedIn
  BY <1>3, Zenon
     DEF Shell!FieldFocused, Shell!FieldLeft, Shell!SignInOpened, Shell!SignInPressed,
         Shell!SignedIn
<1>4. CASE Shell!WalkRing
  BY <1>4, Zenon DEF Shell!WalkRing
<1>5. CASE Shell!StepFocus
  BY <1>5, Zenon DEF Shell!StepFocus
<1>6. CASE Shell!BackPressed
  BY <1>6, Zenon DEF Shell!BackPressed, Shell!Back, Shell!vars
<1>7. CASE Shell!Launch \/ Shell!DaemonLaunchResult \/ Shell!DismissLaunch
  BY <1>7, Zenon DEF Shell!Launch, Shell!DaemonLaunchResult, Shell!DismissLaunch
<1>8. ASSUME NEW b \in BOOLEAN, Shell!SessionObserved(b) \/ Shell!FocusChanged(b)
      PROVE  SurfaceTypes'
  BY <1>8, Zenon DEF Shell!SessionObserved, Shell!FocusChanged
<1>9. CASE UNCHANGED Shell!vars
  BY <1>9, Zenon DEF Shell!vars
<1> QED
  BY <1>1, <1>2, <1>3, <1>4, <1>5, <1>6, <1>7, <1>8, <1>9 DEF Shell!Next

\* Every part of the shell's state keeps its type.
THEOREM ShellIsTyped == Shell!Spec => []Shell!TypeOK
<1>1. Shell!Init => ShellTypes
  BY SMT DEF Shell!Init, ShellTypes, Shell!Pages, Shell!Ownerships
<1>2. Shell!Init => SurfaceTypes
  BY Zenon DEF Shell!Init, SurfaceTypes
<1>3. ShellTypes /\ SurfaceTypes => Shell!TypeOK
  BY Zenon DEF ShellTypes, SurfaceTypes, Shell!TypeOK
<1> QED
  BY <1>1, <1>2, <1>3, ShellTypesStep, SurfaceTypesStep, PTL DEF Shell!Spec

------------------------------------------------------------------------------
\* A launch on screen keeps its guard timer through every step.
LEMMA LaunchStep ==
    ShellTypes /\ Shell!LaunchIsTimed /\ [Shell!Next]_(Shell!vars) => Shell!LaunchIsTimed'
<1> SUFFICES ASSUME ShellTypes, Shell!LaunchIsTimed, [Shell!Next]_(Shell!vars)
      PROVE  Shell!LaunchIsTimed'
  OBVIOUS
<1> USE DEF Shell!LaunchIsTimed, ShellTypes, Shell!input, Shell!starts
<1>1. CASE Shell!Launch \/ Shell!DaemonLaunchResult \/ Shell!DismissLaunch
  BY SMT, <1>1 DEF Shell!Launch, Shell!DaemonLaunchResult, Shell!DismissLaunch, Shell!HasControl
<1>2. CASE Shell!BackPressed
  BY <1>2, LeavesIs DEF Shell!BackPressed, Shell!Back, Shell!vars
<1>3. ASSUME NEW b \in BOOLEAN, Shell!SessionObserved(b) \/ Shell!FocusChanged(b)
      PROVE  Shell!LaunchIsTimed'
  BY <1>3 DEF Shell!SessionObserved, Shell!FocusChanged
<1>4. CASE UNCHANGED <<ownership, launch, job, timers>>
  BY <1>4
<1> QED
  BY <1>1, <1>2, <1>3, <1>4
     DEF Shell!Next, Shell!OpenDashboard, Shell!OpenLibrary, Shell!OpenSettings, Shell!OpenSearch,
         Shell!SelectSection, Shell!ToggleMenu, Shell!MenuLost, Shell!ToggleDrawer,
         Shell!OpenDetails, Shell!PickerPressed, Shell!FieldFocused, Shell!FieldLeft,
         Shell!SignInOpened, Shell!SignInPressed, Shell!SignedIn, Shell!WalkRing, Shell!StepFocus,
         Shell!vars

\* The claim on the pads follows the window's focus through every step.
LEMMA FocusStep ==
    ShellTypes /\ Shell!PadFollowsFocus /\ [Shell!Next]_(Shell!vars) => Shell!PadFollowsFocus'
<1> SUFFICES ASSUME ShellTypes, Shell!PadFollowsFocus, [Shell!Next]_(Shell!vars)
      PROVE  Shell!PadFollowsFocus'
  OBVIOUS
<1> USE DEF Shell!PadFollowsFocus, Shell!input
<1>1. CASE Shell!Launch \/ Shell!DaemonLaunchResult
  BY SMT, <1>1 DEF Shell!Launch, Shell!DaemonLaunchResult, Shell!HasControl
<1>2. ASSUME NEW b \in BOOLEAN, Shell!SessionObserved(b) PROVE Shell!PadFollowsFocus'
  BY <1>2 DEF Shell!SessionObserved
<1>3. CASE Shell!FocusChanged(TRUE)
  BY <1>3 DEF Shell!FocusChanged
<1>4. CASE Shell!FocusChanged(FALSE)
  BY <1>4 DEF Shell!FocusChanged
<1>5. CASE UNCHANGED <<ownership, focused, swallowed>>
  BY <1>5
<1>6. CASE Shell!BackPressed
  BY <1>5, <1>6 DEF Shell!BackPressed, Shell!Back, Shell!vars
<1> QED
  BY <1>1, <1>2, <1>3, <1>4, <1>5, <1>6
     DEF Shell!Next, Shell!OpenDashboard, Shell!OpenLibrary, Shell!OpenSettings, Shell!OpenSearch,
         Shell!SelectSection, Shell!ToggleMenu, Shell!MenuLost, Shell!ToggleDrawer,
         Shell!OpenDetails, Shell!PickerPressed, Shell!FieldFocused, Shell!FieldLeft,
         Shell!SignInOpened, Shell!SignInPressed, Shell!SignedIn, Shell!WalkRing, Shell!StepFocus,
         Shell!DismissLaunch, Shell!vars

\* Every step of the launcher keeps the screen invariant.
LEMMA ScreenStep == ScreenInv /\ [Shell!Next]_(Shell!vars) => ScreenInv'
<1> SUFFICES ASSUME ScreenInv, [Shell!Next]_(Shell!vars) PROVE ScreenInv'
  OBVIOUS
<1> USE DEF ScreenInv, DialogIsOnSettings, Shell!CaretIsOnScreen, Shell!NothingHidden,
            Shell!text, Shell!over, Shell!cursors
<1>1. CASE Shell!OpenDashboard \/ Shell!OpenLibrary \/ Shell!OpenSettings
  <2>1. dialog = "none" /\ (page = "Library" => ~menu)
    BY <1>1 DEF Shell!OpenDashboard, Shell!OpenLibrary, Shell!OpenSettings, Shell!BarReaches
  <2>2. CASE Shell!OpenDashboard
    BY <2>1, <2>2 DEF Shell!OpenDashboard, Shell!SwitchPage
  <2>3. CASE Shell!OpenLibrary
    BY <2>1, <2>3 DEF Shell!OpenLibrary, Shell!SwitchPage
  <2>4. CASE Shell!OpenSettings
    BY <2>1, <2>4 DEF Shell!OpenSettings, Shell!SwitchPage
  <2> QED
    BY <1>1, <2>2, <2>3, <2>4
<1>2. CASE \/ Shell!OpenSearch \/ Shell!SelectSection \/ Shell!ToggleMenu \/ Shell!MenuLost
           \/ Shell!ToggleDrawer
  BY <1>2
     DEF Shell!OpenSearch, Shell!SelectSection, Shell!ToggleMenu, Shell!MenuLost,
         Shell!ToggleDrawer
<1>3. CASE Shell!OpenDetails \/ Shell!PickerPressed
  BY SMT, <1>3 DEF Shell!OpenDetails, Shell!PickerPressed, Shell!PadReaches, Shell!SwitchPage
<1>4. CASE \/ Shell!FieldFocused \/ Shell!FieldLeft \/ Shell!SignInOpened \/ Shell!SignInPressed
           \/ Shell!SignedIn
  BY SMT, <1>4
     DEF Shell!FieldFocused, Shell!FieldLeft, Shell!SignInOpened, Shell!SignInPressed,
         Shell!SignedIn
<1>5. CASE Shell!WalkRing
  BY SMT, <1>5 DEF Shell!WalkRing
<1>6. CASE Shell!StepFocus
  <2>1. (ring' = ring \/ ring' = FALSE) /\ UNCHANGED <<page, Shell!text, Shell!over>>
    BY <1>6, Zenon DEF Shell!StepFocus
  <2> QED
    BY SMT, <2>1
<1>7. CASE Shell!BackPressed
  <2>1. CASE UNCHANGED <<page, Shell!text, Shell!over, Shell!cursors>>
    BY <2>1
  <2>2. CASE /\ Shell!Leaves("caret") /\ caret' = "none"
             /\ UNCHANGED <<page, dialog, Shell!over, Shell!cursors>>
    BY <2>2
  <2>3. CASE /\ Shell!Leaves("dialog") /\ dialog' \in {dialog, "none"}
             /\ UNCHANGED <<page, caret, Shell!over, Shell!cursors>>
    BY <2>3, LeavesIs
  <2>4. CASE /\ menu' = menu \/ menu' = FALSE
             /\ ring' = ring \/ ring' = FALSE
             /\ UNCHANGED <<page, Shell!text>>
    BY SMT, <2>4
  <2>5. CASE /\ Shell!Leaves("details") /\ Shell!SwitchPage("Library")
             /\ UNCHANGED <<dialog, Shell!over, Shell!cursors>>
    BY <2>5, LeavesIs DEF Shell!SwitchPage
  <2>6. CASE /\ Shell!Leaves("page") /\ Shell!SwitchPage("Dashboard")
             /\ bar' = FALSE /\ ring' = FALSE
             /\ UNCHANGED <<dialog, Shell!over>>
    BY <2>6, LeavesIs DEF Shell!SwitchPage
  <2> QED
    BY <1>7, <2>1, <2>2, <2>3, <2>4, <2>5, <2>6, Zenon
       DEF Shell!BackPressed, Shell!Back, Shell!vars
<1>8. CASE Shell!Launch
  BY SMT, <1>8 DEF Shell!Launch
<1>9. CASE UNCHANGED <<page, Shell!text, Shell!over, Shell!cursors>>
  BY <1>9
<1> QED
  BY <1>1, <1>2, <1>3, <1>4, <1>5, <1>6, <1>7, <1>8, <1>9
     DEF Shell!Next, Shell!DaemonLaunchResult, Shell!DismissLaunch, Shell!SessionObserved,
         Shell!FocusChanged, Shell!vars

\* Whatever the order of presses, answers, timers and focus events, a caret, a menu
\* or the ring that takes the pad's input is drawn by the screen it is on, an overlay
\* that holds launches back will be taken down, and the pad's claim agrees with the
\* window's focus.  Two things are left open: the claim after a focus loss that came
\* while a session was being asked about or started, and the top bar's cursor and the
\* filter drawer, which a page that draws neither can hold.
THEOREM PadStaysOnScreen == Shell!Spec => []Shell!PadMeetsScreen
<1>1. Shell!Init => ShellTypes /\ Shell!LaunchIsTimed /\ Shell!PadFollowsFocus /\ ScreenInv
  BY SMT
     DEF Shell!Init, ShellTypes, Shell!Pages, Shell!Ownerships, Shell!LaunchIsTimed,
         Shell!PadFollowsFocus, ScreenInv, DialogIsOnSettings, Shell!CaretIsOnScreen,
         Shell!NothingHidden
<1>2. Shell!LaunchIsTimed /\ Shell!PadFollowsFocus /\ ScreenInv => Shell!PadMeetsScreen
  BY DEF Shell!PadMeetsScreen, ScreenInv
<1> QED
  BY <1>1, <1>2, ShellTypesStep, LaunchStep, FocusStep, ScreenStep, PTL DEF Shell!Spec

------------------------------------------------------------------------------
\* Back leaves one surface at a time.
Surfaces == {"caret", "dialog", "failure", "launching", "menu", "drawer",
             "picker", "details", "bar", "ring", "page"}

\* The step closes s and leaves every other surface as it was.
ClosesOnly(s) == \A t \in Surfaces : Shell!Open'[t] <=> (t # s /\ Shell!Open[t])

\* The open surfaces after a step, field by field.
LEMMA OpenFieldsNext ==
    /\ Shell!Open'["caret"] <=> caret' # "none"
    /\ Shell!Open'["dialog"] <=> dialog' # "none"
    /\ Shell!Open'["failure"] <=> launch' = "Failed"
    /\ Shell!Open'["launching"] <=> launch' = "Launching"
    /\ Shell!Open'["menu"] = menu'
    /\ Shell!Open'["drawer"] = drawer'
    /\ Shell!Open'["picker"] <=> page' = "Details" /\ picker'
    /\ Shell!Open'["details"] <=> page' = "Details"
    /\ Shell!Open'["bar"] <=> page' = "Dashboard" /\ bar'
    /\ Shell!Open'["ring"] = ring'
    /\ Shell!Open'["page"] <=> page' # "Dashboard"
BY DEF Shell!Open

\* Open is about the same surfaces in every state.
LEMMA OpenDomain == DOMAIN Shell!Open = Surfaces /\ DOMAIN Shell!Open' = Surfaces
BY DEF Shell!Open, Surfaces

\* Closing one open surface, and no other, takes one off the depth.
LEMMA DepthFalls ==
    ASSUME NEW s \in Surfaces, Shell!Open[s], ClosesOnly(s)
    PROVE  Shell!Depth' = Shell!Depth - 1
<1> DEFINE Up == {t \in Surfaces : Shell!Open[t]}
           After == {t \in Surfaces : Shell!Open'[t]}
<1>1. Shell!Depth = Cardinality(Up) /\ Shell!Depth' = Cardinality(After)
  BY OpenDomain DEF Shell!Depth, Shell!Cardinality, Cardinality
<1>2. IsFiniteSet(Surfaces)
  <2>1. Surfaces = {"caret", "dialog"} \cup {"failure", "launching"} \cup {"menu", "drawer"}
                   \cup {"picker", "details"} \cup {"bar", "ring"} \cup {"page"}
    BY DEF Surfaces
  <2>2. \A a, b : IsFiniteSet({a, b})
    <3> TAKE a, b
    <3>1. {a, b} = {a} \cup {b}
      OBVIOUS
    <3>2. IsFiniteSet({a}) /\ IsFiniteSet({b})
      BY FS_Singleton
    <3>3. IsFiniteSet({a} \cup {b})
      BY <3>2, FS_Union
    <3> QED
      BY <3>1, <3>3
  <2> QED
    BY <2>1, <2>2, FS_Singleton, FS_Union
<1>3. IsFiniteSet(Up) /\ s \in Up
  BY <1>2, FS_Subset
<1>4. After = Up \ {s}
  BY DEF ClosesOnly
<1>5. Cardinality(Up \ {s}) = Cardinality(Up) - 1
  BY <1>3, FS_RemoveElement
<1> QED
  BY <1>1, <1>4, <1>5

\* Only one surface is the one Back leaves.
LEMMA LeavesOne ==
    /\ \A s, t \in Surfaces : Shell!Leaves(s) /\ Shell!Leaves(t) => s = t
    /\ \A s \in Surfaces : Shell!Leaves(s) => Shell!Open[s] /\ ~Shell!Bare
<1>1. \A s \in Surfaces : \E n \in 1 .. 11 : Shell!Stack[n] = s
  BY SMT, StackOrder DEF Surfaces
<1>2. \A n, m \in 1 .. 11 :
        Shell!Leaves(Shell!Stack[n]) /\ Shell!Leaves(Shell!Stack[m]) => ~(n < m)
  BY SMT, StackPlace
<1>3. \A n, m \in 1 .. 11 : Shell!Leaves(Shell!Stack[n]) /\ Shell!Leaves(Shell!Stack[m]) => n = m
  BY SMT, <1>2
<1>4. \A s \in Surfaces : Shell!Leaves(s) => Shell!Open[s] /\ ~Shell!Bare
  BY ZenonT(40), <1>1, StackPlace, OpenDomain DEF Shell!Bare
<1> QED
  BY <1>1, <1>3, <1>4

\* A Back that answers closes exactly one surface.
LEMMA BackCloses ==
    ASSUME ShellTypes, SurfaceTypes, ShellTypes', SurfaceTypes', Shell!Back,
           ~Shell!Bare, ~Shell!Leaves("launching"),
           ~(Shell!Leaves("dialog") /\ dialog = "working")
    PROVE  Shell!Depth' = Shell!Depth - 1
<1> USE OpenFields, OpenFieldsNext, LeavesIs
    DEF Surfaces, ClosesOnly, Shell!input, Shell!starts, Shell!text, Shell!over, Shell!cursors
<1>1. CASE /\ Shell!Leaves("caret") /\ caret' = "none"
           /\ UNCHANGED <<page, Shell!input, Shell!starts, dialog, Shell!over, Shell!cursors>>
  <2>1. ClosesOnly("caret")
    BY <1>1
  <2> QED
    BY <1>1, <2>1, LeavesOne, DepthFalls
<1>2. CASE /\ Shell!Leaves("dialog") /\ dialog' = "none"
           /\ UNCHANGED <<page, Shell!input, Shell!starts, caret, Shell!over, Shell!cursors>>
  <2>1. ClosesOnly("dialog")
    BY <1>2
  <2> QED
    BY <1>2, <2>1, LeavesOne, DepthFalls
<1>3. CASE /\ Shell!Leaves("failure") /\ launch' = "Idle"
           /\ UNCHANGED <<page, Shell!input, job, timers, Shell!text, Shell!over, Shell!cursors>>
  <2>1. ClosesOnly("failure")
    BY <1>3
  <2> QED
    BY <1>3, <2>1, LeavesOne, DepthFalls
<1>4. CASE /\ Shell!Leaves("menu") /\ menu' = FALSE
           /\ UNCHANGED <<page, Shell!input, Shell!starts, Shell!text, drawer, picker,
                          Shell!cursors>>
  <2>1. ClosesOnly("menu")
    BY <1>4
  <2> QED
    BY <1>4, <2>1, LeavesOne, DepthFalls
<1>5. CASE /\ Shell!Leaves("drawer") /\ drawer' = FALSE
           /\ UNCHANGED <<page, Shell!input, Shell!starts, Shell!text, menu, picker, Shell!cursors>>
  <2>1. ClosesOnly("drawer")
    BY <1>5
  <2> QED
    BY <1>5, <2>1, LeavesOne, DepthFalls
<1>6. CASE /\ Shell!Leaves("picker") /\ picker' = FALSE
           /\ UNCHANGED <<page, Shell!input, Shell!starts, Shell!text, menu, drawer, Shell!cursors>>
  <2>1. ClosesOnly("picker")
    BY <1>6
  <2> QED
    BY <1>6, <2>1, LeavesOne, DepthFalls
<1>7. CASE /\ Shell!Leaves("details") /\ Shell!SwitchPage("Library")
           /\ UNCHANGED <<Shell!input, Shell!starts, dialog, Shell!over, Shell!cursors>>
  <2>1. ClosesOnly("details")
    BY <1>7 DEF Shell!SwitchPage
  <2> QED
    BY <1>7, <2>1, LeavesOne, DepthFalls
<1>8. CASE /\ Shell!Leaves("bar") /\ bar' = FALSE
           /\ UNCHANGED <<page, Shell!input, Shell!starts, Shell!text, Shell!over, ring>>
  <2>1. ClosesOnly("bar")
    BY <1>8
  <2> QED
    BY <1>8, <2>1, LeavesOne, DepthFalls
<1>9. CASE /\ Shell!Leaves("ring") /\ ring' = FALSE
           /\ UNCHANGED <<page, Shell!input, Shell!starts, Shell!text, Shell!over, bar>>
  <2>1. ClosesOnly("ring")
    BY <1>9
  <2> QED
    BY <1>9, <2>1, LeavesOne, DepthFalls
<1>10. CASE /\ Shell!Leaves("page") /\ Shell!SwitchPage("Dashboard")
            /\ bar' = FALSE /\ ring' = FALSE
         
            /\ UNCHANGED <<Shell!input, Shell!starts, dialog, Shell!over>>
  <2>1. ClosesOnly("page")
    BY <1>10 DEF Shell!SwitchPage
  <2> QED
    BY <1>10, <2>1, LeavesOne, DepthFalls
<1> QED
  BY <1>1, <1>2, <1>3, <1>4, <1>5, <1>6, <1>7, <1>8, <1>9, <1>10 DEF Shell!Back

\* A Back with nothing to leave, or during work, changes nothing.
LEMMA BackWaits ==
    ASSUME Shell!Back,
           \/ Shell!Bare \/ Shell!Leaves("launching")
           \/ Shell!Leaves("dialog") /\ dialog = "working"
    PROVE  UNCHANGED Shell!vars
<1> USE DEF Surfaces
<1>1. CASE Shell!Bare \/ Shell!Leaves("launching")
  BY <1>1, LeavesOne DEF Shell!Back
<1>2. CASE Shell!Leaves("dialog") /\ dialog = "working"
  <2>1. UNCHANGED <<dialog, page, Shell!input, Shell!starts, caret, Shell!over, Shell!cursors>>
    BY <1>2, LeavesOne DEF Shell!Back
  <2> QED
    BY <2>1 DEF Shell!vars, Shell!text
<1> QED
  BY <1>1, <1>2

\* Back leaves one surface and no more, except over a launch in flight, a sign-in
\* being answered, and the bare dashboard, where it does nothing.
THEOREM BackLeavesOne == Shell!Spec => Shell!BackUnwinds
<1> DEFINE Unwinds ==
        Shell!BackPressed =>
          IF Shell!Bare \/ Shell!Leaves("launching")
             \/ (Shell!Leaves("dialog") /\ dialog = "working")
          THEN UNCHANGED Shell!vars
          ELSE Shell!Depth' = Shell!Depth - 1
<1>1. Shell!Init => ShellTypes
  BY SMT DEF Shell!Init, ShellTypes, Shell!Pages, Shell!Ownerships
<1>2. Shell!Init => SurfaceTypes
  BY Zenon DEF Shell!Init, SurfaceTypes
<1>3. ShellTypes /\ SurfaceTypes /\ ShellTypes' /\ SurfaceTypes' => Unwinds
  BY BackWaits, BackCloses DEF Shell!BackPressed
<1>4. ShellTypes /\ SurfaceTypes /\ ShellTypes' /\ SurfaceTypes' => [Unwinds]_(Shell!vars)
  BY <1>3
<1>5. Shell!Spec => [][Unwinds]_(Shell!vars)
  <2> HIDE DEF Unwinds
  <2> QED
    BY <1>1, <1>2, <1>4, ShellTypesStep, SurfaceTypesStep, PTL DEF Shell!Spec
<1> QED
  BY <1>5 DEF Shell!BackUnwinds

------------------------------------------------------------------------------
EventKinds == {"library", "session", "resumed"}

\* The values the reads carry, for any number of changes.
ReadTypes ==
    /\ truth \in Nat /\ shown \in Int
    /\ out \subseteq [latest : BOOLEAN, got : Int]
    /\ feedEvents \in Seq(EventKinds) /\ feed \in {"new", "opening", "up", "down"}

\* At most one read may be drawn, and a retry chain has it.
OneLatest == \A p, q \in out : p.latest /\ q.latest => p = q
ChainHasRead == retrying => \E q \in out : q.latest

\* A change that nothing draws yet is going to be heard of.
Heard == \E i \in DOMAIN feedEvents : Reads!StaleAfter(feedEvents[i])
Noticed == Heard \/ feed = "down" \/ missed

\* So is one that the answer on its way, served before it, does not bring.
BehindIsNoticed ==
    \A q \in out : q.latest /\ q.got \notin {Reads!Unserved, Reads!Lost, truth} => Noticed

\* What is drawn is no newer than the daemon and no newer than what may be drawn.
InOrder ==
    /\ shown <= truth
    /\ \A q \in out : /\ q.got <= truth
                      /\ q.latest /\ q.got \notin {Reads!Unserved, Reads!Lost} => shown <= q.got

ReadInv ==
    /\ ReadTypes /\ OneLatest /\ ChainHasRead
    /\ Reads!StaleIsNoticed /\ BehindIsNoticed /\ InOrder

------------------------------------------------------------------------------

\* A read begun takes the place of all others.
LEMMA BeginIsLatest ==
    ASSUME ReadTypes
    PROVE  /\ Reads!Begin \subseteq [latest : BOOLEAN, got : Int]
           /\ Reads!Waiting \in Reads!Begin /\ Reads!Waiting.latest
           /\ Reads!Waiting.got = Reads!Unserved
           /\ \A q \in Reads!Begin : q.latest => q = Reads!Waiting
           /\ (\A q \in out : q.got <= truth) => \A q \in Reads!Begin : q.got <= truth
<1>1. /\ Reads!Waiting \in [latest : BOOLEAN, got : Int] /\ Reads!Waiting.latest
      /\ Reads!Waiting.got = Reads!Unserved /\ Reads!Unserved <= truth
  BY SMT DEF ReadTypes, Reads!Waiting, Reads!Unserved
<1>2. \A q \in out : LET r == [q EXCEPT !.latest = FALSE]
                     IN  r \in [latest : BOOLEAN, got : Int] /\ ~r.latest /\ r.got = q.got
  BY DEF ReadTypes
<1> QED
  BY <1>1, <1>2 DEF Reads!Begin

\* Reading again keeps what the reads promise, and leaves nothing unnoticed.
LEMMA RefreshKeeps ==
    ASSUME ReadInv, Reads!Refresh \/ (out' = Reads!Begin /\ missed' = FALSE),
           UNCHANGED <<truth, shown, retrying, feed, resource>>, feedEvents' \in Seq(EventKinds)
    PROVE  ReadInv'
<1>1. CASE out' = Reads!Begin
  <2>1. ReadTypes' /\ OneLatest' /\ ChainHasRead'
    BY <1>1, BeginIsLatest DEF ReadInv, ReadTypes, OneLatest, ChainHasRead
  <2>2. Reads!Coming'
    BY <1>1, BeginIsLatest DEF ReadInv, Reads!Coming
  <2>3. BehindIsNoticed' /\ InOrder'
    BY <1>1, BeginIsLatest DEF ReadInv, BehindIsNoticed, InOrder
  <2> QED
    BY <2>1, <2>2, <2>3 DEF ReadInv, Reads!StaleIsNoticed
<1>2. CASE retrying /\ out' = out /\ missed' = (missed \/ ~Reads!Coming)
  <2>1. ReadTypes' /\ OneLatest' /\ ChainHasRead' /\ InOrder'
    BY <1>2 DEF ReadInv, ReadTypes, OneLatest, ChainHasRead, InOrder
  <2>2. Reads!Coming' <=> Reads!Coming
    BY <1>2 DEF Reads!Coming
  <2>3. Reads!StaleIsNoticed'
    BY <1>2, <2>2 DEF Reads!StaleIsNoticed
  <2>4. BehindIsNoticed'
    <3> SUFFICES ASSUME NEW q \in out, q.latest, q.got \notin {Reads!Unserved, Reads!Lost, truth}
                 PROVE  missed'
      BY <1>2 DEF BehindIsNoticed, Noticed
    <3>1. ~Reads!Coming
      BY DEF ReadInv, OneLatest, Reads!Coming
    <3> QED
      BY <1>2, <3>1
  <2> QED
    BY <2>1, <2>3, <2>4 DEF ReadInv
<1> QED
  BY <1>1, <1>2 DEF Reads!Refresh

\* The daemon answering a read keeps the invariant.
LEMMA ServeKeeps ==
    ASSUME ReadInv, NEW q \in out, Reads!Serve(q)
    PROVE  ReadInv'
<1> USE DEF ReadInv
<1>0. /\ q \in [latest : BOOLEAN, got : Int] /\ q.got = Reads!Unserved
      /\ UNCHANGED <<truth, shown, retrying, feed, resource, feedEvents, missed>>
  BY DEF ReadTypes, Reads!Serve, Reads!daemon
<1>1. PICK v \in {truth, Reads!Lost} : out' = (out \ {q}) \cup {[q EXCEPT !.got = v]}
  BY DEF Reads!Serve
<1> DEFINE s == [q EXCEPT !.got = v]
<1>2. s \in [latest : BOOLEAN, got : Int] /\ s.latest = q.latest /\ s.got = v
  BY SMT, <1>0 DEF ReadTypes, Reads!Lost
<1>3. \A p \in out' : p = s \/ p \in out \ {q}
  BY <1>1
<1> HIDE DEF s
<1>4. ReadTypes'
  BY <1>0, <1>1, <1>2 DEF ReadTypes, s
<1>5. OneLatest'
  BY <1>2, <1>3 DEF OneLatest
<1>6. ChainHasRead'
  BY <1>0, <1>1, <1>2 DEF ChainHasRead, s
<1>7. Reads!Coming => Reads!Coming'
  BY <1>0, <1>1, <1>2 DEF Reads!Coming, s
<1>8. Noticed' <=> Noticed
  BY <1>0 DEF Noticed, Heard, Reads!StaleAfter
<1>9. Reads!StaleIsNoticed'
  BY <1>0, <1>7 DEF Reads!StaleIsNoticed, Heard, Reads!StaleAfter
<1>10. BehindIsNoticed'
  BY <1>0, <1>2, <1>3, <1>8 DEF BehindIsNoticed
<1>11. InOrder'
  <2>1. v <= truth /\ shown <= truth /\ (v # Reads!Lost => shown <= v)
    BY SMT, <1>1 DEF ReadTypes, InOrder, Reads!Lost
  <2> QED
    BY <1>0, <1>2, <1>3, <2>1 DEF InOrder
<1> QED
  BY <1>4, <1>5, <1>6, <1>9, <1>10, <1>11

\* A late answer keeps the invariant, and never draws anything older.
LEMMA DeliverKeeps ==
    ASSUME ReadInv, NEW q \in out, Reads!Deliver(q)
    PROVE  ReadInv' /\ shown' >= shown
<1> USE DEF ReadInv
<1>0. /\ q \in [latest : BOOLEAN, got : Int] /\ q.got # Reads!Unserved
      /\ UNCHANGED <<truth, feed, resource, feedEvents, missed>>
  BY DEF ReadTypes, Reads!Deliver, Reads!daemon
<1>1. Noticed' <=> Noticed
  BY <1>0 DEF Noticed, Heard, Reads!StaleAfter
<1>2. CASE ~q.latest /\ out' = out \ {q} /\ UNCHANGED <<shown, retrying>>
  <2>1. ReadTypes' /\ OneLatest' /\ ChainHasRead' /\ InOrder'
    BY <1>0, <1>2 DEF ReadTypes, OneLatest, ChainHasRead, InOrder
  <2>2. Reads!Coming => Reads!Coming'
    BY <1>0, <1>2 DEF Reads!Coming
  <2>3. Reads!StaleIsNoticed' /\ BehindIsNoticed'
    BY <1>0, <1>1, <1>2, <2>2 DEF Reads!StaleIsNoticed, BehindIsNoticed, Heard, Reads!StaleAfter
  <2> QED
    BY SMT, <1>2, <2>1, <2>3 DEF ReadTypes
<1>3. CASE /\ q.latest /\ retrying' = TRUE /\ UNCHANGED shown
           /\ out' = (out \ {q}) \cup {Reads!Waiting}
  <2>0. /\ Reads!Waiting.latest /\ Reads!Waiting.got = Reads!Unserved
        /\ Reads!Waiting \in [latest : BOOLEAN, got : Int]
    BY SMT DEF Reads!Waiting, Reads!Unserved
  <2>1. \A p \in out' : p.latest => p = Reads!Waiting
    BY <1>3, <2>0 DEF OneLatest
  <2>2. ReadTypes' /\ OneLatest' /\ ChainHasRead'
    BY <1>0, <1>3, <2>0, <2>1 DEF ReadTypes, OneLatest, ChainHasRead
  <2>2a. Reads!Waiting.got <= truth
    BY SMT, <2>0 DEF ReadTypes, Reads!Unserved
  <2>2b. InOrder'
    BY <1>0, <1>3, <2>0, <2>1, <2>2a DEF InOrder
  <2>3. Reads!Coming'
    BY <1>0, <1>3, <2>0 DEF Reads!Coming
  <2>4. Reads!StaleIsNoticed' /\ BehindIsNoticed'
    BY <1>0, <2>0, <2>1, <2>3 DEF Reads!StaleIsNoticed, BehindIsNoticed
  <2> QED
    BY SMT, <1>3, <2>2, <2>2b, <2>4 DEF ReadTypes
<1>4. CASE /\ q.latest /\ q.got # Reads!Lost /\ shown' = q.got
           /\ retrying' = FALSE /\ out' = out \ {q}
  <2>1. \A p \in out' : ~p.latest
    BY <1>4 DEF OneLatest
  <2>2. ReadTypes' /\ OneLatest' /\ ChainHasRead'
    BY <1>0, <1>4, <2>1 DEF ReadTypes, OneLatest, ChainHasRead
  <2>3. q.got <= truth /\ shown <= q.got
    BY <1>0, <1>4 DEF InOrder
  <2>4. InOrder' /\ shown' >= shown
    BY <1>0, <1>4, <2>1, <2>3 DEF ReadTypes, InOrder
  <2>5. shown' # truth' => Noticed'
    BY <1>0, <1>1, <1>4 DEF BehindIsNoticed
  <2>6. Reads!StaleIsNoticed' /\ BehindIsNoticed'
    BY <2>1, <2>5 DEF Reads!StaleIsNoticed, BehindIsNoticed, Noticed, Heard
  <2> QED
    BY <2>2, <2>4, <2>6
<1> QED
  BY <1>2, <1>3, <1>4 DEF Reads!Deliver

\* A step that leaves the daemon's data and the reads alone keeps the invariant when
\* what was going to be heard of still is, or a read is coming that brings it.
LEMMA FeedStepKeeps ==
    ASSUME ReadInv, UNCHANGED <<truth, shown, out, retrying>>,
           feed' \in {"new", "opening", "up", "down"}, feedEvents' \in Seq(EventKinds),
           Noticed => Noticed' \/ Reads!Coming
    PROVE  ReadInv'
<1> USE DEF ReadInv
<1>1. ReadTypes' /\ OneLatest' /\ ChainHasRead' /\ InOrder'
  BY DEF ReadTypes, OneLatest, ChainHasRead, InOrder
<1>2. Reads!Coming' <=> Reads!Coming
  BY DEF Reads!Coming
<1>3. Reads!StaleIsNoticed'
  BY <1>2 DEF Reads!StaleIsNoticed, Noticed, Heard
<1>4. BehindIsNoticed'
  <2> SUFFICES ASSUME NEW q \in out, q.latest, q.got \notin {Reads!Unserved, Reads!Lost, truth}
               PROVE  Noticed'
    BY DEF BehindIsNoticed
  <2>1. Noticed /\ ~Reads!Coming
    BY DEF BehindIsNoticed, OneLatest, Reads!Coming
  <2> QED
    BY <2>1
<1> QED
  BY <1>1, <1>3, <1>4

\* A change in the daemon keeps the invariant when it is going to be heard of, or a
\* read is coming that brings it.
LEMMA NewerKeeps ==
    ASSUME ReadInv, UNCHANGED <<resource, feed, shown, out, retrying>>, truth' = truth + 1,
           feedEvents' \in Seq(EventKinds), Noticed' \/ Reads!Coming'
    PROVE  ReadInv'
<1> USE DEF ReadInv
<1>1. ReadTypes'
  BY SMT DEF ReadTypes
<1>2. OneLatest' /\ ChainHasRead'
  BY DEF OneLatest, ChainHasRead
<1>3. InOrder'
  BY SMT DEF ReadTypes, InOrder
<1>4. Reads!StaleIsNoticed'
  BY DEF Reads!StaleIsNoticed, Noticed, Heard
<1>5. BehindIsNoticed'
  BY <1>2 DEF BehindIsNoticed, OneLatest, Reads!Coming
<1> QED
  BY <1>1, <1>2, <1>3, <1>4, <1>5

\* A change in the daemon keeps the invariant.
LEMMA ChangeKeeps ==
    ASSUME ReadInv, NEW kind \in {"library", "session"}, Reads!Change(kind)
    PROVE  ReadInv'
<1>0. ReadTypes
  BY DEF ReadInv
<1>1. UNCHANGED <<resource, feed, shown, out, retrying>>
  BY DEF Reads!Change
<1>2. feedEvents' = IF feed = "up" THEN Append(feedEvents, kind) ELSE feedEvents
  BY DEF Reads!Change
<1>3. feedEvents' \in Seq(EventKinds)
  BY SMT, <1>0, <1>2 DEF ReadTypes, EventKinds
<1>4. ASSUME feed = "up"
      PROVE  /\ Len(feedEvents) + 1 \in DOMAIN feedEvents'
             /\ feedEvents'[Len(feedEvents) + 1] = kind
             /\ \A i \in DOMAIN feedEvents :
                    i \in DOMAIN feedEvents' /\ feedEvents'[i] = feedEvents[i]
  BY SMT, <1>0, <1>2, <1>4 DEF ReadTypes
<1>5. CASE Reads!StaleAfter(kind)
  <2>1. truth' = truth + 1
    BY <1>5 DEF Reads!Change
  <2>2. CASE feed = "up"
    <3>1. Heard'
      BY <1>1, <1>4, <1>5, <2>2 DEF Heard, Reads!StaleAfter
    <3> QED
      BY <1>1, <1>3, <2>1, <3>1, NewerKeeps DEF Noticed
  <2>3. CASE feed \in {"new", "opening"}
    <3>1. missed' \/ Reads!Coming'
      BY <1>5, <2>3 DEF Reads!Change
    <3> QED
      BY <1>1, <1>3, <2>1, <3>1, NewerKeeps DEF Noticed
  <2>4. CASE feed = "down"
    BY <1>1, <1>3, <2>1, <2>4, NewerKeeps DEF Noticed
  <2> QED
    BY <1>0, <2>2, <2>3, <2>4 DEF ReadTypes
<1>6. CASE ~Reads!StaleAfter(kind)
  <2>1. truth' = truth /\ missed' = (missed \/ FALSE)
    BY <1>6 DEF Reads!Change
  <2>2. Heard => Heard'
    <3>1. CASE feed = "up"
      BY <1>1, <1>4, <3>1 DEF Heard, Reads!StaleAfter
    <3>2. CASE feed # "up"
      BY <1>1, <1>2, <3>2 DEF Heard, Reads!StaleAfter
    <3> QED
      BY <3>1, <3>2
  <2>3. Noticed => Noticed'
    BY <1>1, <2>1, <2>2 DEF Noticed
  <2> QED
    BY <1>0, <1>1, <1>3, <2>1, <2>3, FeedStepKeeps DEF ReadTypes
<1> QED
  BY <1>5, <1>6

\* So does one the daemon does not announce.
LEMMA EditKeeps ==
    ASSUME ReadInv, Reads!EditCollection
    PROVE  ReadInv'
<1>1. /\ UNCHANGED <<resource, feed, shown, out, retrying, feedEvents>> /\ truth' = truth + 1
      /\ missed' \/ Reads!Coming'
  BY DEF Reads!EditCollection
<1>2. feedEvents' \in Seq(EventKinds)
  BY <1>1 DEF ReadInv, ReadTypes
<1> QED
  BY <1>1, <1>2, NewerKeeps DEF Noticed

\* The feed connecting, opening or dropping keeps the invariant.
LEMMA FeedKeeps ==
    ASSUME ReadInv, Reads!FeedConnects \/ Reads!FeedSubscribes \/ Reads!FeedDrops
    PROVE  ReadInv'
<1>0. ReadTypes
  BY DEF ReadInv
<1>1. UNCHANGED <<resource, truth, shown, out, retrying, missed>>
  BY DEF Reads!FeedConnects, Reads!FeedSubscribes, Reads!FeedDrops
<1>2. CASE Reads!FeedConnects /\ feed = "down"
  <2>1. /\ feedEvents' \in Seq(EventKinds)
        /\ Len(feedEvents) + 1 \in DOMAIN feedEvents'
        /\ feedEvents'[Len(feedEvents) + 1] = "resumed"
    BY SMT, <1>0, <1>2 DEF Reads!FeedConnects, ReadTypes, EventKinds
  <2>2. Noticed' /\ feed' = "opening"
    BY <1>2, <2>1 DEF Reads!FeedConnects, Noticed, Heard, Reads!StaleAfter
  <2> QED
    BY <1>1, <2>1, <2>2, FeedStepKeeps
<1>3. CASE (Reads!FeedConnects /\ feed # "down") \/ Reads!FeedSubscribes
  <2>1. feedEvents' = feedEvents /\ feed' \in {"opening", "up"} /\ feed # "down"
    BY <1>3 DEF Reads!FeedConnects, Reads!FeedSubscribes
  <2>2. Noticed => Noticed'
    BY <1>1, <2>1 DEF Noticed, Heard, Reads!StaleAfter
  <2> QED
    BY <1>0, <1>1, <2>1, <2>2, FeedStepKeeps DEF ReadTypes
<1>4. CASE Reads!FeedDrops
  <2>1. feed' = "down"
    BY <1>4 DEF Reads!FeedDrops
  <2>2. feedEvents' \in Seq(EventKinds)
    BY SMT, <1>0, <1>4 DEF Reads!FeedDrops, ReadTypes
  <2> QED
    BY <1>1, <2>1, <2>2, FeedStepKeeps DEF Noticed
<1> QED
  BY <1>2, <1>3, <1>4

\* A slow feed skipping an event keeps the invariant: the others are still to be
\* heard of, and the skipped one is recorded unless a read is coming.
LEMMA LagKeeps ==
    ASSUME ReadInv, Reads!FeedLags
    PROVE  ReadInv'
<1>0. ReadTypes
  BY DEF ReadInv
<1>1. UNCHANGED <<resource, truth, feed, shown, out, retrying>>
  BY DEF Reads!FeedLags, Reads!daemon
<1>2. PICK i \in 1 .. Len(feedEvents) - 1 :
        /\ feedEvents' = [k \in 1 .. Len(feedEvents) - 1 |->
                            feedEvents[IF k < i THEN k ELSE k + 1]]
        /\ missed' = (missed \/ (Reads!StaleAfter(feedEvents[i]) /\ ~Reads!Coming))
  BY DEF Reads!FeedLags
<1>3. feedEvents' \in Seq(EventKinds)
  BY SMT, <1>0, <1>2 DEF ReadTypes
<1>4. ASSUME NEW j \in DOMAIN feedEvents, j # i
      PROVE  \E k \in DOMAIN feedEvents' : feedEvents'[k] = feedEvents[j]
  <2>1. /\ Len(feedEvents) \in Nat /\ DOMAIN feedEvents = 1 .. Len(feedEvents)
        /\ DOMAIN feedEvents' = 1 .. Len(feedEvents) - 1
    BY SMT, <1>0, <1>2 DEF ReadTypes
  <2>2. CASE j < i
    <3>1. j \in DOMAIN feedEvents' /\ feedEvents'[j] = feedEvents[j]
      BY SMT, <1>2, <2>1, <2>2
    <3> QED
      BY <3>1
  <2>3. CASE j > i
    <3>1. j - 1 \in DOMAIN feedEvents' /\ feedEvents'[j - 1] = feedEvents[j]
      BY SMT, <1>2, <2>1, <2>3
    <3> QED
      BY <3>1
  <2> QED
    BY SMT, <1>4, <2>1, <2>2, <2>3
<1>5. Noticed => Noticed' \/ Reads!Coming
  <2>1. CASE feed = "down" \/ missed
    BY <1>1, <1>2, <2>1 DEF Noticed
  <2>2. ASSUME NEW j \in DOMAIN feedEvents, Reads!StaleAfter(feedEvents[j]), j # i PROVE Noticed'
    BY <1>1, <1>4, <2>2 DEF Noticed, Heard, Reads!StaleAfter
  <2>3. ASSUME Reads!StaleAfter(feedEvents[i]) PROVE missed' \/ Reads!Coming
    BY <1>2, <2>3
  <2> QED
    BY <2>1, <2>2, <2>3 DEF Noticed, Heard
<1> QED
  BY <1>0, <1>1, <1>3, <1>5, FeedStepKeeps DEF ReadTypes

\* The launcher hearing of a change keeps the invariant.
LEMMA EventKeeps ==
    ASSUME ReadInv, Reads!DaemonChanged
    PROVE  ReadInv'
<1> USE DEF ReadInv
<1>0. /\ UNCHANGED <<truth, shown, retrying, feed, resource>>
      /\ feedEvents # <<>> /\ feedEvents' = Tail(feedEvents)
  BY DEF Reads!DaemonChanged, Reads!daemon
<1>1. /\ feedEvents' \in Seq(EventKinds) /\ Len(feedEvents) \in Nat
      /\ Len(feedEvents') = Len(feedEvents) - 1
      /\ \A i \in 1 .. Len(feedEvents') : feedEvents'[i] = feedEvents[i + 1]
      /\ DOMAIN feedEvents = 1 .. Len(feedEvents) /\ DOMAIN feedEvents' = 1 .. Len(feedEvents')
      /\ Head(feedEvents) = feedEvents[1]
  BY SMT, <1>0 DEF ReadTypes
<1>2. CASE Reads!StaleAfter(Head(feedEvents))
  <2>1. Reads!Refresh
    BY <1>2 DEF Reads!DaemonChanged
  <2> QED
    BY <1>0, <1>1, <2>1, RefreshKeeps
<1>3. CASE ~Reads!StaleAfter(Head(feedEvents))
  <2>1. out' = out /\ missed' = missed
    BY <1>3 DEF Reads!DaemonChanged
  <2>2. ASSUME NEW i \in DOMAIN feedEvents, Reads!StaleAfter(feedEvents[i]) PROVE Heard'
    <3>1. i # 1
      BY <1>1, <1>3, <2>2
    <3>2. i - 1 \in DOMAIN feedEvents' /\ feedEvents'[i - 1] = feedEvents[i]
      BY SMT, <1>1, <3>1
    <3> QED
      BY <1>0, <2>2, <3>2 DEF Heard, Reads!StaleAfter
  <2>3. Noticed => Noticed'
    BY <1>0, <2>1, <2>2 DEF Noticed, Heard
  <2> QED
    BY <1>0, <1>1, <2>1, <2>3, FeedStepKeeps DEF ReadTypes
<1> QED
  BY <1>2, <1>3

\* Only an answer moves what is drawn, and it moves it forward.
LEMMA ReadStep == ReadInv /\ [Reads!Next]_(Reads!vars) => ReadInv' /\ shown' >= shown
<1> SUFFICES ASSUME ReadInv, [Reads!Next]_(Reads!vars) PROVE ReadInv' /\ shown' >= shown
  OBVIOUS
<1>0. shown' = shown => shown' >= shown
  BY SMT DEF ReadInv, ReadTypes
<1>1. ASSUME NEW q \in out, Reads!Serve(q) PROVE ReadInv' /\ shown' = shown
  BY <1>1, ServeKeeps DEF Reads!Serve
<1>2. ASSUME NEW q \in out, Reads!Deliver(q) PROVE ReadInv' /\ shown' >= shown
  BY <1>2, DeliverKeeps
<1>3. ASSUME NEW kind \in {"library", "session"}, Reads!Change(kind)
      PROVE ReadInv' /\ shown' = shown
  BY <1>3, ChangeKeeps DEF Reads!Change
<1>4. CASE Reads!EditCollection
  BY <1>4, <1>0, EditKeeps DEF Reads!EditCollection
<1>5. CASE Reads!FeedConnects \/ Reads!FeedSubscribes \/ Reads!FeedDrops
  BY <1>0, <1>5, FeedKeeps DEF Reads!FeedConnects, Reads!FeedSubscribes, Reads!FeedDrops
<1>6. CASE Reads!FeedLags
  BY <1>0, <1>6, LagKeeps DEF Reads!FeedLags
<1>7. CASE Reads!DaemonChanged
  BY <1>0, <1>7, EventKeeps DEF Reads!DaemonChanged
<1>8. CASE Reads!LeaveDashboard \/ UNCHANGED Reads!vars
  <2>1. UNCHANGED <<resource, truth, feed, shown, out, retrying, feedEvents, missed>>
    BY <1>8 DEF Reads!LeaveDashboard, Reads!vars, Reads!daemon
  <2>2. Noticed => Noticed'
    BY <2>1 DEF Noticed, Heard, Reads!StaleAfter
  <2> QED
    BY <1>0, <2>1, <2>2, FeedStepKeeps DEF ReadInv, ReadTypes
<1>9. CASE Reads!RefreshDashboard \/ Reads!DashboardTick \/ Reads!LoadCollections
  <2>1. /\ UNCHANGED <<resource, truth, feed, shown, retrying, feedEvents>>
        /\ Reads!Refresh \/ (out' = Reads!Begin /\ missed' = FALSE)
    BY <1>9 DEF Reads!RefreshDashboard, Reads!DashboardTick, Reads!LoadCollections, Reads!daemon
  <2>2. feedEvents' \in Seq(EventKinds)
    BY <2>1 DEF ReadInv, ReadTypes
  <2> QED
    BY <1>0, <2>1, <2>2, RefreshKeeps
<1> QED
  BY <1>0, <1>1, <1>2, <1>3, <1>4, <1>5, <1>6, <1>7, <1>8, <1>9 DEF Reads!Next

\* The launcher starts with the invariant.
LEMMA ReadsStart == Reads!Init => ReadInv
BY SMT
   DEF Reads!Init, ReadInv, ReadTypes, OneLatest, ChainHasRead, Reads!StaleIsNoticed,
       BehindIsNoticed, InOrder, Reads!Coming, Reads!Waiting, Reads!Unserved, Reads!Lost,
       Reads!Nothing

\* Every drawn list, and every read out, is backed by the daemon.
LEMMA ReadsAreSound == Reads!Spec => []ReadInv
BY ReadsStart, ReadStep, PTL DEF Reads!Spec

\* A retry chain has the one read that can end it, and what is drawn falls behind the
\* daemon only while something is on its way that will catch up, or after a change
\* nothing was going to tell of: made before the feed listens, announced in an event
\* the feed skipped, not announced at all, or announced behind the answer of a retry.
THEOREM ReadsStayBacked == Reads!Spec => []Reads!ReadsAreBacked
<1>1. ASSUME ReadInv PROVE Reads!ReadsAreBacked
  <2> DEFINE latest == {q \in out : q.latest}
  <2>1. latest = {} => Cardinality(latest) = 0
    BY FS_EmptySet
  <2>2. ASSUME NEW q \in latest PROVE Cardinality(latest) = 1
    <3>1. latest = {q}
      BY <1>1 DEF ReadInv, OneLatest
    <3> QED
      BY <3>1, FS_Singleton
  <2>3. Cardinality(latest) <= 1
    <3> HIDE DEF latest
    <3> QED
      BY SMT, <2>1, <2>2
  <2> QED
    BY <1>1, <2>3
       DEF ReadInv, ChainHasRead, Reads!ReadsAreBacked, Reads!ChainIsAlive, Reads!Cardinality,
           Cardinality
<1> QED
  BY <1>1, ReadsAreSound, PTL

\* What is drawn never goes back to an earlier version.
THEOREM DrawnNeverOlder == Reads!Spec => Reads!NeverOlder
<1>1. ReadInv /\ [Reads!Next]_(Reads!vars) => [shown' >= shown]_(Reads!vars)
  BY ReadStep
<1> QED
  BY <1>1, ReadsAreSound, PTL DEF Reads!Spec, Reads!NeverOlder

\* The bounds of the model, and the flags.
Bounded == truth <= MaxChanges /\ shown >= Reads!Nothing /\ \A q \in out : q.got >= Reads!Lost
FlagTypes ==
    /\ retrying \in BOOLEAN /\ dashboard \in BOOLEAN /\ missed \in BOOLEAN
    /\ resource \in {"catalog", "collections"}

\* Every part of the readers' state keeps its type, up to the number of changes the
\* daemon makes.
THEOREM ReadsAreTyped == ASSUME MaxChanges \in Nat PROVE Reads!Spec => []Reads!TypeOK
<1>1. Reads!Init => Bounded /\ FlagTypes
  <2>1. Reads!Init => Bounded
    BY SMT DEF Reads!Init, Bounded, Reads!Waiting, Reads!Unserved, Reads!Lost, Reads!Nothing
  <2>2. Reads!Init => FlagTypes
    BY Zenon DEF Reads!Init, FlagTypes
  <2> QED
    BY <2>1, <2>2
<1>2. ASSUME ReadInv, Bounded, [Reads!Next]_(Reads!vars) PROVE Bounded'
  <2>0. ReadTypes /\ truth \in Nat /\ shown \in Int
    BY <1>2 DEF ReadInv, ReadTypes
  <2>1. CASE out' = Reads!Begin /\ UNCHANGED <<truth, shown>>
    <3>1. \A q \in Reads!Begin : q.got >= Reads!Lost
      BY SMT, <1>2, <2>0
         DEF Reads!Begin, Reads!Waiting, Reads!Unserved, Reads!Lost, Bounded, ReadTypes
    <3> QED
      BY <1>2, <2>1, <3>1 DEF Bounded
  <2>2. CASE UNCHANGED <<truth, shown, out>>
    BY <1>2, <2>2 DEF Bounded
  <2>3. ASSUME NEW q \in out, Reads!Serve(q) PROVE Bounded'
    <3>1. q \in [latest : BOOLEAN, got : Int]
      BY <2>0 DEF ReadTypes
    <3>2. PICK v \in {truth, Reads!Lost} : out' = (out \ {q}) \cup {[q EXCEPT !.got = v]}
      BY <2>3 DEF Reads!Serve
    <3>3. [q EXCEPT !.got = v].got = v /\ v >= Reads!Lost
      BY SMT, <2>0, <3>1 DEF Reads!Lost
    <3> QED
      BY <1>2, <2>3, <3>2, <3>3 DEF Bounded, Reads!Serve, Reads!daemon
  <2>4. ASSUME NEW q \in out, Reads!Deliver(q) PROVE Bounded'
    <3>1. q \in [latest : BOOLEAN, got : Int] /\ q.got >= Reads!Lost
      BY <1>2, <2>0 DEF ReadTypes, Bounded
    <3>2. \A p \in out' : p \in out \/ p.got = Reads!Unserved
      BY SMT, <2>4 DEF Reads!Deliver, Reads!Waiting
    <3>3. shown' = shown \/ (shown' = q.got /\ q.got \notin {Reads!Unserved, Reads!Lost})
      BY <2>4 DEF Reads!Deliver
    <3>4. shown' >= Reads!Nothing
      BY SMT, <1>2, <3>1, <3>3 DEF Bounded, Reads!Unserved, Reads!Lost, Reads!Nothing
    <3>5. truth' = truth
      BY <2>4 DEF Reads!Deliver, Reads!daemon
    <3> QED
      BY SMT, <1>2, <3>2, <3>4, <3>5 DEF Bounded, Reads!Unserved, Reads!Lost
  <2>5. ASSUME NEW kind \in {"library", "session"}, Reads!Change(kind) PROVE Bounded'
    BY <1>2, <2>5 DEF Bounded, Reads!Change
  <2>6. CASE Reads!EditCollection
    <3>1. truth' <= MaxChanges /\ UNCHANGED <<shown, out>>
      BY SMT, <2>0, <2>6 DEF Reads!EditCollection
    <3> QED
      BY <1>2, <3>1 DEF Bounded
  <2> QED
    BY <1>2, <2>1, <2>2, <2>3, <2>4, <2>5, <2>6
       DEF Reads!Next, Reads!FeedConnects, Reads!FeedSubscribes, Reads!FeedLags,
           Reads!FeedDrops, Reads!DaemonChanged, Reads!LeaveDashboard, Reads!RefreshDashboard,
           Reads!DashboardTick, Reads!LoadCollections, Reads!Refresh, Reads!vars, Reads!daemon
<1>3. ASSUME FlagTypes, [Reads!Next]_(Reads!vars) PROVE FlagTypes'
  <2>1. CASE \E q \in out : Reads!Serve(q) \/ Reads!Deliver(q)
    BY <1>3, <2>1, Zenon DEF FlagTypes, Reads!Serve, Reads!Deliver, Reads!daemon
  <2>2. CASE \/ \E kind \in {"library", "session"} : Reads!Change(kind)
             \/ Reads!EditCollection \/ Reads!FeedConnects \/ Reads!FeedSubscribes
             \/ Reads!FeedLags \/ Reads!FeedDrops
    BY <1>3, <2>2
       DEF FlagTypes, Reads!Change, Reads!EditCollection, Reads!FeedConnects,
           Reads!FeedSubscribes, Reads!FeedLags, Reads!FeedDrops, Reads!daemon
  <2>3. CASE Reads!DaemonChanged
    BY <1>3, <2>3, Zenon DEF FlagTypes, Reads!DaemonChanged, Reads!Refresh, Reads!daemon
  <2>4. CASE Reads!LeaveDashboard \/ Reads!RefreshDashboard \/ Reads!DashboardTick
     \/ Reads!LoadCollections
    BY <1>3, <2>4, Zenon
       DEF FlagTypes, Reads!LeaveDashboard, Reads!RefreshDashboard, Reads!DashboardTick,
           Reads!LoadCollections, Reads!Refresh, Reads!daemon
  <2>5. CASE UNCHANGED Reads!vars
    BY <1>3, <2>5, Zenon DEF FlagTypes, Reads!vars, Reads!daemon
  <2> QED
    BY <1>3, <2>1, <2>2, <2>3, <2>4, <2>5 DEF Reads!Next
<1>4. ASSUME ReadInv, Bounded, FlagTypes PROVE Reads!TypeOK
  <2>1. /\ truth \in 0 .. MaxChanges /\ shown \in Reads!Nothing .. MaxChanges
        /\ out \subseteq [latest : BOOLEAN, got : Reads!Lost .. MaxChanges]
    <3> SUFFICES ASSUME NEW q \in out
          PROVE q \in [latest : BOOLEAN, got : Reads!Lost .. MaxChanges]
      BY SMT, <1>4 DEF ReadInv, ReadTypes, Bounded, InOrder, Reads!Nothing
    <3>1. q \in [latest : BOOLEAN, got : Int] /\ q.got \in Reads!Lost .. MaxChanges
      BY SMT, <1>4 DEF ReadInv, ReadTypes, Bounded, InOrder, Reads!Lost
    <3> QED
      BY <3>1
  <2>2. /\ feed \in {"new", "opening", "up", "down"}
        /\ feedEvents \in Seq({"library", "session", "resumed"})
    BY <1>4 DEF ReadInv, ReadTypes, EventKinds
  <2>3. {retrying, dashboard, missed} \subseteq BOOLEAN /\ resource \in {"catalog", "collections"}
    BY <1>4, Zenon DEF FlagTypes
  <2> QED
    BY <2>1, <2>2, <2>3 DEF Reads!TypeOK
<1> QED
  BY <1>1, <1>2, <1>3, <1>4, ReadsAreSound, PTL DEF Reads!Spec
==============================================================================

---------------------------- MODULE ProgressProofs ----------------------------
(***************************************************************************)
(* Proofs about the overlay, for any number of events, calls and timers,   *)
(* and about the composition of MCProgress: each of its parts does what    *)
(* its own component does, so what is proved of the components holds of it *)
(* (LaunchProofs, AccountProofs).                                          *)
(***************************************************************************)
EXTENDS MCProgress, TLAPS

\* Zenon is the default; the leaves that need arithmetic or records name SMT.
USE Zenon

(***************************************************************************)
(* The overlay.                                                            *)
(***************************************************************************)

(***************************************************************************)
(* The inductive invariant: the properties of the menu need each other.    *)
(* A menu that works is on screen, so what hides it must also end the      *)
(* work, and what it comes back as must have the selection in it.          *)
(***************************************************************************)
MenuTypes ==
    /\ visible \in BOOLEAN /\ requested \in BOOLEAN /\ error \in BOOLEAN
    /\ status \in Statuses /\ selected \in 0 .. 2
    /\ closes \in Nat /\ hides \in Nat /\ logouts \in Nat

\* What ShownWithReason says of the menu alone; the stream's half is WishIsAsked.
WishOrError == visible => requested \/ error

MenuInv == MenuTypes /\ WishOrError /\ WorkIsAnswered /\ SelectionFits

------------------------------------------------------------------------------
(***************************************************************************)
(* The effects of OverlayState::update, one lemma each.                    *)
(***************************************************************************)

\* Showing the menu keeps it honest.
LEMMA ShowKeeps ==
    ASSUME MenuInv, Show, requested' \in BOOLEAN, error' \in BOOLEAN, requested' \/ error'
    PROVE  MenuInv'
BY SMT
   DEF Show, jobVars, MenuInv, MenuTypes, WishOrError, WorkIsAnswered, SelectionFits, Busy,
       ItemCount, Statuses

\* What hides the menu ends its work first, or finds it without any.
LEMMA HideKeeps ==
    ASSUME MenuInv, Hide, status' = "Menu" \/ (status' = status /\ ~Busy), selected' = selected,
           closes' \in Nat, hides' \in Nat, logouts' \in Nat
    PROVE  MenuInv'
<1>1. visible' = FALSE /\ requested' = FALSE /\ error' = FALSE
  BY DEF Hide
<1>2. status' \in Statuses /\ ~Busy' /\ selected' < ItemCount' /\ selected' \in 0 .. 2
  BY SMT DEF MenuInv, MenuTypes, SelectionFits, Busy, ItemCount, Statuses
<1> QED
  BY <1>1, <1>2 DEF MenuInv, MenuTypes, WishOrError, WorkIsAnswered, SelectionFits, Busy

\* Going back to the game keeps it honest.
LEMMA ResumeKeeps == ASSUME MenuInv, Resume PROVE MenuInv'
BY HideKeeps DEF Resume, jobVars, MenuInv, MenuTypes

\* Closing the game keeps it honest.
LEMMA CloseKeeps == ASSUME MenuInv, visible, Close PROVE MenuInv'
BY SMT
   DEF Close, MenuInv, MenuTypes, WishOrError, WorkIsAnswered, SelectionFits, Busy, Statuses

\* Logging out keeps it honest.
LEMMA LogOutKeeps == ASSUME MenuInv, visible, LogOut PROVE MenuInv'
BY SMT
   DEF LogOut, MenuInv, MenuTypes, WishOrError, WorkIsAnswered, SelectionFits, Busy, Statuses

\* Moving through the menu keeps it honest.
LEMMA NavigateKeeps == ASSUME MenuInv, NEW event, Navigate(event) PROVE MenuInv'
<1>1. ItemCount \in {2, 3} /\ selected \in 0 .. 2
  BY DEF ItemCount, MenuInv, MenuTypes
<1>2. selected' \in 0 .. 2 /\ selected' < ItemCount
  <2>1. CASE ItemCount = 2
    BY SMT, <1>1, <2>1 DEF Navigate
  <2>2. CASE ItemCount = 3
    BY SMT, <1>1, <2>2 DEF Navigate
  <2> QED
    BY <1>1, <2>1, <2>2
<1>3. UNCHANGED <<visible, status, requested, error, jobVars>>
  BY DEF Navigate
<1> QED
  BY <1>2, <1>3
     DEF MenuInv, MenuTypes, WishOrError, WorkIsAnswered, SelectionFits, Busy, ItemCount,
         jobVars

\* A signal nobody answers keeps it honest.
LEMMA IgnoredKeeps == ASSUME MenuInv, Ignored PROVE MenuInv'
BY DEF Ignored, menuVars, jobVars, MenuInv, MenuTypes, WishOrError, WorkIsAnswered,
       SelectionFits, Busy, ItemCount

\* The overlay button keeps it honest.
LEMMA ToggleKeeps == ASSUME MenuInv, ToggleOverlay PROVE MenuInv'
<1>1. CASE ~visible /\ requested' = ~requested /\ UNCHANGED <<menuVars, error, jobVars>>
  BY <1>1
     DEF menuVars, jobVars, MenuInv, MenuTypes, WishOrError, WorkIsAnswered, SelectionFits,
         Busy, ItemCount
<1>2. CASE visible /\ ~Busy /\ Hide /\ UNCHANGED <<status, selected, jobVars>>
  BY <1>2, HideKeeps DEF jobVars, MenuInv, MenuTypes
<1> QED
  BY <1>1, <1>2, IgnoredKeeps DEF ToggleOverlay

\* A failed call keeps it honest.
LEMMA FailedKeeps == ASSUME MenuInv, Failed PROVE MenuInv'
<1>1. requested' = FALSE /\ error' = TRUE
  BY DEF Failed
<1>2. CASE Show
  BY <1>1, <1>2, ShowKeeps
<1>3. CASE UNCHANGED <<menuVars, jobVars>>
  BY <1>1, <1>3
     DEF menuVars, jobVars, MenuInv, MenuTypes, WishOrError, WorkIsAnswered, SelectionFits,
         Busy, ItemCount
<1> QED
  BY <1>2, <1>3 DEF Failed

\* The answer to a call keeps it honest.
LEMMA ReadyKeeps == ASSUME MenuInv, Ready PROVE MenuInv'
<1>1. CASE requested /\ ~visible
  <2>1. Show /\ requested' = requested /\ error' = FALSE
    BY <1>1 DEF Ready
  <2> QED
    BY <1>1, <2>1, ShowKeeps DEF MenuInv, MenuTypes
<1> QED
  BY <1>1, IgnoredKeeps DEF Ready

\* A press keeps it honest.
LEMMA PressedKeeps == ASSUME MenuInv, NEW action, Pressed(action) PROVE MenuInv'
<1>1. ASSUME Activate PROVE MenuInv'
  BY <1>1, ResumeKeeps, CloseKeeps, LogOutKeeps DEF Activate
<1> QED
  BY <1>1, IgnoredKeeps, NavigateKeeps, ResumeKeeps DEF Pressed

------------------------------------------------------------------------------
\* Every step of the overlay keeps the menu honest.
LEMMA MenuStep == MenuInv /\ [Next]_vars => MenuInv'
<1> SUFFICES ASSUME MenuInv, [Next]_vars PROVE MenuInv'
  OBVIOUS
<1>1. CASE BrokerInput
  BY <1>1, ReadyKeeps, FailedKeeps, ToggleKeeps, PressedKeeps DEF BrokerInput
<1>2. CASE Toggled
  BY <1>2, ToggleKeeps DEF Toggled
<1>3. CASE ButtonPressed
  BY <1>3, ResumeKeeps, CloseKeeps, LogOutKeeps DEF ButtonPressed
<1>4. CASE CloseSucceeded
  BY SMT, <1>4
     DEF CloseSucceeded, menuVars, MenuInv, MenuTypes, WishOrError, WorkIsAnswered,
         SelectionFits, Busy, ItemCount
<1>5. CASE CloseFailed
  BY SMT, <1>5
     DEF CloseFailed, MenuInv, MenuTypes, WishOrError, WorkIsAnswered, SelectionFits, Busy,
         ItemCount, Statuses
<1>6. CASE HideAfterClose
  BY SMT, <1>6, HideKeeps DEF HideAfterClose, MenuInv, MenuTypes
<1>7. CASE LogOutFinished
  <2>1. logouts' \in Nat /\ UNCHANGED <<closes, hides>>
    BY SMT, <1>7 DEF LogOutFinished, MenuInv, MenuTypes
  <2>2. CASE Hide /\ status' = "Menu" /\ UNCHANGED selected
    BY <2>1, <2>2, HideKeeps DEF MenuInv, MenuTypes
  <2>3. CASE /\ status' = "LogOutFailed" /\ selected' = 0
             /\ UNCHANGED <<visible, requested, error>>
    BY SMT, <2>1, <2>3
       DEF MenuInv, MenuTypes, WishOrError, WorkIsAnswered, SelectionFits, Busy, ItemCount,
           Statuses
  <2> QED
    BY <1>7, <2>2, <2>3 DEF LogOutFinished
<1>8. CASE UNCHANGED <<menuVars, requested, error, jobVars>>
  BY <1>8, IgnoredKeeps DEF Ignored
<1> QED
  BY <1>1, <1>2, <1>3, <1>4, <1>5, <1>6, <1>7, <1>8
     DEF Next, StreamConnects, StreamFails, StreamRetries, StreamForwards, vars

\* The menu's invariant holds throughout.
LEMMA MenuHolds == Spec => []MenuInv
<1>1. Init => visible \in BOOLEAN /\ requested \in BOOLEAN /\ error \in BOOLEAN
  BY DEF Init
<1>2. Init => /\ status \in Statuses /\ selected \in 0 .. 2
              /\ closes \in Nat /\ hides \in Nat /\ logouts \in Nat
  BY SMT DEF Init, Statuses
<1>3. Init => MenuTypes
  BY <1>1, <1>2 DEF MenuTypes
<1>4. Init => MenuInv
  BY SMT, <1>3 DEF Init, MenuInv, WishOrError, WorkIsAnswered, SelectionFits, Busy, ItemCount
<1> QED
  BY <1>4, MenuStep, PTL DEF Spec

\* For any number of events, calls and timers, a menu on screen wants the pads or has
\* an error to show, one that works is shown and will be answered, and the entry
\* highlighted is an entry drawn.
LEMMA MenuIsSound == Spec => [](WishOrError /\ WorkIsAnswered /\ SelectionFits)
<1>1. MenuInv => WishOrError /\ WorkIsAnswered /\ SelectionFits
  BY DEF MenuInv
<1> QED
  BY <1>1, MenuHolds, PTL

\* The stream's state keeps its type too: only events of the broker are ever queued.
THEOREM OverlayIsTyped == Spec => []TypeOK
<1> DEFINE StreamTypes == /\ link \in {"connecting", "open", "waiting"}
                          /\ delivery \in {"Overlay", "Observe"}
           EventTypes == events \in Seq(BrokerEvents)
<1>1. Init => StreamTypes /\ EventTypes
  BY SMT DEF Init
<1>2. StreamTypes /\ [Next]_vars => StreamTypes'
  <2> SUFFICES ASSUME StreamTypes, [Next]_vars PROVE StreamTypes'
    OBVIOUS
  <2>1. CASE Subscribed
    BY <2>1 DEF Subscribed, streamVars
  <2>2. CASE UNCHANGED streamVars
    BY <2>2 DEF streamVars
  <2>3. CASE StreamConnects \/ StreamFails \/ StreamRetries
    BY <2>3 DEF StreamConnects, StreamFails, StreamRetries
  <2> QED
    BY <2>1, <2>2, <2>3
       DEF Next, BrokerInput, Toggled, ButtonPressed, CloseSucceeded, CloseFailed, HideAfterClose,
           LogOutFinished, StreamForwards, vars
<1>3. EventTypes /\ [Next]_vars => EventTypes'
  <2> SUFFICES ASSUME EventTypes, [Next]_vars PROVE EventTypes'
    OBVIOUS
  <2>1. CASE events # <<>> /\ events' = Tail(events)
    BY SMT, <2>1
  <2>2. ASSUME NEW e \in BrokerEvents, Send(e) PROVE EventTypes'
    BY SMT, <2>2 DEF Send
  <2>3. CASE UNCHANGED events
    BY <2>3
  <2>4. CASE StreamConnects \/ StreamFails \/ StreamForwards
    BY <2>2, <2>4 DEF StreamConnects, StreamFails, StreamForwards, BrokerEvents
  <2> QED
    BY <2>1, <2>3, <2>4
       DEF Next, BrokerInput, Toggled, ButtonPressed, CloseSucceeded, CloseFailed, HideAfterClose,
           LogOutFinished, StreamRetries, vars
<1>4. MenuInv /\ StreamTypes /\ EventTypes => TypeOK
  BY Zenon DEF MenuInv, MenuTypes, TypeOK
<1> HIDE DEF StreamTypes, EventTypes
<1> QED
  BY <1>1, <1>2, <1>3, <1>4, MenuHolds, PTL DEF Spec

\* The stream captures the pads only while the menu wants them: every change of
\* broker_requested starts the stream over.
THEOREM CaptureFollowsRequest == Spec => []CaptureIsWanted
<1>1. Init => CaptureIsWanted
  BY DEF Init, CaptureIsWanted
<1>2. CaptureIsWanted /\ [Next]_vars => CaptureIsWanted'
  <2> SUFFICES ASSUME CaptureIsWanted, [Next]_vars PROVE CaptureIsWanted'
    OBVIOUS
  <2>1. CASE Subscribed
    BY <2>1 DEF Subscribed, streamVars, CaptureIsWanted
  <2>2. CASE UNCHANGED <<requested, delivery>>
    BY <2>2 DEF CaptureIsWanted
  <2>3. CASE StreamFails
    BY <2>3 DEF StreamFails, CaptureIsWanted
  <2> QED
    BY <2>1, <2>2, <2>3
       DEF Next, BrokerInput, Toggled, ButtonPressed, CloseSucceeded, CloseFailed, HideAfterClose,
           LogOutFinished, StreamConnects, StreamRetries, StreamForwards, streamVars, vars
<1> QED
  BY <1>1, <1>2, PTL DEF Spec

\* A wish for the pads is asked for by the stream, or the news that it failed is
\* queued: the failure ends the wish when it is handled.
WishIsAsked == requested => delivery = "Overlay" \/ FailureQueued

\* What becomes of a queued failure: an event added keeps it, and the one taken off
\* was another, or ends the wish.
LEMMA FailureStays ==
    ASSUME events \in Seq(BrokerEvents), FailureQueued,
           \/ \E e \in BrokerEvents : events' = Append(events, e)
           \/ events # <<>> /\ events' = Tail(events) /\ Head(events) # "Failed"
           \/ UNCHANGED events
    PROVE  FailureQueued'
<1> USE DEF FailureQueued
<1>1. PICK i \in 1 .. Len(events) : events[i] = "Failed"
  OBVIOUS
<1>2. CASE \E e \in BrokerEvents : events' = Append(events, e)
  BY SMT, <1>1, <1>2
<1>3. CASE events # <<>> /\ events' = Tail(events) /\ Head(events) # "Failed"
  <2>1. i # 1 /\ i - 1 \in 1 .. Len(events') /\ events'[i - 1] = "Failed"
    BY SMT, <1>1, <1>3
  <2> QED
    BY <2>1
<1> QED
  BY <1>1, <1>2, <1>3

\* No wish for the pads is left with nobody asking, whatever fails.
LEMMA WishesAreAsked == Spec => []WishIsAsked
<1>1. Init => WishIsAsked
  BY DEF Init, WishIsAsked
<1>2. TypeOK /\ WishIsAsked /\ [Next]_vars => WishIsAsked'
  <2> SUFFICES ASSUME TypeOK, WishIsAsked, [Next]_vars PROVE WishIsAsked'
    OBVIOUS
  <2>1. events \in Seq(BrokerEvents) /\ requested \in BOOLEAN
    BY DEF TypeOK
  <2>2. CASE Subscribed /\ UNCHANGED events
    <3>1. CASE requested' = requested
      BY <2>1, <2>2, <3>1, FailureStays DEF Subscribed, streamVars, WishIsAsked
    <3>2. CASE requested' # requested
      BY <2>2, <3>2 DEF Subscribed, WishIsAsked
    <3> QED
      BY <3>1, <3>2
  <2>3. CASE BrokerInput
    <3>1. events # <<>> /\ events' = Tail(events) /\ Subscribed
      BY <2>3 DEF BrokerInput
    <3>2. CASE Head(events) = "Failed"
      <4>1. requested' = FALSE
        BY <2>3, <3>2 DEF BrokerInput, Failed, Actions
      <4> QED
        BY <4>1 DEF WishIsAsked
    <3>3. CASE Head(events) # "Failed" /\ requested' = requested
      BY <2>1, <3>1, <3>3, FailureStays DEF Subscribed, streamVars, WishIsAsked
    <3>4. CASE requested' # requested
      BY <3>1, <3>4 DEF Subscribed, WishIsAsked
    <3> QED
      BY <3>2, <3>3, <3>4
  <2>4. CASE StreamFails
    <3>1. events' = Append(events, "Failed")
      BY <2>4 DEF StreamFails, Send
    <3>2. FailureQueued'
      BY SMT, <2>1, <3>1 DEF FailureQueued
    <3> QED
      BY <3>2 DEF WishIsAsked
  <2>5. CASE StreamConnects \/ StreamForwards
    <3>1. /\ UNCHANGED <<requested, delivery>>
          /\ \E e \in BrokerEvents : events' = Append(events, e)
      BY <2>5 DEF StreamConnects, StreamForwards, Send, BrokerEvents, streamVars
    <3> QED
      BY <2>1, <3>1, FailureStays DEF WishIsAsked
  <2>6. CASE UNCHANGED <<requested, delivery, events>>
    BY <2>1, <2>6, FailureStays DEF WishIsAsked
  <2> QED
    BY <2>2, <2>3, <2>4, <2>5, <2>6
       DEF Next, Toggled, ButtonPressed, CloseSucceeded, CloseFailed, HideAfterClose,
           LogOutFinished, StreamRetries, streamVars, vars
<1> QED
  BY <1>1, <1>2, OverlayIsTyped, PTL DEF Spec

\* For any number of events, calls, timers and failures of the stream, a menu on
\* screen says that it has no pads or has them asked for, what it waits for is under
\* way, its highlight is on an entry that is drawn, and no capture outlives the wish
\* for it (OverlayState::update, broker_input).
THEOREM MenuStaysHonest == Spec => []MenuIsHonest
<1>1. /\ WishOrError /\ WishIsAsked => ShownWithReason
      /\ ShownWithReason /\ WorkIsAnswered /\ SelectionFits /\ CaptureIsWanted => MenuIsHonest
  BY DEF WishOrError, WishIsAsked, ShownWithReason, MenuIsHonest
<1> QED
  BY <1>1, MenuIsSound, WishesAreAsked, CaptureFollowsRequest, PTL

------------------------------------------------------------------------------
(***************************************************************************)
(* The parts side by side.  The proofs about the launcher's parts come     *)
(* with proofs about the daemon, which play no part here: there are no     *)
(* plays, and no account.                                                  *)
(***************************************************************************)

Launcher == INSTANCE LaunchProofs WITH
    Plays <- {}, HeroicPlays <- {}, Heroic <- 0, Stoppers <- {}, Watcher <- 1, None <- 2,
    slot <- 2, holder <- <<>>, atBridge <- {}, call <- <<>>, journal <- <<>>, row <- <<>>,
    stopCall <- <<>>, watch <- "idle", todo <- <<>>, credit <- <<>>

NoKey == CHOOSE x : x \notin Nat \cup (Nat \X Nat)

Settings == INSTANCE AccountProofs WITH
    formCode <- pending,
    Handlers <- {}, None <- NoKey, MaxKeys <- 0, MaxVersion <- 0, MaxFaults <- 0,
    service <- "tmdb", pending <- NoKey, credential <- NoKey, issued <- 0, handler <- <<>>,
    version <- 0, rows <- NoKey, cached <- NoKey, mail <- FALSE, queued <- FALSE,
    running <- FALSE, worker <- <<>>, faults <- 0, course <- <<>>, unlinked <- "no"

\* The daemon's assumptions hold of no account.
LEMMA NoAccount == 0 \in Nat /\ NoKey \notin Nat \cup (Nat \X Nat)
BY ZenonT(40), NoSetContainsEverything DEF NoKey

\* The shell of the composition is the one the proofs are about.
LEMMA ShellAlike ==
    /\ Shell!Init => Launcher!Shell!Init
    /\ [Shell!Next]_(Shell!vars) => [Launcher!Shell!Next]_(Launcher!Shell!vars)
    /\ Launcher!Shell!TypeOK => Shell!TypeOK
    /\ Launcher!Shell!PadMeetsScreen => PadMeetsScreen
BY ZenonT(40)
   DEF Shell!input, Shell!starts, Shell!text, Shell!over, Shell!cursors, Shell!vars, Shell!Pages,
       Shell!Ownerships, Shell!HasControl, Shell!Init, Shell!SwitchPage, Shell!PadReaches,
       Shell!BarReaches, Shell!OpenDashboard, Shell!OpenLibrary, Shell!OpenSettings,
       Shell!OpenSearch, Shell!SelectSection, Shell!ToggleMenu, Shell!MenuLost,
       Shell!ToggleDrawer, Shell!OpenDetails, Shell!PickerPressed, Shell!FieldFocused,
       Shell!FieldLeft, Shell!SignInOpened, Shell!SignInPressed, Shell!SignedIn, Shell!WalkRing,
       Shell!StepFocus, Shell!Stack, Shell!Open, Shell!Leaves, Shell!Bare, Shell!Back,
       Shell!BackPressed, Shell!Launch, Shell!DaemonLaunchResult, Shell!DismissLaunch,
       Shell!SessionObserved, Shell!FocusChanged, Shell!Next, Shell!TypeOK, Shell!LaunchIsTimed,
       Shell!PadFollowsFocus, Shell!CaretIsOnScreen, Shell!NothingHidden, Shell!PadMeetsScreen,
       Launcher!Shell!input, Launcher!Shell!starts, Launcher!Shell!text, Launcher!Shell!over,
       Launcher!Shell!cursors, Launcher!Shell!vars, Launcher!Shell!Pages,
       Launcher!Shell!Ownerships, Launcher!Shell!HasControl, Launcher!Shell!Init,
       Launcher!Shell!SwitchPage, Launcher!Shell!PadReaches, Launcher!Shell!BarReaches,
       Launcher!Shell!OpenDashboard, Launcher!Shell!OpenLibrary, Launcher!Shell!OpenSettings,
       Launcher!Shell!OpenSearch, Launcher!Shell!SelectSection, Launcher!Shell!ToggleMenu,
       Launcher!Shell!MenuLost, Launcher!Shell!ToggleDrawer, Launcher!Shell!OpenDetails,
       Launcher!Shell!PickerPressed, Launcher!Shell!FieldFocused, Launcher!Shell!FieldLeft,
       Launcher!Shell!SignInOpened, Launcher!Shell!SignInPressed, Launcher!Shell!SignedIn,
       Launcher!Shell!WalkRing, Launcher!Shell!StepFocus, Launcher!Shell!Stack,
       Launcher!Shell!Open, Launcher!Shell!Leaves, Launcher!Shell!Bare, Launcher!Shell!Back,
       Launcher!Shell!BackPressed, Launcher!Shell!Launch, Launcher!Shell!DaemonLaunchResult,
       Launcher!Shell!DismissLaunch, Launcher!Shell!SessionObserved, Launcher!Shell!FocusChanged,
       Launcher!Shell!Next, Launcher!Shell!TypeOK, Launcher!Shell!LaunchIsTimed,
       Launcher!Shell!PadFollowsFocus, Launcher!Shell!CaretIsOnScreen,
       Launcher!Shell!NothingHidden, Launcher!Shell!PadMeetsScreen, PadMeetsScreen

\* The reads of the composition are those the proofs are about.
LEMMA ReadsAlike ==
    /\ Reads!Init => Launcher!Reads!Init
    /\ [Reads!Next]_(Reads!vars) => [Launcher!Reads!Next]_(Launcher!Reads!vars)
    /\ Launcher!Reads!TypeOK => Reads!TypeOK
    /\ Launcher!Reads!ReadsAreBacked => ReadsAreBacked
BY Zenon
   DEF Reads!bounds, Reads!daemon, Reads!vars, Reads!Unserved, Reads!Lost, Reads!Nothing,
       Reads!Waiting, Reads!StaleAfter, Reads!Init, Reads!Coming, Reads!Begin, Reads!Refresh,
       Reads!Serve, Reads!Deliver, Reads!Change, Reads!EditCollection, Reads!FeedConnects,
       Reads!FeedSubscribes, Reads!FeedLags, Reads!FeedDrops, Reads!DaemonChanged,
       Reads!LeaveDashboard, Reads!RefreshDashboard, Reads!DashboardTick,
       Reads!LoadCollections, Reads!Next, Reads!TypeOK, Reads!ChainIsAlive, Reads!StaleIsNoticed,
       Reads!ReadsAreBacked, Reads!Cardinality, Launcher!Reads!bounds, Launcher!Reads!daemon,
       Launcher!Reads!vars, Launcher!Reads!Unserved, Launcher!Reads!Lost, Launcher!Reads!Nothing,
       Launcher!Reads!Waiting, Launcher!Reads!StaleAfter, Launcher!Reads!Init,
       Launcher!Reads!Coming, Launcher!Reads!Begin, Launcher!Reads!Refresh, Launcher!Reads!Serve,
       Launcher!Reads!Deliver, Launcher!Reads!Change, Launcher!Reads!EditCollection,
       Launcher!Reads!FeedConnects, Launcher!Reads!FeedSubscribes, Launcher!Reads!FeedLags,
       Launcher!Reads!FeedDrops, Launcher!Reads!DaemonChanged, Launcher!Reads!LeaveDashboard,
       Launcher!Reads!RefreshDashboard, Launcher!Reads!DashboardTick,
       Launcher!Reads!LoadCollections, Launcher!Reads!Next, Launcher!Reads!TypeOK,
       Launcher!Reads!ChainIsAlive, Launcher!Reads!StaleIsNoticed, Launcher!Reads!ReadsAreBacked,
       Launcher!Reads!Cardinality, ReadsAreBacked

\* The RomM form of the composition is the one the proofs are about.
LEMMA RommAlike ==
    /\ Romm!Init => Settings!Romm!Init
    /\ [Romm!Next]_(Romm!vars) => [Settings!Romm!Next]_(Settings!Romm!vars)
    /\ Settings!Romm!TypeOK => Romm!TypeOK
    /\ Settings!Romm!FormIsLive => FormIsLive
BY Zenon
   DEF Romm!Kinds, Romm!Credentials, Romm!formVars, Romm!vars, Romm!TypeOK, Romm!Init, Romm!Ask,
       Romm!Answered, Romm!Loaded, Romm!Failed, Romm!RefreshPressed, Romm!UrlChanged,
       Romm!ConnectPressed, Romm!SignInOpened, Romm!SignInClosed, Romm!CredentialsTyped,
       Romm!SignInPressed, Romm!UsernameSubmitted, Romm!RemovePressed, Romm!FieldFocused,
       Romm!CaretGivenUp, Romm!LoadAnswered, Romm!LinkStarted, Romm!LinkPolled, Romm!SignedIn,
       Romm!Removed, Romm!Next, Romm!BusyIsAnswered, Romm!CodeIsWatched, Romm!CaretIsDrawn,
       Romm!FormIsLive, Settings!Romm!Kinds, Settings!Romm!Credentials, Settings!Romm!formVars,
       Settings!Romm!vars, Settings!Romm!TypeOK, Settings!Romm!Init, Settings!Romm!Ask,
       Settings!Romm!Answered, Settings!Romm!Loaded, Settings!Romm!Failed,
       Settings!Romm!RefreshPressed, Settings!Romm!UrlChanged, Settings!Romm!ConnectPressed,
       Settings!Romm!SignInOpened, Settings!Romm!SignInClosed, Settings!Romm!CredentialsTyped,
       Settings!Romm!SignInPressed, Settings!Romm!UsernameSubmitted, Settings!Romm!RemovePressed,
       Settings!Romm!FieldFocused, Settings!Romm!CaretGivenUp, Settings!Romm!LoadAnswered,
       Settings!Romm!LinkStarted, Settings!Romm!LinkPolled, Settings!Romm!SignedIn,
       Settings!Romm!Removed, Settings!Romm!Next, Settings!Romm!BusyIsAnswered,
       Settings!Romm!CodeIsWatched, Settings!Romm!CaretIsDrawn, Settings!Romm!FormIsLive,
       FormIsLive

\* The settings cards of the composition are those the proofs are about.
LEMMA CardsAlike ==
    /\ Cards!Init => Settings!Cards!Init
    /\ [Cards!Next]_(Cards!vars) => [Settings!Cards!Next]_(Settings!Cards!vars)
    /\ Settings!Cards!TypeOK => Cards!TypeOK
    /\ Settings!Cards!CardsAreLive => CardsAreLive
BY Zenon
   DEF Cards!linkVars, Cards!readyVars, Cards!vars, Cards!Reports, Cards!TypeOK, Cards!Init,
       Cards!SettingsOpened, Cards!LinkPressed, Cards!UnlinkPressed, Cards!LinkStarted,
       Cards!PollEnded, Cards!PollWaiting, Cards!Unlinked, Cards!ConnectionLoaded,
       Cards!SourceRefreshed, Cards!Idle, Cards!RefreshPressed, Cards!SyncPressed,
       Cards!InstallPressed, Cards!BiosSynced, Cards!CoresInstalled, Cards!ReportLoaded,
       Cards!Next, Cards!OneLinkRequest, Cards!StremioIsWatched, Cards!OneReadinessJob,
       Cards!CardsAreLive, Settings!Cards!linkVars, Settings!Cards!readyVars, Settings!Cards!vars,
       Settings!Cards!Reports, Settings!Cards!TypeOK, Settings!Cards!Init,
       Settings!Cards!SettingsOpened, Settings!Cards!LinkPressed, Settings!Cards!UnlinkPressed,
       Settings!Cards!LinkStarted, Settings!Cards!PollEnded, Settings!Cards!PollWaiting,
       Settings!Cards!Unlinked, Settings!Cards!ConnectionLoaded, Settings!Cards!SourceRefreshed,
       Settings!Cards!Idle, Settings!Cards!RefreshPressed, Settings!Cards!SyncPressed,
       Settings!Cards!InstallPressed, Settings!Cards!BiosSynced, Settings!Cards!CoresInstalled,
       Settings!Cards!ReportLoaded, Settings!Cards!Next, Settings!Cards!OneLinkRequest,
       Settings!Cards!StremioIsWatched, Settings!Cards!OneReadinessJob,
       Settings!Cards!CardsAreLive, CardsAreLive

\* A step of the composition is a step of one part, and leaves the others alone.
LEMMA OnePartSteps ==
    MCNext => \/ Shown /\ Next
              \/ Walked /\ Shell!Next
              \/ Read /\ Reads!Next
              \/ Filled /\ Romm!Next
              \/ Set /\ Cards!Next
<1> SUFFICES ASSUME MCNext
             PROVE  \/ Shown /\ Next
                    \/ Walked /\ Shell!Next
                    \/ Read /\ Reads!Next
                    \/ Filled /\ Romm!Next
                    \/ Set /\ Cards!Next
  OBVIOUS
<1> QED
  BY Zenon DEF MCNext, Next, Shell!Next, Reads!Next, Romm!Next, Cards!Next

\* A part the composition leaves alone stutters.
LEMMA PartVars ==
    /\ UNCHANGED shellVars => UNCHANGED Shell!vars
    /\ UNCHANGED readVars => UNCHANGED Reads!vars
    /\ UNCHANGED rommVars => UNCHANGED Romm!vars
    /\ UNCHANGED cardVars => UNCHANGED Cards!vars
BY DEF shellVars, Shell!vars, Shell!input, Shell!starts, Shell!text, Shell!over, Shell!cursors,
       readVars, Reads!vars, Reads!daemon, Reads!bounds, rommVars, Romm!vars, Romm!formVars,
       cardVars, Cards!vars, Cards!linkVars, Cards!readyVars

\* The composition implements every part.
THEOREM ProgressImplementsParts ==
    MCSpec => Spec /\ Shell!Spec /\ Reads!Spec /\ Romm!Spec /\ Cards!Spec
<1>1. MCInit => Init /\ Shell!Init /\ Reads!Init /\ Romm!Init /\ Cards!Init
  BY DEF MCInit
<1>2. [MCNext]_allVars => /\ [Next]_vars
                          /\ [Shell!Next]_(Shell!vars)
                          /\ [Reads!Next]_(Reads!vars)
                          /\ [Romm!Next]_(Romm!vars)
                          /\ [Cards!Next]_(Cards!vars)
  BY OnePartSteps, PartVars DEF allVars, Shown, Walked, Read, Filled, Set
<1> QED
  BY <1>1, <1>2, PTL DEF MCSpec, Spec, Shell!Spec, Reads!Spec, Romm!Spec, Cards!Spec

\* What is proved of the launcher's parts holds of the composition's.
LEMMA LauncherHolds ==
    /\ Shell!Spec => [](Shell!TypeOK /\ PadMeetsScreen)
    /\ Reads!Spec => []ReadsAreBacked
    /\ Romm!Spec => [](Romm!TypeOK /\ FormIsLive)
    /\ Cards!Spec => [](Cards!TypeOK /\ CardsAreLive)
<1>1. Shell!Spec => [](Shell!TypeOK /\ PadMeetsScreen)
  <2>1. Launcher!Shell!Spec => []Launcher!Shell!TypeOK
    BY SMTT(40), Launcher!ShellIsTyped
  <2>2. Launcher!Shell!Spec => []Launcher!Shell!PadMeetsScreen
    BY SMT, Launcher!PadStaysOnScreen
  <2> QED
    BY <2>1, <2>2, ShellAlike, PTL DEF Shell!Spec, Launcher!Shell!Spec
<1>2. Reads!Spec => []ReadsAreBacked
  <2>1. Launcher!Reads!Spec => []Launcher!Reads!ReadsAreBacked
    BY SMT, Launcher!ReadsStayBacked
  <2> QED
    BY <2>1, ReadsAlike, PTL DEF Reads!Spec, Launcher!Reads!Spec
<1>3. Romm!Spec => [](Romm!TypeOK /\ FormIsLive)
  <2>1. Settings!Romm!Spec => []Settings!Romm!TypeOK
    BY ZenonT(40), Settings!FormIsTyped, NoAccount
  <2>2. Settings!Romm!Spec => []Settings!Romm!FormIsLive
    BY ZenonT(40), Settings!FormStaysLive, NoAccount
  <2> QED
    BY <2>1, <2>2, RommAlike, PTL DEF Romm!Spec, Settings!Romm!Spec
<1>4. Cards!Spec => [](Cards!TypeOK /\ CardsAreLive)
  <2>1. Settings!Cards!Spec => []Settings!Cards!TypeOK
    BY Settings!CardsAreTyped, NoAccount
  <2>2. Settings!Cards!Spec => []Settings!Cards!CardsAreLive
    BY Settings!CardsStayLive, NoAccount
  <2> QED
    BY <2>1, <2>2, CardsAlike, PTL DEF Cards!Spec, Settings!Cards!Spec
<1> QED
  BY <1>1, <1>2, <1>3, <1>4

\* Whatever the part at hand does, every safety property of every part holds, with the
\* cases each of them leaves open.
THEOREM PartsStaySafe ==
    MCSpec => [](MenuIsHonest /\ PadMeetsScreen /\ ReadsAreBacked /\ FormIsLive /\ CardsAreLive)
BY ProgressImplementsParts, MenuStaysHonest, LauncherHolds, PTL

\* Every variable of every part keeps its type.
THEOREM ProgressIsTyped == ASSUME MaxChanges \in Nat PROVE MCSpec => []MCTypeOK
<1>1. Launcher!Reads!Spec => []Launcher!Reads!TypeOK
  BY SMTT(40), Launcher!ReadsAreTyped
<1>2. Reads!Spec => []Reads!TypeOK
  BY <1>1, ReadsAlike, PTL DEF Reads!Spec, Launcher!Reads!Spec
<1>3. TypeOK /\ Shell!TypeOK /\ Reads!TypeOK /\ Romm!TypeOK /\ Cards!TypeOK => MCTypeOK
  BY DEF MCTypeOK
<1> QED
  BY <1>2, <1>3, ProgressImplementsParts, OverlayIsTyped, LauncherHolds, PTL
==============================================================================

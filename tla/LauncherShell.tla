---------------------------- MODULE LauncherShell ----------------------------
(***************************************************************************)
(* The launcher's shell: which page is up, which surfaces are stacked over *)
(* it, who owns the pad, and the one launch the launcher lets happen.      *)
(* Its messages arrive one at a time, from the pad (through the broker),   *)
(* the pointer, the keyboard, the compositor's focus events, the session   *)
(* poll, the launch request and the timer that takes the overlay down.     *)
(*                                                                         *)
(* A cursor is abstracted to whether it is held (bar, ring), and a surface *)
(* to whether it is open.  The pointer reaches what a page draws; the pad  *)
(* reaches what `navigate` gives it, once the caret, the dialog and the    *)
(* ownership check have let the event through.                             *)
(***************************************************************************)
EXTENDS Integers, Sequences, FiniteSets

VARIABLES
    page,       \* the page on screen
    ownership,  \* who the pad belongs to (input_ownership.rs)
    launch,     \* the launch overlay (launch_state.rs)
    job,        \* launch requests out to the daemon
    timers,     \* DismissLaunch timers running
    caret,      \* the text field that holds the caret, by where it is drawn
    dialog,     \* the RomM sign-in dialog: none, open, or waiting for an answer
    menu,       \* the tile menu is open
    drawer,     \* the filter drawer is open
    picker,     \* the details screen's disc picker is open
    bar,        \* the top bar holds the cursor
    ring,       \* the keyboard's ring holds the cursor
    focused,    \* history: the compositor's focus is on the launcher's window
    swallowed   \* history: the last focus loss was ignored

input   == <<ownership, focused, swallowed>>
starts  == <<launch, job, timers>>
text    == <<caret, dialog>>
over    == <<menu, drawer, picker>>
cursors == <<bar, ring>>
vars    == <<page, input, starts, text, over, cursors>>

Pages == {"Dashboard", "Library", "Details", "Settings"}

Ownerships == {"Checking", "Frontend", "Launching", "ManagedSession", "Unfocused"}

HasControl == ownership = "Frontend"

Init ==
    /\ page = "Dashboard"
    /\ ownership = "Checking"
    /\ launch = "Idle" /\ job = 0 /\ timers = 0
    /\ caret = "none" /\ dialog = "none"
    /\ menu = FALSE /\ drawer = FALSE /\ picker = FALSE
    /\ bar = FALSE /\ ring = FALSE
    /\ focused = TRUE /\ swallowed = FALSE

-----------------------------------------------------------------------------
(***************************************************************************)
(* What the pages share.                                                   *)
(***************************************************************************)

\* A page that is left takes its text fields with it.
SwitchPage(to) ==
    /\ page' = to
    /\ caret' = IF page = to THEN caret ELSE "none"

\* An event of the pad that neither the keyboard nor the dialog takes, and that
\* the ownership check lets through.
PadReaches == caret = "none" /\ dialog = "none" /\ HasControl

\* A bar's button is pressed where a page draws the bar, and confirmed wherever
\* the bar holds the cursor.
BarReaches ==
    /\ dialog = "none"
    /\ \/ page \in {"Dashboard", "Settings"}
       \/ page = "Library" /\ bar /\ PadReaches /\ ~menu

\* Landing on the dashboard, from a bar's button or from the settings screen's
\* Restore row.  Neither cursor survives the trip.
OpenDashboard ==
    /\ BarReaches
    /\ SwitchPage("Dashboard")
    /\ bar' = FALSE /\ ring' = FALSE
    /\ UNCHANGED <<input, starts, dialog, over>>

\* A bar's Library button, or a card of the consoles rail.
OpenLibrary ==
    /\ BarReaches
    /\ SwitchPage("Library")
    /\ bar' = FALSE
    /\ drawer' \in {drawer, FALSE}
    /\ UNCHANGED <<input, starts, dialog, menu, picker, ring>>

\* The settings screen opens in the window when there is no settings window to
\* launch instead; when there is one, the message changes nothing here.
OpenSettings ==
    /\ BarReaches
    /\ SwitchPage("Settings")
    /\ bar' = FALSE /\ ring' = FALSE
    /\ UNCHANGED <<input, starts, dialog, over>>

\* Search, from the pad's button or chord or from a bar's button: the library
\* comes up and its search box takes the caret.
OpenSearch ==
    /\ page # "Details" /\ dialog = "none"
    /\ page' = "Library"
    /\ caret' = "Search"
    /\ bar' = FALSE /\ ring' = FALSE
    /\ UNCHANGED <<input, starts, dialog, over>>

\* The sidebar, or the pad's shoulders.  A section applied closes the drawer, at
\* once or when the slide lands, and the menu when its tile is gone.
SelectSection ==
    /\ page = "Library"
    /\ bar' = FALSE
    /\ drawer' \in {drawer, FALSE}
    /\ menu' = menu \/ menu' = FALSE
    /\ UNCHANGED <<page, input, starts, text, picker, ring>>

-----------------------------------------------------------------------------
(***************************************************************************)
(* The surfaces over a page.                                               *)
(***************************************************************************)

\* X on a tile, or a right click: the button that opens the menu closes it.
ToggleMenu ==
    /\ page = "Library"
    /\ menu' = ~menu
    /\ UNCHANGED <<page, input, starts, text, drawer, picker, cursors>>

\* The menu's rows are the entry's: it closes when the list under it shrinks.
MenuLost ==
    /\ menu
    /\ menu' = FALSE
    /\ UNCHANGED <<page, input, starts, text, drawer, picker, cursors>>

ToggleDrawer ==
    /\ page = "Library"
    /\ drawer' = ~drawer
    /\ UNCHANGED <<page, input, starts, text, menu, picker, cursors>>

\* X on a console game's tile.
OpenDetails ==
    /\ page = "Library" /\ PadReaches
    /\ ~menu /\ ~drawer
    /\ SwitchPage("Details")
    /\ picker' = FALSE
    /\ UNCHANGED <<input, starts, dialog, menu, drawer, cursors>>

PickerPressed ==
    /\ page = "Details"
    /\ picker' = ~picker
    /\ UNCHANGED <<page, input, starts, text, menu, drawer, cursors>>

-----------------------------------------------------------------------------
(***************************************************************************)
(* Text entry and the sign-in dialog.                                      *)
(***************************************************************************)

\* A click on a field the page draws.
FieldFocused ==
    /\ \/ page = "Library"  /\ dialog = "none" /\ caret' = "Search"
       \/ page = "Settings" /\ dialog = "none" /\ caret' = "Url"
       \/ dialog = "open"   /\ caret' = "Dialog"
    /\ UNCHANGED <<page, input, starts, dialog, over, cursors>>

\* The field reports a blur, or is submitted.
FieldLeft ==
    /\ caret # "none"
    /\ caret' = "none"
    /\ UNCHANGED <<page, input, starts, dialog, over, cursors>>

SignInOpened ==
    /\ page = "Settings" /\ dialog = "none"
    /\ dialog' = "open" /\ caret' = "Dialog"
    /\ UNCHANGED <<page, input, starts, over, cursors>>

\* Confirm without a caret, Enter in the password field, or the dialog's button.
SignInPressed ==
    /\ dialog = "open"
    /\ dialog' = "working" /\ caret' = "none"
    /\ UNCHANGED <<page, input, starts, over, cursors>>

\* The answer closes the dialog, or gives it back to be corrected.
SignedIn ==
    /\ dialog = "working"
    /\ \/ dialog' = "none" /\ caret' = "none"
       \/ dialog' = "open" /\ caret' = "Dialog"
    /\ UNCHANGED <<page, input, starts, over, cursors>>

-----------------------------------------------------------------------------
(***************************************************************************)
(* The cursor on the chrome.                                               *)
(***************************************************************************)

\* Tab and Shift+Tab.  On the library they walk its ring, whose search stop
\* takes the caret; on every other page they walk the top bar.
WalkRing ==
    /\ HasControl
    /\ \/ /\ page = "Library"
          /\ ring' \in BOOLEAN
          /\ caret' \in {"none"} \cup (IF ring' THEN {"Search"} ELSE {})
          /\ bar' = bar
       \/ /\ page # "Library"
          /\ bar' \in BOOLEAN
          /\ UNCHANGED <<ring, caret>>
    /\ UNCHANGED <<page, input, starts, dialog, over>>

\* A step of the pad, where it is not the menu's or the details screen's own.
StepFocus ==
    /\ PadReaches /\ ~menu /\ page # "Details"
    /\ \/ /\ bar
          /\ bar' \in (IF page = "Dashboard" THEN BOOLEAN ELSE {TRUE})
          /\ ring' = ring
       \/ /\ ~bar /\ page = "Dashboard"
          /\ bar' \in BOOLEAN
          /\ ring' = ring
       \/ /\ ~bar /\ page = "Settings"
          /\ bar' = TRUE
          /\ ring' = ring
       \/ /\ ~bar /\ page = "Library"
          /\ ring' = FALSE
          /\ bar' = bar
    /\ UNCHANGED <<page, input, starts, text, over>>

-----------------------------------------------------------------------------
(***************************************************************************)
(* Back.  The surfaces are asked in the order they stack, and the first    *)
(* one that is open is the one Back leaves.                                *)
(***************************************************************************)

\* Mutant: Back leaves the details screen before it closes its picker.
StackPickerLast ==
    << "caret", "dialog", "failure", "launching", "menu", "drawer",
       "details", "picker", "bar", "ring", "page" >>

Stack == << "caret", "dialog", "failure", "launching", "menu", "drawer",
            "picker", "details", "bar", "ring", "page" >>

Open == [caret     |-> caret # "none",
         dialog    |-> dialog # "none",
         failure   |-> launch = "Failed",
         launching |-> launch = "Launching",
         menu      |-> menu,
         drawer    |-> drawer,
         picker    |-> page = "Details" /\ picker,
         details   |-> page = "Details",
         bar       |-> page = "Dashboard" /\ bar,
         ring      |-> ring,
         page      |-> page # "Dashboard"]

\* The surface Back leaves: the first of the stack that is open.
Leaves(s) ==
    \E i \in DOMAIN Stack :
        /\ Stack[i] = s /\ Open[s]
        /\ \A j \in 1 .. i - 1 : ~Open[Stack[j]]

\* Nothing is left to leave.
Bare == \A s \in DOMAIN Open : ~Open[s]

Back ==
    \/ /\ Leaves("caret")
       /\ caret' = "none"
       /\ UNCHANGED <<page, input, starts, dialog, over, cursors>>
    \/ /\ Leaves("dialog")
       /\ dialog' = IF dialog = "working" THEN dialog ELSE "none"
       /\ UNCHANGED <<page, input, starts, caret, over, cursors>>
    \/ /\ Leaves("failure")
       /\ launch' = "Idle"
       /\ UNCHANGED <<page, input, job, timers, text, over, cursors>>
    \/ /\ Leaves("launching") \/ Bare
       /\ UNCHANGED vars
    \/ /\ Leaves("menu")
       /\ menu' = FALSE
       /\ UNCHANGED <<page, input, starts, text, drawer, picker, cursors>>
    \/ /\ Leaves("drawer")
       /\ drawer' = FALSE
       /\ UNCHANGED <<page, input, starts, text, menu, picker, cursors>>
    \/ /\ Leaves("picker")
       /\ picker' = FALSE
       /\ UNCHANGED <<page, input, starts, text, menu, drawer, cursors>>
    \/ /\ Leaves("details")
       /\ SwitchPage("Library")
       /\ UNCHANGED <<input, starts, dialog, over, cursors>>
    \/ /\ Leaves("bar")
       /\ bar' = FALSE
       /\ UNCHANGED <<page, input, starts, text, over, ring>>
    \/ /\ Leaves("ring")
       /\ ring' = FALSE
       /\ UNCHANGED <<page, input, starts, text, over, bar>>
    \/ /\ Leaves("page")
       /\ SwitchPage("Dashboard")
       /\ bar' = FALSE /\ ring' = FALSE
       /\ UNCHANGED <<input, starts, dialog, over>>

\* The pad's Back reaches a caret or a dialog whoever owns the pad.
BackPressed ==
    /\ caret # "none" \/ dialog # "none" \/ HasControl
    /\ Back

-----------------------------------------------------------------------------
(***************************************************************************)
(* The launch, and who owns the pad.                                       *)
(***************************************************************************)

\* A tile, a card, a menu's Run row or the details screen's Play.  The overlay
\* of the last launch, up or failed, refuses a second one.  The pad's Confirm on
\* the Run row closes the menu before it launches, a click on the row does not.
Launch ==
    /\ HasControl /\ page # "Settings"
    /\ launch = "Idle"
    /\ launch' = "Launching" /\ job' = job + 1
    /\ ownership' = "Launching"
    /\ menu' = menu \/ menu' = FALSE
    /\ UNCHANGED <<page, focused, swallowed, timers, text, drawer, picker, cursors>>

\* The daemon's answer.  An accepted launch keeps the overlay for a moment.
DaemonLaunchResult ==
    /\ job > 0 /\ job' = job - 1
    /\ \/ /\ ownership' = IF ownership = "Launching" THEN "ManagedSession" ELSE ownership
          /\ timers' = timers + 1 /\ launch' = launch
       \/ /\ ownership' = IF ownership = "Launching" THEN "Frontend" ELSE ownership
          /\ launch' = "Failed" /\ timers' = timers
    /\ UNCHANGED <<page, focused, swallowed, text, over, cursors>>

DismissLaunch ==
    /\ timers > 0 /\ timers' = timers - 1
    /\ launch' = "Idle"
    /\ UNCHANGED <<page, input, job, text, over, cursors>>

\* The session poll.  It does not take the pad from a launcher that has it, nor
\* give it to one that is unfocused.
SessionObserved(active) ==
    /\ ownership' =
         IF active
         THEN IF ownership \in {"Checking", "Launching"} THEN "ManagedSession" ELSE ownership
         ELSE IF ownership \in {"Checking", "ManagedSession"} THEN "Frontend" ELSE ownership
    /\ UNCHANGED <<page, focused, swallowed, starts, text, over, cursors>>

\* Mutant: the focus is only read while a session runs.
FocusChangedInSession(now) ==
    /\ focused' = now
    /\ ownership' = IF now /\ ownership = "ManagedSession" THEN "Frontend"
                    ELSE IF ~now /\ ownership \in {"Frontend", "ManagedSession"} THEN "Unfocused"
                    ELSE ownership
    /\ swallowed' = (~now /\ ownership \in {"Checking", "Launching"})
    /\ UNCHANGED <<page, starts, text, over, cursors>>

\* The compositor's focus events.  One that arrives while the launcher is still
\* asking about a session, or starting one, changes nothing.
FocusChanged(now) ==
    /\ focused' = now
    /\ ownership' = IF ownership \in {"Checking", "Launching"} THEN ownership
                    ELSE IF ~now THEN "Unfocused"
                    ELSE IF ownership \in {"ManagedSession", "Unfocused"} THEN "Frontend"
                    ELSE ownership
    /\ swallowed' = (~now /\ ownership \in {"Checking", "Launching"})
    /\ UNCHANGED <<page, starts, text, over, cursors>>

-----------------------------------------------------------------------------
Next ==
    \/ OpenDashboard \/ OpenLibrary \/ OpenSettings \/ OpenSearch \/ SelectSection
    \/ ToggleMenu \/ MenuLost \/ ToggleDrawer \/ OpenDetails \/ PickerPressed
    \/ FieldFocused \/ FieldLeft \/ SignInOpened \/ SignInPressed \/ SignedIn
    \/ WalkRing \/ StepFocus \/ BackPressed
    \/ Launch \/ DaemonLaunchResult \/ DismissLaunch
    \/ \E b \in BOOLEAN : SessionObserved(b) \/ FocusChanged(b)

Spec == Init /\ [][Next]_vars

\* The launch request answers or times out, and a timer that was started fires.
FairSpec == Spec /\ WF_vars(DaemonLaunchResult) /\ WF_vars(DismissLaunch)

-----------------------------------------------------------------------------
(***************************************************************************)
(* What the shell promises.                                                *)
(***************************************************************************)

\* Every part of the shell's state has its type.
TypeOK ==
    /\ page \in Pages
    /\ ownership \in Ownerships
    /\ launch \in {"Idle", "Launching", "Failed"}
    /\ job \in Nat /\ timers \in Nat
    /\ caret \in {"none", "Search", "Url", "Dialog"}
    /\ dialog \in {"none", "open", "working"}
    /\ {menu, drawer, picker, bar, ring, focused, swallowed} \subseteq BOOLEAN

\* One launch at a time, and nothing left over from the last: the overlay is up
\* exactly while one request is out or one timer runs, so a timer can never take
\* down the overlay of a later launch.  A pad handed to a launch is waiting for
\* a request that is still out.
LaunchIsTimed ==
    /\ job + timers = IF launch = "Launching" THEN 1 ELSE 0
    /\ ownership = "Launching" => job = 1

\* The pad's owner is behind the compositor's focus in one case only: a loss that
\* came while a session was being asked about or started was ignored, and nothing
\* has gained the focus since (FrontendHasFocus is what that case breaks).  A
\* launcher that holds itself unfocused is, so it is never left deaf in a window
\* that has the focus.
PadFollowsFocus ==
    /\ ownership = "Unfocused" => ~focused
    /\ ~focused /\ ownership # "Unfocused" => swallowed

\* The caret that hands the pad to the on-screen keyboard is in a field the page
\* draws: a page that is left never keeps the pad for a field that is gone.
CaretIsOnScreen ==
    /\ caret = "Search" => page = "Library"
    /\ caret = "Url" => page = "Settings" /\ dialog = "none"
    /\ caret = "Dialog" => page = "Settings" /\ dialog = "open"

\* The tile menu is open on the library alone, and the library's ring is held on it
\* or under the details of one of its games.  The top bar's cursor and the filter
\* drawer have no such bound: Tab gives the cursor to the bar on every page but the
\* library, the details screen included, which draws none; it stays there back on
\* the library, and a button confirmed on it leaves the library with the drawer open.
NothingHidden ==
    /\ menu => page = "Library"
    /\ ring => page \in {"Library", "Details"}

\* How many surfaces Back has to leave before the bare dashboard.
Depth == Cardinality({s \in DOMAIN Open : Open[s]})

\* Back leaves one surface and no more, except over a launch in flight, a sign-in
\* being answered, and the bare dashboard, where it does nothing.
BackUnwinds ==
    [][BackPressed =>
         IF Bare \/ Leaves("launching") \/ (Leaves("dialog") /\ dialog = "working")
         THEN UNCHANGED vars
         ELSE Depth' = Depth - 1]_vars

\* The overlay of a launch always goes, or turns into a message that can be
\* dismissed.
LaunchEnds == launch = "Launching" ~> launch # "Launching"

\* What docs/input-ownership.md says of an unrelated window with the focus: "No
\* frontend navigation".  The pad drives the launcher only in the focused window.
FrontendHasFocus == HasControl => focused

\* The pad and the screen agree on the launch being made, on the text field that has
\* the caret, on the tile menu and the library's ring; and on the focus, but for a
\* loss that was ignored.
PadMeetsScreen == LaunchIsTimed /\ PadFollowsFocus /\ CaretIsOnScreen /\ NothingHidden

\* There is a way out of every surface: back leaves them one by one, and a launch
\* ends by itself.
WayOut == BackUnwinds /\ LaunchEnds
=============================================================================

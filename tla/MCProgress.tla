------------------------------ MODULE MCProgress ------------------------------
(***************************************************************************)
(* The components that promise progress, for TLC, side by side: the        *)
(* overlay, and the launcher's shell, its reads, its RomM form and its     *)
(* other settings cards.  part says which of the five a behaviour is       *)
(* about; the others keep their initial state.                             *)
(***************************************************************************)
EXTENDS Overlay

CONSTANTS MaxChanges, MaxUnheard, MaxFailures, MaxDrops, MaxLoads,  \* of LauncherReads
          MaxJobs, MaxChains, MaxReads                  \* of RommForm and SettingsCards

VARIABLES
    part,   \* "overlay", "shell", "reads", "romm" or "cards"
    page, ownership, launch, job, timers, caret, dialog, menu, drawer, picker, bar,
    ring, focused, swallowed,
    resource, truth, shown, out, retrying, feed, feedEvents, dashboard, failures,
    drops, loads, missed,
    connection, url, pending, polling, busy, signIn, formCaret, jobs, polls,
    linked, reading, code, linkBusy, starts, unlinks, chains, reads, publishing,
    readiness, syncing, installing, syncs, installs, checks

shellVars == <<page, ownership, launch, job, timers, caret, dialog, menu, drawer,
               picker, bar, ring, focused, swallowed>>
readVars  == <<resource, truth, shown, out, retrying, feed, feedEvents, dashboard,
               failures, drops, loads, missed>>
rommVars  == <<connection, url, pending, polling, busy, signIn, formCaret, jobs,
               polls>>
cardVars  == <<linked, reading, code, linkBusy, starts, unlinks, chains, reads,
               publishing, readiness, syncing, installing, syncs, installs, checks>>

Shell == INSTANCE LauncherShell
Reads == INSTANCE LauncherReads WITH events <- feedEvents
Romm  == INSTANCE RommForm WITH dialog <- signIn, caret <- formCaret
Cards == INSTANCE SettingsCards WITH
             pending <- code, busy <- linkBusy, polls <- chains, report <- readiness

\* Only the part at hand has several initial states.
MCInit ==
    /\ part \in {"overlay", "shell", "reads", "romm", "cards"}
    /\ Init /\ Shell!Init /\ Reads!Init /\ Romm!Init /\ Cards!Init
    /\ part = "reads" \/ resource = "catalog"

Shown  == part = "overlay" /\ UNCHANGED <<part, shellVars, readVars, rommVars, cardVars>>
Walked == part = "shell" /\ UNCHANGED <<part, vars, readVars, rommVars, cardVars>>
Read   == part = "reads" /\ UNCHANGED <<part, vars, shellVars, rommVars, cardVars>>
Filled == part = "romm" /\ UNCHANGED <<part, vars, shellVars, readVars, cardVars>>
Set    == part = "cards" /\ UNCHANGED <<part, vars, shellVars, readVars, rommVars>>

MCNext ==
    \/ Shown /\ BrokerInput
    \/ Shown /\ Toggled
    \/ Shown /\ ButtonPressed
    \/ Shown /\ CloseSucceeded
    \/ Shown /\ CloseFailed
    \/ Shown /\ HideAfterClose
    \/ Shown /\ LogOutFinished
    \/ Shown /\ StreamConnects
    \/ Shown /\ StreamFails
    \/ Shown /\ StreamRetries
    \/ Shown /\ StreamForwards
    \/ Walked /\ Shell!OpenDashboard
    \/ Walked /\ Shell!OpenLibrary
    \/ Walked /\ Shell!OpenSettings
    \/ Walked /\ Shell!OpenSearch
    \/ Walked /\ Shell!SelectSection
    \/ Walked /\ Shell!ToggleMenu
    \/ Walked /\ Shell!MenuLost
    \/ Walked /\ Shell!ToggleDrawer
    \/ Walked /\ Shell!OpenDetails
    \/ Walked /\ Shell!PickerPressed
    \/ Walked /\ Shell!FieldFocused
    \/ Walked /\ Shell!FieldLeft
    \/ Walked /\ Shell!SignInOpened
    \/ Walked /\ Shell!SignInPressed
    \/ Walked /\ Shell!SignedIn
    \/ Walked /\ Shell!WalkRing
    \/ Walked /\ Shell!StepFocus
    \/ Walked /\ Shell!BackPressed
    \/ Walked /\ Shell!Launch
    \/ Walked /\ Shell!DaemonLaunchResult
    \/ Walked /\ Shell!DismissLaunch
    \/ Walked /\ \E b \in BOOLEAN : Shell!SessionObserved(b)
    \/ Walked /\ \E b \in BOOLEAN : Shell!FocusChanged(b)
    \/ Read /\ \E q \in out : Reads!Serve(q)
    \/ Read /\ \E q \in out : Reads!Deliver(q)
    \/ Read /\ \E kind \in {"library", "session"} : Reads!Change(kind)
    \/ Read /\ Reads!EditCollection
    \/ Read /\ Reads!FeedConnects
    \/ Read /\ Reads!FeedSubscribes
    \/ Read /\ Reads!FeedLags
    \/ Read /\ Reads!FeedDrops
    \/ Read /\ Reads!DaemonChanged
    \/ Read /\ Reads!LeaveDashboard
    \/ Read /\ Reads!RefreshDashboard
    \/ Read /\ Reads!DashboardTick
    \/ Read /\ Reads!LoadCollections
    \/ Filled /\ Romm!RefreshPressed
    \/ Filled /\ Romm!UrlChanged
    \/ Filled /\ Romm!ConnectPressed
    \/ Filled /\ Romm!RemovePressed
    \/ Filled /\ Romm!SignInOpened
    \/ Filled /\ Romm!SignInClosed
    \/ Filled /\ Romm!CredentialsTyped
    \/ Filled /\ Romm!SignInPressed
    \/ Filled /\ Romm!UsernameSubmitted
    \/ Filled /\ \E f \in {"Url"} \cup Romm!Credentials : Romm!FieldFocused(f)
    \/ Filled /\ Romm!CaretGivenUp
    \/ Filled /\ Romm!LoadAnswered
    \/ Filled /\ Romm!LinkStarted
    \/ Filled /\ Romm!LinkPolled
    \/ Filled /\ Romm!SignedIn
    \/ Filled /\ Romm!Removed
    \/ Set /\ Cards!SettingsOpened
    \/ Set /\ Cards!LinkPressed
    \/ Set /\ Cards!UnlinkPressed
    \/ Set /\ Cards!LinkStarted
    \/ Set /\ Cards!PollEnded
    \/ Set /\ Cards!PollWaiting
    \/ Set /\ Cards!Unlinked
    \/ Set /\ Cards!ConnectionLoaded
    \/ Set /\ Cards!SourceRefreshed
    \/ Set /\ Cards!RefreshPressed
    \/ Set /\ Cards!SyncPressed
    \/ Set /\ Cards!InstallPressed
    \/ Set /\ Cards!BiosSynced
    \/ Set /\ Cards!CoresInstalled
    \/ Set /\ Cards!ReportLoaded

allVars == <<part, vars, shellVars, readVars, rommVars, cardVars>>

\* The fairness each component states, for its own part.  One part runs in a
\* behaviour, so weak fairness of a disjunction of actions of different parts is
\* weak fairness of each of them.
MCFairness ==
    /\ WF_allVars(\/ Shown /\ BrokerInput
                  \/ Walked /\ Shell!DaemonLaunchResult
                  \/ Read /\ (\E q \in out : Reads!Serve(q))
                  \/ Filled /\ Romm!LoadAnswered)
    /\ WF_allVars(\/ Shown /\ (StreamConnects \/ StreamFails)
                  \/ Walked /\ Shell!DismissLaunch
                  \/ Read /\ (\E q \in out : Reads!Deliver(q))
                  \/ Filled /\ Romm!LinkStarted)
    /\ WF_allVars(\/ Shown /\ StreamRetries
                  \/ Read /\ Reads!FeedConnects
                  \/ Filled /\ Romm!LinkPolled)
    /\ WF_allVars(\/ Shown /\ (CloseSucceeded \/ CloseFailed)
                  \/ Read /\ Reads!DaemonChanged
                  \/ Filled /\ Romm!SignedIn)
    /\ WF_allVars(\/ Shown /\ HideAfterClose
                  \/ Read /\ Reads!DashboardTick
                  \/ Filled /\ Romm!Removed)
    /\ WF_allVars(Shown /\ LogOutFinished)

MCSpec == MCInit /\ [][MCNext]_allVars /\ MCFairness

------------------------------------------------------------------------------
(* The components' properties, under the names they give them *)

\* The types of all the parts' variables.
MCTypeOK ==
    /\ TypeOK /\ Shell!TypeOK /\ Reads!TypeOK
    /\ Romm!TypeOK /\ Cards!TypeOK

\* RommForm: the form is unlocked again after every request.
BusyEnds == Romm!BusyEnds

\* LauncherShell: the launch overlay is up exactly while one request is out or one
\* timer runs; the pad's owner is behind the compositor's focus only after a loss that
\* came while a session was being asked about or started, and the launcher is never
\* left deaf in a window that has the focus; the caret is in a field the page draws;
\* and the tile menu and the library's ring are the library's.  The top bar's cursor
\* and the filter drawer are left out: both can be held by a page that draws neither.
PadMeetsScreen == Shell!PadMeetsScreen

\* LauncherShell: back leaves one surface and no more, except over a launch in
\* flight, a sign-in being answered and the bare dashboard, where it does nothing;
\* and the overlay of a launch always goes, or turns into a message that can be
\* dismissed.
WayOut == Shell!WayOut

\* LauncherReads: a flag that holds other reads back is backed by the one read that
\* is out and will be drawn or retried, and what is drawn falls behind the daemon
\* only while a read, an event or a feed that will say it was down is on its way.
\* Four kinds of change escape it: one before the daemon listens for a feed that
\* connects, one whose event a slow feed skipped, one that is not announced, and one
\* announced while the answer of a retry, read before it, is still on its way.
ReadsAreBacked == Reads!ReadsAreBacked

\* LauncherReads: an answer that was overtaken is never drawn over a newer one, and
\* whatever the feed and the reads did, a dashboard that stays up ends on the
\* daemon's rails: the tick is the floor under the feed.
DrawnCatchesUp == Reads!DrawnCatchesUp

\* RommForm: a form that says it is working has a request out that will end it, a
\* code on screen is being polled for, and the caret is never left in a dialog that
\* is gone, which would hand the pad to a keyboard nothing is typing into.
FormIsLive == Romm!FormIsLive

\* SettingsCards: "A request in flight owns the flow: a second press is how a link
\* gets asked for twice": the Stremio card is busy exactly while one request is out,
\* a code on screen has a chain that will take it down, and the BIOS fetch and the
\* core install never run together.
CardsAreLive == Cards!CardsAreLive
==============================================================================

# Hearthdeck in TLA+

Hearthdeck turns a Linux machine into a console: a launcher driven by game
controllers, the services behind it, and an overlay that appears over whatever
runs. This directory models the parts of it in which several processes, tasks or
devices act at once. `PROJECT.json` maps every definition to the lines of code
it stands for.

## The system

| Part | State | Operations | Talks to |
|---|---|---|---|
| **Bridge** (`hearthdeck-bridge`) | map of managed sessions, one record file per session, input profile | launch, stop one, stop active, look up active, load at startup | systemd, the input service, the daemon |
| **Daemon: sessions** (`sessions.rs`, `activity.rs`) | `play_sessions` table | launch, stop, watcher tick, startup sweep | the bridge, clients through events |
| **Daemon: provider workers** (`provider_worker.rs`, `discovery.rs`) | running/queued flags, health, catalog rows | enqueue, timer, one discovery | remote libraries, the catalog |
| **Daemon: account links** (`romm_link`, `stremio`, `tmdb`) | stored credentials, pairing in progress | start, poll, cancel, unlink | remote services, the workers |
| **Daemon: categorisation** (`categorizer.rs`) | scan slot, reports, model download | enable, disable, scan, publish | the AI engine, the catalog |
| **Daemon: catalog, collections, pairing, settings** | SQLite tables | replace a source, edit collections, claim a code | every client |
| **Input broker** (`hearthdeck-input`) | connections, owner, capture, open and grabbed devices, keyboard process | connect, close, scan, poll, deliver, open keyboard | launcher, overlay, bridge, compositor |
| **Input ownership** (`ownership.rs`) | per pad: held, armed, chords, repeat | edge, tick, change of owner | inside the broker |
| **Input mapping** (`mapping.rs`) | pressed sources, key counts, stick | edge, Guide, unplug, tick | the virtual keyboard |
| **Launcher** (`hearthdeck-frontend`) | screens, pending requests, delivery it asks the broker for | messages, answers, daemon events | daemon, broker |
| **Overlay** (`hearthdeck-overlay`) | menu state, pending close | toggle, navigate, close application | daemon, broker |

What makes it hard: the bridge persists between awaits and may die at any of
them; systemd may not answer; the daemon's watcher and its request handlers share
nothing but the database; a client's request is dropped at whatever await it has
reached when the client hangs up; the owner of the controllers changes while
buttons are down; a poll's signals are delivered one by one while each delivery
may change who owns the controllers.

## Modules

| Module | Models | Proofs |
|---|---|---|
| `SessionSlot` | what the bridge promises: one slot for one session | – |
| `BridgeSessions` | `bridge/src/main.rs`, `systemd.rs`, `input.rs` | `PartProofs` |
| `PlaySessions` | `daemon/src/sessions.rs`, `activity.rs`, `bridge.rs` | `LaunchProofs` |
| `InputSignals` | the vocabulary of the ownership machine and the broker | – |
| `InputOwnership` | `input/src/ownership.rs` | `PartProofs` |
| `InputMapper` | `input/src/mapping.rs` as `broker.rs` drives it | `PartProofs` |
| `InputBroker` | `input/src/broker.rs`, `protocol/src/input.rs` | `InputBrokerProofs` |
| `ServiceAccounts` | `daemon/src/provider_worker.rs`, `discovery.rs`, `stremio`, `romm_link`, `tmdb` and the two providers that need a credential | `AccountProofs` |
| `Categorizer` | `daemon/src/categorizer.rs`, `categorizer/control.rs`, with the rails and verdicts they write | `HostProofs` |
| `Overlay` | `overlay/src/overlay.rs`, `state.rs`, `broker_input.rs` | `ProgressProofs` |
| `LauncherShell` | `frontend/src/app/`: pages and surfaces, who owns the pad, the one launch, the caret | `LaunchProofs` |
| `LauncherReads` | `frontend/src/app/refresh.rs`, `daemon_events.rs`: reads, retries, the change feed | `LaunchProofs` |
| `ConsoleScopes` | `frontend/src/screens/library/console.rs` and its use in `app/`: pages, searches, prefetch, eviction | `ConsoleProofs` |
| `GameDetails` | `frontend/src/app/details.rs`, `screens/details`: the reads and flag writes of one game's screen | `PartProofs` |
| `RommForm` | `frontend/src/screens/settings/romm.rs` and its tasks | `AccountProofs` |
| `SettingsCards` | `frontend/src/screens/settings/stremio_link.rs`, `readiness.rs` and their tasks | `AccountProofs` |
| `MCHost`, `MCSafety`, `MCProgress` | several of these side by side, for TLC | `HostProofs`, `SafetyProofs`, `ProgressProofs` |
| `MCPlaySessions`, `MCInputBroker`, `MCServiceAccounts` | one of them, with what TLC needs besides | – |

They compose through interfaces. `BridgeSessions` implements `SessionSlot`
(`ImplementsSlot`), and `PlaySessions` takes its bridge to be an instance of
`SessionSlot`, so what is shown of the journal does not depend on how the bridge
works inside. `InputBroker` takes a pad's output to be what
`Producible(owner)` of `InputSignals` allows, and `InputOwnership` shows
(in `HoldsAreExact`) that the ownership machine emits nothing else.

`MCHost`, `MCSafety` and `MCProgress` each put several components in one instance
for TLC, side by side. `part` picks one in the initial state and the others stay as they
are, so such a run explores exactly the union of its components. It is a way to
check them, not a claim about how they interact.

### BridgeSessions

Every request that touches a session holds the transition mutex, so `step` says
where the one request in progress is, and each await is one action. A launch is
`Request`, `Prepare` (look up and prune), `StopOther` and `StopReset` (replace
what is active), `SetProfile`, `LaunchUnit`, `Save`, `Insert`, with
`SyncAfterFailure` and `Undo` on the two error paths. `Poll`, `StopSession` and
`StopActive` are the other requests. Between any two of these an application
exits (`AppExit`) or the bridge dies (`Crash`) and loads its records again
(`Restart`). A query may go unanswered (`unknown` in `QueryActive`), a stop may
fail and still have worked, and with `DiskFaults` writing or removing a record
may fail. `sessions` and `disk` hold a session's profile or `None`. Every input
mode that needs the input service is `"desktop"`.

`orphans` is a history variable: the units whose bridge died after systemd had
started them and before their record was saved. It says precisely which
exception `OneManaged` makes, and it appears in no guard.

Two abstractions: a profile the input service did not get is only logged by the code
and sent again by every poll, so `input` is what the service was last told; and writing
a record either replaces it or leaves it, where a bridge that dies inside `fs::write`
over Heroic's existing record would leave half a file.

### PlaySessions

Launch handlers, stop handlers and the watcher are separate tasks. The bridge's
answer and the database write after it are separate steps, and a handler can be
lost between them (`GiveUp`, `AbandonStop`, `Restart`). `todo` holds the session
ids an actor is about to close. The watcher's copy is filled before it asks what
is active, and the active one is taken out after. A write may fail, as the code
only logs that. A row and the event announcing it are one action: no await
separates them that another task could use to change the row again. A close answers
with the play's source once the row is closed by it, and only then is that source refreshed;
`credit` counts such answers. The event that announces the end does not depend on the
answer: a close that fails announces it too, and the next one again.

### InputOwnership, InputMapper, InputBroker

`InputOwnership` is one pad's state machine with its cases in the order of
`Ownership::button`. `taken`, `alone` and `fired` are history variables. Time is
abstract: any subset of the pending repeats may be due at a tick.

`InputMapper` models the counting of virtual keys together with the conditions
under which `poll` forwards an edge to it, because those conditions are what can
lose a release.

`InputBroker` is one task that runs one event to its end, so an event is one
action, except a poll: its signals are delivered one by one (`Poll`, then
`DeliverAction` or `OpenKeyboard` for each), and between two of them nothing of
the broker runs but devices, peers and the clock go on. Sending to a client may
find its queue full, which disconnects it in mid-delivery. A capture that cannot
have every controller releases those it had; the model takes the result, all or none.

### ServiceAccounts

One account with one service, chosen in `Init` and fixed from then on, because
the three differ only in a few guards. `handler[h]` says at which await a request
is and which code or key it carries. Linking is `StartLink` and `Offer`, then
`PollLink` and one of its three outcomes, then `Save`; a password goes through
`Login` and `Minted`, a typed key through `UpdateSettings`. Unlinking is `Clear`,
`ClearKey`, `ClearRows`, in that order in the code. `Abandon` drops a request
wherever it is: a call failed, or the client hung up. The worker is `Receive`,
`Begin`, the provider's reads (`ReadKey`, `Ask`, `Get`), `Publish` and `Finish`,
with `Fail` for an error or a caught panic in between. A key is a number, what
a service holds is a key and a version, and the service moves on by itself.
TMDB's two lists are one: a refresh that could read one of them only is not told
apart. `faults` bounds failing refreshes and restarts together.

`course` and `unlinked` are history variables. They say of an unlinking whether
it ran `"clean"`, or something that was under way before raced it, or the user has
asked for an account since. No guard reads them.

### Categorizer

A request is one of `Requests` and `tasks[r]` says at which await it is. Publishing
a catalog, asking for a scan, switching on and switching off all end in the same
places: `Claim` takes the one slot, `Run` and `Scan` are the child process, which may
fail or be killed at its timeout, `Save` stores the report, `Release` gives the slot
back and reads whether what was found is still wanted, and only then are rails
(`WriteRails`) and verdicts (`WriteVerdicts`) written, outside the slot. Switching off
stores the setting, marks the running job's result as unwanted (`Discard`), and
removes rails and verdicts one after the other. A switch-off, a removal of the rails, and what
a scan or a detection does before its job is spawned run inside the HTTP handler (`InHandler`), so
the client that hangs up ends them at any await (`HangUp`), with the removals they had not come
to left out. `Restart` ends every request where it is.
The catalog is a version; a report, the rails and the verdicts carry the version they
were made of. `leftover` and `behind` are history variables, and say what escapes the two
properties. `OffIsClean` does not speak of a switch-off that a job outside the slot crossed, that
failed to remove something, or that was cut short by a hang-up or a restart; `RailsFollowReport`
not of a last write that was overtaken by another scan or a removal or failed, of a removal cut
short after it had discarded the running scan, or of a restart with a request in
flight. No guard reads them.

### Overlay

The menu's `status`, the stream to the broker (`link`, `delivery`, `events` still in
its channel), and what is out: calls to close, their hide timers, a log-out. Answers come
in any order relative to the user's steps, so an answer can find the menu dismissed,
reopened, or closing something else. A stream says `Failed` when it ends or when the broker
refuses the capture. The menu is shown by the first `Ready` after it was asked for,
and that may be one the observing stream had sent before: the pads are then asked for and not yet
captured, although `docs/input-ownership.md:62` says "`Ready` acknowledges successful capture".
`MenuIsHonest` therefore says that the pads are asked for, and `MenuResponds` that they come.

### The launcher

`LauncherShell` is `App::update` for what moves between pages: opening and leaving each
page and surface, the ring that Tab and Shift-Tab walk, the caret, focus events of the window, the
poll for an active session, and a launch with its timer and its answer. `swallowed` is a
history variable: a focus loss was ignored. `PadMeetsScreen` leaves two surfaces out. Tab on the
details screen gives the cursor to a top bar that neither it nor the library draws
(`navigation.rs:496`; the comment at 457 speaks of "the page's own chrome"), and a button
confirmed there leaves the library with its filter drawer open. Back leaves the drawer
wherever it is open (`WayOut`), the bar's cursor only on the dashboard. A launch closes the tile menu when it comes from the menu, and may
leave it up when it comes from a click.

`LauncherReads`
follows one resource (the catalog or the collections): reads out, each with what it was served, the retry
chain, the dashboard's own tick, and the feed. The feed hears of changes only once the daemon has
subscribed for it (`FeedSubscribes`), may skip events when it is slow (`FeedLags`, the broadcast
channel's `Lagged`) and may drop with events in it; an edit of a curated collection is not
announced (`EditCollection`). A change that nothing was going to tell of when it was made sets
`missed`, a history variable, until the next read begins. Only the rails on screen are sure to catch up
then, by the dashboard's tick (`DrawnCatchesUp`); the catalog waits for the next event.

`ConsoleScopes` keeps for each scope (a platform, a term, facets) its log of
entries, its generation and the page in flight, with the settling of the search box
and the cache that holds a bounded number of searches. The code stamps a scope with a
counter each time it is used and drops the lowest stamp. The model keeps the order of the
stamps instead, as the relation `older`, and drops what comes first in it. A prefetch
that starts several loads is one action, with the load numbers the loop would
hand out one after the other. A page, the first included, may be empty, and a section may be
entered at any of its tabs. `GameDetails` has two reads and a
write of two calls per flag, answered in any order while the screen moves to another file.
A call that failed may still be carried out later (`late`, `CarryOut`): the launcher's time
limit, or the daemon's towards RomM, says nothing of what the other side does.
`RommForm` and `SettingsCards` are the settings screen, which is read again each time
it opens, so that answers to an earlier opening come back to a later one.

## Runs

| Run | Components | Checks | Bounds |
|---|---|---|---|
| `host` | bridge, categorisation | `OneManaged`, `RecordsAgree`, `ImplementsSlot`, `ProfileHeals`; `SlotIsExact`, `OffIsClean`, `RailsFollowReport`, `SlotIsFreed` | two minted ids and Heroic, 3 launches; two requests, one version |
| `plays` | play sessions | `ClosedOnlyAfterEnd`, `CreditedOnce`, `OpenWhilePlaying`, `EndedPlaysAreClosed` | two plays of their own and a Heroic one, one stop request, repeated |
| `safety` | ownership machine, mapping, bridge with disk faults, console scopes, details | `MCTypeOK`, `HoldsAreExact`, `NothingReplayed`, `NothingStuck`, `DropsOnlyStopped`, `PagesAreExact`, `GridDrawsScope`, `EvictionIsExact`, `FlagsSettle` | one pad with seven controls; two pads, three controls, two keys; two launches; one platform and "all", one term, one kept search, 3 loads; two files, two flags, two presses |
| `broker` | input broker | `CaptureIsExclusive`, `MappingYields`, `ActionsReachOwner`, `CaptureIsReleased` | two connections, one pad, two task slots, two signals a poll |
| `accounts` | account links and worker | `Coalesced`, `UnlinkIsComplete`, `WorkerRecovers`, `LeftoversGo`, `RowsCatchUp` | each service, two requests at a time, two keys, two versions, one fault |
| `progress` | overlay, launcher shell, reads, RomM form, settings cards | `MCTypeOK`, `MenuIsHonest`, `MenuResponds`, `PadMeetsScreen`, `WayOut`, `ReadsAreBacked`, `DrawnCatchesUp`, `FormIsLive`, `BusyEnds`, `CardsAreLive` | one stream event in the channel, two closes, one log-out; one change, two events unheard, one failure, one drop or skip, one load; two requests of a kind, two poll chains, two reads |
| `bridge_orphan` | bridge | `AtMostOneRunning`, **violated** | as in `host` |
| `plays_heroic` | play sessions | `OneRowPerPlay`, **violated** | two Heroic plays |
| `ownership_select` | ownership machine | `FilterPanelAlone`, **violated** | one pad |
| `accounts_late` | account links | `NoLateLink`, **violated** | two requests, one key |
| `romm_chains` | RomM form | `OnePollChain`, **violated** | two requests of a kind, two chains |
| `shell_focus` | launcher shell | `FrontendHasFocus`, **violated** | none |

Several of these are conjunctions whose parts are defined beside them with a
comment each: `HoldsAreExact` is that a chord fires once per hold, a repeat has its
control down, and a pad emits only for its owner; `PadMeetsScreen` that a launch is
timed, the claim on the pads follows the focus except after a loss that was ignored, the caret is
in a field that is drawn, and tile menu and library ring are the library's; and so on. Where a
property has exceptions, its comment names them all, and a history variable marks them.

Why these bounds are enough for the cases that matter: three launches over three
ids let one session replace another that has replaced a third, and let Heroic be
reused. Three plays let a late answer meet a replacement. Seven controls hold every
chord, a move with two controls, an opposite move, and an action that does not repeat;
the pads of `Ownership` do not influence each other. Two pads and a shared key are
what key counting is about. Two connections fill either role twice or both roles
once, and two signals let the delivery of one invalidate the other. Two requests,
two keys and a changing service let a poll or a refresh with an old key meet an
unlinking or a new key, and let the library move between digest and read. Two
categorisation requests let any two cross each other; `Versions` has one element
beside "no catalog yet" in the run, and a larger instance of three requests over two versions
passes the same invariants. One kept search with two terms (none and one) in two tabs makes
every further search evict; narrowing by facet takes the path that narrowing by a term
takes, so `Facets` is empty, and no list is extended after the second load (`LastExtended`); once the third is asked for the section is neither entered nor left and nothing is typed (`LoadsLeft`). A prefetch over a full cache needs more loads than these three; `EvictionStaysExact` covers it. Two presses let a write overtake another, and two files let
its answer come back to the wrong screen; files and flags are interchangeable (`MCSymmetry`). The shell needs no bound. The proofs
below hold without bounds.

`safety` does not check for deadlock: a pad without events, or a grid whose loads
are used up, may stop.

### What the violated runs show

* `bridge_orphan`: a bridge that dies between `systemd-run` and saving the record
  comes back without the session, and the next launch starts a second application
  beside it. The comment at `bridge/src/main.rs:133` says exactly one runs at a time.
* `plays_heroic`: the journal is keyed by the session id, which is `heroic` for every Heroic
  game, and the insert does nothing on a conflict. The second game gets no row,
  where `daemon/src/database.rs:127` says "One row per play".
* `ownership_select`: Select pressed under Guide and released after Guide opens the filter
  drawer, where `docs/input-ownership.md:74` says Select alone does.
* `accounts_late`: a Stremio poll that waits for the service while the account is
  unlinked stores the session when the answer comes. Dropping the pending code
  is meant to prevent that: `daemon/src/stremio.rs:196` says a live code "would let a
  link arrive after the session it belongs to has already been removed".
* `romm_chains`: the settings are opened again while a poll chain runs, which sets
  the form to work; the poll answers "linked", Connect is pressed, and the late answer to
  the read says the form is idle while the link request is out. Connect again, and
  two chains poll, where `frontend/src/screens/settings/romm.rs:147` says "a second
  Connect must not start another".
* `shell_focus`: a window that loses the focus while the launcher asks about a session, or
  starts one, sends `FrontendUnfocused`, which `frontend/src/input_ownership.rs:46` heeds in no
  such state. The answer that no session runs, or that the launch failed, then makes
  the launcher the pad's owner behind another window. `docs/input-ownership.md:36` says "No
  frontend navigation" while an unrelated window has the focus.

### Fairness

* `BridgeSessions`: a request that holds the mutex runs on (weak); systemd
  restarts the bridge (weak, `Restart=` of its unit). The launcher asks for the
  active session every second and tokio's mutex is first come, first served,
  so a poll that systemd answers happens again and again (strong). Without that
  last part a record whose unit is never reported dead keeps its profile.
* `PlaySessions`: the watcher is a loop around a timer (weak); the bridge
  answers it, and the database takes its write, again and again (strong). Nothing
  is assumed of request handlers or of plays.
* `InputBroker`: `select!` picks at random among the ready branches, so a `Closed`
  in the channel is taken (strong), and a poll is synchronous (weak).
* `ServiceAccounts`: the timer ticks for ever and the worker's task runs on (both
  weak). Every call to a service has a timeout, so a refresh ends. That
  refreshes do not fail for ever is the bound on `faults`. Nothing is assumed
  of requests or of the service.
* `Categorizer`: a job that holds the slot runs on (weak): it is a spawned task,
  the child has a timeout and the database answers or fails. The wait for the child's output after
  its exit (`categorizer.rs:436`) is outside that timeout; it ends when the pipe closes, which
  is taken to happen with the child's end. A handler runs on unless its client hangs up.
* `Overlay`, `LauncherShell`, `LauncherReads`, `RommForm`: a request to a service ends in an
  answer or a failure (weak: the client has a timeout), a timer fires (weak), and a
  message in the runtime's channel is taken (weak). In `LauncherReads` the feed connects
  again and the dashboard ticks while it is up (weak: both are loops around a
  timer); that reads and feed do not fail for ever is the bound on `failures` and `drops`. Nothing is
  assumed of the user. `MCProgress` shares one fairness condition between
  parts, which is the same because only one part ever moves.

## Proofs

Every theorem holds for every value of the constants that meets the assumptions
named in the modules. Every safety property a run checks is proved, invariants and
action properties alike. The eight proof modules:

| Module | Proves about |
|---|---|
| `PartProofs` | the bridge; the ownership machine, the mapping and the details screen, as instances `Pad`, `Mapper` and `Game` |
| `ConsoleProofs` | the console grid |
| `SafetyProofs` | the composition `MCSafety` |
| `HostProofs` | categorisation (instance `Jobs`) and the composition `MCHost` |
| `InputBrokerProofs` | the broker |
| `AccountProofs` | accounts and worker; RomM form and settings cards, as `Romm` and `Cards` |
| `LaunchProofs` | the play journal; the launcher's shell and reads, as `Shell` and `Reads` |
| `ProgressProofs` | the overlay and the composition `MCProgress` |

Zenon is the default prover of each module (`USE Zenon`). A leaf that needs arithmetic,
records or sequences names SMT.

**Assumptions.** `BridgeAssumption`, `PlayAssumption`, `BrokerAssumption` and
`AccountAssumption` say that names differ and counts are numbers. `SafetyAssumption` says
the same of `MCSafety`, and that its controllers are finitely many and a game has a
file. The console grid assumes that the "all" tab is no platform (`NamesDiffer`), that a
missing log is no log (`AbsentIsNoLog`), that scopes are finitely many
(`ScopesAreFinite`) and that `MaxPrefetch <= MaxNarrowed` (`LimitsFit`; 3 and 8 in the
code). What is drawn and what is evicted rest on that last relation: were more loads
allowed in flight than searches kept, a prefetch could evict the search on screen.

### Components

**BridgeSessions.** `TypeCorrect` and `OnlyStoppedDropped` need, besides the types,
only `Guarded`: while a request cleans up after a stop, the session it stopped is
not running. With it, each of the three ways a record leaves the map (pruning,
replacing, stopping) is safe under any faults. The other results assume a disk
that works (`DiskFaults = FALSE`) and rest on `OneSlot`: at most one session on
disk, the map equal to the disk except between saving and inserting and while the
bridge is down, and an empty slot (or the same Heroic session) from `SetProfile` to
`Save`. From it follow `SingleTracked`; `BridgeImplementsSlot`, where each action is
matched with a step of `SessionSlot` or a stutter; and `OneApplication`: nothing runs
that cannot be closed, and never two, up to the orphans above.

**PlaySessions.** Three facts are inductive together: `Ended` (whoever knows a
session of its own id knows it from an answer, and who is about to close it has
seen the slot without it — an id cannot come back, because the bridge
has already served its only launch), `Credited` (an end is credited only to a
closed row, and once) and `Written` (a handler leaves a row that only a close ends). They give
`PlaysEndOnlyOnce` and `PlaysStayOpen` for any number of plays, handlers and faults.

**InputOwnership.** `PadInv` adds to `EmitsForOwner` that a pad's repeat is the move of a
control that is down, for an owner that moves (`RepeatInv`), that a Guide hold that has triggered is
marked until Guide is pressed again (`FiredInv`), and that what is held on an armed pad was pressed for
the present owner (`TakenInv`). One lemma lists the outcomes an edge can have
(`Outcomes`), in the order of `Ownership::button`; the invariant is then shown for each
outcome rather than for each pair of control and owner. `HoldsStayExact` follows.
`NothingIsReplayed` is an action property: what a step emits stands on controls that
`taken` has before or after it.

**InputMapper.** `InputIsNeverStuck` assumes finitely many pads and controls (`Mapping`).
The invariant adds to the property that every source of a key is held on a pad
that is armed and not under Guide (`SourcesAreHeld`). The counts are then cardinalities of
sets of sources, and the lemmas `PressIsExact` and `ReleaseIsExact` say what one edge
does to them.

**InputBroker.** `BrokerInv` adds to the properties that registered clients have
said hello, that the owner fits keyboard, capture and clients at every moment
between events (`OwnerFits`), and that all signals still to be delivered can be
produced for that owner (`SignalsFit`). The last is what discarding the rest of a
poll after a change of owner is for. It yields `CaptureHolds`,
`MappingIsLast` and `OnlyOwnerActs` for any connections and controllers.

**ServiceAccounts.** `RefreshesCoalesce` is inductive with the types: a request
sends only when both flags are down, and the worker moves them with itself. For
`UnlinkingIsComplete` the invariant `Unlinking` follows a clean unlinking step by
step: after `Clear` no request is left that can bring an offer or a key, after
`ClearKey` the worker has no key either, and a worker without a key has nothing
to publish (`Keyed` says it never asks without one). Both hold for any number
of requests, keys, versions and faults.

**Categorizer.** `SlotIsExclusive` is inductive once a request that is marked discarded
is known to hold the slot (`DeadHolds`). For `SwitchOffIsComplete` the invariant
`SwitchedOff` says that with the feature off, either a switch-off has yet to
look at the slot, or every job that could still write is discarded and what is stored is
gone or about to be, unless `leftover`. A hang-up in a switch-off sets it. For `RailsAreTheReports`, a scan that was not overtaken holds what the
stored report says (`ScansAreCurrent`), one that waits behind a discarded job was overtaken
(`DiscardedScan`), and rails that differ from the report are about to be replaced
(`RailsPending`). All hold for any number of requests and versions.

**ConsoleScopes.** First, lemmas say what each operation on the cache does: `older` puts
the narrowed scopes in line (`Inline`), so the scopes with fewer than *n* idle ones before
them are exactly the first *n*, which is what the loop in `evict` removes.
`ConsoleInv` is the types and, of the cache:

* `Inline`; a log never loaded is empty (`Blank`); the queue holds tabs, none
  twice (`Queue`); the number of no load, of a log or of a request that is out, is ahead
  of the counter, so the next one is new (`Dated`);
* a log holds one load's entries of its own scope and connection in order (`Pure`);
* a request whose number is still the log's asks for the page that comes next
  (`Answers`), and a log waits exactly while there is one (`Waits`);
* tabs are queued only while enough loads are out (`Moving`), and the grid draws the log
  of the scope on screen (`OnScreen`).

`Dated` is what makes a late answer harmless: after a retirement the same scope gets
a log again, but under a number no earlier request carries. `OnScreen` also says that the
narrowed scope on screen is the last in line, so that an eviction, which leaves
`MaxNarrowed` of them, reaches it last; it would go only if `MaxNarrowed` others were kept for being
loaded, and a prefetch starts nothing unless fewer than `MaxPrefetch` are. The theorems are
`ConsoleIsTyped`, `PagesStayExact`, `GridStaysDrawn` and `EvictionStaysExact`.

**GameDetails.** `GameInv`: a write is known by its number (`Numbered`), a file that takes
no press has a write out (`Answered`), and, unless the second call of a write failed, a call given
up on was carried out after all, or an answer was overtaken, of a file with at most one write out screen, RomM and collections differ
only by what that write is about to do (`Agree`). `FlagsAlwaysSettle` is what remains
of it when no write is out.

**LauncherShell, LauncherReads.** `ScreenInv` needs, besides the parts of `PadMeetsScreen`, only
that the sign-in dialog is on the settings page. `BackLeavesOne` shows that each Back closes exactly one of the
surfaces, by comparing what is open before and after (`ClosesOnly`). For the reads,
`ReadInv` says that at most one read may still be drawn and a retry chain has it, that
an answer served before the latest change is on its way only if that change is going to be
heard of (`BehindIsNoticed`) or was missed, and that this answer is never older than what is drawn
(`InOrder`), which gives `DrawnNeverOlder`. One lemma per step of the feed (`ChangeKeeps`, `EditKeeps`,
`FeedKeeps`, `LagKeeps`, `EventKeeps`) shows that what it takes away was announced otherwise or is marked.

**Overlay, RommForm, SettingsCards.** The parts of `MenuIsHonest` need each other: a menu that works is
on screen, so what hides it must also end the work. The capture follows because every
change of the request starts the stream over. That a wish is asked for, or its failure still
queued (`WishIsAsked`), needs that a queued failure stays until it is handled (`FailureStays`). `FormStaysLive` puts together three results: only
an answer clears `busy` and every answer does; chains share one flag and a code on screen
still has a chain; and what closes the dialog takes the caret with it. `CardsStayLive` is
inductive with the types.

### Compositions

A step of `MCSafety`, `MCHost` or `MCProgress` is a step of one part and leaves the others
alone, so the composition implements every part (`SafetyImplementsParts`,
`HostImplementsBridge` and `HostImplementsJobs`, `ProgressImplementsParts`), and what is proved of a part holds of it:
`GridStaysExact`, `InputStaysExact`, `PressesStayWithOwner`, `DropsStayStopped`,
`FlagsStaySettled` and `SafetyIsTyped`; `PartsStaySafe` and `ProgressIsTyped`. `SafetyProofs` instantiates
`PartProofs` as `Parts`, with a disk that fails. The lemmas whose names end in `Alike`
show that a part reached through `Parts` and the same part of `MCSafety` are one
specification.

### Only model-checked

The liveness properties `ProfileHeals`, `EndedPlaysAreClosed`, `CaptureIsReleased`,
`WorkerRecovers`, `LeftoversGo`, `RowsCatchUp`, `SlotIsFreed`, `MenuResponds`, `WayOut`,
`DrawnCatchesUp` and `BusyEnds`. They depend on fairness, which is outside what the proof
system can reason about.

## Not modelled

* Parsing and translating what other programs hold (desktop entries, Heroic and
  RetroArch configuration, remote libraries, artwork): no state outlives a request.
* Drawing, layout, animation, the geometry of focus (which tile is next); HTTP
  routing; logging.
* Axis normalisation and the size of a pointer step; the interval of a repeat.
* The `launch_activity` shelf and the recent-games queries; the rule language of collections.
* The poll interval within which a RomM poll answers locally; validation of URLs
  and keys.
* Of categorisation: the choice of engine, the download's progress, the status text and the last error.
* Of the overlay: finding the compositor, the toggle command, ending the session client.

## Plan

1. **Rest of the provider workers**: the health record, and the enrichment
   workers, which write to rows that a discovery replaces under them.
2. **Catalog, collections, pairing**: replacing a source under collections that
   name its items; the rule language as operators checked against a reference; a
   code claimed once.
3. **Composition**: launcher and overlay over an abstract broker that `InputBroker` implements.

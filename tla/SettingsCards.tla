----------------------------- MODULE SettingsCards -----------------------------
(***************************************************************************)
(* Two cards of the launcher's settings screen whose requests outlive the  *)
(* press that made them: the Stremio link, with a poll chain per code that *)
(* was asked for, and the emulators' readiness, whose BIOS fetch and core  *)
(* install exclude each other while any number of reads may be out.        *)
(***************************************************************************)
EXTENDS Integers

CONSTANTS MaxReads,     \* bound: reads of one card outstanding
          MaxChains     \* bound: Stremio poll chains

VARIABLES linked,       \* Flow::connection is set
          reading,      \* Flow::reading
          pending,      \* Flow::pending: a code is on screen
          busy,         \* Flow::busy
          starts,       \* start_stremio_link requests out
          unlinks,      \* unlink_stremio requests out
          polls,        \* poll chains running
          reads,        \* reads of the connection out
          publishing,   \* a linked account's rows have been asked for
          report,       \* the readiness report: none, complete, or lacking cores
          syncing,      \* readiness Flow::syncing
          installing,   \* readiness Flow::installing
          syncs,        \* sync_retro_bios requests out
          installs,     \* install_retro_cores requests out
          checks        \* reads of the readiness report out

linkVars == <<linked, reading, pending, busy, starts, unlinks, polls, reads, publishing>>
readyVars == <<report, syncing, installing, syncs, installs, checks>>
vars == <<linkVars, readyVars>>

Reports == {"none", "complete", "lacking"}

TypeOK ==
    /\ linked \in BOOLEAN /\ reading \in BOOLEAN /\ pending \in BOOLEAN /\ busy \in BOOLEAN
    /\ starts \in Nat /\ unlinks \in Nat /\ polls \in Nat /\ reads \in Nat
    /\ publishing \in BOOLEAN
    /\ report \in Reports /\ syncing \in BOOLEAN /\ installing \in BOOLEAN
    /\ syncs \in Nat /\ installs \in Nat /\ checks \in Nat

\* The connection is read at start-up, the report only with the screen.
Init ==
    /\ linked = FALSE /\ reading = TRUE /\ pending = FALSE /\ busy = FALSE
    /\ starts = 0 /\ unlinks = 0 /\ polls = 0 /\ reads = 1 /\ publishing = FALSE
    /\ report = "none" /\ syncing = FALSE /\ installing = FALSE
    /\ syncs = 0 /\ installs = 0 /\ checks = 0

\* OpenSettings asks both cards for a fresh read.
SettingsOpened ==
    /\ reads < MaxReads /\ reads' = reads + 1 /\ reading' = TRUE
    /\ checks < MaxReads /\ checks' = checks + 1
    /\ UNCHANGED <<linked, pending, busy, starts, unlinks, polls, publishing>>
    /\ UNCHANGED <<report, syncing, installing, syncs, installs>>

------------------------------------------------------------------------------
(* The Stremio link *)

\* Offered whenever no request is out, also while a code is being approved.
LinkPressed ==
    /\ ~busy /\ starts + polls < MaxChains
    /\ busy' = TRUE /\ starts' = starts + 1
    /\ UNCHANGED <<linked, reading, pending, unlinks, polls, reads, publishing, readyVars>>

UnlinkPressed ==
    /\ ~busy /\ linked
    /\ busy' = TRUE /\ unlinks' = unlinks + 1
    /\ UNCHANGED <<linked, reading, pending, starts, polls, reads, publishing, readyVars>>

\* link_started: a code and its poll chain, or a refusal.
LinkStarted ==
    /\ starts > 0 /\ starts' = starts - 1 /\ busy' = FALSE
    /\ \/ pending' = TRUE /\ polls' = polls + 1
       \/ UNCHANGED <<pending, polls>>
    /\ UNCHANGED <<linked, reading, unlinks, reads, publishing, readyVars>>

\* link_polled, when it ends the chain: linked, and the rows are published; expired
\* or failed; or the daemon knows of no code, and the connection is read again.
PollEnded ==
    /\ polls > 0 /\ polls' = polls - 1 /\ pending' = FALSE
    /\ \/ linked' = TRUE /\ publishing' = TRUE /\ UNCHANGED <<reading, reads>>
       \/ UNCHANGED <<linked, publishing, reading, reads>>
       \/ /\ reads < MaxReads /\ reads' = reads + 1 /\ reading' = TRUE
          /\ UNCHANGED <<linked, publishing>>
    /\ UNCHANGED <<busy, starts, unlinks, readyVars>>

\* link_polled, while the daemon still waits: the code it names is shown.
PollWaiting ==
    /\ polls > 0 /\ pending' = TRUE
    /\ UNCHANGED <<linked, reading, busy, starts, unlinks, polls, reads, publishing, readyVars>>

\* unlinked: account and code go in one stroke, or the account is kept.
Unlinked ==
    /\ unlinks > 0 /\ unlinks' = unlinks - 1 /\ busy' = FALSE
    /\ (linked' = FALSE /\ pending' = FALSE) \/ UNCHANGED <<linked, pending>>
    /\ UNCHANGED <<reading, starts, polls, reads, publishing, readyVars>>

\* connection_read, of whichever read answers first.
ConnectionLoaded ==
    /\ reads > 0 /\ reads' = reads - 1 /\ reading' = FALSE
    /\ linked' \in BOOLEAN \/ UNCHANGED linked
    /\ UNCHANGED <<pending, busy, starts, unlinks, polls, publishing, readyVars>>

SourceRefreshed ==
    /\ publishing /\ publishing' = FALSE
    /\ UNCHANGED <<linked, reading, pending, busy, starts, unlinks, polls, reads, readyVars>>

------------------------------------------------------------------------------
(* The emulators' readiness *)

\* The three buttons are drawn with the report and wait for both requests.
Idle == report # "none" /\ ~syncing /\ ~installing

RefreshPressed ==
    /\ Idle /\ checks < MaxReads /\ checks' = checks + 1
    /\ UNCHANGED <<linkVars, report, syncing, installing, syncs, installs>>

SyncPressed ==
    /\ Idle /\ syncing' = TRUE /\ syncs' = syncs + 1
    /\ UNCHANGED <<linkVars, report, installing, installs, checks>>

\* Mutant: the install button does not wait for a fetch.
InstallPressedAnyway ==
    /\ report = "lacking" /\ ~installing /\ installing' = TRUE /\ installs' = installs + 1
    /\ UNCHANGED <<linkVars, report, syncing, syncs, checks>>

InstallPressed ==
    /\ Idle /\ report = "lacking" /\ installing' = TRUE /\ installs' = installs + 1
    /\ UNCHANGED <<linkVars, report, syncing, syncs, checks>>

\* BiosSynced brings a report of its own, or fails and keeps the one there is.
BiosSynced ==
    /\ syncs > 0 /\ syncs' = syncs - 1 /\ syncing' = FALSE
    /\ report' \in Reports \ {"none"} \/ UNCHANGED report
    /\ UNCHANGED <<linkVars, installing, installs, checks>>

\* CoresInstalled reads the report again, whatever came of it.
CoresInstalled ==
    /\ installs > 0 /\ installs' = installs - 1 /\ installing' = FALSE
    /\ checks < MaxReads /\ checks' = checks + 1
    /\ UNCHANGED <<linkVars, report, syncing, syncs>>

ReportLoaded ==
    /\ checks > 0 /\ checks' = checks - 1
    /\ report' \in Reports \ {"none"} \/ UNCHANGED report
    /\ UNCHANGED <<linkVars, syncing, installing, syncs, installs>>

Next ==
    \/ SettingsOpened
    \/ LinkPressed \/ UnlinkPressed \/ LinkStarted \/ PollEnded \/ PollWaiting
    \/ Unlinked \/ ConnectionLoaded \/ SourceRefreshed
    \/ RefreshPressed \/ SyncPressed \/ InstallPressed
    \/ BiosSynced \/ CoresInstalled \/ ReportLoaded

Spec == Init /\ [][Next]_vars

------------------------------------------------------------------------------
(* Properties *)

\* "A request in flight owns the flow: a second press is how a link gets asked
\* for twice": the Stremio card is busy exactly while one request is out.
OneLinkRequest == starts + unlinks = IF busy THEN 1 ELSE 0

\* A code on screen has a chain that will take it down, and "checking" a read
\* that will end it, however many chains and reads have been started.
StremioIsWatched == (pending => polls > 0) /\ (reading => reads > 0)

\* The BIOS fetch and the core install never run together, and each flag says
\* exactly that its own request is out: the buttons wait for both.
OneReadinessJob ==
    /\ syncs = (IF syncing THEN 1 ELSE 0) /\ installs = (IF installing THEN 1 ELSE 0)
    /\ syncs + installs <= 1

\* The flags that lock the two cards' buttons are exactly the requests that will
\* unlock them.
CardsAreLive == OneLinkRequest /\ StremioIsWatched /\ OneReadinessJob
================================================================================

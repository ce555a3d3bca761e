---------------------------- MODULE BridgeSessions ----------------------------
(***************************************************************************)
(* The bridge's managed sessions: the map it keeps in memory, the records  *)
(* it keeps on disk, the systemd units behind them, and the input profile  *)
(* it sends to the input service.  Every request that touches a session    *)
(* holds the transition mutex from its first await to its last, so at most *)
(* one is in progress; what interleaves with its steps is applications     *)
(* exiting, systemd and the disk failing, and the bridge itself crashing.  *)
(***************************************************************************)
EXTENDS Naturals

CONSTANTS Uuids,        \* session ids the daemon mints, one per launch
          Heroic,       \* HEROIC_SESSION_ID, shared by every Heroic game
          None,
          MaxLaunches,  \* bound on launch requests; it also bounds record times
          DiskFaults    \* whether writing or removing a record may fail

SessionIds == Uuids \cup {Heroic}

\* "desktop" stands for every mode that needs the input service (the desktop
\* profile and RetroArch's keyboard), "native" for the default that needs none.
Profiles == {"native", "desktop"}

ASSUME BridgeAssumption ==
    /\ Heroic \notin Uuids
    /\ None \notin SessionIds \cup Profiles
    /\ MaxLaunches \in Nat
    /\ DiskFaults \in BOOLEAN

VARIABLES sessions,     \* the in-memory map: the record's profile, or None
          disk,         \* the record files: the profile in them, or None
          stamp,        \* modification time of each record file
          running,      \* units (or scopes they escaped into) that are active
          profile,      \* the profile the input service was last given
          step,         \* where the request holding the transition mutex is
          req,          \* that request: the session it launches, its profile
          target,       \* the session it is stopping
          minted,       \* session ids the daemon has used; it never repeats one
          launches,     \* launch requests so far; the clock of stamp
          orphans       \* history: units whose bridge died before saving their record

vars == <<sessions, disk, stamp, running, profile, step, req, target, minted, launches, orphans>>

Steps == {"idle", "prepare", "stopOther", "stopReset", "profile", "launch",
          "sync", "save", "undo", "insert", "stopUnit", "stopClean", "down"}

TypeOK ==
    /\ sessions \in [SessionIds -> Profiles \cup {None}]
    /\ disk \in [SessionIds -> Profiles \cup {None}]
    /\ stamp \in [SessionIds -> Nat]
    /\ running \subseteq SessionIds
    /\ profile \in Profiles
    /\ step \in Steps
    /\ req \in [id : SessionIds, profile : Profiles]
    /\ target \in SessionIds \cup {None}
    /\ minted \subseteq Uuids
    /\ launches \in Nat
    /\ orphans \subseteq SessionIds

Tracked == {i \in SessionIds : sessions[i] # None}
OnDisk == {i \in SessionIds : disk[i] # None}

Init ==
    /\ sessions = [i \in SessionIds |-> None]
    /\ disk = [i \in SessionIds |-> None]
    /\ stamp = [i \in SessionIds |-> 0]
    /\ running = {}
    /\ profile = "native"
    /\ step = "idle"
    /\ req = [id |-> Heroic, profile |-> "native"]
    /\ target = None
    /\ minted = {} /\ orphans = {}
    /\ launches = 0

------------------------------------------------------------------------------
(* Helpers *)

Without(records, ids) ==
    [i \in SessionIds |-> IF i \in ids THEN None ELSE records[i]]

\* Removing record files may fail and leave some of them behind; the bridge
\* only logs that.
RemoveRecords(ids) ==
    \E left \in IF DiskFaults THEN SUBSET ids ELSE {{}} :
        disk' = Without(disk, ids \ left)

\* A record whose file cannot be read counts as the oldest.
RecordTime(i) == IF disk[i] = None THEN 0 ELSE stamp[i]

\* The newest record wins, whatever order the map lists them in.  Records with
\* the same time are told apart by id; ids have no order here, so any of them.
IsActive(i, candidates) ==
    IF candidates = {} THEN i = None
    ELSE /\ i \in candidates
         /\ \A j \in candidates : RecordTime(j) <= RecordTime(i)

\* Mutant: an unanswered query counts as "not running".
GoneOnError(unknown) == (Tracked \ running) \cup unknown

\* Every tracked unit is queried, and any may go unanswered.  Only a definite
\* "not running" prunes the record; an error keeps it, as stopping goes through
\* that very record.
Gone(unknown) == (Tracked \ running) \ unknown

\* Ask for the active session, pruning the dead ones; it is left in active.
QueryActive(active) ==
    \E unknown \in SUBSET Tracked :
        /\ IsActive(active, Tracked \ Gone(unknown))
        /\ sessions' = Without(sessions, Gone(unknown))
        /\ RemoveRecords(Gone(unknown))

\* A Heroic game launched while Heroic holds the slot reuses it.
ShouldReplace(new, active) == ~(new = Heroic /\ active = Heroic)

\* stop_application: success has been verified, failure may still have stopped
\* the unit (the verifying query failed).
StopSucceeds(id) == running' = running \ {id}
StopFails(id) == running' \in {running, running \ {id}}

\* The profile of the active session is sent again; "native" always gets
\* through (its failures are ignored), anything else may be refused.
SyncProfile(active) ==
    LET wanted == IF active = None THEN "native" ELSE sessions[active]
    IN  profile' \in {wanted} \cup (IF wanted = "native" THEN {} ELSE {profile})

------------------------------------------------------------------------------
(* A launch, from the request to its answer *)

Request(id, p) ==
    /\ step = "idle"
    /\ launches < MaxLaunches
    /\ id \notin minted
    /\ minted' = minted \cup ({id} \ {Heroic})
    /\ launches' = launches + 1
    /\ req' = [id |-> id, profile |-> p]
    /\ step' = "prepare"
    /\ UNCHANGED <<sessions, disk, stamp, running, profile, target, orphans>>

\* stop_other_active_sessions, up to the decision whether to stop something.
Prepare ==
    /\ step = "prepare"
    /\ \E active \in SessionIds \cup {None} :
        /\ QueryActive(active)
        /\ IF active # None /\ ShouldReplace(req.id, active)
           THEN target' = active /\ step' = "stopOther"
           ELSE target' = None /\ step' = "profile"
    /\ UNCHANGED <<stamp, running, profile, req, minted, launches, orphans>>

\* Mutant: a failed stop does not refuse the launch.
StopOtherUnchecked ==
    /\ step = "stopOther"
    /\ StopSucceeds(target) \/ StopFails(target)
    /\ step' = "stopReset"
    /\ UNCHANGED <<sessions, disk, stamp, profile, req, target, minted, launches, orphans>>

\* A previous application that will not stop refuses the launch.
StopOther ==
    /\ step = "stopOther"
    /\ \/ StopSucceeds(target) /\ step' = "stopReset"
       \/ StopFails(target) /\ step' = "idle"
    /\ UNCHANGED <<sessions, disk, stamp, profile, req, target, minted, launches, orphans>>

\* Mutant: the replaced session's record file stays.
StopResetKeepsFile ==
    /\ step = "stopReset"
    /\ profile' = "native"
    /\ sessions' = Without(sessions, {target})
    /\ step' = "profile"
    /\ UNCHANGED <<disk, stamp, running, req, target, minted, launches, orphans>>

StopReset ==
    /\ step = "stopReset"
    /\ profile' = "native"
    /\ sessions' = Without(sessions, {target})
    /\ RemoveRecords({target})
    /\ step' = "profile"
    /\ UNCHANGED <<stamp, running, req, target, minted, launches, orphans>>

\* The profile is set before the application starts, or the launch is refused.
SetProfile ==
    /\ step = "profile"
    /\ \/ profile' = req.profile /\ step' = "launch"
       \/ req.profile # "native" /\ step' = "idle" /\ UNCHANGED profile
    /\ UNCHANGED <<sessions, disk, stamp, running, req, target, minted, launches, orphans>>

LaunchUnit ==
    /\ step = "launch"
    /\ \/ running' = running \cup {req.id} /\ step' = "save"
       \/ UNCHANGED running /\ step' = "sync"
    /\ UNCHANGED <<sessions, disk, stamp, profile, req, target, minted, launches, orphans>>

\* A unit that did not start: the profile goes back to what is still active.
SyncAfterFailure ==
    /\ step = "sync"
    /\ \E active \in SessionIds \cup {None} : QueryActive(active) /\ SyncProfile(active)
    /\ step' = "idle"
    /\ UNCHANGED <<stamp, running, req, target, minted, launches, orphans>>

\* write, then set_permissions: a failure leaves the old file, a broken one
\* (which loading ignores) or the whole new one.
Save ==
    /\ step = "save"
    /\ \/ /\ disk' = [disk EXCEPT ![req.id] = req.profile]
          /\ step' = "insert"
       \/ /\ DiskFaults
          /\ \E content \in {disk[req.id], None, req.profile} :
                disk' = [disk EXCEPT ![req.id] = content]
          /\ step' = "undo"
    /\ stamp' = [stamp EXCEPT ![req.id] = launches]
    /\ orphans' = orphans \ {req.id}
    /\ UNCHANGED <<sessions, running, profile, req, target, minted, launches>>

\* An unrecorded launch is undone; whether that worked is not looked at.
Undo ==
    /\ step = "undo"
    /\ StopSucceeds(req.id) \/ StopFails(req.id)
    /\ profile' = "native"
    /\ step' = "idle"
    /\ UNCHANGED <<sessions, disk, stamp, req, target, minted, launches, orphans>>

\* LaunchAccepted.
Insert ==
    /\ step = "insert"
    /\ sessions' = [sessions EXCEPT ![req.id] = req.profile]
    /\ step' = "idle"
    /\ UNCHANGED <<disk, stamp, running, profile, req, target, minted, launches, orphans>>

------------------------------------------------------------------------------
(* Looking up and stopping sessions *)

\* Mutant: the lookup does not repair the profile.
PollWithoutSync ==
    /\ step = "idle"
    /\ \E active \in SessionIds \cup {None} : QueryActive(active)
    /\ UNCHANGED <<stamp, running, profile, step, req, target, minted, launches, orphans>>

\* ActiveApplicationSession: the launcher polls it, and it repairs the profile.
Poll ==
    /\ step = "idle"
    /\ \E active \in SessionIds \cup {None} : QueryActive(active) /\ SyncProfile(active)
    /\ UNCHANGED <<stamp, running, step, req, target, minted, launches, orphans>>

\* StopApplicationSession of a tracked id (another id is only answered NotFound).
StopSession(id) ==
    /\ step = "idle"
    /\ id \in Tracked
    /\ target' = id
    /\ step' = "stopUnit"
    /\ UNCHANGED <<sessions, disk, stamp, running, profile, req, minted, launches, orphans>>

\* StopActiveApplicationSession, which prunes before it answers NotFound.
StopActive ==
    /\ step = "idle"
    /\ \E active \in SessionIds \cup {None} :
        /\ QueryActive(active)
        /\ target' = active
        /\ step' = IF active = None THEN "idle" ELSE "stopUnit"
    /\ UNCHANGED <<stamp, running, profile, req, minted, launches, orphans>>

\* Mutant: the record of a rejected stop is cleaned up as well.
StopUnitUnchecked ==
    /\ step = "stopUnit"
    /\ StopSucceeds(target) \/ StopFails(target)
    /\ step' = "stopClean"
    /\ UNCHANGED <<sessions, disk, stamp, profile, req, target, minted, launches, orphans>>

\* stop_managed_session: a rejected stop keeps the record.
StopUnit ==
    /\ step = "stopUnit"
    /\ \/ StopSucceeds(target) /\ step' = "stopClean"
       \/ StopFails(target) /\ step' = "idle"
    /\ UNCHANGED <<sessions, disk, stamp, profile, req, target, minted, launches, orphans>>

StopClean ==
    /\ step = "stopClean"
    /\ sessions' = Without(sessions, {target})
    /\ RemoveRecords({target})
    /\ profile' = "native"
    /\ step' = "idle"
    /\ UNCHANGED <<stamp, running, req, target, minted, launches, orphans>>

------------------------------------------------------------------------------
(* The environment: applications, and the life of the bridge process *)

AppExit(id) ==
    /\ id \in running
    /\ running' = running \ {id}
    /\ orphans' = orphans \ {id}
    /\ UNCHANGED <<sessions, disk, stamp, profile, step, req, target, minted, launches>>

\* The units belong to systemd and the profile to the input service: both
\* survive the bridge, its map and the request in progress do not.
Crash ==
    /\ step # "down"
    /\ step' = "down"
    /\ sessions' = [i \in SessionIds |-> None]
    /\ orphans' = IF step = "save" THEN orphans \cup ({req.id} \ OnDisk) ELSE orphans
    /\ UNCHANGED <<disk, stamp, running, profile, req, target, minted, launches>>

\* load_managed_sessions.
Restart ==
    /\ step = "down"
    /\ sessions' = disk
    /\ step' = "idle"
    /\ UNCHANGED <<disk, stamp, running, profile, req, target, minted, launches, orphans>>

LaunchStep ==
    \/ Prepare \/ StopOther \/ StopReset \/ SetProfile \/ LaunchUnit
    \/ SyncAfterFailure \/ Save \/ Undo \/ Insert

StopStep == StopUnit \/ StopClean

Next ==
    \/ \E id \in SessionIds, p \in Profiles : Request(id, p)
    \/ LaunchStep
    \/ Poll \/ StopActive \/ StopStep
    \/ \E id \in SessionIds : StopSession(id) \/ AppExit(id)
    \/ Crash \/ Restart

Spec == Init /\ [][Next]_vars

\* tokio's mutex is first come first served and the launcher asks for the
\* active session every second, so its poll is served, and systemd answers it,
\* again and again; a request that holds the mutex runs on, and systemd
\* restarts the bridge.
Fairness ==
    /\ SF_vars(Poll /\ Tracked' \subseteq running)
    /\ WF_vars(LaunchStep \/ StopStep)
    /\ WF_vars(Restart)

FairSpec == Spec /\ Fairness

------------------------------------------------------------------------------
(* What must hold *)

\* "There is structurally at most one tracked session": the map and the record
\* files never name two sessions between them, through crashes and restarts,
\* as long as the disk does what it is asked.
AtMostOneTracked ==
    \A i, j \in Tracked \cup OnDisk : i = j

\* Nothing runs that cannot be closed: an active unit is tracked, or its record
\* is on disk for a bridge that is down, or a launch is about to record it.  The
\* one exception is a unit whose bridge died before it could save the record.
NothingOrphaned ==
    \A i \in running \ orphans :
        \/ i \in Tracked
        \/ step = "down" /\ i \in OnDisk
        \/ step \in {"save", "insert"} /\ i = req.id

\* One application at a time, which is what the launcher is built on: a launch
\* never leaves another one running, but for the same exception.
AtMostOneManaged ==
    \A i, j \in running \ orphans : i = j

\* "Exactly one desktop app, Heroic game, or RetroArch game should be running at
\* a time", without exception.
AtMostOneRunning ==
    \A i, j \in running : i = j

\* A record leaves the map only when its application is not running, whichever
\* of pruning, stopping or replacing removed it and whatever failed meanwhile.
DropsOnlyStopped ==
    [][step' # "down" => \A i \in Tracked : i \notin Tracked' => i \notin running']_vars

\* An accepted launch survives a restart: whatever the map holds is on disk.
TrackedIsOnDisk ==
    \A i \in Tracked : i \in OnDisk

\* A desktop input profile never outlives the application it was set for: with
\* nothing running it is reset, or something is launched again.
ProfileHeals ==
    (profile = "desktop" /\ running = {}) ~> (profile = "native" \/ running # {})

\* The slot every other part of the system sees.
Slot ==
    IF Tracked \cup OnDisk = {} THEN None
    ELSE CHOOSE i \in Tracked \cup OnDisk : TRUE

Abstract == INSTANCE SessionSlot WITH slot <- Slot

\* Seen through the slot, the bridge with its steps, failures and crashes does
\* nothing that the one-slot specification does not allow.
ImplementsSlot == Abstract!SlotSpec

\* At most one application the bridge manages runs, and it can be closed.
OneManaged == NothingOrphaned /\ AtMostOneManaged

\* Map and record files agree on one session.
RecordsAgree == AtMostOneTracked /\ TrackedIsOnDisk
==============================================================================

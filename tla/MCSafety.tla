------------------------------- MODULE MCSafety -------------------------------
(***************************************************************************)
(* Components whose properties are all safety properties, for TLC, side by *)
(* side: the input service's two per-controller machines, the bridge's     *)
(* session records on a disk that fails, the launcher's console grid and   *)
(* its details screen.  part says which of the five a behaviour is about;  *)
(* the others keep their initial state.                                    *)
(***************************************************************************)
EXTENDS ConsoleScopes, TLC

CONSTANTS Pads, Controls, None,         \* of InputOwnership
          MapPads,                      \* controllers of the mapper's instance
          Uuids, Heroic, MaxLaunches,   \* of BridgeSessions
          Files, Flags, MaxPresses, MaxReads            \* of GameDetails

\* What the components assume of their constants, and that controllers are finitely
\* many and a game has a file.
ASSUME SafetyAssumption ==
    /\ Heroic \notin Uuids /\ None \notin Uuids \cup {Heroic, "native", "desktop"}
    /\ MaxLaunches \in Nat
    /\ IsFiniteSet(MapPads) /\ Files # {}

VARIABLES part,     \* "ownership", "mapper", "disk", "console" or "details"
          owner, held, armed, guideUsed, selectUsed, startUsed, repeat, signals, taken, alone, fired,
          active, mapHeld, guide, mapArmed, sources, counts, stick, down,
          sessions, disk, stamp, running, profile, step, req, target, minted, launches, orphans,
          open, rom, shown, pending, picker, reads, writes, stored, member, late, presses,
          asked, torn, crossed

padVars     == <<owner, held, armed, guideUsed, selectUsed, startUsed, repeat, signals, taken,
                 alone, fired>>
mapVars     == <<active, mapHeld, guide, mapArmed, sources, counts, stick, down>>
diskVars    == <<sessions, disk, stamp, running, profile, step, req, target, minted, launches,
                 orphans>>
detailVars  == <<open, rom, shown, pending, picker, reads, writes, stored, member, late, presses,
                 asked, torn, crossed>>

\* Two controls share a key, a third has its own.
MapControls == {"DpadLeft", "StickLeft", "South"}
MapKeys == {"Left", "Enter"}
MapOutputFor == [c \in MapControls |-> IF c = "South" THEN "Enter" ELSE "Left"]

\* Bound: no list is extended once this many first pages were asked for.
LastExtended == 2

\* Bound: once every load was asked for, the section is neither entered nor left and
\* nothing is typed: a scope that needs a load could not be shown any more.
LoadsLeft == console.generation < MaxLoads

\* The files of the game on the details screen are interchangeable, and its flags.
MCSymmetry == Permutations(Files) \cup Permutations(Flags)

Pad == INSTANCE InputOwnership
Mapper == INSTANCE InputMapper WITH
              Pads <- MapPads, Controls <- MapControls, Keys <- MapKeys,
              OutputFor <- MapOutputFor, held <- mapHeld, armed <- mapArmed
Disk == INSTANCE BridgeSessions WITH DiskFaults <- TRUE
Game == INSTANCE GameDetails

\* The game starts with none of its flags set.
MCInit ==
    /\ part \in {"ownership", "mapper", "disk", "console", "details"}
    /\ Init /\ Pad!Init /\ Mapper!Init /\ Disk!Init /\ Game!Init
    /\ stored = [r \in Files |-> [f \in Flags |-> "off"]]

Owned  == part = "ownership" /\ UNCHANGED <<part, vars, mapVars, diskVars, detailVars>>
Mapped == part = "mapper" /\ UNCHANGED <<part, vars, padVars, diskVars, detailVars>>
Stored == part = "disk" /\ UNCHANGED <<part, vars, padVars, mapVars, detailVars>>
Drawn  == part = "console" /\ UNCHANGED <<part, padVars, mapVars, diskVars, detailVars>>
Opened == part = "details" /\ UNCHANGED <<part, vars, padVars, mapVars, diskVars>>

MCNext ==
    \/ Owned /\ \E o \in Pad!Owners : Pad!SetOwner(o)
    \/ Owned /\ Pad!Suspend
    \/ Owned /\ Pad!Tick
    \/ Owned /\ \E p \in Pads : Pad!Reopen(p)
    \/ Owned /\ \E p \in Pads, c \in Controls, enabled \in BOOLEAN : Pad!Button(p, c, enabled)
    \/ Mapped /\ Mapper!ChangeOwner
    \/ Mapped /\ Mapper!Refused
    \/ Mapped /\ Mapper!Tick
    \/ Mapped /\ \E p \in MapPads : Mapper!GuidePress(p)
    \/ Mapped /\ \E p \in MapPads : Mapper!GuideRelease(p)
    \/ Mapped /\ \E p \in MapPads : Mapper!StickEdge(p)
    \/ Mapped /\ \E p \in MapPads : Mapper!Unplug(p)
    \/ Mapped /\ \E p \in MapPads, c \in MapControls : Mapper!Edge(p, c)
    \/ Stored /\ \E id \in Disk!SessionIds, p \in Disk!Profiles : Disk!Request(id, p)
    \/ Stored /\ Disk!Prepare
    \/ Stored /\ Disk!StopOther
    \/ Stored /\ Disk!StopReset
    \/ Stored /\ Disk!SetProfile
    \/ Stored /\ Disk!LaunchUnit
    \/ Stored /\ Disk!SyncAfterFailure
    \/ Stored /\ Disk!Save
    \/ Stored /\ Disk!Undo
    \/ Stored /\ Disk!Insert
    \/ Stored /\ Disk!Poll
    \/ Stored /\ Disk!StopActive
    \/ Stored /\ Disk!StopUnit
    \/ Stored /\ Disk!StopClean
    \/ Stored /\ \E id \in Disk!SessionIds : Disk!StopSession(id)
    \/ Stored /\ \E id \in Disk!SessionIds : Disk!AppExit(id)
    \/ Stored /\ Disk!Crash
    \/ Stored /\ Disk!Restart
    \/ Drawn /\ LoadsLeft /\ EnterSection
    \/ Drawn /\ LoadsLeft /\ LeaveSection
    \/ Drawn /\ SelectFacet
    \/ Drawn /\ SearchSettled
    \/ Drawn /\ \E p \in Platforms \cup {All} : SelectTab(p)
    \/ Drawn /\ LoadsLeft /\ \E t \in Terms : Type(t)
    \/ Drawn /\ console.generation < LastExtended /\ GridScrolled
    \/ Drawn /\ FeedResumed
    \/ Drawn /\ ConnectionChanged
    \/ Drawn /\ Refilter
    \/ Drawn /\ \E r \in sent : PageLoaded(r)
    \/ Drawn /\ \E r \in sent : PageFailed(r)
    \/ Drawn /\ \E ps \in SUBSET Platforms :
                    \E o \in Orders(Unqueued(console, ps)) : ConsolesLoaded(ps, o)
    \/ Opened /\ \E r \in Files : Game!OpenDetails(r)
    \/ Opened /\ Game!CloseDetails
    \/ Opened /\ Game!TogglePicker
    \/ Opened /\ \E r \in Files : Game!SelectDisc(r)
    \/ Opened /\ \E f \in Flags : Game!FlagPressed(f)
    \/ Opened /\ \E q \in reads : Game!ServeRead(q)
    \/ Opened /\ \E w \in writes : Game!WriteFlag(w)
    \/ Opened /\ \E w \in writes : Game!WriteMember(w)
    \/ Opened /\ \E w \in late : Game!CarryOut(w)
    \/ Opened /\ \E q \in reads : Game!Loaded(q)
    \/ Opened /\ \E w \in writes : Game!FlagWritten(w)

MCSpec == MCInit /\ [][MCNext]_<<part, vars, padVars, mapVars, diskVars, detailVars>>

------------------------------------------------------------------------------
(* The components' properties, under the names they give them *)

\* The types of the variables of the part at hand.
MCTypeOK ==
    CASE part = "ownership" -> Pad!TypeOK
      [] part = "mapper"    -> Mapper!TypeOK
      [] part = "disk"      -> Disk!TypeOK
      [] part = "console"   -> TypeOK
      [] part = "details"   -> Game!TypeOK

\* InputOwnership: "Never replay buffered presses into a newly active surface":
\* whatever a press, a release or a repeat emits stands for controls pressed for
\* this very owner, after the pad had been neutral.
NothingReplayed == Pad!NothingReplayed

\* BridgeSessions: a record leaves the map only when its application is not running,
\* whichever of pruning, stopping or replacing removed it and whatever failed
\* meanwhile.
DropsOnlyStopped == Disk!DropsOnlyStopped

\* InputOwnership: a Guide hold opens the keyboard or toggles the overlay once and
\* never both, a move repeats only while a control for it is down, and an owner is
\* given only what it may act on.
HoldsAreExact == Pad!HoldsAreExact

\* InputMapper: "Applications do not retain stuck input": a key the virtual keyboard
\* reports is pressed by a control physically down on an armed pad with Guide up, a
\* shared key stays down exactly until its last control is released, and the pointer
\* moves only for an armed pad with Guide up.
NothingStuck == Mapper!NothingStuck

\* GameDetails: a file that takes no press has a write out whose answer will free it,
\* and once its requests are answered the screen shows what RomM stored and the
\* dashboard's collections agree, unless the second call of a write failed, one given
\* up on was carried out after all, or an answer was overtaken by a later write.
FlagsSettle == Game!FlagsSettle
==============================================================================

----------------------------- MODULE SafetyProofs -----------------------------
(***************************************************************************)
(* Proofs about the composition of MCSafety: each of its parts does what   *)
(* its own component does, so what is proved of the components holds of it *)
(* (PartProofs and, for the console grid, ConsoleProofs).                  *)
(***************************************************************************)
EXTENDS MCSafety, ConsoleProofs

\* A step of the composition is a step of one part, and leaves the others alone.
LEMMA OnePartSteps ==
    ASSUME MCNext
    PROVE  \/ Owned /\ Pad!Next
           \/ Mapped /\ Mapper!Next
           \/ Stored /\ Disk!Next
           \/ Drawn /\ Next
           \/ Opened /\ Game!Next
BY Zenon
   DEF MCNext, Pad!Next, Mapper!Next, Disk!Next, Disk!LaunchStep, Disk!StopStep, Next, Game!Next

\* A part the composition leaves alone stutters.
LEMMA PartVars ==
    /\ UNCHANGED padVars => UNCHANGED Pad!vars
    /\ UNCHANGED mapVars => UNCHANGED Mapper!vars
    /\ UNCHANGED diskVars => UNCHANGED Disk!vars
    /\ UNCHANGED detailVars => UNCHANGED Game!vars
BY DEF padVars, Pad!vars, mapVars, Mapper!vars, diskVars, Disk!vars, detailVars, Game!vars,
       Game!screen, Game!remote

\* The composition implements every part.
THEOREM SafetyImplementsParts ==
    MCSpec => Spec /\ Pad!Spec /\ Mapper!Spec /\ Disk!Spec /\ Game!Spec
<1>1. MCInit => Init /\ Pad!Init /\ Mapper!Init /\ Disk!Init /\ Game!Init
  BY DEF MCInit
<1>2. [MCNext]_<<part, vars, padVars, mapVars, diskVars, detailVars>> =>
          /\ [Next]_vars
          /\ [Pad!Next]_(Pad!vars)
          /\ [Mapper!Next]_(Mapper!vars)
          /\ [Disk!Next]_(Disk!vars)
          /\ [Game!Next]_(Game!vars)
  BY OnePartSteps, PartVars DEF Owned, Mapped, Stored, Drawn, Opened
<1> QED
  BY <1>1, <1>2, PTL DEF MCSpec, Spec, Pad!Spec, Mapper!Spec, Disk!Spec, Game!Spec

\* A behaviour is about one of the five parts.
LEMMA PartIsOne == MCSpec => [](part \in {"ownership", "mapper", "disk", "console", "details"})
<1> DEFINE Which == part \in {"ownership", "mapper", "disk", "console", "details"}
<1>1. MCInit => Which
  BY DEF MCInit
<1>2. Which /\ [MCNext]_<<part, vars, padVars, mapVars, diskVars, detailVars>> => Which'
  BY OnePartSteps DEF Owned, Mapped, Stored, Drawn, Opened
<1> QED
  BY <1>1, <1>2, PTL DEF MCSpec

\* The types of the parts are those of the composition.
LEMMA TypesMeet ==
    ASSUME part \in {"ownership", "mapper", "disk", "console", "details"},
           Pad!TypeOK, Mapper!TypeOK, Disk!TypeOK, TypeOK, Game!TypeOK
    PROVE  MCTypeOK
<1>1. CASE part = "ownership"
  BY <1>1 DEF MCTypeOK
<1>2. CASE part = "mapper"
  BY <1>2 DEF MCTypeOK
<1>3. CASE part = "disk"
  BY <1>3 DEF MCTypeOK
<1>4. CASE part = "console"
  BY <1>4 DEF MCTypeOK
<1>5. CASE part = "details"
  BY <1>5 DEF MCTypeOK
<1> QED
  BY <1>1, <1>2, <1>3, <1>4, <1>5

\* The console grid of the composition holds exact pages, draws the scope it is on, and
\* evicts enough but never what is on screen.
THEOREM GridStaysExact == MCSpec => [](PagesAreExact /\ GridDrawsScope) /\ EvictionIsExact
BY SafetyImplementsParts, PagesStayExact, GridStaysDrawn, EvictionStaysExact, PTL

\* The desktop mapping of the instance maps every control to a key.
LEMMA MappingHolds ==
    IsFiniteSet(MapControls) /\ MapOutputFor \in [MapControls -> MapKeys]
<1>1. IsFiniteSet({"DpadLeft"}) /\ IsFiniteSet({"StickLeft"}) /\ IsFiniteSet({"South"})
  BY FS_Singleton
<1>2. IsFiniteSet({"DpadLeft"} \cup {"StickLeft"})
  BY <1>1, FS_Union
<1>3. IsFiniteSet(({"DpadLeft"} \cup {"StickLeft"}) \cup {"South"})
  BY <1>1, <1>2, FS_Union
<1>4. MapControls = ({"DpadLeft"} \cup {"StickLeft"}) \cup {"South"}
  BY DEF MapControls
<1>5. MapOutputFor \in [MapControls -> MapKeys]
  BY SMT DEF MapOutputFor, MapControls, MapKeys
<1> QED
  BY <1>3, <1>4, <1>5

Parts == INSTANCE PartProofs WITH DiskFaults <- TRUE

\* The parts of the composition are those the proofs are about.
LEMMA PadAlike ==
    /\ Pad!Init => Parts!Pad!Init
    /\ [Pad!Next]_(Pad!vars) => [Parts!Pad!Next]_(Parts!Pad!vars)
    /\ Parts!Pad!TypeOK => Pad!TypeOK
    /\ Parts!Pad!HoldsAreExact => HoldsAreExact
BY Zenon
   DEF Pad!Owners, Pad!Moves, Pad!Actions, Pad!ClassOf, Pad!Producible, Pad!vars, Pad!TypeOK,
       Pad!Init, Pad!ActionOf, Pad!Add, Pad!Suspended, Pad!SetOwner, Pad!Suspend, Pad!Reopen,
       Pad!Unchanged, Pad!GuideEdge, Pad!ChordEdge, Pad!TextEntryEdge, Pad!ActionEdge,
       Pad!FrontendEdge, Pad!Meaning, Pad!Button, Pad!Tick, Pad!Next, Pad!OneTriggerPerHold,
       Pad!RepeatHeld, Pad!EmitsForOwner, Pad!HoldsAreExact, Parts!Pad!Owners, Parts!Pad!Moves,
       Parts!Pad!Actions, Parts!Pad!ClassOf, Parts!Pad!Producible, Parts!Pad!vars,
       Parts!Pad!TypeOK, Parts!Pad!Init, Parts!Pad!ActionOf, Parts!Pad!Add, Parts!Pad!Suspended,
       Parts!Pad!SetOwner, Parts!Pad!Suspend, Parts!Pad!Reopen, Parts!Pad!Unchanged,
       Parts!Pad!GuideEdge, Parts!Pad!ChordEdge, Parts!Pad!TextEntryEdge, Parts!Pad!ActionEdge,
       Parts!Pad!FrontendEdge, Parts!Pad!Meaning, Parts!Pad!Button, Parts!Pad!Tick,
       Parts!Pad!Next, Parts!Pad!OneTriggerPerHold, Parts!Pad!RepeatHeld, Parts!Pad!EmitsForOwner,
       Parts!Pad!HoldsAreExact, HoldsAreExact

\* The two statements about replayed presses are one.
LEMMA ReplayAlike == Parts!Pad!NothingReplayed => NothingReplayed
BY PTL
   DEF Pad!vars, Pad!ActionOf, Pad!Basis, Pad!NothingReplayed, Parts!Pad!vars, Parts!Pad!ActionOf,
       Parts!Pad!Basis, Parts!Pad!NothingReplayed, NothingReplayed

\* The mapper of the composition is the mapper proved correct.
LEMMA MapperAlike ==
    /\ Mapper!Init => Parts!Mapper!Init
    /\ [Mapper!Next]_(Mapper!vars) => [Parts!Mapper!Next]_(Parts!Mapper!vars)
    /\ Parts!Mapper!TypeOK => Mapper!TypeOK
    /\ Parts!Mapper!NothingStuck => NothingStuck
BY Zenon
   DEF Mapper!vars, Mapper!Sources, Mapper!TypeOK, Mapper!Init, Mapper!KeyOf, Mapper!Pressing,
       Mapper!Release, Mapper!Press, Mapper!SetActive, Mapper!ChangeOwner, Mapper!Refused,
       Mapper!Forward, Mapper!Edge, Mapper!GuidePress, Mapper!GuideRelease, Mapper!StickEdge,
       Mapper!Unplug, Mapper!Tick, Mapper!Next, Mapper!NoStuckKeys, Mapper!CountsAreExact,
       Mapper!NoDrift, Mapper!NothingStuck, Mapper!Cardinality, Parts!Mapper!vars,
       Parts!Mapper!Sources, Parts!Mapper!TypeOK, Parts!Mapper!Init, Parts!Mapper!KeyOf,
       Parts!Mapper!Pressing, Parts!Mapper!Release, Parts!Mapper!Press, Parts!Mapper!SetActive,
       Parts!Mapper!ChangeOwner, Parts!Mapper!Refused, Parts!Mapper!Forward, Parts!Mapper!Edge,
       Parts!Mapper!GuidePress, Parts!Mapper!GuideRelease, Parts!Mapper!StickEdge,
       Parts!Mapper!Unplug, Parts!Mapper!Tick, Parts!Mapper!Next, Parts!Mapper!NoStuckKeys,
       Parts!Mapper!CountsAreExact, Parts!Mapper!NoDrift, Parts!Mapper!NothingStuck,
       Parts!Mapper!Cardinality, NothingStuck

\* The session records of the composition are those proved correct.
LEMMA DiskAlike ==
    /\ Disk!Init => Parts!Init
    /\ [Disk!Next]_(Disk!vars) => [Parts!Next]_(Parts!vars)
    /\ Parts!TypeOK => Disk!TypeOK
BY Zenon
   DEF Disk!SessionIds, Disk!Profiles, Disk!vars, Disk!Steps, Disk!TypeOK, Disk!Tracked,
       Disk!OnDisk, Disk!Init, Disk!Without, Disk!RemoveRecords, Disk!RecordTime, Disk!IsActive,
       Disk!Gone, Disk!QueryActive, Disk!ShouldReplace, Disk!StopSucceeds, Disk!StopFails,
       Disk!SyncProfile, Disk!Request, Disk!Prepare, Disk!StopOther, Disk!StopReset,
       Disk!SetProfile, Disk!LaunchUnit, Disk!SyncAfterFailure, Disk!Save, Disk!Undo, Disk!Insert,
       Disk!Poll, Disk!StopSession, Disk!StopActive, Disk!StopUnit, Disk!StopClean, Disk!AppExit,
       Disk!Crash, Disk!Restart, Disk!LaunchStep, Disk!StopStep, Disk!Next, Parts!SessionIds,
       Parts!Profiles, Parts!vars, Parts!Steps, Parts!TypeOK, Parts!Tracked, Parts!OnDisk,
       Parts!Init, Parts!Without, Parts!RemoveRecords, Parts!RecordTime, Parts!IsActive,
       Parts!Gone, Parts!QueryActive, Parts!ShouldReplace, Parts!StopSucceeds, Parts!StopFails,
       Parts!SyncProfile, Parts!Request, Parts!Prepare, Parts!StopOther, Parts!StopReset,
       Parts!SetProfile, Parts!LaunchUnit, Parts!SyncAfterFailure, Parts!Save, Parts!Undo,
       Parts!Insert, Parts!Poll, Parts!StopSession, Parts!StopActive, Parts!StopUnit,
       Parts!StopClean, Parts!AppExit, Parts!Crash, Parts!Restart, Parts!LaunchStep,
       Parts!StopStep, Parts!Next

\* The two statements about dropped records are one.
LEMMA DropsAlike == Parts!DropsOnlyStopped => DropsOnlyStopped
BY PTL
   DEF Disk!SessionIds, Disk!vars, Disk!Tracked, Disk!DropsOnlyStopped, Parts!SessionIds,
       Parts!vars, Parts!Tracked, Parts!DropsOnlyStopped, DropsOnlyStopped

\* The details screen of the composition is the one proved correct.
LEMMA GameAlike ==
    /\ Game!Init => Parts!Game!Init
    /\ [Game!Next]_(Game!vars) => [Parts!Game!Next]_(Parts!Game!vars)
    /\ Parts!Game!TypeOK => Game!TypeOK
    /\ Parts!Game!FlagsSettle => FlagsSettle
BY Zenon
   DEF Game!screen, Game!remote, Game!vars, Game!Unknown, Game!Known, Game!Flipped, Game!NoFlags,
       Game!Init, Game!Read, Game!OpenDetails, Game!CloseDetails, Game!TogglePicker,
       Game!SelectDisc, Game!FlagPressed, Game!ServeRead, Game!WriteFlag, Game!WriteMember,
       Game!CarryOut, Game!Loaded, Game!FlagWritten, Game!Next, Game!TypeOK,
       Game!PendingIsAnswered, Game!ShowsWhatIsStored, Game!RailsMatchFlags, Game!FlagsSettle,
       Game!Cardinality,
       Parts!Game!screen, Parts!Game!remote, Parts!Game!vars, Parts!Game!Unknown,
       Parts!Game!Known, Parts!Game!Flipped, Parts!Game!NoFlags, Parts!Game!Init, Parts!Game!Read,
       Parts!Game!OpenDetails, Parts!Game!CloseDetails, Parts!Game!TogglePicker,
       Parts!Game!SelectDisc, Parts!Game!FlagPressed, Parts!Game!ServeRead, Parts!Game!WriteFlag,
       Parts!Game!WriteMember, Parts!Game!CarryOut, Parts!Game!Loaded, Parts!Game!FlagWritten,
       Parts!Game!Next, Parts!Game!TypeOK, Parts!Game!PendingIsAnswered, Parts!Game!ShowsWhatIsStored,
       Parts!Game!RailsMatchFlags, Parts!Game!FlagsSettle, Parts!Game!Cardinality, FlagsSettle

\* The proofs about the mapping apply to it.
LEMMA MappingIs == Parts!Mapping
BY MappingHolds, SafetyAssumption DEF Parts!Mapping, Parts!IsFiniteSet, IsFiniteSet

\* The bridge's constants are what its proofs assume.
LEMMA BridgeConstants ==
    /\ Heroic \notin Uuids
    /\ None \notin Parts!SessionIds \cup Parts!Profiles
    /\ MaxLaunches \in Nat
    /\ TRUE \in BOOLEAN
BY SafetyAssumption DEF Parts!SessionIds, Parts!Profiles

\* Whatever the input service's machines do, a hold means one thing, and the virtual
\* devices never act on their own.
THEOREM InputStaysExact == MCSpec => [](HoldsAreExact /\ NothingStuck)
<1>1. Parts!Pad!Spec => []Parts!Pad!HoldsAreExact
  BY Parts!HoldsStayExact, BridgeConstants
<1>2. Pad!Spec => []HoldsAreExact
  BY <1>1, PadAlike, PTL DEF Pad!Spec, Parts!Pad!Spec
<1>3. Parts!Mapper!Spec => [](Parts!Mapper!TypeOK /\ Parts!Mapper!NothingStuck)
  BY Parts!InputIsNeverStuck, MappingIs, BridgeConstants
<1>4. Mapper!Spec => []NothingStuck
  BY <1>3, MapperAlike, PTL DEF Mapper!Spec, Parts!Mapper!Spec
<1> QED
  BY <1>2, <1>4, SafetyImplementsParts, PTL

\* Nothing pressed for one owner of the controllers acts on the next.
THEOREM PressesStayWithOwner == MCSpec => NothingReplayed
<1>1. Parts!Pad!Spec => Parts!Pad!NothingReplayed
  BY Parts!NothingIsReplayed, BridgeConstants
<1> QED
  BY <1>1, PadAlike, ReplayAlike, SafetyImplementsParts, PTL DEF Pad!Spec, Parts!Pad!Spec

\* On a disk that fails the bridge still drops only what is not running.
THEOREM DropsStayStopped == MCSpec => DropsOnlyStopped
<1>1. Parts!Spec => Parts!DropsOnlyStopped
  BY Parts!OnlyStoppedDropped, BridgeConstants
<1> QED
  BY <1>1, DiskAlike, DropsAlike, SafetyImplementsParts, PTL DEF Disk!Spec, Parts!Spec

\* For any number of presses, reads and writes a press leaves no dead button and the
\* details screen settles on what RomM stored, unless the second call of a write
\* failed, one given up on was carried out after all, or an answer was overtaken.
THEOREM FlagsStaySettled == MCSpec => []FlagsSettle
<1>1. Parts!Game!Spec => []Parts!Game!FlagsSettle
  BY Parts!FlagsAlwaysSettle, BridgeConstants, SafetyAssumption
<1> QED
  BY <1>1, GameAlike, SafetyImplementsParts, PTL DEF Game!Spec, Parts!Game!Spec

\* Every variable of every part keeps its type.
THEOREM SafetyIsTyped == MCSpec => []MCTypeOK
<1>1. Parts!Pad!Spec => []Parts!Pad!TypeOK
  BY Parts!PadIsTyped, BridgeConstants
<1>2. Parts!Mapper!Spec => [](Parts!Mapper!TypeOK /\ Parts!Mapper!NothingStuck)
  BY Parts!InputIsNeverStuck, MappingIs, BridgeConstants
<1>3. Parts!Spec => []Parts!TypeOK
  BY Parts!TypeCorrect, BridgeConstants
<1>4. Parts!Game!Spec => []Parts!Game!TypeOK
  BY Parts!GameIsTyped, BridgeConstants, SafetyAssumption
<1>5. Pad!Spec => []Pad!TypeOK
  BY <1>1, PadAlike, PTL DEF Pad!Spec, Parts!Pad!Spec
<1>6. Mapper!Spec => []Mapper!TypeOK
  BY <1>2, MapperAlike, PTL DEF Mapper!Spec, Parts!Mapper!Spec
<1>7. Disk!Spec => []Disk!TypeOK
  BY <1>3, DiskAlike, PTL DEF Disk!Spec, Parts!Spec
<1>8. Game!Spec => []Game!TypeOK
  BY <1>4, GameAlike, PTL DEF Game!Spec, Parts!Game!Spec
<1> QED
  BY <1>5, <1>6, <1>7, <1>8, PartIsOne, TypesMeet, SafetyImplementsParts, ConsoleIsTyped, PTL
==============================================================================

------------------------------ MODULE PartProofs ------------------------------
(***************************************************************************)
(* Proofs about the components MCSafety puts side by side, the console     *)
(* grid apart (ConsoleProofs), for every value of their constants.         *)
(*                                                                         *)
(* The bridge's records (BridgeSessions): what survives every fault is     *)
(* Guarded; from it follows DropsOnlyStopped.  While the disk obeys, map   *)
(* and files agree (OneSlot), which gives the single tracked session and   *)
(* the refinement of SessionSlot, also across crashes; and nothing runs    *)
(* unrecorded but what a crash orphaned.                                   *)
(*                                                                         *)
(* What a controller means to its owner (InputOwnership): a hold means one *)
(* thing and nothing pressed for one owner acts on the next.  The desktop  *)
(* mapping (InputMapper): the virtual keyboard holds exactly the keys that *)
(* controls in use press.                                                  *)
(*                                                                         *)
(* The details screen (GameDetails): it settles on what RomM stored.       *)
(***************************************************************************)
EXTENDS BridgeSessions, TLAPS

\* Zenon is the default; the leaves that need arithmetic or records name SMT.
USE Zenon

\* A request about to drop a record has seen its application stop, and a bridge
\* that is down has no map.
Guarded ==
    /\ step \in {"stopOther", "stopReset", "stopUnit", "stopClean"} => target \in SessionIds
    /\ step \in {"stopReset", "stopClean"} => target \notin running
    /\ step = "down" => Tracked = {}

SafeInv == TypeOK /\ Guarded

Records == [SessionIds -> Profiles \cup {None}]

\* Taking records out leaves records.
LEMMA WithoutType ==
    ASSUME NEW r \in Records, NEW ids
    PROVE  Without(r, ids) \in Records
BY DEF Without, Records

\* The session a query leaves is a session or None.
LEMMA QueryTypes ==
    ASSUME TypeOK, NEW active, QueryActive(active)
    PROVE  /\ sessions' \in Records
           /\ disk' \in Records
           /\ active \in SessionIds \cup {None}
<1>1. PICK unknown \in SUBSET Tracked :
        /\ IsActive(active, Tracked \ Gone(unknown))
        /\ sessions' = Without(sessions, Gone(unknown))
        /\ RemoveRecords(Gone(unknown))
  BY DEF QueryActive
<1>2. sessions' \in Records
  BY <1>1, WithoutType DEF TypeOK, Records
<1>3. disk' \in Records
  BY SMT, <1>1, WithoutType DEF TypeOK, Records, RemoveRecords
<1>4. active \in SessionIds \cup {None}
  BY <1>1 DEF IsActive, Tracked
<1> QED
  BY <1>2, <1>3, <1>4

\* What is sent to the input service is a profile.
LEMMA SyncType ==
    ASSUME TypeOK, NEW active \in SessionIds \cup {None}, QueryActive(active), SyncProfile(active)
    PROVE  profile' \in Profiles
<1>1. active # None => sessions[active] \in Profiles \cup {None}
  BY DEF TypeOK
<1>2. active # None => sessions[active] # None
  BY DEF QueryActive, IsActive, Tracked
<1> QED
  BY <1>1, <1>2 DEF SyncProfile, TypeOK, Profiles

\* Type correctness and Guarded hold of the bridge whatever fails around it.
THEOREM SafeInvariance == Spec => []SafeInv
<1>1. Init => SafeInv
  BY SMT, BridgeAssumption
     DEF Init, SafeInv, TypeOK, Guarded, Steps, Profiles, SessionIds, Tracked
<1>2. SafeInv /\ [Next]_vars => SafeInv'
  <2> SUFFICES ASSUME SafeInv, [Next]_vars
               PROVE  SafeInv'
    OBVIOUS
  <2> USE DEF SafeInv
  <2>1. ASSUME NEW id \in SessionIds, NEW p \in Profiles, Request(id, p)
        PROVE  SafeInv'
    BY SMT, <2>1 DEF Request, TypeOK, Guarded, Steps, SessionIds
  <2>2. CASE Prepare
    <3>1. PICK active \in SessionIds \cup {None} :
            /\ QueryActive(active)
            /\ IF active # None /\ ShouldReplace(req.id, active)
               THEN target' = active /\ step' = "stopOther"
               ELSE target' = None /\ step' = "profile"
      BY <2>2 DEF Prepare
    <3>2. sessions' \in Records /\ disk' \in Records
      BY <3>1, QueryTypes
    <3> QED
      BY <2>2, <3>1, <3>2 DEF Prepare, TypeOK, Guarded, Steps, Records
  <2>3. CASE StopOther
    BY <2>3 DEF StopOther, StopSucceeds, StopFails, TypeOK, Guarded, Steps
  <2>4. CASE StopReset
    BY SMT, <2>4, WithoutType
       DEF StopReset, RemoveRecords, TypeOK, Guarded, Steps, Profiles, Records
  <2>5. CASE SetProfile
    BY <2>5 DEF SetProfile, TypeOK, Guarded, Steps
  <2>6. CASE LaunchUnit
    BY <2>6 DEF LaunchUnit, TypeOK, Guarded, Steps
  <2>7. CASE SyncAfterFailure
    <3>1. PICK active \in SessionIds \cup {None} : QueryActive(active) /\ SyncProfile(active)
      BY <2>7 DEF SyncAfterFailure
    <3>2. sessions' \in Records /\ disk' \in Records
      BY <3>1, QueryTypes
    <3>3. profile' \in Profiles
      BY <3>1, SyncType
    <3> QED
      BY <2>7, <3>2, <3>3 DEF SyncAfterFailure, TypeOK, Guarded, Steps, Records
  <2>8. CASE Save
    BY <2>8 DEF Save, TypeOK, Guarded, Steps
  <2>9. CASE Undo
    BY <2>9 DEF Undo, StopSucceeds, StopFails, TypeOK, Guarded, Steps, Profiles
  <2>10. CASE Insert
    BY <2>10 DEF Insert, TypeOK, Guarded, Steps
  <2>11. CASE Poll
    <3>1. PICK active \in SessionIds \cup {None} : QueryActive(active) /\ SyncProfile(active)
      BY <2>11 DEF Poll
    <3>2. sessions' \in Records /\ disk' \in Records
      BY <3>1, QueryTypes
    <3>3. profile' \in Profiles
      BY <3>1, SyncType
    <3> QED
      BY <2>11, <3>2, <3>3 DEF Poll, TypeOK, Guarded, Steps, Records
  <2>12. CASE StopActive
    <3>1. PICK active \in SessionIds \cup {None} :
            /\ QueryActive(active)
            /\ target' = active
            /\ step' = IF active = None THEN "idle" ELSE "stopUnit"
      BY <2>12 DEF StopActive
    <3>2. sessions' \in Records /\ disk' \in Records
      BY <3>1, QueryTypes
    <3> QED
      BY <2>12, <3>1, <3>2 DEF StopActive, TypeOK, Guarded, Steps, Records
  <2>13. CASE StopUnit
    BY <2>13 DEF StopUnit, StopSucceeds, StopFails, TypeOK, Guarded, Steps
  <2>14. CASE StopClean
    BY SMT, <2>14, WithoutType
       DEF StopClean, RemoveRecords, TypeOK, Guarded, Steps, Profiles, Records
  <2>15. ASSUME NEW id \in SessionIds, StopSession(id)
         PROVE  SafeInv'
    BY <2>15 DEF StopSession, TypeOK, Guarded, Steps
  <2>16. ASSUME NEW id \in SessionIds, AppExit(id)
         PROVE  SafeInv'
    BY <2>16 DEF AppExit, TypeOK, Guarded, Tracked
  <2>17. CASE Crash
    BY <2>17 DEF Crash, TypeOK, Guarded, Steps, Tracked
  <2>18. CASE Restart
    BY <2>18 DEF Restart, TypeOK, Guarded, Steps
  <2>19. CASE UNCHANGED vars
    BY <2>19 DEF vars, TypeOK, Guarded, Tracked
  <2> QED
    BY <2>1, <2>2, <2>3, <2>4, <2>5, <2>6, <2>7, <2>8, <2>9, <2>10, <2>11, <2>12, <2>13,
       <2>14, <2>15, <2>16, <2>17, <2>18, <2>19 DEF Next, LaunchStep, StopStep
<1> QED
  BY <1>1, <1>2, PTL DEF Spec

\* TypeOK is an invariant for any sessions, launches and faults.
THEOREM TypeCorrect == Spec => []TypeOK
BY SafeInvariance, PTL DEF SafeInv

\* A query prunes only what is not running.
LEMMA QueryDrops ==
    ASSUME TypeOK, NEW active, QueryActive(active),
           NEW i \in SessionIds, i \in Tracked, i \notin Tracked'
    PROVE  i \notin running
BY DEF QueryActive, Without, Gone, Tracked

\* No step of the bridge forgets a session whose application is running: not
\* when queries go unanswered, stops are rejected or files cannot be removed.
THEOREM OnlyStoppedDropped == Spec => DropsOnlyStopped
<1> DEFINE Kept == step' # "down" => \A i \in Tracked : i \notin Tracked' => i \notin running'
<1>1. SafeInv /\ [Next]_vars => [Kept]_vars
  <2> SUFFICES ASSUME SafeInv, Next, step' # "down",
                      NEW i \in SessionIds, i \in Tracked, i \notin Tracked'
               PROVE  i \notin running'
    BY DEF Tracked
  <2> USE DEF SafeInv
  <2>1. CASE Prepare \/ SyncAfterFailure \/ Poll \/ StopActive
    BY <2>1, QueryDrops DEF Prepare, SyncAfterFailure, Poll, StopActive
  <2>2. CASE StopReset \/ StopClean
    BY SMT, <2>2 DEF StopReset, StopClean, Without, Tracked, Guarded
  <2>3. CASE Insert
    BY <2>3, BridgeAssumption DEF Insert, Tracked, TypeOK
  <2>4. CASE Restart
    BY <2>4 DEF Restart, Guarded
  <2>5. CASE UNCHANGED sessions
    BY <2>5 DEF Tracked
  <2> QED
    BY <2>1, <2>2, <2>3, <2>4, <2>5
    DEF Next, LaunchStep, StopStep, Request, StopOther, SetProfile, LaunchUnit, Save, Undo,
        StopUnit, StopSession, AppExit, Crash
<1> QED
  BY <1>1, SafeInvariance, PTL DEF Spec, DropsOnlyStopped

------------------------------------------------------------------------------
(* A disk that obeys *)

\* The strengthening behind AtMostOneTracked: map and files agree but for a
\* record just written, there is at most one, and a launch that has passed
\* stop_other_active_sessions finds no record but its own.
OneSlot ==
    /\ Tracked \subseteq OnDisk
    /\ step # "down" => OnDisk \subseteq Tracked \cup (IF step = "insert" THEN {req.id} ELSE {})
    /\ \A i, j \in OnDisk : i = j
    /\ step \in {"stopOther", "stopReset"} => OnDisk \subseteq {target}
    /\ step \in {"profile", "launch", "sync", "save", "insert"} => OnDisk \subseteq {req.id}
    /\ step = "insert" => req.id \in OnDisk
    /\ step # "undo"

SlotInv == SafeInv /\ OneSlot

\* A query leaves the active session alone in map and files, or nothing.
LEMMA QueryLeaves ==
    ASSUME DiskFaults = FALSE, SlotInv, step \notin {"down", "insert"},
           NEW active, QueryActive(active)
    PROVE  /\ Tracked' = OnDisk'
           /\ OnDisk' = IF active = None THEN {} ELSE {active}
           /\ OnDisk' \subseteq OnDisk
           /\ \A i \in OnDisk : i \notin OnDisk' => i \notin running
<1> USE DEF SlotInv, SafeInv
<1>1. Tracked = OnDisk
  BY DEF OneSlot
<1>2. PICK unknown \in SUBSET Tracked :
        /\ IsActive(active, Tracked \ Gone(unknown))
        /\ sessions' = Without(sessions, Gone(unknown))
        /\ RemoveRecords(Gone(unknown))
  BY DEF QueryActive
<1>3. disk' = Without(disk, Gone(unknown))
  BY <1>2 DEF RemoveRecords
<1>4. Tracked' = Tracked \ Gone(unknown) /\ OnDisk' = OnDisk \ Gone(unknown)
  BY <1>2, <1>3 DEF Without, Tracked, OnDisk, TypeOK
<1>5. Tracked \ Gone(unknown) = IF active = None THEN {} ELSE {active}
  BY <1>1, <1>2, BridgeAssumption DEF IsActive, OneSlot, OnDisk
<1>6. \A i \in Gone(unknown) : i \notin running
  BY DEF Gone
<1> QED
  BY <1>1, <1>4, <1>5, <1>6

\* Removing the target's record empties the slot it held.
LEMMA DropLeaves ==
    ASSUME DiskFaults = FALSE, SlotInv, step \in {"stopReset", "stopClean"},
           sessions' = Without(sessions, {target}), RemoveRecords({target})
    PROVE  /\ Tracked' = Tracked \ {target}
           /\ OnDisk' = OnDisk \ {target}
BY DEF RemoveRecords, Without, Tracked, OnDisk, SlotInv, SafeInv, TypeOK

\* SlotInv is inductive as long as the disk obeys, crashes included.
LEMMA SlotInductive ==
    ASSUME DiskFaults = FALSE, SlotInv, [Next]_vars
    PROVE  OneSlot'
<1> USE DEF SlotInv
<1>1. ASSUME NEW id \in SessionIds, NEW p \in Profiles, Request(id, p)
      PROVE  OneSlot'
  BY <1>1 DEF Request, OneSlot, Tracked, OnDisk
<1>2. CASE Prepare
  <2>1. PICK active \in SessionIds \cup {None} :
          /\ QueryActive(active)
          /\ IF active # None /\ ShouldReplace(req.id, active)
             THEN target' = active /\ step' = "stopOther"
             ELSE target' = None /\ step' = "profile"
    BY <1>2 DEF Prepare
  <2>2. Tracked' = OnDisk' /\ OnDisk' = IF active = None THEN {} ELSE {active}
    BY <1>2, <2>1, QueryLeaves DEF Prepare
  <2>3. active # None /\ ~ShouldReplace(req.id, active) => active = req.id
    BY DEF ShouldReplace
  <2> QED
    BY <1>2, <2>1, <2>2, <2>3 DEF Prepare, OneSlot
<1>3. CASE StopOther
  BY <1>3 DEF StopOther, OneSlot, Tracked, OnDisk
<1>4. CASE StopReset
  <2>1. Tracked' = Tracked \ {target} /\ OnDisk' = OnDisk \ {target}
    BY <1>4, DropLeaves DEF StopReset
  <2> QED
    BY <1>4, <2>1 DEF StopReset, OneSlot
<1>5. CASE SetProfile
  BY <1>5 DEF SetProfile, OneSlot, Tracked, OnDisk
<1>6. CASE LaunchUnit
  BY <1>6 DEF LaunchUnit, OneSlot, Tracked, OnDisk
<1>7. CASE SyncAfterFailure
  <2>1. PICK active \in SessionIds \cup {None} : QueryActive(active)
    BY <1>7 DEF SyncAfterFailure
  <2>2. Tracked' = OnDisk' /\ OnDisk' \subseteq OnDisk
    BY <1>7, <2>1, QueryLeaves DEF SyncAfterFailure
  <2> QED
    BY <1>7, <2>2 DEF SyncAfterFailure, OneSlot
<1>8. CASE Save
  <2>1. disk' = [disk EXCEPT ![req.id] = req.profile] /\ step' = "insert"
    BY <1>8 DEF Save
  <2>2. req.id \in SessionIds /\ req.profile # None
    BY BridgeAssumption DEF SafeInv, TypeOK
  <2>3. OnDisk' = OnDisk \cup {req.id} /\ Tracked' = Tracked
    BY ZenonT(40), <1>8, <2>1, <2>2 DEF Save, OnDisk, Tracked, SafeInv, TypeOK
  <2>4. OnDisk \subseteq {req.id} /\ OnDisk \subseteq Tracked
    BY <1>8 DEF Save, OneSlot
  <2> QED
    BY <1>8, <2>1, <2>3, <2>4 DEF Save, OneSlot
<1>9. CASE Insert
  <2>1. req.id \in SessionIds /\ req.profile # None
    BY BridgeAssumption DEF SafeInv, TypeOK
  <2>2. Tracked' = Tracked \cup {req.id} /\ OnDisk' = OnDisk
    BY <1>9, <2>1 DEF Insert, OnDisk, Tracked, SafeInv, TypeOK
  <2> QED
    BY <1>9, <2>2 DEF Insert, OneSlot
<1>10. CASE Poll
  <2>1. PICK active \in SessionIds \cup {None} : QueryActive(active)
    BY <1>10 DEF Poll
  <2>2. Tracked' = OnDisk' /\ OnDisk' \subseteq OnDisk
    BY <1>10, <2>1, QueryLeaves DEF Poll
  <2> QED
    BY <1>10, <2>2 DEF Poll, OneSlot
<1>11. CASE StopActive
  <2>1. PICK active \in SessionIds \cup {None} :
          QueryActive(active) /\ step' = IF active = None THEN "idle" ELSE "stopUnit"
    BY <1>11 DEF StopActive
  <2>2. Tracked' = OnDisk' /\ OnDisk' \subseteq OnDisk
    BY <1>11, <2>1, QueryLeaves DEF StopActive
  <2> QED
    BY <1>11, <2>1, <2>2 DEF StopActive, OneSlot
<1>12. CASE StopUnit
  BY <1>12 DEF StopUnit, OneSlot, Tracked, OnDisk
<1>13. CASE StopClean
  <2>1. Tracked' = Tracked \ {target} /\ OnDisk' = OnDisk \ {target}
    BY <1>13, DropLeaves DEF StopClean
  <2> QED
    BY <1>13, <2>1 DEF StopClean, OneSlot
<1>14. ASSUME NEW id \in SessionIds, StopSession(id) \/ AppExit(id)
       PROVE  OneSlot'
  BY <1>14 DEF StopSession, AppExit, OneSlot, Tracked, OnDisk
<1>15. CASE Crash
  BY <1>15 DEF Crash, OneSlot, Tracked, OnDisk
<1>16. CASE Restart
  BY <1>16 DEF Restart, OneSlot, Tracked, OnDisk
<1>17. CASE UNCHANGED vars
  BY <1>17 DEF vars, OneSlot, Tracked, OnDisk
<1>18. ~Undo
  BY DEF Undo, OneSlot
<1> QED
  BY <1>1, <1>2, <1>3, <1>4, <1>5, <1>6, <1>7, <1>8, <1>9, <1>10, <1>11, <1>12, <1>13,
     <1>14, <1>15, <1>16, <1>17, <1>18 DEF Next, LaunchStep, StopStep

\* SlotInv is an invariant as long as the disk obeys.
LEMMA SlotInvariance ==
    ASSUME DiskFaults = FALSE
    PROVE  Spec => []SlotInv
<1>1. Init => OneSlot
  BY DEF Init, OneSlot, Tracked, OnDisk
<1>2. SafeInv /\ OneSlot /\ [Next]_vars => OneSlot'
  BY SlotInductive DEF SlotInv
<1> QED
  BY <1>1, <1>2, SafeInvariance, PTL DEF Spec, SlotInv

\* The map and the files never name two sessions, and the map nothing the files
\* lack, however often the bridge crashes and restarts, if the disk obeys.
THEOREM SingleTracked ==
    ASSUME DiskFaults = FALSE
    PROVE  Spec => []RecordsAgree
<1>1. SlotInv => RecordsAgree
  BY DEF SlotInv, OneSlot, RecordsAgree, AtMostOneTracked, TrackedIsOnDisk
<1> QED
  BY <1>1, SlotInvariance, PTL

------------------------------------------------------------------------------
(* The slot everyone else sees *)

\* Under SlotInv the slot is the session on disk, or None.
LEMMA SlotIsOnDisk ==
    ASSUME OneSlot
    PROVE  /\ OnDisk = {} => Slot = None
           /\ \A i \in OnDisk : Slot = i
BY DEF OneSlot, Slot

\* One step of the bridge is a step of the slot, or none.
LEMMA SlotStep ==
    ASSUME DiskFaults = FALSE, SlotInv, SlotInv', [Next]_vars
    PROVE  [Abstract!SlotNext]_(Abstract!slotVars)
<1> USE DEF SlotInv
<1>a. Slot = IF OnDisk = {} THEN None ELSE CHOOSE i \in OnDisk : TRUE
  BY DEF OneSlot, Slot
<1>b. Slot' = IF OnDisk' = {} THEN None ELSE CHOOSE i \in OnDisk' : TRUE
  BY DEF OneSlot, Slot
<1>c. OnDisk' = OnDisk => Slot' = Slot
  BY SMT, <1>a, <1>b
<1>d. Slot \in OnDisk \/ (Slot = None /\ OnDisk = {})
  BY SlotIsOnDisk
<1>e. ASSUME OnDisk' \subseteq OnDisk, \A i \in OnDisk : i \notin OnDisk' => i \notin running,
             running' = running
      PROVE  Abstract!Release \/ UNCHANGED Abstract!slotVars
  <2>1. CASE OnDisk' = OnDisk
    BY <1>e, <1>c, <2>1 DEF Abstract!slotVars
  <2>2. CASE OnDisk' # OnDisk
    <3>1. PICK i \in OnDisk : i \notin OnDisk'
      BY <1>e, <2>2
    <3>2. OnDisk' = {} /\ Slot = i /\ i # None
      BY SMT, <1>e, <3>1, SlotIsOnDisk, BridgeAssumption DEF OneSlot, OnDisk
    <3>3. Slot' = None
      BY <3>2, <1>b
    <3> QED
      BY <1>e, <3>1, <3>2, <3>3 DEF Abstract!Release
  <2> QED
    BY <2>1, <2>2
<1>f. ASSUME NEW id \in SessionIds, running' \in {running, running \ {id}}, UNCHANGED disk
      PROVE  Abstract!Exit(id) \/ UNCHANGED Abstract!slotVars
  BY <1>c, <1>f DEF OnDisk, Abstract!Exit, Abstract!slotVars
<1>g. ASSUME UNCHANGED <<disk, running>>
      PROVE  UNCHANGED Abstract!slotVars
  BY <1>c, <1>g DEF OnDisk, Abstract!slotVars
<1>1. CASE Prepare \/ SyncAfterFailure \/ Poll \/ StopActive
  <2>1. PICK active \in SessionIds \cup {None} : QueryActive(active)
    BY <1>1 DEF Prepare, SyncAfterFailure, Poll, StopActive
  <2>2. running' = running /\ step \notin {"down", "insert"}
    BY <1>1 DEF Prepare, SyncAfterFailure, Poll, StopActive
  <2>3. OnDisk' \subseteq OnDisk /\ \A i \in OnDisk : i \notin OnDisk' => i \notin running
    BY <2>1, <2>2, QueryLeaves
  <2> QED
    BY <2>2, <2>3, <1>e DEF Abstract!SlotNext
<1>2. CASE StopReset \/ StopClean
  <2>1. OnDisk' = OnDisk \ {target} /\ running' = running
    BY <1>2, DropLeaves DEF StopReset, StopClean
  <2>2. target \notin running
    BY <1>2 DEF StopReset, StopClean, SafeInv, Guarded
  <2> QED
    BY <2>1, <2>2, <1>e DEF Abstract!SlotNext
<1>3. CASE StopOther \/ StopUnit
  <2>1. target \in SessionIds /\ running' \in {running, running \ {target}} /\ UNCHANGED disk
    BY <1>3 DEF StopOther, StopUnit, StopSucceeds, StopFails, SafeInv, Guarded
  <2> QED
    BY <2>1, <1>f DEF Abstract!SlotNext
<1>4. ASSUME NEW id \in SessionIds, AppExit(id)
      PROVE  [Abstract!SlotNext]_(Abstract!slotVars)
  BY <1>4, <1>f DEF AppExit, Abstract!SlotNext
<1>5. CASE LaunchUnit
  <2>1. CASE UNCHANGED running
    BY <1>5, <2>1, <1>g DEF LaunchUnit
  <2>2. CASE running' = running \cup {req.id}
    <3>1. req.id \in SessionIds
      BY DEF SafeInv, TypeOK
    <3>2. Slot \in {None, req.id}
      BY <1>5, <1>d DEF LaunchUnit, OneSlot
    <3>3. Slot' = Slot
      BY <1>5, <1>c DEF LaunchUnit, OnDisk
    <3> QED
      BY <2>2, <3>1, <3>2, <3>3 DEF Abstract!SlotNext, Abstract!Start
  <2> QED
    BY <1>5, <2>1, <2>2 DEF LaunchUnit
<1>6. CASE Save
  <2>1. req.id \in SessionIds /\ req' = req /\ running' = running /\ step' = "insert"
    BY <1>6 DEF Save, SafeInv, TypeOK
  <2>2. Slot \in {None, req.id}
    BY <1>6, <1>d DEF Save, OneSlot
  <2>3. req.id \in OnDisk'
    BY <2>1 DEF OneSlot
  <2>4. Slot' = req.id
    BY <2>1, <2>3, <1>b DEF OneSlot
  <2> QED
    BY <2>1, <2>2, <2>4 DEF Abstract!SlotNext, Abstract!Take
<1>7. CASE SetProfile \/ Insert \/ Crash \/ Restart
  BY <1>7, <1>g DEF SetProfile, Insert, Crash, Restart
<1>8. ASSUME NEW id \in SessionIds, NEW p \in Profiles, Request(id, p) \/ StopSession(id)
      PROVE  [Abstract!SlotNext]_(Abstract!slotVars)
  BY <1>8, <1>g DEF Request, StopSession
<1>9. CASE UNCHANGED vars
  BY <1>9, <1>g DEF vars
<1>10. ~Undo
  BY DEF Undo, OneSlot
<1>11. Profiles # {}
  BY DEF Profiles
<1> QED
  BY <1>1, <1>2, <1>3, <1>4, <1>5, <1>6, <1>7, <1>8, <1>9, <1>10, <1>11
  DEF Next, LaunchStep, StopStep

\* Whatever it fails at and wherever it crashes, the bridge implements the one
\* slot that the daemon's play journal is built on, if the disk obeys.
THEOREM BridgeImplementsSlot ==
    ASSUME DiskFaults = FALSE
    PROVE  Spec => ImplementsSlot
<1>1. Init => Abstract!SlotInit
  BY DEF Init, Slot, Tracked, OnDisk, Abstract!SlotInit
<1>2. SlotInv /\ SlotInv' /\ [Next]_vars => [Abstract!SlotNext]_(Abstract!slotVars)
  BY SlotStep
<1> QED
  BY <1>1, <1>2, SlotInvariance, PTL DEF Spec, ImplementsSlot, Abstract!SlotSpec

------------------------------------------------------------------------------
(* What runs *)

\* No step of the bridge orphans a running unit, except a crash in front of Save,
\* which is what orphans records.
LEMMA OrphanStep ==
    ASSUME DiskFaults = FALSE, SlotInv, NothingOrphaned, [Next]_vars
    PROVE  NothingOrphaned'
<1> USE DEF SlotInv
<1>1. CASE Prepare \/ SyncAfterFailure \/ Poll \/ StopActive
  <2>1. PICK active \in SessionIds \cup {None} : QueryActive(active)
    BY <1>1 DEF Prepare, SyncAfterFailure, Poll, StopActive
  <2>2. UNCHANGED <<running, orphans>> /\ step \notin {"down", "insert", "save"}
    BY <1>1 DEF Prepare, SyncAfterFailure, Poll, StopActive
  <2>3. Tracked' = OnDisk' /\ \A i \in OnDisk : i \notin OnDisk' => i \notin running
    BY <2>1, <2>2, QueryLeaves
  <2> QED
    BY <2>2, <2>3 DEF NothingOrphaned, OneSlot
<1>2. CASE StopReset \/ StopClean
  <2>1. Tracked' = Tracked \ {target}
    BY <1>2, DropLeaves DEF StopReset, StopClean
  <2> QED
    BY SMT, <1>2, <2>1 DEF StopReset, StopClean, NothingOrphaned, SafeInv, Guarded
<1>3. CASE StopOther \/ StopUnit
  BY <1>3 DEF StopOther, StopUnit, StopSucceeds, StopFails, NothingOrphaned, Tracked
<1>4. CASE LaunchUnit
  BY <1>4 DEF LaunchUnit, NothingOrphaned, Tracked
<1>5. CASE Insert
  <2>1. Tracked' = Tracked \cup {req.id}
    BY SMT, <1>5, BridgeAssumption DEF Insert, Tracked, SafeInv, TypeOK
  <2> QED
    BY <1>5, <2>1 DEF Insert, NothingOrphaned
<1>6. CASE Save \/ SetProfile
  BY <1>6 DEF Save, SetProfile, NothingOrphaned, Tracked
<1>7. ASSUME NEW id \in SessionIds, NEW p \in Profiles,
             Request(id, p) \/ StopSession(id) \/ AppExit(id)
      PROVE  NothingOrphaned'
  <2>1. Tracked' = Tracked /\ OnDisk' = OnDisk
    BY <1>7 DEF Request, StopSession, AppExit, Tracked, OnDisk
  <2> QED
    BY <1>7, <2>1 DEF Request, StopSession, AppExit, NothingOrphaned
<1>8. CASE Crash
  <2>1. OnDisk' = OnDisk /\ running' = running /\ step' = "down" /\ orphans \subseteq orphans'
    BY <1>8 DEF Crash, OnDisk
  <2>2. step = "save" => req.id \in OnDisk \cup orphans'
    BY <1>8 DEF Crash
  <2> QED
    BY <1>8, <2>1, <2>2 DEF Crash, NothingOrphaned, OneSlot
<1>9. CASE Restart
  <2>1. Tracked' = OnDisk
    BY <1>9 DEF Restart, Tracked, OnDisk
  <2> QED
    BY <1>9, <2>1 DEF Restart, NothingOrphaned, OneSlot
<1>10. CASE UNCHANGED vars
  BY <1>10 DEF vars, NothingOrphaned, Tracked, OnDisk
<1>11. ~Undo /\ Profiles # {}
  BY DEF Undo, OneSlot, Profiles
<1> QED
  BY <1>1, <1>2, <1>3, <1>4, <1>5, <1>6, <1>7, <1>8, <1>9, <1>10, <1>11
     DEF Next, LaunchStep, StopStep

\* If the disk obeys, at most one application runs and it can always be found and
\* closed, through crashes and restarts, but for a unit whose bridge died before
\* it could save the record.
THEOREM OneApplication ==
    ASSUME DiskFaults = FALSE
    PROVE  Spec => []OneManaged
<1>1. Init => NothingOrphaned
  BY DEF Init, NothingOrphaned
<1>2. SlotInv /\ NothingOrphaned /\ [Next]_vars => NothingOrphaned'
  BY OrphanStep
<1>3. SlotInv /\ NothingOrphaned => OneManaged
  BY DEF SlotInv, OneSlot, OneManaged, NothingOrphaned, AtMostOneManaged
<1> QED
  BY <1>1, <1>2, <1>3, SlotInvariance, PTL DEF Spec
------------------------------------------------------------------------------
(* The details screen *)

CONSTANTS Files, Flags, MaxPresses, MaxReads
VARIABLES open, rom, shown, pending, picker, reads, writes, stored, member, late, presses,
          asked, torn, crossed

Game == INSTANCE GameDetails

\* The requests out, by the values they carry.
ReadRecs == [id : Nat, rom : Files, got : [Flags -> Game!Known \cup {Game!Unknown}],
             served : BOOLEAN]
WriteRecs == [id : Nat, rom : Files, flag : Flags, previous : Game!Known \cup {Game!Unknown},
              value : Game!Known, stage : {"asked", "stored", "done", "failed"}]
ReadOf(q, flags) == [q EXCEPT !.got = flags, !.served = TRUE]
Moved(w, s) == [w EXCEPT !.stage = s]

GameTypes ==
    /\ rom \in Files /\ pending \subseteq Files
    /\ shown \in [Flags -> Game!Known \cup {Game!Unknown}]
    /\ reads \subseteq ReadRecs /\ writes \subseteq WriteRecs /\ late \subseteq WriteRecs
    /\ stored \in [Files -> [Flags -> Game!Known]] /\ member \in [Files -> [Flags -> Game!Known]]
    /\ presses \in Nat /\ asked \in Nat

\* A write is known by its number.
Numbered ==
    /\ \A w \in writes : w.id < presses
    /\ \A w, v \in writes : w.id = v.id => w = v

\* Every file that takes no press has a write out, on screen or not.
Answered == \A r \in pending : \E w \in writes : w.rom = r

\* At most one write of file r is out.  Two of them cross when the first answers.
Alone(r) == \A w, v \in writes : w.rom = r /\ v.rom = r => w = v

\* A flag nobody is writing is shown as it is stored, or not known yet.
FlagsAgree(r) ==
    r = rom => \A f \in Flags :
        (\A w \in writes : w.rom = r => w.flag # f) => shown[f] \in {Game!Unknown, stored[r][f]}

\* What a write puts back when it fails is what RomM still holds, and what it
\* stored is there.
WritesAgree(r) ==
    \A w \in writes : w.rom = r =>
        /\ w.stage \in {"asked", "failed"} => w.previous \in {Game!Unknown, stored[r][w.flag]}
        /\ w.stage \in {"stored", "done"} => stored[r][w.flag] = w.value

\* The collections fall behind only between the two calls of a write.
MembersAgree(r) ==
    \A f \in Flags :
        (\A w \in writes : w.rom = r /\ w.flag = f => w.stage # "stored")
            => member[r][f] = stored[r][f]

Agree ==
    ~torn /\ ~crossed =>
        \A r \in Files : Alone(r) => FlagsAgree(r) /\ WritesAgree(r) /\ MembersAgree(r)

GameInv == GameTypes /\ Numbered /\ Answered /\ Agree

------------------------------------------------------------------------------
\* A write that moves on is the same write at another stage.
LEMMA MovedIs ==
    ASSUME NEW w \in WriteRecs, NEW s \in {"asked", "stored", "done", "failed"}
    PROVE  /\ Moved(w, s) \in WriteRecs /\ Moved(w, s).stage = s
           /\ Moved(w, s).id = w.id /\ Moved(w, s).rom = w.rom /\ Moved(w, s).flag = w.flag
           /\ Moved(w, s).previous = w.previous /\ Moved(w, s).value = w.value
BY DEF Moved, WriteRecs

\* A served read is a read.
LEMMA ReadOfIs ==
    ASSUME NEW q \in ReadRecs, NEW flags \in [Flags -> Game!Known \cup {Game!Unknown}]
    PROVE  ReadOf(q, flags) \in ReadRecs
BY DEF ReadOf, ReadRecs

\* Every step of the details screen keeps the types.
LEMMA GameTypesStep == GameTypes /\ [Game!Next]_(Game!vars) => GameTypes'
<1> SUFFICES ASSUME GameTypes, [Game!Next]_(Game!vars) PROVE GameTypes'
  OBVIOUS
<1> USE DEF GameTypes, Game!screen, Game!remote, Game!Known, Game!Unknown
<1>1. Game!NoFlags \in [Flags -> Game!Known \cup {Game!Unknown}]
  BY DEF Game!NoFlags
<1>2. ASSUME NEW r \in Files, Game!Read(r) PROVE reads' \subseteq ReadRecs /\ asked' \in Nat
  <2> DEFINE new == [id |-> asked, rom |-> r, got |-> Game!NoFlags, served |-> FALSE]
  <2>1. new \in ReadRecs
    BY <1>1 DEF ReadRecs
  <2>2. reads' = reads \cup {new}
    BY <1>2, Zenon DEF Game!Read
  <2>3. asked' = asked + 1
    BY <1>2 DEF Game!Read
  <2> HIDE DEF new
  <2> QED
    BY SMT, <2>1, <2>2, <2>3
<1>3. ASSUME NEW r \in Files, Game!OpenDetails(r) PROVE GameTypes'
  BY <1>1, <1>2, <1>3 DEF Game!OpenDetails
<1>4. CASE Game!CloseDetails \/ Game!TogglePicker
  BY <1>4 DEF Game!CloseDetails, Game!TogglePicker
<1>5. ASSUME NEW r \in Files, Game!SelectDisc(r) PROVE GameTypes'
  BY <1>1, <1>2, <1>5 DEF Game!SelectDisc
<1>6. ASSUME NEW f \in Flags, Game!FlagPressed(f) PROVE GameTypes'
  <2>1. Game!Flipped(shown[f]) \in Game!Known
    BY DEF Game!Flipped
  <2>2. writes' \subseteq WriteRecs
    BY SMT, <1>6, <2>1 DEF Game!FlagPressed, WriteRecs
  <2>3. shown' \in [Flags -> Game!Known \cup {Game!Unknown}]
    BY <1>6, <2>1 DEF Game!FlagPressed
  <2> QED
    BY SMT, <1>6, <2>2, <2>3 DEF Game!FlagPressed
<1>7. ASSUME NEW q \in reads, Game!ServeRead(q) PROVE GameTypes'
  <2>1. stored[q.rom] \in [Flags -> Game!Known \cup {Game!Unknown}]
    BY SMT DEF ReadRecs
  <2>2. reads' = (reads \ {q}) \cup {ReadOf(q, stored[q.rom])}
    BY <1>7 DEF Game!ServeRead, ReadOf
  <2>3. reads' \subseteq ReadRecs
    BY SMT, <2>1, <2>2, ReadOfIs
  <2> QED
    BY <1>7, <2>3 DEF Game!ServeRead
<1>8. ASSUME NEW w \in writes, NEW s \in {"asked", "stored", "done", "failed"},
             writes' = (writes \ {w}) \cup {Moved(w, s)}
      PROVE  writes' \subseteq WriteRecs
  BY <1>8, MovedIs
<1>9. ASSUME NEW w \in writes, Game!WriteFlag(w) PROVE GameTypes'
  <2>1. [stored EXCEPT ![w.rom][w.flag] = w.value] \in [Files -> [Flags -> Game!Known]]
    BY DEF WriteRecs
  <2>2. writes' \subseteq WriteRecs
    BY <1>8, <1>9 DEF Game!WriteFlag, Moved
  <2> QED
    BY <1>9, <2>1, <2>2 DEF Game!WriteFlag
<1>10. ASSUME NEW w \in writes, Game!WriteMember(w) PROVE GameTypes'
  <2>1. [member EXCEPT ![w.rom][w.flag] = w.value] \in [Files -> [Flags -> Game!Known]]
    BY DEF WriteRecs
  <2>2. writes' \subseteq WriteRecs
    BY <1>8, <1>10 DEF Game!WriteMember, Moved
  <2> QED
    BY <1>10, <2>1, <2>2 DEF Game!WriteMember
<1>11. ASSUME NEW q \in reads, Game!Loaded(q) PROVE GameTypes'
  <2>1. q.got \in [Flags -> Game!Known \cup {Game!Unknown}]
    BY DEF ReadRecs
  <2> QED
    BY <1>11, <2>1 DEF Game!Loaded
<1>12. ASSUME NEW w \in writes, Game!FlagWritten(w) PROVE GameTypes'
  <2>1. w.previous \in Game!Known \cup {Game!Unknown} /\ w.value \in Game!Known \cup {Game!Unknown}
    BY DEF WriteRecs
  <2>2. shown' \in [Flags -> Game!Known \cup {Game!Unknown}]
    BY <1>12, <2>1 DEF Game!FlagWritten
  <2> QED
    BY <1>12, <2>2 DEF Game!FlagWritten
<1>13. ASSUME NEW w \in late, Game!CarryOut(w) PROVE GameTypes'
  <2>1. /\ [stored EXCEPT ![w.rom][w.flag] = w.value] \in [Files -> [Flags -> Game!Known]]
        /\ [member EXCEPT ![w.rom][w.flag] = w.value] \in [Files -> [Flags -> Game!Known]]
    BY DEF WriteRecs
  <2> QED
    BY <1>13, <2>1 DEF Game!CarryOut
<1>14. CASE UNCHANGED Game!vars
  BY <1>14 DEF Game!vars
<1> QED
  BY <1>3, <1>4, <1>5, <1>6, <1>7, <1>9, <1>10, <1>11, <1>12, <1>13, <1>14 DEF Game!Next

\* How the writes out change: one is added under a new number, moves on, or leaves.
Pressed(w) ==
    writes' = writes \cup {w} /\ w \in WriteRecs /\ w.id = presses /\ presses' = presses + 1
Moves(w, s) == writes' = (writes \ {w}) \cup {Moved(w, s)} /\ presses' = presses
Leaves(w) == writes' = writes \ {w} /\ presses' = presses

\* Presses number their writes, and nothing renumbers them.
LEMMA NumberedStep ==
    ASSUME GameTypes, Numbered,
           \/ \E w : Pressed(w)
           \/ \E w \in writes, s \in {"asked", "stored", "done", "failed"} : Moves(w, s)
           \/ \E w \in writes : Leaves(w)
           \/ UNCHANGED <<writes, presses>>
    PROVE  Numbered'
<1> USE DEF Numbered, GameTypes
<1>1. \A w \in writes : w \in WriteRecs /\ w.id \in Nat
  BY DEF WriteRecs
<1>2. ASSUME NEW w, Pressed(w) PROVE Numbered'
  BY SMT, <1>1, <1>2 DEF Pressed
<1>3. ASSUME NEW w \in writes, NEW s \in {"asked", "stored", "done", "failed"}, Moves(w, s)
      PROVE  Numbered'
  BY SMT, <1>1, <1>3, MovedIs DEF Moves
<1>4. ASSUME NEW w \in writes, Leaves(w) PROVE Numbered'
  BY <1>4 DEF Leaves
<1> QED
  BY <1>2, <1>3, <1>4

\* A file that takes no press has a write out.
LEMMA AnsweredStep ==
    ASSUME GameTypes, Answered,
           \/ \E w : Pressed(w) /\ pending' = pending \cup {w.rom}
           \/ \E w \in writes, s \in {"asked", "stored", "done", "failed"} :
                 Moves(w, s) /\ pending' = pending
           \/ \E w \in writes : Leaves(w) /\ pending' = pending \ {w.rom}
           \/ pending' \subseteq pending /\ UNCHANGED writes
    PROVE  Answered'
<1> USE DEF Answered
<1>1. ASSUME NEW w, Pressed(w), pending' = pending \cup {w.rom} PROVE Answered'
  BY <1>1 DEF Pressed
<1>2. ASSUME NEW w \in writes, NEW s \in {"asked", "stored", "done", "failed"}, Moves(w, s),
             pending' = pending
      PROVE  Answered'
  <2>1. Moved(w, s) \in writes' /\ Moved(w, s).rom = w.rom
    BY <1>2, MovedIs DEF Moves, GameTypes
  <2>2. \A v \in writes : v = w \/ v \in writes'
    BY <1>2 DEF Moves
  <2> QED
    BY <1>2, <2>1, <2>2
<1>3. ASSUME NEW w \in writes, Leaves(w), pending' = pending \ {w.rom} PROVE Answered'
  BY <1>3 DEF Leaves
<1> QED
  BY <1>1, <1>2, <1>3

------------------------------------------------------------------------------
\* The screen moves to another file, or to none, and forgets the flags it showed.
LEMMA ScreenKeepsAgree ==
    ASSUME Agree, GameTypes, UNCHANGED <<writes, stored, member, torn, crossed>>,
           (shown' = Game!NoFlags) \/ UNCHANGED <<rom, shown>>
    PROVE  Agree'
<1>1. CASE shown' = Game!NoFlags
  BY <1>1 DEF Agree, Alone, FlagsAgree, WritesAgree, MembersAgree, Game!NoFlags
<1>2. CASE UNCHANGED <<rom, shown>>
  BY <1>2 DEF Agree, Alone, FlagsAgree, WritesAgree, MembersAgree
<1> QED
  BY <1>1, <1>2

\* A read that arrives keeps what is drawn in agreement with RomM.
LEMMA LoadedKeepsAgree ==
    ASSUME GameTypes, Agree, NEW q \in reads, Game!Loaded(q)
    PROVE  Agree'
<1> SUFFICES ASSUME ~torn', ~crossed', NEW r \in Files, Alone(r)'
             PROVE  FlagsAgree(r)' /\ WritesAgree(r)' /\ MembersAgree(r)'
  BY DEF Agree
<1>1. /\ ~torn /\ ~crossed /\ q.got = stored[q.rom]
      /\ UNCHANGED <<rom, writes, stored, member>>
  BY DEF Game!Loaded, Game!remote
<1>2. Alone(r)
  BY <1>1 DEF Alone
<1>3. FlagsAgree(r) /\ WritesAgree(r) /\ MembersAgree(r)
  BY <1>1, <1>2 DEF Agree
<1>4. shown' = shown \/ (q.rom = rom /\ shown' = stored[rom])
  BY <1>1 DEF Game!Loaded
<1>5. FlagsAgree(r)'
  BY <1>1, <1>3, <1>4 DEF FlagsAgree
<1> QED
  BY <1>1, <1>3, <1>5 DEF WritesAgree, MembersAgree

\* A press keeps what is drawn in agreement with RomM.
LEMMA PressKeepsAgree ==
    ASSUME GameTypes, Numbered, Agree, NEW f \in Flags, Game!FlagPressed(f), NEW w, Pressed(w),
           w.rom = rom, w.flag = f, w.previous = shown[f], w.stage = "asked"
    PROVE  Agree'
<1> SUFFICES ASSUME ~torn', ~crossed', NEW r \in Files, Alone(r)'
             PROVE  FlagsAgree(r)' /\ WritesAgree(r)' /\ MembersAgree(r)'
  BY DEF Agree
<1>1. /\ ~torn /\ ~crossed /\ UNCHANGED <<rom, stored, member>>
      /\ shown' = [shown EXCEPT ![f] = Game!Flipped(@)]
  BY DEF Game!FlagPressed, Game!remote
<1>2. writes' = writes \cup {w} /\ w \notin writes
  BY SMT DEF Pressed, Numbered, GameTypes, WriteRecs
<1>3. Alone(r)
  BY <1>2 DEF Alone
<1>4. FlagsAgree(r) /\ WritesAgree(r) /\ MembersAgree(r)
  BY <1>1, <1>3 DEF Agree
<1>5. CASE r = rom
  <2>1. \A v \in writes : v.rom # r
    BY <1>2, <1>5 DEF Alone
  <2>2. \A g \in Flags : shown[g] \in {Game!Unknown, stored[r][g]}
    BY <1>4, <1>5, <2>1 DEF FlagsAgree
  <2>3. FlagsAgree(r)'
    BY <1>1, <1>2, <1>5, <2>2 DEF FlagsAgree, GameTypes
  <2>4. WritesAgree(r)'
    BY <1>1, <1>2, <2>1, <2>2 DEF WritesAgree
  <2>5. MembersAgree(r)'
    BY <1>1, <1>2, <1>4, <2>1 DEF MembersAgree
  <2> QED
    BY <2>3, <2>4, <2>5
<1>6. CASE r # rom
  BY <1>1, <1>2, <1>4, <1>6 DEF FlagsAgree, WritesAgree, MembersAgree
<1> QED
  BY <1>5, <1>6

\* The two calls of a write.
LEMMA CallKeepsAgree ==
    ASSUME GameTypes, Numbered, Agree, NEW w \in writes, Game!WriteFlag(w) \/ Game!WriteMember(w)
    PROVE  Agree'
<1> SUFFICES ASSUME ~torn', ~crossed', NEW r \in Files, Alone(r)'
             PROVE  FlagsAgree(r)' /\ WritesAgree(r)' /\ MembersAgree(r)'
  BY DEF Agree
<1>1. ~torn /\ ~crossed /\ UNCHANGED <<rom, shown>>
  BY SMT DEF Game!WriteFlag, Game!WriteMember, Game!screen
<1>2. PICK s \in {"asked", "stored", "done", "failed"} : writes' = (writes \ {w}) \cup {Moved(w, s)}
  BY DEF Game!WriteFlag, Game!WriteMember, Moved
<1>3. w \in WriteRecs /\ w.rom \in Files /\ w.flag \in Flags
  BY DEF GameTypes, WriteRecs
<1> DEFINE m == Moved(w, s)
<1>4. /\ m \in writes' /\ m.stage = s /\ m.id = w.id /\ m.rom = w.rom /\ m.flag = w.flag
      /\ m.previous = w.previous /\ m.value = w.value
  BY <1>2, <1>3, MovedIs
<1>5. ASSUME NEW v \in writes, v # w PROVE v \in writes' /\ v # m
  BY <1>2, <1>4, <1>5 DEF Numbered
<1>6. \A v \in writes' : v = m \/ (v \in writes /\ v # w)
  BY <1>2
<1> HIDE DEF m
<1>7. Alone(r)
  BY <1>4, <1>5 DEF Alone
<1>8. FlagsAgree(r) /\ WritesAgree(r) /\ MembersAgree(r)
  BY <1>1, <1>7 DEF Agree
<1>9. CASE r # w.rom
  <2>1. stored'[r] = stored[r] /\ member'[r] = member[r]
    BY <1>3, <1>9 DEF Game!WriteFlag, Game!WriteMember, GameTypes
  <2>2. \A v \in writes' : v.rom = r => v \in writes
    BY <1>4, <1>6, <1>9
  <2>3. \A v \in writes : v.rom = r => v \in writes'
    BY <1>5, <1>9
  <2> QED
    BY <1>1, <1>8, <2>1, <2>2, <2>3 DEF FlagsAgree, WritesAgree, MembersAgree
<1>10. CASE r = w.rom
  <2>1. \A v \in writes' : v.rom = r => v = m
    BY <1>4, <1>10 DEF Alone
  <2>2. \A v \in writes : v.rom = r => v = w
    BY <1>7, <1>10 DEF Alone
  <2>3. \A g \in Flags : g # w.flag => stored'[r][g] = stored[r][g] /\ member'[r][g] = member[r][g]
    BY SMT, <1>3, <1>10 DEF Game!WriteFlag, Game!WriteMember, GameTypes
  <2>4. FlagsAgree(r)'
    BY SMT, <1>1, <1>4, <1>8, <1>10, <2>1, <2>2, <2>3 DEF FlagsAgree
  <2>5. CASE Game!WriteFlag(w)
    <3>1. w.stage = "asked" /\ member' = member
      BY <2>5 DEF Game!WriteFlag
    <3>2. \/ s = "stored" /\ stored'[r][w.flag] = w.value
          \/ s = "failed" /\ stored' = stored
      <4>1. CASE /\ stored' = [stored EXCEPT ![w.rom][w.flag] = w.value]
                 /\ m = [w EXCEPT !.stage = "stored"]
        BY <1>3, <1>4, <1>10, <4>1 DEF GameTypes, WriteRecs
      <4>2. CASE /\ stored' = stored
                 /\ m = [w EXCEPT !.stage = "failed"]
        BY <1>3, <1>4, <4>2 DEF WriteRecs
      <4>3. \A t \in {"stored", "failed"} :
               writes' = (writes \ {w}) \cup {[w EXCEPT !.stage = t]} => m = [w EXCEPT !.stage = t]
        <5> SUFFICES ASSUME NEW t \in {"stored", "failed"},
                            writes' = (writes \ {w}) \cup {Moved(w, t)}
                     PROVE  m = Moved(w, t)
          BY DEF Moved
        <5>1. Moved(w, t).id = w.id /\ Moved(w, t) \in writes'
          BY SMT, <1>3, MovedIs
        <5> QED
          BY <1>6, <5>1 DEF Numbered
      <4> QED
        BY <2>5, <4>1, <4>2, <4>3 DEF Game!WriteFlag
    <3>3. WritesAgree(r)'
      BY <1>4, <1>8, <1>10, <2>1, <3>1, <3>2 DEF WritesAgree
    <3>4. MembersAgree(r)'
      BY <1>4, <1>8, <1>10, <2>1, <2>2, <2>3, <3>1, <3>2 DEF MembersAgree
    <3> QED
      BY <2>4, <3>3, <3>4
  <2>6. CASE Game!WriteMember(w)
    <3>1. w.stage = "stored" /\ stored' = stored
      BY <2>6 DEF Game!WriteMember
    <3>2. s = "done" /\ member'[r][w.flag] = w.value
      <4>1. /\ member' = [member EXCEPT ![w.rom][w.flag] = w.value]
            /\ writes' = (writes \ {w}) \cup {Moved(w, "done")}
        BY <2>6 DEF Game!WriteMember, Moved
      <4>2. /\ Moved(w, "done") \in writes'
            /\ Moved(w, "done").id = w.id /\ Moved(w, "done").stage = "done"
        BY <1>3, <4>1, MovedIs
      <4>3. m = Moved(w, "done")
        BY <1>6, <4>2 DEF Numbered
      <4> QED
        BY <1>3, <1>4, <1>10, <4>1, <4>2, <4>3 DEF GameTypes
    <3>3. stored[r][w.flag] = w.value
      BY <1>8, <1>10, <3>1 DEF WritesAgree
    <3>4. WritesAgree(r)'
      BY <1>4, <2>1, <3>1, <3>2, <3>3 DEF WritesAgree
    <3>5. MembersAgree(r)'
      BY SMT, <1>4, <1>8, <1>10, <2>1, <2>2, <2>3, <3>1, <3>2, <3>3 DEF MembersAgree
    <3> QED
      BY <2>4, <3>4, <3>5
  <2> QED
    BY <2>5, <2>6
<1> QED
  BY <1>9, <1>10

\* The answer to a write keeps what is drawn in agreement with RomM.
LEMMA AnswerKeepsAgree ==
    ASSUME GameTypes, Agree, NEW w \in writes, Game!FlagWritten(w)
    PROVE  Agree'
<1> SUFFICES ASSUME ~torn', ~crossed', NEW r \in Files, Alone(r)'
             PROVE  FlagsAgree(r)' /\ WritesAgree(r)' /\ MembersAgree(r)'
  BY DEF Agree
<1>1. /\ ~torn /\ ~crossed /\ UNCHANGED <<rom, stored, member>> /\ writes' = writes \ {w}
      /\ \A v \in writes : v # w => v.rom # w.rom
  BY DEF Game!FlagWritten, Game!remote
<1>2. Alone(r)
  BY <1>1 DEF Alone
<1>3. FlagsAgree(r) /\ WritesAgree(r) /\ MembersAgree(r)
  BY <1>1, <1>2 DEF Agree
<1>4. WritesAgree(r)'
  BY <1>1, <1>3 DEF WritesAgree
<1>5. MembersAgree(r)'
  BY <1>1, <1>3 DEF MembersAgree, Game!FlagWritten
<1>6. FlagsAgree(r)'
  <2>1. CASE w.rom # r
    BY <1>1, <1>3, <2>1 DEF FlagsAgree, Game!FlagWritten
  <2>2. CASE w.rom = r
    <3> SUFFICES ASSUME r = rom, NEW f \in Flags PROVE shown'[f] \in {Game!Unknown, stored[r][f]}
      BY <1>1 DEF FlagsAgree
    <3>1. CASE f = w.flag
      <4>1. shown'[f] = IF w.stage = "done" THEN w.value ELSE w.previous
        BY <2>2, <3>1 DEF Game!FlagWritten, GameTypes
      <4> QED
        BY <1>3, <2>2, <3>1, <4>1 DEF WritesAgree, Game!FlagWritten
    <3>2. CASE f # w.flag
      <4>1. shown'[f] = shown[f]
        BY <2>2, <3>2 DEF Game!FlagWritten, GameTypes
      <4> QED
        BY <1>1, <1>3, <2>2, <3>2, <4>1 DEF FlagsAgree
    <3> QED
      BY <3>1, <3>2
  <2> QED
    BY <2>1, <2>2
<1> QED
  BY <1>4, <1>5, <1>6

------------------------------------------------------------------------------
\* Every step of the details screen keeps its invariant.
LEMMA GameStep == GameInv /\ [Game!Next]_(Game!vars) => GameInv'
<1> SUFFICES ASSUME GameTypes, Numbered, Answered, Agree, [Game!Next]_(Game!vars)
             PROVE  Numbered' /\ Answered' /\ Agree'
  BY GameTypesStep DEF GameInv
<1>1. ASSUME NEW r \in Files, Game!OpenDetails(r) \/ Game!SelectDisc(r)
      PROVE  Numbered' /\ Answered' /\ Agree'
  <2>1. /\ UNCHANGED <<writes, presses, stored, member, torn, crossed>>
        /\ pending' \subseteq pending
        /\ (shown' = Game!NoFlags) \/ UNCHANGED <<rom, shown>>
    BY <1>1 DEF Game!OpenDetails, Game!SelectDisc, Game!remote
  <2> QED
    BY <2>1, NumberedStep, AnsweredStep, ScreenKeepsAgree
<1>2. ASSUME UNCHANGED <<writes, presses, pending, stored, member, torn, crossed, rom, shown>>
      PROVE  Numbered' /\ Answered' /\ Agree'
  BY <1>2, NumberedStep, AnsweredStep, ScreenKeepsAgree
<1>3. ASSUME NEW f \in Flags, Game!FlagPressed(f) PROVE Numbered' /\ Answered' /\ Agree'
  <2> DEFINE w == [id |-> presses, rom |-> rom, flag |-> f, previous |-> shown[f],
                   value |-> Game!Flipped(shown[f]), stage |-> "asked"]
  <2>1. /\ w.id = presses /\ w.rom = rom /\ w.flag = f /\ w.previous = shown[f]
        /\ w.stage = "asked"
    OBVIOUS
  <2>2. w \in WriteRecs
    BY DEF GameTypes, WriteRecs, Game!Flipped, Game!Known
  <2>3. writes' = writes \cup {w} /\ presses' = presses + 1 /\ pending' = pending \cup {rom}
    BY <1>3, Zenon DEF Game!FlagPressed
  <2> HIDE DEF w
  <2>4. Pressed(w)
    BY <2>1, <2>2, <2>3 DEF Pressed
  <2> QED
    BY <1>3, <2>1, <2>3, <2>4, NumberedStep, AnsweredStep, PressKeepsAgree
<1>4. ASSUME NEW w \in writes, Game!WriteFlag(w) \/ Game!WriteMember(w)
      PROVE  Numbered' /\ Answered' /\ Agree'
  <2>1. PICK s \in {"asked", "stored", "done", "failed"} : Moves(w, s)
    BY <1>4 DEF Game!WriteFlag, Game!WriteMember, Moves, Moved
  <2>2. pending' = pending
    BY <1>4 DEF Game!WriteFlag, Game!WriteMember, Game!screen
  <2> QED
    BY <1>4, <2>1, <2>2, NumberedStep, AnsweredStep, CallKeepsAgree
<1>5. ASSUME NEW q \in reads, Game!Loaded(q) PROVE Numbered' /\ Answered' /\ Agree'
  <2>1. UNCHANGED <<writes, presses, pending>>
    BY <1>5 DEF Game!Loaded
  <2> QED
    BY <1>5, <2>1, NumberedStep, AnsweredStep, LoadedKeepsAgree
<1>6. ASSUME NEW w \in writes, Game!FlagWritten(w) PROVE Numbered' /\ Answered' /\ Agree'
  <2>1. Leaves(w) /\ pending' = pending \ {w.rom}
    BY <1>6 DEF Game!FlagWritten, Leaves
  <2> QED
    BY <1>6, <2>1, NumberedStep, AnsweredStep, AnswerKeepsAgree
<1>7. ASSUME NEW w \in late, Game!CarryOut(w) PROVE Numbered' /\ Answered' /\ Agree'
  <2>1. UNCHANGED <<writes, presses, pending>> /\ torn'
    BY <1>7 DEF Game!CarryOut, Game!screen
  <2> QED
    BY <2>1, NumberedStep, AnsweredStep DEF Agree
<1> QED
  BY <1>1, <1>2, <1>3, <1>4, <1>5, <1>6, <1>7
     DEF Game!Next, Game!CloseDetails, Game!TogglePicker, Game!ServeRead, Game!screen,
         Game!remote, Game!vars

\* The details screen starts with its invariant.
LEMMA GameStarts == ASSUME Files # {} PROVE Game!Init => GameInv
<1> SUFFICES ASSUME Game!Init PROVE GameInv
  OBVIOUS
<1>1. rom \in Files
  BY DEF Game!Init
<1>2. GameTypes
  BY <1>1 DEF Game!Init, GameTypes, Game!NoFlags
<1>3. Numbered /\ Answered
  BY DEF Game!Init, Numbered, Answered
<1>4. Agree
  BY DEF Game!Init, Agree, FlagsAgree, WritesAgree, MembersAgree, Game!NoFlags
<1> QED
  BY <1>2, <1>3, <1>4 DEF GameInv

\* The details screen's invariant holds throughout.
LEMMA GameIsSound == ASSUME Files # {} PROVE Game!Spec => []GameInv
<1>1. Game!Init => GameInv
  BY GameStarts
<1> QED
  BY <1>1, GameStep, PTL DEF Game!Spec

\* Every part of the details screen's state keeps its type.
THEOREM GameIsTyped == ASSUME Files # {} PROVE Game!Spec => []Game!TypeOK
<1> DEFINE Booleans == /\ open \in BOOLEAN /\ picker \in BOOLEAN
                       /\ torn \in BOOLEAN /\ crossed \in BOOLEAN
<1>1. Game!Init => Booleans
  BY Zenon DEF Game!Init
<1>2. Booleans /\ [Game!Next]_(Game!vars) => Booleans'
  <2> SUFFICES ASSUME Booleans, [Game!Next]_(Game!vars) PROVE Booleans'
    OBVIOUS
  <2>1. ASSUME NEW r \in Files, Game!OpenDetails(r) \/ Game!SelectDisc(r) PROVE Booleans'
    BY <2>1, Zenon DEF Game!OpenDetails, Game!SelectDisc, Game!remote
  <2>2. CASE Game!CloseDetails \/ Game!TogglePicker
    BY <2>2, Zenon DEF Game!CloseDetails, Game!TogglePicker, Game!remote
  <2>3. ASSUME NEW w \in writes, Game!WriteMember(w) PROVE Booleans'
    BY <2>3, Zenon DEF Game!WriteMember, Game!screen
  <2>4. ASSUME NEW q \in reads, Game!Loaded(q) PROVE Booleans'
    BY <2>4, Zenon DEF Game!Loaded, Game!remote
  <2>5. ASSUME NEW w \in writes, Game!FlagWritten(w) PROVE Booleans'
    BY <2>5, Zenon DEF Game!FlagWritten, Game!remote
  <2>6. ASSUME NEW w \in late, Game!CarryOut(w) PROVE Booleans'
    BY <2>6, Zenon DEF Game!CarryOut, Game!screen
  <2>7. CASE UNCHANGED <<open, picker, torn, crossed>>
    BY <2>7, Zenon
  <2> QED
    BY <2>1, <2>2, <2>3, <2>4, <2>5, <2>6, <2>7, Zenon
       DEF Game!Next, Game!FlagPressed, Game!ServeRead, Game!WriteFlag, Game!screen, Game!remote,
           Game!vars
<1>3. GameInv => /\ rom \in Files /\ shown \in [Flags -> Game!Known \cup {Game!Unknown}]
                 /\ pending \subseteq Files
                 /\ {q.rom : q \in reads} \cup {w.rom : w \in writes \cup late} \subseteq Files
                 /\ stored \in [Files -> [Flags -> Game!Known]]
                 /\ member \in [Files -> [Flags -> Game!Known]]
  BY DEF GameInv, GameTypes, ReadRecs, WriteRecs
<1>4. Booleans /\ GameInv => Game!TypeOK
  BY <1>3, Zenon DEF Game!TypeOK
<1> HIDE DEF Booleans
<1> QED
  BY <1>1, <1>2, <1>4, GameIsSound, PTL DEF Game!Spec

\* For any number of presses, reads, writes and screens, a press on a flag leaves no
\* dead button, and once the writes are answered the screen, RomM and the dashboard's
\* collections agree, unless the second call of a write failed, one given up on was
\* carried out after all, or an answer was overtaken.
THEOREM FlagsAlwaysSettle == ASSUME Files # {} PROVE Game!Spec => []Game!FlagsSettle
<1>1. GameInv => Game!FlagsSettle
  <2> SUFFICES ASSUME GameInv PROVE Game!FlagsSettle
    OBVIOUS
  <2>1. Game!PendingIsAnswered
    BY DEF GameInv, Answered, Game!PendingIsAnswered
  <2>2. Game!ShowsWhatIsStored
    <3> SUFFICES ASSUME ~torn, ~crossed, \A w \in writes : w.rom # rom, NEW f \in Flags
                 PROVE  shown[f] \in {Game!Unknown, stored[rom][f]}
      BY DEF Game!ShowsWhatIsStored
    <3>1. rom \in Files /\ Alone(rom)
      BY DEF GameInv, GameTypes, Alone
    <3>2. FlagsAgree(rom)
      BY <3>1 DEF GameInv, Agree
    <3> QED
      BY <3>2 DEF FlagsAgree
  <2>3. Game!RailsMatchFlags
    <3> SUFFICES ASSUME ~torn, ~crossed, writes = {} PROVE member = stored
      BY DEF Game!RailsMatchFlags
    <3>1. ASSUME NEW r \in Files PROVE member[r] = stored[r]
      <4>1. MembersAgree(r)
        BY DEF GameInv, Agree, Alone
      <4>2. \A f \in Flags : member[r][f] = stored[r][f]
        BY <4>1 DEF MembersAgree
      <4> QED
        BY SMT, <4>2 DEF GameInv, GameTypes
    <3> QED
      BY SMT, <3>1 DEF GameInv, GameTypes
  <2> QED
    BY <2>1, <2>2, <2>3 DEF Game!FlagsSettle
<1> QED
  BY <1>1, GameIsSound, PTL

------------------------------------------------------------------------------
(* The controllers *)

CONSTANTS Pads, Controls
VARIABLES owner, held, armed, guideUsed, selectUsed, startUsed, repeat, signals, taken, alone,
          fired

Pad == INSTANCE InputOwnership

\* What a pad repeats is the meaning of a control that is down on it, for an owner
\* that navigates, on an armed pad with Guide up.
Repeats(p) ==
    /\ repeat[p] \in Pad!Moves /\ p \in armed /\ owner \in {"Frontend", "Overlay"}
    /\ "Guide" \notin held[p]
    /\ \E c \in held[p] : Pad!ActionOf(c) = repeat[p]

RepeatInv == \A p \in Pads : repeat[p] # None => Repeats(p)

\* A Guide hold that triggered is marked until Guide is pressed again.
FiredInv ==
    \A p \in Pads : /\ fired[p] \in {0, 1}
                    /\ fired[p] = 1 /\ "Guide" \in held[p] => p \in guideUsed

\* What is down on an armed pad was pressed for this owner.
TakenInv == \A p \in Pads : p \in armed => held[p] \subseteq taken[p]

PadInv == Pad!TypeOK /\ RepeatInv /\ FiredInv /\ TakenInv /\ Pad!EmitsForOwner

------------------------------------------------------------------------------
(* What a control means, and what a signal may say *)

Plain == Pad!Moves \cup {"Confirm", "Back", "Search", "ContextMenu", "PrevGroup", "NextGroup",
                     "PrevTab", "NextTab"}

\* The actions the controls stand for.
LEMMA ActionIs ==
    /\ \A c : Pad!ActionOf(c) \in Plain \cup {None}
    /\ \A c \in {"Guide", "Start", "Select"} : Pad!ActionOf(c) = None
    /\ Pad!ActionOf("East") = "Back"
<1>1. \A c \in {"Guide", "Start", "Select"} : Pad!ActionOf(c) = None
  BY DEF Pad!ActionOf
<1>2. Pad!ActionOf("East") = "Back"
  BY DEF Pad!ActionOf
<1>3. \A c : Pad!ActionOf(c) \in Plain \cup {None}
  BY ZenonT(40) DEF Pad!ActionOf, Plain, Pad!Moves
<1> QED
  BY <1>1, <1>2, <1>3

\* The kinds of signals, told apart.
LEMMA KindsAre ==
    /\ Pad!Moves \subseteq Plain /\ Plain \subseteq Pad!Actions
    /\ "FilterPanel" \in Pad!Actions /\ "TextKeyboard" \in Pad!Actions
    /\ \A k \in Pad!Actions : Pad!ClassOf(k) = "action"
    /\ Pad!ClassOf("ToggleOverlay") = "ToggleOverlay"
    /\ Pad!ClassOf("GameKeyboard") = "GameKeyboard"
    /\ \A k \in Pad!Actions : k \notin {"ToggleOverlay", "GameKeyboard"}
    /\ \A k \in Plain : k \notin {"FilterPanel", "TextKeyboard"}
BY DEF Plain, Pad!Moves, Pad!Actions, Pad!ClassOf

\* What each owner may be told.
LEMMA OwnersMay ==
    /\ \A o \in Pad!Owners : "ToggleOverlay" \in Pad!Producible(o)
    /\ \A o \in {"Frontend", "TextEntry", "Overlay"} : "action" \in Pad!Producible(o)
    /\ \A o \in {"Observe", "Desktop"} : "GameKeyboard" \in Pad!Producible(o)
BY DEF Pad!Owners, Pad!Producible

\* The chords behind each kind of signal.
LEMMA BasisIs ==
    /\ Pad!Basis("ToggleOverlay") = {{"Guide"}}
    /\ Pad!Basis("GameKeyboard") = {{"Guide", "West"}}
    /\ Pad!Basis("FilterPanel") = {{"Select"}}
    /\ Pad!Basis("TextKeyboard") = {{"Start", "Select"}}
    /\ \A k \in Plain, c \in Controls : Pad!ActionOf(c) = k => {c} \in Pad!Basis(k)
<1>1. \A k \in Plain : Pad!Basis(k) = {{c} : c \in {d \in Controls : Pad!ActionOf(d) = k}}
  BY KindsAre DEF Pad!Basis
<1>2. \A k \in Plain, c \in Controls : Pad!ActionOf(c) = k => {c} \in Pad!Basis(k)
  BY <1>1
<1> QED
  BY <1>2 DEF Pad!Basis

------------------------------------------------------------------------------
(* One edge *)

Told(p, k) == {[pad |-> p, kind |-> k]}

\* A signal names its controller and its kind.
LEMMA ToldIs ==
    ASSUME NEW p, NEW k
    PROVE  \A s \in Told(p, k) : s.pad = p /\ s.kind = k
BY SMT DEF Told

\* What an edge of control c on pad p comes to.
Kept == repeat' = repeat /\ guideUsed' = guideUsed
Ignored(p, c) == signals' = {} /\ Kept /\ repeat[p] = None
GuideDown(p, c) ==
    /\ p \in armed /\ c = "Guide" /\ c \notin held[p]
    /\ signals' = {} /\ guideUsed' = guideUsed \ {p} /\ repeat' = [repeat EXCEPT ![p] = None]
GuideUp(p, c) ==
    /\ p \in armed /\ c = "Guide" /\ c \in held[p] /\ p \notin guideUsed
    /\ signals' = Told(p, "ToggleOverlay") /\ Kept /\ repeat[p] = None
Chord(p, c) ==
    /\ p \in armed /\ c = "West" /\ c \notin held[p] /\ "Guide" \in held[p] /\ p \notin guideUsed
    /\ owner \in {"Observe", "Desktop"}
    /\ signals' = Told(p, "GameKeyboard") /\ repeat' = repeat /\ guideUsed' = guideUsed \cup {p}
    /\ repeat[p] = None
Leaving(p, c) ==
    /\ p \in armed /\ c = "East" /\ c \notin held[p] /\ owner = "TextEntry"
    /\ signals' = Told(p, "Back") /\ Kept /\ repeat[p] = None
Keyboard(p, c) ==
    /\ p \in armed /\ c \in {"Start", "Select"} /\ owner = "Frontend" /\ "Guide" \notin held'[p]
    /\ {"Start", "Select"} \subseteq held'[p]
    /\ signals' = Told(p, "TextKeyboard") /\ Kept
Filter(p, c) ==
    /\ p \in armed /\ c = "Select" /\ c \in held[p] /\ owner = "Frontend" /\ "Guide" \notin held'[p]
    /\ signals' = Told(p, "FilterPanel") /\ Kept
Acts(p, c) ==
    /\ p \in armed /\ c # "Guide" /\ "Guide" \notin held'[p] /\ owner \in {"Frontend", "Overlay"}
    /\ Pad!ActionEdge(p, c, c \notin held[p]) /\ guideUsed' = guideUsed

Outcomes(p, c) ==
    \/ Ignored(p, c) \/ GuideDown(p, c) \/ GuideUp(p, c) \/ Chord(p, c)
    \/ Leaving(p, c) \/ Keyboard(p, c) \/ Filter(p, c) \/ Acts(p, c)

\* What an edge does to the held and the taken controls.
LEMMA HeldIs ==
    ASSUME Pad!TypeOK, NEW p \in Pads, NEW c \in Controls, NEW e \in BOOLEAN, Pad!Button(p, c, e)
    PROVE  /\ held' \in [Pads -> SUBSET Controls] /\ taken' \in [Pads -> SUBSET Controls]
           /\ \A q \in Pads : q # p => held'[q] = held[q] /\ taken'[q] = taken[q]
           /\ c \in held[p] => held'[p] = held[p] \ {c} /\ taken'[p] = taken[p] \ {c}
           /\ c \notin held[p] => held'[p] = held[p] \cup {c}
           /\ c \notin held[p] /\ p \in armed => taken'[p] = taken[p] \cup {c}
<1>1. held \in [Pads -> SUBSET Controls] /\ taken \in [Pads -> SUBSET Controls]
  BY DEF Pad!TypeOK
<1>2. /\ held' = [held EXCEPT ![p] = Pad!Add(@, c, c \notin held[p])]
      /\ taken' = [taken EXCEPT ![p] = Pad!Add(@, c, c \notin held[p] /\ p \in armed)]
  BY DEF Pad!Button
<1>3. held' \in [Pads -> SUBSET Controls]
  BY <1>1, <1>2 DEF Pad!Add
<1>4. taken' \in [Pads -> SUBSET Controls]
  BY <1>1, <1>2 DEF Pad!Add
<1> QED
  BY <1>1, <1>2, <1>3, <1>4 DEF Pad!Add

\* An edge is dropped, or is one of the chords, or one plain action.
LEMMA EdgeOutcomes ==
    ASSUME Pad!TypeOK, RepeatInv, NEW p \in Pads, NEW c \in Controls, NEW e \in BOOLEAN,
           Pad!Button(p, c, e)
    PROVE  Outcomes(p, c)
<1> DEFINE b == c \notin held[p]
<1>1. Pad!Meaning(p, c, b, e)
  BY DEF Pad!Button
<1>2. ~ Repeats(p) => repeat[p] = None
  BY DEF RepeatInv
<1>3. CASE p \notin armed
  BY <1>1, <1>2, <1>3 DEF Pad!Meaning, Pad!Unchanged, Outcomes, Ignored, Kept, Repeats
<1>4. CASE p \in armed /\ c = "Guide"
  <2>1. Pad!GuideEdge(p, b)
    BY <1>1, <1>4 DEF Pad!Meaning
  <2>2. CASE b
    BY <1>4, <2>1, <2>2 DEF Pad!GuideEdge, Outcomes, GuideDown
  <2>3. CASE ~b
    <3>1. repeat[p] = None
      BY <1>2, <1>4, <2>3 DEF Repeats
    <3> QED
      BY <1>4, <2>1, <2>3, <3>1
         DEF Pad!GuideEdge, Pad!Unchanged, Outcomes, GuideUp, Ignored, Kept, Told
  <2> QED
    BY <2>2, <2>3
<1>5. CASE p \in armed /\ c # "Guide" /\ "Guide" \in held'[p]
  <2>1. Pad!ChordEdge(p, c, b, e)
    BY <1>1, <1>5 DEF Pad!Meaning
  <2>2. "Guide" \in held[p]
    BY ZenonT(40), <1>5, HeldIs
  <2>3. repeat[p] = None
    BY <1>2, <2>2 DEF Repeats
  <2> QED
    BY <1>5, <2>1, <2>2, <2>3
       DEF Pad!ChordEdge, Pad!Unchanged, Outcomes, Chord, Ignored, Kept, Told
<1>6. CASE p \in armed /\ c # "Guide" /\ "Guide" \notin held'[p] /\ owner = "TextEntry"
  <2>1. Pad!TextEntryEdge(p, c, b)
    BY <1>1, <1>6 DEF Pad!Meaning
  <2>2. repeat[p] = None
    BY <1>2, <1>6 DEF Repeats
  <2> QED
    BY <1>6, <2>1, <2>2
       DEF Pad!TextEntryEdge, Pad!Unchanged, Outcomes, Leaving, Ignored, Kept, Told
<1>7. CASE p \in armed /\ c # "Guide" /\ "Guide" \notin held'[p] /\ owner = "Frontend"
  <2>1. Pad!FrontendEdge(p, c, b)
    BY <1>1, <1>7 DEF Pad!Meaning
  <2> QED
    BY <1>7, <2>1 DEF Pad!FrontendEdge, Outcomes, Keyboard, Filter, Acts, Kept, Told
<1>8. CASE p \in armed /\ c # "Guide" /\ "Guide" \notin held'[p] /\ owner = "Overlay"
  <2>1. Pad!ActionEdge(p, c, b) /\ guideUsed' = guideUsed
    BY <1>1, <1>8 DEF Pad!Meaning
  <2> QED
    BY <1>8, <2>1 DEF Outcomes, Acts
<1>9. CASE /\ p \in armed /\ c # "Guide" /\ "Guide" \notin held'[p]
           /\ owner \notin {"TextEntry", "Frontend", "Overlay"}
  <2>1. repeat[p] = None
    BY <1>2, <1>9 DEF Repeats
  <2> QED
    BY <1>1, <1>9, <2>1 DEF Pad!Meaning, Pad!Unchanged, Outcomes, Ignored, Kept
<1> QED
  BY <1>3, <1>4, <1>5, <1>6, <1>7, <1>8, <1>9

\* What a plain edge does to the repeat.
LEMMA ActionRepeats ==
    ASSUME Pad!TypeOK, NEW p \in Pads, NEW c, NEW b \in BOOLEAN, Pad!ActionEdge(p, c, b)
    PROVE  /\ repeat' \in [Pads -> Pad!Moves \cup {None}]
           /\ \A q \in Pads : q # p => repeat'[q] = repeat[q]
           /\ Pad!ActionOf(c) \notin Pad!Moves => repeat'[p] = repeat[p]
           /\ Pad!ActionOf(c) \in Pad!Moves /\ b => repeat'[p] = Pad!ActionOf(c)
           /\ Pad!ActionOf(c) \in Pad!Moves /\ ~b =>
                repeat'[p] = None \/ (repeat'[p] = repeat[p] /\ repeat[p] # Pad!ActionOf(c))
           /\ signals' = {} \/ (b /\ Pad!ActionOf(c) # None /\ signals' = Told(p, Pad!ActionOf(c)))
<1>1. repeat \in [Pads -> Pad!Moves \cup {None}]
  BY DEF Pad!TypeOK
<1> DEFINE next == IF Pad!ActionOf(c) \notin Pad!Moves THEN repeat[p]
                   ELSE IF b THEN Pad!ActionOf(c)
                   ELSE IF repeat[p] = Pad!ActionOf(c) THEN None ELSE repeat[p]
<1>2. repeat' = [repeat EXCEPT ![p] = next]
  BY DEF Pad!ActionEdge
<1>3. next \in Pad!Moves \cup {None}
  BY <1>1
<1>4. signals' = {} \/ (b /\ Pad!ActionOf(c) # None /\ signals' = Told(p, Pad!ActionOf(c)))
  BY DEF Pad!ActionEdge, Told
<1>5. /\ Pad!ActionOf(c) \notin Pad!Moves => next = repeat[p]
      /\ Pad!ActionOf(c) \in Pad!Moves /\ b => next = Pad!ActionOf(c)
      /\ Pad!ActionOf(c) \in Pad!Moves /\ ~b =>
           next = None \/ (next = repeat[p] /\ repeat[p] # Pad!ActionOf(c))
  OBVIOUS
<1> HIDE DEF next
<1>6. repeat' \in [Pads -> Pad!Moves \cup {None}] /\ repeat'[p] = next
  BY <1>1, <1>2, <1>3
<1>7. \A q \in Pads : q # p => repeat'[q] = repeat[q]
  BY <1>1, <1>2
<1> QED
  BY <1>4, <1>5, <1>6, <1>7

\* An edge concerns its own pad.
LEMMA EdgeIsLocal ==
    ASSUME Pad!TypeOK, NEW p \in Pads, NEW c \in Controls, Outcomes(p, c)
    PROVE  /\ repeat' \in [Pads -> Pad!Moves \cup {None}] /\ guideUsed' \subseteq Pads
           /\ \A q \in Pads : q # p => repeat'[q] = repeat[q]
           /\ \A q \in Pads : q # p => (q \in guideUsed' <=> q \in guideUsed)
<1>1. repeat \in [Pads -> Pad!Moves \cup {None}] /\ guideUsed \subseteq Pads
  BY DEF Pad!TypeOK
<1>2. CASE Acts(p, c)
  <2>1. Pad!ActionEdge(p, c, c \notin held[p]) /\ guideUsed' = guideUsed
    BY <1>2 DEF Acts
  <2> QED
    BY <1>1, <2>1, ActionRepeats
<1>3. CASE GuideDown(p, c)
  BY <1>1, <1>3 DEF GuideDown
<1>4. CASE Chord(p, c)
  BY <1>1, <1>4 DEF Chord
<1>5. CASE Kept
  BY <1>1, <1>5 DEF Kept
<1> QED
  BY <1>2, <1>3, <1>4, <1>5 DEF Outcomes, Ignored, GuideUp, Leaving, Keyboard, Filter

\* What an edge tells, and to whom.
LEMMA EdgeTells ==
    ASSUME Pad!TypeOK, NEW p \in Pads, NEW c \in Controls, Outcomes(p, c)
    PROVE  \/ signals' = {}
           \/ \E k \in Pad!Actions : /\ signals' = Told(p, k)
                                 /\ owner \in {"Frontend", "TextEntry", "Overlay"}
           \/ GuideUp(p, c) \/ Chord(p, c)
<1>1. CASE Acts(p, c)
  <2>1. owner \in {"Frontend", "Overlay"} /\ Pad!ActionEdge(p, c, c \notin held[p])
    BY <1>1 DEF Acts
  <2>2. signals' = {} \/ (Pad!ActionOf(c) # None /\ signals' = Told(p, Pad!ActionOf(c)))
    BY <2>1, ActionRepeats
  <2> QED
    BY <2>1, <2>2, ActionIs, KindsAre
<1>2. CASE Leaving(p, c)
  BY <1>2, KindsAre DEF Leaving, Plain
<1>3. CASE Keyboard(p, c)
  BY <1>3, KindsAre DEF Keyboard
<1>4. CASE Filter(p, c)
  BY <1>4, KindsAre DEF Filter
<1> QED
  BY <1>1, <1>2, <1>3, <1>4 DEF Outcomes, Ignored, GuideDown

\* The signals of an edge are typed, and meant for the owner.
LEMMA EdgeSignalsTyped ==
    ASSUME Pad!TypeOK, NEW p \in Pads, NEW c \in Controls, Outcomes(p, c)
    PROVE  /\ signals' \subseteq [pad : Pads,
                                  kind : Pad!Actions \cup {"ToggleOverlay", "GameKeyboard"}]
           /\ \A s \in signals' : Pad!ClassOf(s.kind) \in Pad!Producible(owner)
<1>1. owner \in Pad!Owners
  BY DEF Pad!TypeOK
<1>2. ASSUME NEW k \in Pad!Actions, signals' = Told(p, k),
             owner \in {"Frontend", "TextEntry", "Overlay"}
      PROVE  /\ signals' \subseteq [pad : Pads,
                                  kind : Pad!Actions \cup {"ToggleOverlay", "GameKeyboard"}]
             /\ \A s \in signals' : Pad!ClassOf(s.kind) \in Pad!Producible(owner)
  <2>1. signals' \subseteq [pad : Pads, kind : Pad!Actions \cup {"ToggleOverlay", "GameKeyboard"}]
    BY SMT, <1>2 DEF Told
  <2>2. \A s \in signals' : s.kind = k
    BY <1>2, ToldIs
  <2> QED
    BY <1>2, <2>1, <2>2, KindsAre, OwnersMay
<1>3. CASE GuideUp(p, c)
  <2>1. signals' = Told(p, "ToggleOverlay")
    BY <1>3 DEF GuideUp
  <2>2. signals' \subseteq [pad : Pads, kind : Pad!Actions \cup {"ToggleOverlay", "GameKeyboard"}]
    BY SMT, <2>1 DEF Told
  <2>3. \A s \in signals' : s.kind = "ToggleOverlay"
    BY <2>1, ToldIs
  <2> QED
    BY <1>1, <2>2, <2>3, KindsAre, OwnersMay
<1>4. CASE Chord(p, c)
  <2>1. signals' = Told(p, "GameKeyboard") /\ owner \in {"Observe", "Desktop"}
    BY <1>4 DEF Chord
  <2>2. signals' \subseteq [pad : Pads, kind : Pad!Actions \cup {"ToggleOverlay", "GameKeyboard"}]
    BY SMT, <2>1 DEF Told
  <2>3. \A s \in signals' : s.kind = "GameKeyboard"
    BY <2>1, ToldIs
  <2> QED
    BY <2>1, <2>2, <2>3, KindsAre, OwnersMay
<1> QED
  BY <1>2, <1>3, <1>4, EdgeTells

\* Hands that change leave nothing armed and nothing repeating.
LEMMA SuspendedIs ==
    ASSUME Pad!Suspended
    PROVE  /\ armed' = {} /\ guideUsed' = Pads /\ selectUsed' = Pads /\ startUsed' = Pads
           /\ \A p \in Pads : repeat'[p] = None
           /\ repeat' \in [Pads -> Pad!Moves \cup {None}] /\ taken' \in [Pads -> SUBSET Controls]
BY DEF Pad!Suspended

\* Reopening a pad forgets what was known of it, and nothing of the others.
LEMMA ReopenIs ==
    ASSUME Pad!TypeOK, NEW p \in Pads, Pad!Reopen(p)
    PROVE  /\ held' \in [Pads -> SUBSET Controls] /\ taken' \in [Pads -> SUBSET Controls]
           /\ repeat' \in [Pads -> Pad!Moves \cup {None}] /\ fired' \in [Pads -> Nat]
           /\ repeat'[p] = None /\ fired'[p] = 0 /\ p \notin armed'
           /\ \A q \in Pads : q # p => /\ held'[q] = held[q] /\ taken'[q] = taken[q]
                                       /\ repeat'[q] = repeat[q] /\ fired'[q] = fired[q]
           /\ \A q \in Pads : q # p => /\ q \in armed' <=> q \in armed
                                       /\ q \in guideUsed' <=> q \in guideUsed
<1>1. /\ held \in [Pads -> SUBSET Controls] /\ taken \in [Pads -> SUBSET Controls]
      /\ repeat \in [Pads -> Pad!Moves \cup {None}] /\ fired \in [Pads -> Nat]
  BY DEF Pad!TypeOK
<1>2. PICK pressed \in SUBSET Controls : held' = [held EXCEPT ![p] = pressed]
  BY DEF Pad!Reopen
<1>3. /\ armed' = armed \ {p} /\ guideUsed' = guideUsed \ {p}
      /\ repeat' = [repeat EXCEPT ![p] = None] /\ taken' = [taken EXCEPT ![p] = {}]
      /\ fired' = [fired EXCEPT ![p] = 0]
  BY DEF Pad!Reopen
<1>4. held' \in [Pads -> SUBSET Controls] /\ \A q \in Pads : q # p => held'[q] = held[q]
  BY <1>1, <1>2
<1>5. taken' \in [Pads -> SUBSET Controls] /\ \A q \in Pads : q # p => taken'[q] = taken[q]
  BY <1>1, <1>3
<1>6. /\ repeat' \in [Pads -> Pad!Moves \cup {None}] /\ repeat'[p] = None
      /\ \A q \in Pads : q # p => repeat'[q] = repeat[q]
  BY <1>1, <1>3
<1>7. /\ fired' \in [Pads -> Nat] /\ fired'[p] = 0
      /\ \A q \in Pads : q # p => fired'[q] = fired[q]
  BY <1>1, <1>3
<1> QED
  BY <1>3, <1>4, <1>5, <1>6, <1>7

\* The history of a Guide hold.
LEMMA FiredIs ==
    ASSUME Pad!TypeOK, NEW p \in Pads, NEW c \in Controls, NEW e \in BOOLEAN, Pad!Button(p, c, e)
    PROVE  /\ fired' \in [Pads -> Nat]
           /\ \A q \in Pads : q # p => fired'[q] = fired[q]
           /\ c = "Guide" /\ c \notin held[p] => fired'[p] = 0
           /\ ~(c = "Guide" /\ c \notin held[p]) =>
                fired'[p] = IF \E s \in signals' : s.kind \in {"ToggleOverlay", "GameKeyboard"}
                            THEN fired[p] + 1 ELSE fired[p]
<1>1. fired \in [Pads -> Nat]
  BY DEF Pad!TypeOK
<1> DEFINE told == \E s \in signals' : s.kind \in {"ToggleOverlay", "GameKeyboard"}
           next == IF c = "Guide" /\ c \notin held[p] THEN 0
                   ELSE IF told THEN fired[p] + 1 ELSE fired[p]
<1>2. fired' = [fired EXCEPT ![p] = next]
  BY DEF Pad!Button
<1>3. next \in Nat
  <2> HIDE DEF told
  <2> QED
    BY SMT, <1>1
<1>4. /\ c = "Guide" /\ c \notin held[p] => next = 0
      /\ ~(c = "Guide" /\ c \notin held[p]) => next = IF told THEN fired[p] + 1 ELSE fired[p]
  BY Zenon
<1> HIDE DEF next
<1>5. fired' \in [Pads -> Nat] /\ fired'[p] = next /\ \A q \in Pads : q # p => fired'[q] = fired[q]
  BY <1>1, <1>2, <1>3
<1> QED
  BY <1>4, <1>5

\* An edge keeps the types.
LEMMA ButtonTypes ==
    ASSUME Pad!TypeOK, RepeatInv, NEW p \in Pads, NEW c \in Controls, NEW e \in BOOLEAN,
           Pad!Button(p, c, e)
    PROVE  Pad!TypeOK'
<1>1. owner' = owner /\ armed' = armed
  BY DEF Pad!Button
<1>2. alone' \subseteq Pads
  BY DEF Pad!Button, Pad!Add, Pad!TypeOK
<1>3. selectUsed' \subseteq Pads /\ startUsed' \subseteq Pads
  BY SMT
     DEF Pad!Button, Pad!Meaning, Pad!GuideEdge, Pad!ChordEdge, Pad!TextEntryEdge,
         Pad!FrontendEdge, Pad!Unchanged, Pad!TypeOK
<1>4. repeat' \in [Pads -> Pad!Moves \cup {None}] /\ guideUsed' \subseteq Pads
  BY EdgeOutcomes, EdgeIsLocal
<1>5. signals' \subseteq [pad : Pads, kind : Pad!Actions \cup {"ToggleOverlay", "GameKeyboard"}]
  BY EdgeOutcomes, EdgeSignalsTyped
<1>6. /\ held' \in [Pads -> SUBSET Controls] /\ taken' \in [Pads -> SUBSET Controls]
      /\ fired' \in [Pads -> Nat]
  BY SMT, HeldIs, FiredIs
<1> QED
  BY <1>1, <1>2, <1>3, <1>4, <1>5, <1>6 DEF Pad!TypeOK

\* Every step keeps the types.
LEMMA PadTypesStep ==
    ASSUME Pad!TypeOK, RepeatInv, [Pad!Next]_(Pad!vars)
    PROVE  Pad!TypeOK'
<1>1. ASSUME NEW o \in Pad!Owners, Pad!SetOwner(o) PROVE Pad!TypeOK'
  BY <1>1, SuspendedIs DEF Pad!SetOwner, Pad!TypeOK
<1>2. CASE Pad!Suspend
  BY <1>2, SuspendedIs DEF Pad!Suspend, Pad!TypeOK
<1>3. CASE Pad!Tick
  <2>1. PICK due \in SUBSET {p \in armed' : repeat[p] # None} :
            signals' = {[pad |-> p, kind |-> repeat[p]] : p \in due}
    BY <1>3 DEF Pad!Tick
  <2>2. armed' \subseteq Pads
    BY <1>3 DEF Pad!Tick, Pad!TypeOK
  <2>3. \A p \in due : p \in Pads /\ repeat[p] \in Pad!Actions
    BY <2>2, KindsAre DEF RepeatInv, Repeats
  <2>4. signals' \subseteq [pad : Pads, kind : Pad!Actions \cup {"ToggleOverlay", "GameKeyboard"}]
    BY SMT, <2>1, <2>3
  <2> QED
    BY <1>3, <2>2, <2>4 DEF Pad!Tick, Pad!TypeOK
<1>4. ASSUME NEW p \in Pads, Pad!Reopen(p) PROVE Pad!TypeOK'
  <2>1. /\ owner' = owner /\ signals' = {} /\ armed' \subseteq armed /\ alone' \subseteq alone
        /\ guideUsed' \subseteq guideUsed /\ selectUsed' \subseteq selectUsed
        /\ startUsed' \subseteq startUsed
    BY <1>4 DEF Pad!Reopen
  <2> QED
    BY <1>4, <2>1, ReopenIs DEF Pad!TypeOK
<1>5. ASSUME NEW p \in Pads, NEW c \in Controls, NEW e \in BOOLEAN, Pad!Button(p, c, e)
      PROVE  Pad!TypeOK'
  BY <1>5, ButtonTypes
<1>6. CASE UNCHANGED Pad!vars
  BY <1>6 DEF Pad!vars, Pad!TypeOK
<1> QED
  BY <1>1, <1>2, <1>3, <1>4, <1>5, <1>6 DEF Pad!Next

------------------------------------------------------------------------------
(* The invariant is inductive *)

\* Every step keeps the repeat backed by a held direction.
LEMMA RepeatStep ==
    ASSUME Pad!TypeOK, RepeatInv, [Pad!Next]_(Pad!vars)
    PROVE  RepeatInv'
<1>1. ASSUME Pad!Suspended PROVE RepeatInv'
  BY <1>1, SuspendedIs DEF RepeatInv
<1>2. CASE Pad!Tick
  BY <1>2 DEF Pad!Tick, RepeatInv, Repeats
<1>3. ASSUME NEW p \in Pads, Pad!Reopen(p) PROVE RepeatInv'
  <2>1. owner' = owner
    BY <1>3 DEF Pad!Reopen
  <2> QED
    BY ZenonT(40), <1>3, <2>1, ReopenIs DEF RepeatInv, Repeats
<1>4. ASSUME NEW p \in Pads, NEW c \in Controls, NEW e \in BOOLEAN, Pad!Button(p, c, e)
      PROVE  RepeatInv'
  <2>1. Outcomes(p, c)
    BY <1>4, EdgeOutcomes
  <2>2. owner' = owner /\ armed' = armed
    BY <1>4 DEF Pad!Button
  <2>3. \A q \in Pads : q # p => held'[q] = held[q] /\ repeat'[q] = repeat[q]
    BY SMT, <1>4, <2>1, HeldIs, EdgeIsLocal
  <2>4. repeat'[p] # None => Repeats(p)'
    <3>1. CASE repeat[p] = None /\ repeat' = repeat
      BY <3>1
    <3>2. CASE GuideDown(p, c)
      BY <3>2 DEF GuideDown, Pad!TypeOK
    <3>3. ASSUME repeat[p] # None, repeat'[p] = repeat[p], Pad!ActionOf(c) # repeat[p],
                 "Guide" \notin held'[p]
          PROVE  Repeats(p)'
      <4>1. Repeats(p)
        BY <3>3 DEF RepeatInv
      <4>2. PICK d \in held[p] : Pad!ActionOf(d) = repeat[p]
        BY <4>1 DEF Repeats
      <4>3. d \in held'[p]
        BY SMT, <1>4, <3>3, <4>2, HeldIs
      <4> QED
        BY <2>2, <3>3, <4>1, <4>2, <4>3 DEF Repeats
    <3>4. CASE Keyboard(p, c) \/ Filter(p, c)
      <4>1. repeat' = repeat /\ "Guide" \notin held'[p] /\ Pad!ActionOf(c) = None
        BY <3>4, ActionIs DEF Keyboard, Filter, Kept
      <4> QED
        BY <3>3, <4>1
    <3>5. CASE Acts(p, c)
      <4>1. /\ Pad!ActionEdge(p, c, c \notin held[p]) /\ "Guide" \notin held'[p] /\ p \in armed
            /\ owner \in {"Frontend", "Overlay"}
        BY <3>5 DEF Acts
      <4>2. CASE Pad!ActionOf(c) \notin Pad!Moves
        <5>1. repeat'[p] = repeat[p]
          BY <4>1, <4>2, ActionRepeats
        <5>2. repeat[p] # None => repeat[p] \in Pad!Moves
          BY DEF Pad!TypeOK
        <5> QED
          BY <3>3, <4>1, <4>2, <5>1, <5>2
      <4>3. CASE Pad!ActionOf(c) \in Pad!Moves /\ c \notin held[p]
        <5>1. repeat'[p] = Pad!ActionOf(c)
          BY <4>1, <4>3, ActionRepeats
        <5>2. c \in held'[p]
          BY SMT, <1>4, <4>3, HeldIs
        <5> QED
          BY <2>2, <4>1, <4>3, <5>1, <5>2 DEF Repeats
      <4>4. CASE Pad!ActionOf(c) \in Pad!Moves /\ c \in held[p]
        <5>1. repeat'[p] = None \/ (repeat'[p] = repeat[p] /\ repeat[p] # Pad!ActionOf(c))
          BY <4>1, <4>4, ActionRepeats
        <5> QED
          BY <3>3, <4>1, <5>1
      <4> QED
        BY <4>2, <4>3, <4>4
    <3> QED
      BY <2>1, <3>1, <3>2, <3>4, <3>5 DEF Outcomes, Ignored, GuideUp, Chord, Leaving, Kept
  <2>5. ASSUME NEW q \in Pads, q # p, repeat'[q] # None PROVE Repeats(q)'
    BY <2>2, <2>3, <2>5 DEF RepeatInv, Repeats
  <2> QED
    BY <2>4, <2>5 DEF RepeatInv
<1>5. CASE UNCHANGED Pad!vars
  BY <1>5 DEF Pad!vars, RepeatInv, Repeats
<1> QED
  BY <1>1, <1>2, <1>3, <1>4, <1>5 DEF Pad!Next, Pad!SetOwner, Pad!Suspend

\* Every step keeps the record of the chords already told.
LEMMA FiredStep ==
    ASSUME Pad!TypeOK, RepeatInv, FiredInv, [Pad!Next]_(Pad!vars)
    PROVE  FiredInv'
<1>1. ASSUME guideUsed' = Pads, fired' = fired PROVE FiredInv'
  BY <1>1 DEF FiredInv
<1>2. CASE UNCHANGED <<held, guideUsed, fired>>
  BY <1>2 DEF FiredInv
<1>3. ASSUME NEW p \in Pads, Pad!Reopen(p) PROVE FiredInv'
  BY SMT, <1>3, ReopenIs DEF FiredInv
<1>4. ASSUME NEW p \in Pads, NEW c \in Controls, NEW e \in BOOLEAN, Pad!Button(p, c, e)
      PROVE  FiredInv'
  <2>1. Outcomes(p, c)
    BY <1>4, EdgeOutcomes
  <2>2. \A q \in Pads : q # p => /\ held'[q] = held[q] /\ fired'[q] = fired[q]
                                 /\ q \in guideUsed' <=> q \in guideUsed
    BY SMT, <1>4, <2>1, HeldIs, EdgeIsLocal, FiredIs
  <2> DEFINE told == \E s \in signals' : s.kind \in {"ToggleOverlay", "GameKeyboard"}
  <2>3. /\ c = "Guide" /\ c \notin held[p] => fired'[p] = 0
        /\ ~(c = "Guide" /\ c \notin held[p]) =>
             fired'[p] = IF told THEN fired[p] + 1 ELSE fired[p]
    BY <1>4, FiredIs
  <2>4. fired[p] \in {0, 1} /\ (fired[p] = 1 /\ "Guide" \in held[p] => p \in guideUsed)
    BY DEF FiredInv
  <2>5. c # "Guide" \/ c \in held[p] => ("Guide" \in held'[p] => "Guide" \in held[p])
    BY <1>4, HeldIs
  <2>6. fired'[p] \in {0, 1} /\ (fired'[p] = 1 /\ "Guide" \in held'[p] => p \in guideUsed')
    <3>1. CASE GuideUp(p, c)
      <4>1. "Guide" \notin held'[p]
        BY SMT, <1>4, <3>1, HeldIs DEF GuideUp
      <4>2. fired[p] = 0
        BY <2>4, <3>1 DEF GuideUp
      <4>3. fired'[p] \in {0, 1}
        <5> HIDE DEF told
        <5> QED
          BY SMT, <2>3, <3>1, <4>2 DEF GuideUp
      <4> QED
        BY <4>1, <4>3
    <3>2. CASE Chord(p, c)
      <4>1. fired[p] = 0 /\ p \in guideUsed'
        BY <2>4, <3>2 DEF Chord
      <4>2. fired'[p] \in {0, 1}
        <5> HIDE DEF told
        <5> QED
          BY SMT, <2>3, <3>2, <4>1 DEF Chord
      <4> QED
        BY <4>1, <4>2
    <3>3. CASE GuideDown(p, c)
      BY SMT, <2>3, <3>3 DEF GuideDown
    <3>4. CASE /\ ~GuideUp(p, c) /\ ~Chord(p, c) /\ ~GuideDown(p, c)
      <4>1. guideUsed' = guideUsed
        BY <2>1, <3>4 DEF Outcomes, Ignored, Leaving, Keyboard, Filter, Acts, Kept
      <4>2. ~told
        <5>1. signals' = {} \/ \E k \in Pad!Actions : signals' = Told(p, k)
          BY <2>1, <3>4, EdgeTells
        <5> QED
          BY SMT, <5>1, KindsAre, ToldIs
      <4>3. fired'[p] = 0 \/ (fired'[p] = fired[p] /\ (c # "Guide" \/ c \in held[p]))
        <5> HIDE DEF told
        <5> QED
          BY <2>3, <4>2
      <4> QED
        BY SMT, <2>4, <2>5, <4>1, <4>3
    <3> QED
      BY <3>1, <3>2, <3>3, <3>4
  <2> QED
    BY <2>2, <2>6 DEF FiredInv
<1> QED
  BY <1>1, <1>2, <1>3, <1>4, SuspendedIs
     DEF Pad!Next, Pad!SetOwner, Pad!Suspend, Pad!Tick, Pad!vars

\* Every step keeps the controls taken under the owner among the held ones.
LEMMA TakenStep ==
    ASSUME Pad!TypeOK, TakenInv, [Pad!Next]_(Pad!vars)
    PROVE  TakenInv'
<1>1. ASSUME Pad!Suspended PROVE TakenInv'
  BY <1>1, SuspendedIs DEF TakenInv
<1>2. CASE Pad!Tick
  BY <1>2 DEF Pad!Tick, TakenInv
<1>3. ASSUME NEW p \in Pads, Pad!Reopen(p) PROVE TakenInv'
  BY <1>3, ReopenIs DEF TakenInv
<1>4. ASSUME NEW p \in Pads, NEW c \in Controls, NEW e \in BOOLEAN, Pad!Button(p, c, e)
      PROVE  TakenInv'
  <2>1. armed' = armed
    BY <1>4 DEF Pad!Button
  <2> QED
    BY <1>4, <2>1, HeldIs DEF TakenInv
<1>5. CASE UNCHANGED Pad!vars
  BY <1>5 DEF Pad!vars, TakenInv
<1> QED
  BY <1>1, <1>2, <1>3, <1>4, <1>5 DEF Pad!Next, Pad!SetOwner, Pad!Suspend

\* Every step emits for its owner only.
LEMMA EmitsStep ==
    ASSUME Pad!TypeOK, RepeatInv, Pad!EmitsForOwner, [Pad!Next]_(Pad!vars)
    PROVE  Pad!EmitsForOwner'
<1>1. ASSUME signals' = {} PROVE Pad!EmitsForOwner'
  BY <1>1 DEF Pad!EmitsForOwner
<1>2. CASE Pad!Tick
  <2>1. PICK due \in SUBSET {p \in armed' : repeat[p] # None} :
            signals' = {[pad |-> p, kind |-> repeat[p]] : p \in due}
    BY <1>2 DEF Pad!Tick
  <2>2. armed' \subseteq Pads /\ owner' = owner
    BY <1>2 DEF Pad!Tick, Pad!TypeOK
  <2>3. \A p \in due : repeat[p] \in Pad!Actions /\ owner \in {"Frontend", "Overlay"}
    BY <2>2, KindsAre DEF RepeatInv, Repeats
  <2>4. ASSUME NEW s \in signals' PROVE Pad!ClassOf(s.kind) \in Pad!Producible(owner)
    <3>1. PICK p \in due : s.kind = repeat[p]
      BY SMT, <2>1, <2>4
    <3> QED
      BY <2>3, <3>1, KindsAre, OwnersMay
  <2> QED
    BY <2>2, <2>4 DEF Pad!EmitsForOwner
<1>3. ASSUME NEW p \in Pads, NEW c \in Controls, NEW e \in BOOLEAN, Pad!Button(p, c, e)
      PROVE  Pad!EmitsForOwner'
  <2>1. Outcomes(p, c) /\ owner' = owner
    BY <1>3, EdgeOutcomes DEF Pad!Button
  <2> QED
    BY <2>1, EdgeSignalsTyped DEF Pad!EmitsForOwner
<1>4. CASE UNCHANGED Pad!vars
  BY <1>4 DEF Pad!vars, Pad!EmitsForOwner
<1> QED
  BY <1>1, <1>2, <1>3, <1>4 DEF Pad!Next, Pad!SetOwner, Pad!Suspend, Pad!Reopen

\* The inductive invariant holds throughout.
LEMMA PadIsSound == Pad!Spec => []PadInv
<1>1. Pad!Init => PadInv
  BY SMT
     DEF Pad!Init, PadInv, Pad!TypeOK, RepeatInv, FiredInv, TakenInv, Pad!EmitsForOwner,
         Pad!Owners
<1>2. PadInv /\ [Pad!Next]_(Pad!vars) => PadInv'
  BY PadTypesStep, RepeatStep, FiredStep, TakenStep, EmitsStep DEF PadInv
<1> QED
  BY <1>1, <1>2, PTL DEF Pad!Spec

\* Every variable of the ownership machine keeps its type.
THEOREM PadIsTyped == Pad!Spec => []Pad!TypeOK
BY PadIsSound, PTL DEF PadInv

\* For any controllers with any controls, a Guide hold triggers at most once, a move
\* repeats only while a control for it is down, and an owner is given only what it
\* may act on, whatever hands change, pads are reopened and edges interleave.
THEOREM HoldsStayExact == Pad!Spec => []Pad!HoldsAreExact
<1>1. PadInv => Pad!HoldsAreExact
  BY SMT
     DEF PadInv, Pad!HoldsAreExact, Pad!OneTriggerPerHold, Pad!RepeatHeld, FiredInv, RepeatInv,
         Repeats
<1> QED
  BY <1>1, PadIsSound, PTL

\* What a step emits stands for controls pressed for the present owner.
Backed(s) == \E controls \in Pad!Basis(s.kind) : controls \subseteq taken[s.pad] \cup taken'[s.pad]

\* A signal of an edge is backed by controls pressed under this owner.
LEMMA EdgeIsBacked ==
    ASSUME Pad!TypeOK, RepeatInv, TakenInv, NEW p \in Pads, NEW c \in Controls, NEW e \in BOOLEAN,
           Pad!Button(p, c, e), NEW s \in signals'
    PROVE  Backed(s)
<1>1. Outcomes(p, c)
  BY EdgeOutcomes
<1>2. p \in armed => held[p] \subseteq taken[p] /\ held'[p] \subseteq taken'[p]
  BY HeldIs DEF TakenInv
<1>3. ASSUME NEW k, signals' = Told(p, k), NEW B \in Pad!Basis(k), B \subseteq taken[p] \cup taken'[p]
      PROVE  Backed(s)
  <2>1. s.pad = p /\ s.kind = k
    BY <1>3, ToldIs
  <2> QED
    BY <1>3, <2>1 DEF Backed
<1>4. CASE signals' = {}
  BY <1>4
<1>5. CASE GuideUp(p, c)
  <2>1. {"Guide"} \in Pad!Basis("ToggleOverlay") /\ {"Guide"} \subseteq taken[p]
    BY <1>2, <1>5, BasisIs DEF GuideUp
  <2> QED
    BY <1>3, <1>5, <2>1 DEF GuideUp
<1>6. CASE Chord(p, c)
  <2>1. "West" \in taken'[p] /\ "Guide" \in taken[p]
    BY SMT, <1>2, <1>6, HeldIs DEF Chord
  <2>2. {"Guide", "West"} \in Pad!Basis("GameKeyboard")
    BY BasisIs
  <2> QED
    BY <1>3, <1>6, <2>1, <2>2 DEF Chord
<1>7. ASSUME NEW k \in Plain, signals' = Told(p, k), Pad!ActionOf(c) = k, c \notin held[p], p \in armed
      PROVE  Backed(s)
  <2>1. {c} \in Pad!Basis(k) /\ {c} \subseteq taken'[p]
    BY SMT, <1>7, BasisIs, HeldIs
  <2> QED
    BY <1>3, <1>7, <2>1
<1>8. CASE Leaving(p, c)
  BY <1>7, <1>8, ActionIs DEF Leaving, Plain
<1>9. CASE Keyboard(p, c)
  <2>1. {"Start", "Select"} \in Pad!Basis("TextKeyboard") /\ {"Start", "Select"} \subseteq taken'[p]
    BY <1>2, <1>9, BasisIs DEF Keyboard
  <2> QED
    BY <1>3, <1>9, <2>1 DEF Keyboard
<1>10. CASE Filter(p, c)
  <2>1. {"Select"} \in Pad!Basis("FilterPanel") /\ {"Select"} \subseteq taken[p]
    BY <1>2, <1>10, BasisIs DEF Filter
  <2> QED
    BY <1>3, <1>10, <2>1 DEF Filter
<1>11. CASE Acts(p, c)
  <2>1. Pad!ActionEdge(p, c, c \notin held[p]) /\ p \in armed
    BY <1>11 DEF Acts
  <2>2. \/ signals' = {}
        \/ (c \notin held[p] /\ Pad!ActionOf(c) # None /\ signals' = Told(p, Pad!ActionOf(c)))
    BY <2>1, ActionRepeats
  <2> QED
    BY <1>4, <1>7, <2>1, <2>2, ActionIs
<1> QED
  BY <1>1, <1>4, <1>5, <1>6, <1>8, <1>9, <1>10, <1>11 DEF Outcomes, Ignored, GuideDown

\* For any controllers, nothing pressed for one owner acts on the next: whatever a
\* press, a release or a repeat emits stands for controls pressed for this very
\* owner after the pad had been neutral.
THEOREM NothingIsReplayed == Pad!Spec => Pad!NothingReplayed
<1>1. PadInv /\ [Pad!Next]_(Pad!vars) => [\A s \in signals' : Backed(s)]_(Pad!vars)
  <2> SUFFICES ASSUME PadInv, Pad!Next, NEW s \in signals'
               PROVE  Backed(s)
    OBVIOUS
  <2> USE DEF PadInv
  <2>1. CASE Pad!Tick
    <3>1. PICK due \in SUBSET {p \in armed' : repeat[p] # None} :
              signals' = {[pad |-> p, kind |-> repeat[p]] : p \in due}
      BY <2>1 DEF Pad!Tick
    <3>2. PICK p \in due : s.pad = p /\ s.kind = repeat[p]
      BY SMT, <3>1
    <3>3. p \in Pads /\ repeat[p] # None
      BY <2>1 DEF Pad!Tick, Pad!TypeOK
    <3>4. p \in armed /\ repeat[p] \in Plain /\ \E c \in held[p] : Pad!ActionOf(c) = repeat[p]
      BY <3>3, KindsAre DEF RepeatInv, Repeats
    <3>5. PICK c \in held[p] : Pad!ActionOf(c) = repeat[p]
      BY <3>4
    <3>6. c \in Controls /\ c \in taken[p]
      BY <3>3, <3>4 DEF Pad!TypeOK, TakenInv
    <3>7. {c} \in Pad!Basis(repeat[p])
      BY <3>4, <3>5, <3>6, BasisIs
    <3> QED
      BY <3>2, <3>6, <3>7 DEF Backed
  <2>2. ASSUME NEW p \in Pads, NEW c \in Controls, NEW e \in BOOLEAN, Pad!Button(p, c, e)
        PROVE  Backed(s)
    BY <2>2, EdgeIsBacked
  <2>3. CASE signals' = {}
    BY <2>3
  <2> QED
    BY <2>1, <2>2, <2>3 DEF Pad!Next, Pad!SetOwner, Pad!Suspend, Pad!Reopen
<1> QED
  BY <1>1, PadIsSound, PTL DEF Pad!Spec, Pad!NothingReplayed, Backed

------------------------------------------------------------------------------
(* The desktop mapping *)

CONSTANTS MapPads, MapControls, MapKeys, MapOutputFor
VARIABLES active, mapHeld, guide, mapArmed, sources, counts, stick, down

Mapper == INSTANCE InputMapper WITH
              Pads <- MapPads, Controls <- MapControls, Keys <- MapKeys,
              OutputFor <- MapOutputFor, held <- mapHeld, armed <- mapArmed

INSTANCE FiniteSetTheorems

\* The instance counts with the same Cardinality.
LEMMA CardIs == \A S : Mapper!Cardinality(S) = Cardinality(S)
BY DEF Mapper!Cardinality, Cardinality

\* Every source belongs to a control that is down on a listened-to pad.
SourcesAreHeld ==
    \A s \in sources : active /\ s[1] \in mapArmed \ guide /\ s[2] \in mapHeld[s[1]]

MapInv == Mapper!TypeOK /\ SourcesAreHeld /\ Mapper!CountsAreExact /\ Mapper!NoDrift

\* The mapping of the code: finitely many pads and controls, a key for each.
Mapping ==
    /\ IsFiniteSet(MapPads) /\ IsFiniteSet(MapControls)
    /\ MapOutputFor \in [MapControls -> MapKeys]

\* Any set of sources is finite, and so are those that press one key.
LEMMA SourcesAreFinite ==
    ASSUME Mapping, NEW set \in SUBSET Mapper!Sources, NEW k
    PROVE  IsFiniteSet(Mapper!Pressing(set, k)) /\ Cardinality(Mapper!Pressing(set, k)) \in Nat
<1>1. IsFiniteSet(Mapper!Sources)
  BY FS_Product DEF Mapping, Mapper!Sources
<1>2. Mapper!Pressing(set, k) \in SUBSET Mapper!Sources
  BY DEF Mapper!Pressing
<1>3. IsFiniteSet(Mapper!Pressing(set, k))
  BY <1>1, <1>2, FS_Subset
<1> QED
  BY <1>3, FS_CardinalityType

\* release_source keeps the counts exact, whatever is released.
LEMMA ReleaseIsExact ==
    ASSUME Mapping, Mapper!TypeOK, Mapper!CountsAreExact, NEW gone, Mapper!Release(gone)
    PROVE  /\ sources' = sources \ gone
           /\ counts' \in [MapKeys -> Nat] /\ down' \subseteq MapKeys
           /\ Mapper!CountsAreExact'
<1> DEFINE left(k) == counts[k] - Cardinality(Mapper!Pressing(sources \cap gone, k))
<1>1. ASSUME NEW k \in MapKeys
      PROVE  left(k) = Cardinality(Mapper!Pressing(sources \ gone, k)) /\ left(k) \in Nat
  <2>1. IsFiniteSet(Mapper!Pressing(sources, k))
    BY SourcesAreFinite DEF Mapper!TypeOK
  <2>2. Mapper!Pressing(sources, k) \cap gone = Mapper!Pressing(sources \cap gone, k)
    BY DEF Mapper!Pressing
  <2>3. Mapper!Pressing(sources, k) \ gone = Mapper!Pressing(sources \ gone, k)
    BY DEF Mapper!Pressing
  <2>4. Cardinality(Mapper!Pressing(sources \ gone, k))
          = Cardinality(Mapper!Pressing(sources, k))
                - Cardinality(Mapper!Pressing(sources \cap gone, k))
    BY <2>1, <2>2, <2>3, FS_Difference
  <2>5. Cardinality(Mapper!Pressing(sources \ gone, k)) \in Nat
    BY SourcesAreFinite DEF Mapper!TypeOK
  <2> QED
    BY <2>4, <2>5, CardIs DEF Mapper!CountsAreExact
<1>2. /\ sources' = sources \ gone
      /\ counts' = [k \in MapKeys |-> left(k)]
      /\ down' = down \ {k \in MapKeys : counts'[k] = 0}
  BY CardIs DEF Mapper!Release
<1>3. \A k \in MapKeys : counts'[k] = left(k)
  BY <1>2
<1>4. counts' \in [MapKeys -> Nat]
  BY <1>1, <1>2
<1>5. ASSUME NEW k \in MapKeys PROVE k \in down' <=> counts'[k] > 0
  <2>1. counts[k] \in Nat /\ (k \in down <=> counts[k] > 0)
    BY CardIs DEF Mapper!TypeOK, Mapper!CountsAreExact
  <2>2. Cardinality(Mapper!Pressing(sources \cap gone, k)) \in Nat
    BY SourcesAreFinite DEF Mapper!TypeOK
  <2>3. counts'[k] \in Nat /\ counts'[k] <= counts[k]
    BY SMT, <1>1, <1>3, <2>1, <2>2
  <2>4. k \in down' <=> k \in down /\ counts'[k] # 0
    BY <1>2
  <2> QED
    BY SMT, <2>1, <2>3, <2>4
<1>6. \A k \in MapKeys : counts'[k] = Cardinality(Mapper!Pressing(sources', k))
  BY <1>1, <1>2, <1>3
<1>7. Mapper!CountsAreExact'
  BY <1>5, <1>6, CardIs DEF Mapper!CountsAreExact, Mapper!Pressing, Mapper!KeyOf
<1>8. down' \subseteq MapKeys
  BY <1>2 DEF Mapper!TypeOK
<1> QED
  BY <1>2, <1>4, <1>7, <1>8

\* set_source keeps the counts exact: a source is counted once.
LEMMA PressIsExact ==
    ASSUME Mapping, Mapper!TypeOK, Mapper!CountsAreExact, NEW s \in Mapper!Sources, Mapper!Press(s)
    PROVE  /\ sources' = sources \cup {s}
           /\ counts' \in [MapKeys -> Nat] /\ down' \subseteq MapKeys
           /\ Mapper!CountsAreExact'
<1>1. CASE s \in sources
  BY <1>1, CardIs
     DEF Mapper!Press, Mapper!TypeOK, Mapper!CountsAreExact, Mapper!Pressing, Mapper!KeyOf
<1>2. CASE s \notin sources
  <2> DEFINE key == Mapper!KeyOf(s)
  <2>1. key \in MapKeys
    BY DEF Mapping, Mapper!Sources, Mapper!KeyOf
  <2>2. /\ sources' = sources \cup {s}
        /\ counts' = [counts EXCEPT ![key] = @ + 1]
        /\ down' = IF counts[key] = 0 THEN down \cup {key} ELSE down
    BY <1>2 DEF Mapper!Press
  <2>3. counts' \in [MapKeys -> Nat] /\ down' \subseteq MapKeys
    BY SMT, <2>1, <2>2 DEF Mapper!TypeOK
  <2>4. ASSUME NEW k \in MapKeys PROVE counts'[k] = Cardinality(Mapper!Pressing(sources', k))
    <3>1. /\ IsFiniteSet(Mapper!Pressing(sources, k))
          /\ counts[k] = Cardinality(Mapper!Pressing(sources, k))
      BY SourcesAreFinite, CardIs DEF Mapper!TypeOK, Mapper!CountsAreExact
    <3>2. CASE k = key
      <4>1. /\ Mapper!Pressing(sources', k) = Mapper!Pressing(sources, k) \cup {s}
            /\ s \notin Mapper!Pressing(sources, k)
        BY <1>2, <2>2, <3>2 DEF Mapper!Pressing
      <4>2. Cardinality(Mapper!Pressing(sources', k)) = Cardinality(Mapper!Pressing(sources, k)) + 1
        BY <3>1, <4>1, FS_AddElement
      <4>3. counts'[k] = counts[k] + 1
        BY <2>2, <3>2 DEF Mapper!TypeOK
      <4> QED
        BY <3>1, <4>2, <4>3
    <3>3. CASE k # key
      <4>1. Mapper!Pressing(sources', k) = Mapper!Pressing(sources, k)
        BY <2>2, <3>3 DEF Mapper!Pressing
      <4> QED
        BY <2>2, <3>1, <3>3, <4>1 DEF Mapper!TypeOK
    <3> QED
      BY <3>2, <3>3
  <2>5. ASSUME NEW k \in MapKeys PROVE k \in down' <=> counts'[k] > 0
    <3>1. counts[k] \in Nat /\ (k \in down <=> counts[k] > 0)
      BY CardIs DEF Mapper!TypeOK, Mapper!CountsAreExact
    <3>2. counts'[k] = IF k = key THEN counts[k] + 1 ELSE counts[k]
      BY <2>1, <2>2 DEF Mapper!TypeOK
    <3>3. k \in down' <=> k \in down \/ k = key
      BY SMT, <2>2, <3>1
    <3> QED
      BY SMT, <3>1, <3>2, <3>3
  <2>6. Mapper!CountsAreExact'
    BY <2>4, <2>5, CardIs DEF Mapper!CountsAreExact, Mapper!Pressing, Mapper!KeyOf
  <2> QED
    BY <2>2, <2>3, <2>6
<1> QED
  BY <1>1, <1>2

\* Releasing everything at once leaves exact counts of nothing.
LEMMA NothingIsExact ==
    ASSUME sources' = {}, counts' = [k \in MapKeys |-> 0], down' = {}
    PROVE  Mapper!CountsAreExact'
<1>1. \A k \in MapKeys : Mapper!Pressing(sources', k) = {}
  BY DEF Mapper!Pressing
<1> QED
  BY SMT, <1>1, FS_EmptySet, CardIs DEF Mapper!CountsAreExact, Mapper!Pressing, Mapper!KeyOf

\* Every step of the service keeps the invariant.
LEMMA MapStep ==
    ASSUME Mapping, MapInv, [Mapper!Next]_(Mapper!vars)
    PROVE  MapInv'
<1> USE DEF MapInv
<1>1. CASE Mapper!ChangeOwner
  <2>1. active' \in BOOLEAN
    BY <1>1, Zenon DEF Mapper!ChangeOwner, Mapper!SetActive, Mapper!TypeOK
  <2>2. CASE active
    <3>1. /\ sources' = {} /\ counts' = [k \in MapKeys |-> 0] /\ down' = {} /\ stick' = {}
          /\ mapArmed' = {} /\ UNCHANGED <<mapHeld, guide>>
      BY <1>1, <2>2, Zenon DEF Mapper!ChangeOwner, Mapper!SetActive
    <3>2. Mapper!CountsAreExact'
      BY <3>1, NothingIsExact
    <3>3. SourcesAreHeld' /\ Mapper!NoDrift'
      BY <3>1 DEF SourcesAreHeld, Mapper!NoDrift
    <3>4. Mapper!TypeOK'
      BY <2>1, <3>1 DEF Mapper!TypeOK
    <3> QED
      BY <3>2, <3>3, <3>4
  <2>3. CASE ~active
    <3>1. /\ UNCHANGED <<sources, counts, down, stick, mapHeld, guide>>
          /\ mapArmed' = {}
      BY <1>1, <2>3, Zenon DEF Mapper!ChangeOwner, Mapper!SetActive
    <3>2. sources = {} /\ stick = {}
      BY <2>3 DEF SourcesAreHeld, Mapper!NoDrift
    <3>3. SourcesAreHeld' /\ Mapper!NoDrift'
      BY <3>1, <3>2 DEF SourcesAreHeld, Mapper!NoDrift
    <3>4. Mapper!TypeOK' /\ Mapper!CountsAreExact'
      BY <2>1, <3>1, CardIs
         DEF Mapper!TypeOK, Mapper!CountsAreExact, Mapper!Pressing, Mapper!KeyOf
    <3> QED
      BY <3>3, <3>4
  <2> QED
    BY <2>2, <2>3
<1>2. CASE Mapper!Refused
  <2>1. Mapper!CountsAreExact'
    BY <1>2, NothingIsExact DEF Mapper!Refused
  <2> QED
    BY <1>2, <2>1 DEF Mapper!Refused, Mapper!TypeOK, SourcesAreHeld, Mapper!NoDrift
<1>3. CASE Mapper!Tick
  <2>1. Mapper!CountsAreExact'
    BY <1>3, CardIs DEF Mapper!Tick, Mapper!CountsAreExact, Mapper!Pressing, Mapper!KeyOf
  <2> QED
    BY <1>3, <2>1 DEF Mapper!Tick, Mapper!TypeOK, SourcesAreHeld, Mapper!NoDrift
<1>4. ASSUME NEW p \in MapPads, Mapper!GuidePress(p) PROVE MapInv'
  <2>1. /\ sources' = sources \ ({p} \X MapControls)
        /\ counts' \in [MapKeys -> Nat] /\ down' \subseteq MapKeys /\ Mapper!CountsAreExact'
    BY <1>4, ReleaseIsExact DEF Mapper!GuidePress
  <2>2. SourcesAreHeld'
    BY <1>4, <2>1 DEF Mapper!GuidePress, SourcesAreHeld, Mapper!TypeOK, Mapper!Sources
  <2> QED
    BY <1>4, <2>1, <2>2 DEF Mapper!GuidePress, Mapper!TypeOK, Mapper!NoDrift
<1>5. ASSUME NEW p \in MapPads, Mapper!GuideRelease(p) PROVE MapInv'
  <2>1. Mapper!CountsAreExact'
    BY <1>5, CardIs DEF Mapper!GuideRelease, Mapper!CountsAreExact, Mapper!Pressing, Mapper!KeyOf
  <2> QED
    BY <1>5, <2>1 DEF Mapper!GuideRelease, Mapper!TypeOK, SourcesAreHeld, Mapper!NoDrift
<1>6. ASSUME NEW p \in MapPads, Mapper!StickEdge(p) PROVE MapInv'
  <2>1. Mapper!CountsAreExact'
    BY <1>6, CardIs DEF Mapper!StickEdge, Mapper!CountsAreExact, Mapper!Pressing, Mapper!KeyOf
  <2> QED
    BY <1>6, <2>1 DEF Mapper!StickEdge, Mapper!TypeOK, SourcesAreHeld, Mapper!NoDrift
<1>7. ASSUME NEW p \in MapPads, Mapper!Unplug(p) PROVE MapInv'
  <2>1. /\ sources' = sources \ ({p} \X MapControls)
        /\ counts' \in [MapKeys -> Nat] /\ down' \subseteq MapKeys /\ Mapper!CountsAreExact'
    BY <1>7, ReleaseIsExact DEF Mapper!Unplug
  <2>2. PICK on \in SUBSET MapControls : mapHeld' = [mapHeld EXCEPT ![p] = on]
    BY <1>7 DEF Mapper!Unplug
  <2>3. SourcesAreHeld'
    <3>1. \A s \in sources' : s \in sources /\ s[1] # p /\ s[1] \in MapPads
      BY <2>1 DEF Mapper!TypeOK, Mapper!Sources
    <3>2. \A q \in MapPads : q # p => mapHeld'[q] = mapHeld[q]
      BY <2>2 DEF Mapper!TypeOK
    <3> QED
      BY <1>7, <3>1, <3>2 DEF Mapper!Unplug, SourcesAreHeld
  <2> QED
    BY <1>7, <2>1, <2>2, <2>3 DEF Mapper!Unplug, Mapper!TypeOK, Mapper!NoDrift
<1>8. ASSUME NEW p \in MapPads, NEW c \in MapControls, Mapper!Edge(p, c) PROVE MapInv'
  <2> DEFINE s == <<p, c>>
             pressed == c \notin mapHeld[p]
  <2>1. /\ mapHeld' = [mapHeld EXCEPT ![p] = IF pressed THEN @ \cup {c} ELSE @ \ {c}]
        /\ Mapper!Forward(p, c, pressed) /\ UNCHANGED <<active, guide, mapArmed, stick>>
    BY <1>8 DEF Mapper!Edge
  <2>2. s \in Mapper!Sources
    BY DEF Mapper!Sources
  <2>3. /\ sources' = IF ~(active /\ p \in mapArmed /\ p \notin guide) THEN sources
                      ELSE IF pressed THEN sources \cup {s} ELSE sources \ {s}
        /\ counts' \in [MapKeys -> Nat] /\ down' \subseteq MapKeys /\ Mapper!CountsAreExact'
    <3>1. CASE ~(active /\ p \in mapArmed /\ p \notin guide)
      BY <2>1, <3>1, CardIs
         DEF Mapper!Forward, Mapper!TypeOK, Mapper!CountsAreExact, Mapper!Pressing, Mapper!KeyOf
    <3>2. CASE (active /\ p \in mapArmed /\ p \notin guide) /\ pressed
      BY <2>1, <2>2, <3>2, PressIsExact DEF Mapper!Forward
    <3>3. CASE (active /\ p \in mapArmed /\ p \notin guide) /\ ~pressed
      BY <2>1, <3>3, ReleaseIsExact DEF Mapper!Forward
    <3> QED
      BY <3>1, <3>2, <3>3
  <2>4. SourcesAreHeld'
    <3> SUFFICES ASSUME NEW t \in sources'
                 PROVE  active /\ t[1] \in mapArmed \ guide /\ t[2] \in mapHeld'[t[1]]
      BY <2>1 DEF SourcesAreHeld
    <3>1. CASE t \in sources
      <4>1. t \in Mapper!Sources /\ t[1] \in MapPads /\ t[2] \in MapControls /\ t = <<t[1], t[2]>>
        BY SMT, <3>1 DEF Mapper!TypeOK, Mapper!Sources
      <4>2. active /\ t[1] \in mapArmed \ guide /\ t[2] \in mapHeld[t[1]]
        BY <3>1 DEF SourcesAreHeld
      <4>3. CASE t[1] = p /\ t[2] = c
        <5>1. t = s
          BY <4>1, <4>3
        <5> QED
          BY <2>3, <4>2, <4>3, <5>1
      <4>4. CASE t[1] # p \/ t[2] # c
        <5>1. t[2] \in mapHeld'[t[1]]
          BY <2>1, <4>1, <4>2, <4>4 DEF Mapper!TypeOK
        <5> QED
          BY <4>2, <5>1
      <4> QED
        BY <4>3, <4>4
    <3>2. CASE t \notin sources
      <4>1. t = s /\ pressed /\ active /\ p \in mapArmed /\ p \notin guide
        BY <2>3, <3>2
      <4> QED
        BY <2>1, <4>1 DEF Mapper!TypeOK
    <3> QED
      BY <3>1, <3>2
  <2>5. mapHeld' \in [MapPads -> SUBSET MapControls]
    BY <2>1 DEF Mapper!TypeOK
  <2>6. sources' \subseteq Mapper!Sources
    BY <2>2, <2>3 DEF Mapper!TypeOK
  <2> QED
    BY <2>1, <2>3, <2>4, <2>5, <2>6 DEF Mapper!TypeOK, Mapper!NoDrift
<1>9. CASE UNCHANGED Mapper!vars
  <2>1. Mapper!CountsAreExact'
    BY <1>9, CardIs DEF Mapper!vars, Mapper!CountsAreExact, Mapper!Pressing, Mapper!KeyOf
  <2> QED
    BY <1>9, <2>1 DEF Mapper!vars, Mapper!TypeOK, SourcesAreHeld, Mapper!NoDrift
<1> QED
  BY <1>1, <1>2, <1>3, <1>4, <1>5, <1>6, <1>7, <1>8, <1>9 DEF Mapper!Next

\* For any pads, controls and keys: a key the virtual keyboard reports is
\* pressed by a control that is down on a listened-to pad (set_source,
\* release_source, remove_device), a shared key stays down exactly until its
\* last control lets go, and the pointer moves only for a listened-to pad.
THEOREM InputIsNeverStuck ==
    ASSUME Mapping
    PROVE  Mapper!Spec => [](Mapper!TypeOK /\ Mapper!NothingStuck)
<1>1. Mapper!Init => MapInv
  <2> SUFFICES ASSUME Mapper!Init PROVE MapInv
    OBVIOUS
  <2>1. \A k \in MapKeys : Mapper!Pressing(sources, k) = {}
    BY DEF Mapper!Init, Mapper!Pressing
  <2>2. Mapper!CountsAreExact
    BY SMT, <2>1, FS_EmptySet, CardIs DEF Mapper!Init, Mapper!CountsAreExact
  <2> QED
    BY <2>2 DEF Mapper!Init, MapInv, Mapper!TypeOK, SourcesAreHeld, Mapper!NoDrift
<1>2. MapInv /\ [Mapper!Next]_(Mapper!vars) => MapInv'
  BY MapStep
<1>3. MapInv => Mapper!TypeOK /\ Mapper!NothingStuck
  <2> SUFFICES ASSUME MapInv, NEW k \in down
               PROVE  /\ active
                      /\ \E p \in mapArmed \ guide : \E c \in mapHeld[p] : MapOutputFor[c] = k
    BY DEF MapInv, Mapper!NothingStuck, Mapper!NoStuckKeys
  <2>1. k \in MapKeys /\ Cardinality(Mapper!Pressing(sources, k)) > 0
    BY CardIs DEF MapInv, Mapper!TypeOK, Mapper!CountsAreExact
  <2>2. Mapper!Pressing(sources, k) # {}
    BY SMT, <2>1, FS_EmptySet
  <2>3. PICK s \in sources : MapOutputFor[s[2]] = k
    BY <2>2 DEF Mapper!Pressing, Mapper!KeyOf
  <2> QED
    BY <2>3 DEF MapInv, SourcesAreHeld
<1> QED
  BY <1>1, <1>2, <1>3, PTL DEF Mapper!Spec
==============================================================================

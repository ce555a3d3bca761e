----------------------------- MODULE SessionSlot -----------------------------
(***************************************************************************)
(* What the bridge promises everyone who asks "what is running?": one slot *)
(* that holds at most one application session.  A session enters the slot  *)
(* when its launch is recorded and leaves it only once its application is  *)
(* gone, so the slot never passes from one live application to another.    *)
(*                                                                         *)
(* BridgeSessions implements this specification and PlaySessions, the      *)
(* daemon's journal of plays, is written against it.                       *)
(***************************************************************************)
CONSTANTS SessionIds,   \* identities a managed session can carry
          None          \* an empty slot

VARIABLES slot,         \* the tracked session, or None
          running       \* sessions whose systemd unit (or escaped scope) is active

slotVars == <<slot, running>>

SlotInit == slot = None /\ running = {}

\* A launch starts the unit; any earlier session has left the slot by then.
Start(id) ==
    /\ slot \in {None, id}
    /\ running' = running \cup {id}
    /\ UNCHANGED slot

\* The record of a started unit is persisted: the session is now tracked.
Take(id) ==
    /\ slot \in {None, id}
    /\ slot' = id
    /\ UNCHANGED running

\* An application ends: by itself, or because its unit was stopped.
Exit(id) ==
    /\ id \in running
    /\ running' = running \ {id}
    /\ UNCHANGED slot

\* A session is forgotten, which may only follow its application's end.
Release ==
    /\ slot # None
    /\ slot \notin running
    /\ slot' = None
    /\ UNCHANGED running

SlotNext ==
    \/ \E id \in SessionIds : Start(id) \/ Take(id) \/ Exit(id)
    \/ Release

SlotSpec == SlotInit /\ [][SlotNext]_slotVars
==============================================================================

-------------------------------- MODULE MCHost --------------------------------
(***************************************************************************)
(* The two services that run other programs on the host, for TLC, side by  *)
(* side: the bridge's managed sessions and the daemon's categorisation     *)
(* jobs.  part says which of the two a behaviour is about; the other keeps *)
(* its initial state.  The disk never fails here, so that a launch is      *)
(* never undone: MCSafety has the instance where it does.                  *)
(***************************************************************************)
EXTENDS BridgeSessions

CONSTANTS Requests, Versions    \* of Categorizer

VARIABLES part,                 \* "bridge" or "categorizer"
          enabled, model, slot, tasks, record, report, rails, verdict, leftover, behind

jobVars == <<enabled, model, slot, tasks, record, report, rails, verdict, leftover, behind>>
allVars == <<part, vars, jobVars>>

Jobs == INSTANCE Categorizer

\* Only the part at hand has several initial states.
MCInit ==
    /\ part \in {"bridge", "categorizer"}
    /\ Init /\ Jobs!Init
    /\ part = "categorizer" \/ (~enabled /\ ~model /\ record = None)

Managed == part = "bridge" /\ UNCHANGED <<part, jobVars>>
Filed   == part = "categorizer" /\ UNCHANGED <<part, vars>>

MCNext ==
    \/ Managed /\ \E id \in SessionIds, p \in Profiles : Request(id, p)
    \/ Managed /\ Prepare
    \/ Managed /\ StopOther
    \/ Managed /\ StopReset
    \/ Managed /\ SetProfile
    \/ Managed /\ LaunchUnit
    \/ Managed /\ SyncAfterFailure
    \/ Managed /\ Save
    \/ Managed /\ Insert
    \/ Managed /\ Poll
    \/ Managed /\ StopActive
    \/ Managed /\ StopUnit
    \/ Managed /\ StopClean
    \/ Managed /\ \E id \in SessionIds : StopSession(id)
    \/ Managed /\ \E id \in SessionIds : AppExit(id)
    \/ Managed /\ Crash
    \/ Managed /\ Restart
    \/ Filed /\ \E r \in Requests : Jobs!Publish(r)
    \/ Filed /\ \E r \in Requests : Jobs!Detect(r)
    \/ Filed /\ \E r \in Requests : Jobs!Status(r)
    \/ Filed /\ \E r \in Requests : Jobs!Enable(r)
    \/ Filed /\ \E r \in Requests : Jobs!Disable(r)
    \/ Filed /\ \E r \in Requests : Jobs!RemoveCollections(r)
    \/ Filed /\ \E r \in Requests : Jobs!HangUp(r)
    \/ Filed /\ \E r \in Requests : Jobs!Discard(r)
    \/ Filed /\ \E r \in Requests : Jobs!Unrail(r)
    \/ Filed /\ \E r \in Requests : Jobs!Clear(r)
    \/ Filed /\ \E r \in Requests : Jobs!List(r)
    \/ Filed /\ \E r \in Requests : Jobs!Compare(r)
    \/ Filed /\ \E r \in Requests : Jobs!Claim(r)
    \/ Filed /\ \E r \in Requests : Jobs!Run(r)
    \/ Filed /\ \E r \in Requests : Jobs!Scan(r)
    \/ Filed /\ \E r \in Requests : Jobs!Save(r)
    \/ Filed /\ \E r \in Requests : Jobs!Release(r)
    \/ Filed /\ \E r \in Requests : Jobs!WriteRails(r)
    \/ Filed /\ \E r \in Requests : Jobs!WriteVerdicts(r)
    \/ Filed /\ \E r \in Requests : Jobs!Prune(r)
    \/ Filed /\ \E v \in Jobs!Records : Jobs!CatalogChanges(v)
    \/ Filed /\ Jobs!Restart

\* The fairness each component states, for its own part.
MCFairness ==
    /\ SF_allVars(Managed /\ Poll /\ Tracked' \subseteq running)
    /\ WF_allVars(Managed /\ (LaunchStep \/ StopStep))
    /\ WF_allVars(Managed /\ Restart)
    /\ \A r \in Requests : WF_allVars(Filed /\ Jobs!Advance(r))

MCSpec == MCInit /\ [][MCNext]_allVars /\ MCFairness

------------------------------------------------------------------------------
(* The properties of Categorizer, under the names it gives them *)

\* Categorizer: with the feature off and nothing in flight, no rails and no verdicts,
\* unless a job outside the slot crossed the last switch-off, one of its removals
\* failed, or it was cut short by a hang-up or a stop.
OffIsClean == Jobs!OffIsClean

\* Categorizer: with nothing in flight, the rails are the stored report's or none,
\* unless the last write was overtaken or failed, a removal that had discarded a scan
\* was cut short by a hang-up, or the daemon stopped with a request in flight.
RailsFollowReport == Jobs!RailsFollowReport

\* Categorizer: a taken slot is given back, however the job ends.
SlotIsFreed == Jobs!SlotIsFreed

\* Categorizer: the slot's two flags say exactly who is inside and whether what they
\* bring back is still wanted: one job at a time, and none inherits the discard of
\* the job before it.
SlotIsExact == Jobs!SlotIsExact
==============================================================================
